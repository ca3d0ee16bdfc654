------------------------------ MODULE AlertCycle ------------------------------
(***************************************************************************)
(* What the tracker promises about alerts, without tasks, queues, mutex or *)
(* modem: at most one alert is under way; it is raised by a position       *)
(* outside the safe zone, that same position is texted to the owner at     *)
(* most once, and only after the pause that follows is the next alert      *)
(* possible.                                                               *)
(***************************************************************************)
CONSTANTS Outside, NoFix

VARIABLES phase, position

alertCycleVars == <<phase, position>>

Phases == {"armed", "raised", "taken", "texted", "pause"}

AlertCycleInit == phase = "armed" /\ position = NoFix

(* A position outside the zone is seen while no alert is under way. *)
Raise == /\ phase = "armed"
         /\ phase' = "raised"
         /\ position' \in Outside

Step(from, to) == phase = from /\ phase' = to /\ UNCHANGED position

TakeUp == Step("raised", "taken")       \* the alert reaches the GSM side
Text   == Step("taken", "texted")       \* the text goes to the modem
Pause  == Step("texted", "pause")       \* sent, refused or unanswered

Rearm == /\ phase = "pause"
         /\ phase' = "armed"
         /\ position' = NoFix

AlertCycleNext == Raise \/ TakeUp \/ Text \/ Pause \/ Rearm

AlertCycleSafety == AlertCycleInit /\ [][AlertCycleNext]_alertCycleVars

(* An alert once raised goes all the way round. *)
AlertCycleFairness == WF_alertCycleVars(TakeUp \/ Text \/ Pause \/ Rearm)

AlertCycleSpec == AlertCycleSafety /\ AlertCycleFairness
=============================================================================
