------------------------------- MODULE Indicators -------------------------------
(***************************************************************************)
(* What the pet's owner sees and hears: the LED (task_led in main.c, RGB.c) *)
(* and the alarm of the battery (task_adc in main.c, ADC.c, BUZZER.c).      *)
(*                                                                         *)
(* Requests go through queues of one place and are sent without waiting: a *)
(* request that finds one waiting is lost.  The LED's flags belong to      *)
(* task_gps and task_gsm, and are read one after the other without a lock. *)
(* Time is left out: a delay takes any time.                               *)
(***************************************************************************)
EXTENDS Integers

VARIABLES
    gps_status, gsm_status,     \* "ONLINE", "OFFLINE"
    device_status,              \* SZ_DATA_LOADED, or not
    led,                        \* task_led: what it does next
    colour,                     \* what it decided for
    queue_rgb, shown,           \* a request for task_rgb; the colour of the LED
    low,                        \* the battery is low
    converting,                 \* the ADC has been asked
    queue_adc,                  \* its answer: "low", "good"
    adc, queue_buzzer,          \* task_adc: what it does next; a request for task_buzzer
    buzzer,                     \* task_buzzer: the set_pin calls it has before it
    buzzer_pin,                 \* 0 sounds, 1 is silent
    allowed                     \* auxiliary: the colours this round of task_led may choose

flags == <<gps_status, gsm_status, device_status>>
ledVars == <<led, colour, queue_rgb, shown>>
alarmVars == <<low, converting, queue_adc, adc, queue_buzzer, buzzer, buzzer_pin>>
vars == <<flags, ledVars, alarmVars, allowed>>

None == "none"      \* an empty queue
Colours == {"OFF", "RED", "BLUE", "YELLOW", "MAGENTA", "GREEN"}

TypeOK ==
    /\ gps_status \in {"ONLINE", "OFFLINE"} /\ gsm_status \in {"ONLINE", "OFFLINE"}
    /\ device_status \in BOOLEAN
    /\ led \in {"delay", "gps 1", "gsm 1", "gps 2", "gsm 2", "device", "set"}
    /\ colour \in Colours /\ queue_rgb \in Colours \cup {None} /\ shown \in Colours
    /\ low \in BOOLEAN /\ converting \in BOOLEAN /\ queue_adc \in {None, "low", "good"}
    /\ adc \in {"soc", "receive", "alarm"}
    /\ queue_buzzer \in {None, "BUZZER_OFF", "LOW_BAT"}
    /\ buzzer \in 0..4 /\ buzzer_pin \in {0, 1}
    /\ allowed \subseteq Colours

(* buzzer_set in initHardware. *)
MutantAtBoot == None        \* mutation: it is left out
AtBoot == "BUZZER_OFF"

(* At the end of initHardware, with what nvm_init read: the pins are still  *)
(* low, the requests to switch off wait for their tasks.                    *)
Init ==
    /\ gps_status = "OFFLINE" /\ gsm_status = "OFFLINE"
    /\ device_status \in BOOLEAN
    /\ led = "delay" /\ colour = "OFF" /\ queue_rgb = "OFF" /\ shown = "OFF"
    /\ low \in BOOLEAN /\ converting = FALSE /\ queue_adc = None
    /\ adc = "soc" /\ queue_buzzer = AtBoot /\ buzzer = 0 /\ buzzer_pin = 0
    /\ allowed = {}

(* The colour that the manual gives for the flags as they are.              *)
Meant == CASE gps_status = "OFFLINE" /\ gsm_status = "OFFLINE" -> "RED"
           [] gps_status = "OFFLINE" /\ gsm_status = "ONLINE" -> "BLUE"
           [] gps_status = "ONLINE" /\ gsm_status = "OFFLINE" -> "YELLOW"
           [] OTHER -> IF device_status THEN "GREEN" ELSE "MAGENTA"

(* xQueueSend without waiting. *)
Offered(queue, request) == IF queue = None THEN request ELSE queue

-----------------------------------------------------------------------------
(* The owners of the flags: task_gps gets a fix and loses it, task_gsm is   *)
(* registered once, a zone is stored for good.                              *)

Flags ==
    /\ \/ gps_status' = "ONLINE" /\ UNCHANGED <<gsm_status, device_status>>
       \/ gps_status' = "OFFLINE" /\ UNCHANGED <<gsm_status, device_status>>
       \/ gsm_status' = "ONLINE" /\ UNCHANGED <<gps_status, device_status>>
       \/ gsm_status = "ONLINE" /\ device_status' = TRUE /\ UNCHANGED <<gps_status, gsm_status>>
    /\ allowed' = IF led = "delay" THEN {}
                  ELSE allowed \cup {Meant'}
                       \cup (IF gps_status = "ONLINE" /\ gps_status' = "OFFLINE"
                             THEN Colours \ {"RED", "YELLOW"} ELSE {})
    /\ UNCHANGED <<ledVars, alarmVars>>

-----------------------------------------------------------------------------
(* task_led: after a second it reads the flags one by one.                  *)

Look(next) == led' = next /\ UNCHANGED colour
Decide(c) == led' = "set" /\ colour' = c

WakeLed ==
    /\ led = "delay"
    /\ Look("gps 1")
    /\ allowed' = {Meant}
    /\ UNCHANGED <<flags, queue_rgb, shown, alarmVars>>

MutantCompare == Look("gsm 2")      \* mutation: the second look at the GPS is left out
Compare == Look("gps 2")

ReadFlag ==
    /\ \/ led = "gps 1" /\ gps_status = "OFFLINE" /\ Look("gsm 1")
       \/ led = "gps 1" /\ gps_status = "ONLINE" /\ Compare
       \/ led = "gsm 1" /\ gsm_status = "OFFLINE" /\ Decide("RED")
       \/ led = "gsm 1" /\ gsm_status = "ONLINE" /\ Compare
       \/ led = "gps 2" /\ gps_status = "OFFLINE" /\ Decide("BLUE")
       \/ led = "gps 2" /\ gps_status = "ONLINE" /\ Look("gsm 2")
       \/ led = "gsm 2" /\ gsm_status = "OFFLINE" /\ Decide("YELLOW")
       \/ led = "gsm 2" /\ gsm_status = "ONLINE" /\ Look("device")
       \/ led = "device" /\ Decide(IF device_status THEN "GREEN" ELSE "MAGENTA")
    /\ UNCHANGED <<flags, queue_rgb, shown, alarmVars, allowed>>

(* rgb_set. *)
SetLed ==
    /\ led = "set"
    /\ queue_rgb' = Offered(queue_rgb, colour)
    /\ led' = "delay" /\ colour' = "OFF" /\ allowed' = {}
    /\ UNCHANGED <<flags, shown, alarmVars>>

Task_led == WakeLed \/ ReadFlag \/ SetLed

(* task_rgb; its three pins count as one. *)
MutantLit(request) == IF request = "MAGENTA" THEN shown ELSE request    \* mutation: a case is missing
Lit(request) == request

Task_rgb ==
    /\ queue_rgb # None
    /\ shown' = Lit(queue_rgb)
    /\ queue_rgb' = None
    /\ UNCHANGED <<flags, led, colour, alarmVars, allowed>>

-----------------------------------------------------------------------------
(* The battery discharges and is charged.                                   *)

Battery ==
    /\ low' = ~low
    /\ UNCHANGED <<flags, ledVars, converting, queue_adc, adc, queue_buzzer, buzzer, buzzer_pin,
                   allowed>>

(* ADC_IRQHandler, with xQueueSendFromISR: what the battery is now.         *)
ADC_IRQHandler ==
    /\ converting
    /\ converting' = FALSE
    /\ queue_adc' = Offered(queue_adc, IF low THEN "low" ELSE "good")
    /\ UNCHANGED <<flags, ledVars, low, adc, queue_buzzer, buzzer, buzzer_pin, allowed>>

(* task_adc: asks for a conversion, waits for it, asks for the alarm; then   *)
(* the delay of 5 s.                                                        *)
Task_adc ==
    /\ \/ /\ adc = "soc" /\ adc' = "receive"
          /\ converting' = TRUE
          /\ UNCHANGED <<queue_adc, queue_buzzer>>
       \/ /\ adc = "receive" /\ queue_adc # None
          /\ adc' = IF queue_adc = "low" THEN "alarm" ELSE "soc"
          /\ queue_adc' = None
          /\ UNCHANGED <<converting, queue_buzzer>>
       \/ /\ adc = "alarm" /\ adc' = "soc"
          /\ queue_buzzer' = Offered(queue_buzzer, "LOW_BAT")
          /\ UNCHANGED <<converting, queue_adc>>
    /\ UNCHANGED <<flags, ledVars, low, buzzer, buzzer_pin, allowed>>

(* task_buzzer: an alarm is two beeps, four calls of set_pin.               *)
MutantBeeps == 5                    \* mutation: one call more
Beeps == 4

Task_buzzer ==
    /\ \/ /\ buzzer = 0 /\ queue_buzzer = "BUZZER_OFF"
          /\ buzzer_pin' = 1 /\ queue_buzzer' = None /\ UNCHANGED buzzer
       \/ /\ buzzer = 0 /\ queue_buzzer = "LOW_BAT"
          /\ buzzer' = Beeps /\ queue_buzzer' = None /\ UNCHANGED buzzer_pin
       \/ /\ buzzer > 0
          /\ buzzer' = buzzer - 1
          /\ buzzer_pin' = (Beeps - buzzer) % 2
          /\ UNCHANGED queue_buzzer
    /\ UNCHANGED <<flags, ledVars, low, converting, queue_adc, adc, allowed>>

-----------------------------------------------------------------------------

Next == \/ Flags \/ Task_led \/ Task_rgb
        \/ Battery \/ ADC_IRQHandler \/ Task_adc \/ Task_buzzer

(* Every ready task runs, time slice by time slice (TurnComes in Kernel),   *)
(* and the converter, once asked, answers.                                  *)
Spec == /\ Init /\ [][Next]_vars
        /\ WF_vars(Task_led) /\ WF_vars(Task_rgb)
        /\ WF_vars(ADC_IRQHandler) /\ WF_vars(Task_adc) /\ WF_vars(Task_buzzer)

-----------------------------------------------------------------------------
(* Properties.                                                              *)

(***************************************************************************)
(* The colour that task_led chooses has been right at some moment of the   *)
(* round, unless the fix was lost in it (the GPS is looked at twice, and   *)
(* before the other flags); red and yellow, without network, never lie.    *)
(***************************************************************************)
WrongOnlyIfLost == led = "set" => colour \in allowed

(***************************************************************************)
(* When the flags stop changing the LED comes to show their colour and     *)
(* keeps it, whatever requests were waiting or lost before.                *)
(***************************************************************************)
LedSettles ==
    \A c \in Colours : <>[](Meant = c) => <>[](shown = c)

(***************************************************************************)
(* A battery that stays low is announced again and again, though requests  *)
(* that find one waiting are lost; one that stays good ends in silence.    *)
(***************************************************************************)
AlarmFollowsBattery ==
    /\ <>[]low => []<>(buzzer_pin = 0) /\ []<>(buzzer_pin = 1)
    /\ <>[]~low => <>[](buzzer_pin = 1)
=============================================================================
