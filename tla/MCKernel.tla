-------------------------------- MODULE MCKernel --------------------------------
(***************************************************************************)
(* Two tasks for TLC: one receives, with a time-out or without, and resets *)
(* the queue; the other sends, at once or however long it takes, and       *)
(* delays.                                                                 *)
(***************************************************************************)
EXTENDS Kernel

CONSTANTS receiver, sender

Call(op, wait) == [op |-> op, wait |-> wait]

MCTasks == {receiver, sender}

MCCalls == (receiver :> {Call("receive", 2), Call("receive", portMAX_DELAY), Call("reset", 0)})
           @@ (sender :> {Call("send", 0), Call("send", portMAX_DELAY), Call("delay", 1),
                          Call("delay", portMAX_DELAY)})
=============================================================================
