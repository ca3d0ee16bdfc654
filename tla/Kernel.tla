--------------------------------- MODULE Kernel ---------------------------------
(***************************************************************************)
(* Tasks that delay, send to a queue, receive from it and reset it         *)
(* (queue.c), while interrupt handlers use the queue too (UART.c) and      *)
(* ticks come in.  An action is a critical section, or a statement outside *)
(* of one; between two of them any interrupt may come.  One critical       *)
(* section is cut in two, at the decrement of the counter, for what may    *)
(* come there when the handlers are not masked.                            *)
(*                                                                         *)
(* What the items are does not matter here: the queue is its two pointers  *)
(* and its counter.                                                        *)
(***************************************************************************)
EXTENDS Scheduler

CONSTANTS
    Calls,          \* of each task: the calls it makes, [op, wait]
    Interrupts,     \* what handlers do: "send" (xQueueSendFromISR), "receive"
    Masked,         \* critical sections keep these handlers out
    uxLength,       \* the length of the queue
    MaxMeanwhile    \* bound: ticks, and items moved, while the scheduler is suspended

ASSUME KernelAssumption ==
    /\ Calls \in [Tasks -> SUBSET [op : {"send", "receive", "delay", "reset"},
                                   wait : 0..portMAX_DELAY]]
    /\ Interrupts \subseteq {"send", "receive"}
    /\ Masked \in BOOLEAN
    /\ uxLength \in Nat \ {0} /\ MaxMeanwhile \in Nat

VARIABLES
    k,                                          \* the scheduler
    pcWriteTo, pcReadFrom, uxMessagesWaiting,   \* the queue
    xRxLock, xTxLock,   \* its locks: -1 (queueUNLOCKED), or a count
    loaded,             \* --uxMessagesWaiting has read this, and not yet written
    task                \* of each task: where it is, and its locals

ringVars == <<pcWriteTo, pcReadFrom, uxMessagesWaiting>>
lockVars == <<xRxLock, xTxLock>>
vars == <<k, ringVars, lockVars, loaded, task>>

Nothing == -1           \* loaded: no decrement is under way
queueUNLOCKED == -1

PCs == {"idle", "top", "store", "suspend", "lock", "timeout", "check", "place",
        "unlockTx", "unlockRx", "resume", "delay", "yield", "back"}

Outside == [ pc |-> "idle", op |-> "none", xTicksToWait |-> 0,
             xTimeOut |-> [overflows |-> 0, entering |-> 0], xEntryTimeSet |-> FALSE,
             after |-> "again", \* what follows xTaskResumeAll: again, yield, failed
             left |-> 0 ]       \* auxiliary: ticks that must pass before a time-out

TaskType ==
    [ pc : PCs, op : {"none", "send", "receive", "delay", "reset"},
      xTicksToWait : 0..portMAX_DELAY,
      xTimeOut : [overflows : 0..OverflowWrap - 1, entering : 0..TickWrap - 1],
      xEntryTimeSet : BOOLEAN,
      after : {"again", "yield", "failed"}, left : 0..portMAX_DELAY ]

TypeOK ==
    /\ k \in KernelType
    /\ pcWriteTo \in 0..uxLength - 1 /\ pcReadFrom \in 0..uxLength - 1
    /\ uxMessagesWaiting \in 0..uxLength
    /\ xRxLock \in -1..MaxMeanwhile /\ xTxLock \in -1..MaxMeanwhile
    /\ loaded \in {Nothing} \cup 1..uxLength
    /\ task \in [Tasks -> TaskType]

Init ==
    /\ k = KernelInit
    /\ pcWriteTo = 0 /\ pcReadFrom = uxLength - 1 /\ uxMessagesWaiting = 0
    /\ xRxLock = queueUNLOCKED /\ xTxLock = queueUNLOCKED
    /\ loaded = Nothing
    /\ task = [t \in Tasks |-> Outside]

-----------------------------------------------------------------------------
(* The queue.                                                               *)

MutantUp(p) == (p + 1) % (uxLength + 1)     \* mutation: past the end of the ring
Up(p) == (p + 1) % uxLength

Room == uxMessagesWaiting < uxLength
Data == uxMessagesWaiting > 0

(* prvCopyDataToQueue. *)
CopyDataToQueue == /\ pcWriteTo' = Up(pcWriteTo)
                   /\ uxMessagesWaiting' = uxMessagesWaiting + 1
                   /\ UNCHANGED pcReadFrom

(* The first of those that wait for the event, if any, is woken and let in. *)
WakeAndYield(event) ==
    k' = IF k[event] = <<>> THEN k ELSE Yield(RemoveFromEventList(k, event))

-----------------------------------------------------------------------------
(* A task that runs.                                                        *)

InCritical == loaded # Nothing

Running(t, p) == k.pxCurrentTCB = t /\ ~k.pendSV /\ task[t].pc = p

Goto(t, p) == task' = [task EXCEPT ![t].pc = p]

Return(t) == task' = [task EXCEPT ![t] = Outside]

Begin(t) ==
    /\ Running(t, "idle")
    /\ \E c \in Calls[t] :
         task' = [task EXCEPT ![t] = [Outside EXCEPT !.pc = "top", !.op = c.op,
                                                     !.xTicksToWait = c.wait]]
    /\ UNCHANGED <<k, ringVars, lockVars, loaded>>

(* xQueueGenericSend: there is room.                                        *)
Send(t) ==
    /\ Running(t, "top") /\ task[t].op = "send"
    /\ Room
    /\ CopyDataToQueue
    /\ WakeAndYield("receive")
    /\ Return(t)
    /\ UNCHANGED <<lockVars, loaded>>

(* xQueueGenericReceive: there is data.  The item is copied and the counter *)
(* is read...                                                               *)
Receive(t) ==
    /\ Running(t, "top") /\ task[t].op = "receive"
    /\ Data
    /\ pcReadFrom' = Up(pcReadFrom)
    /\ loaded' = uxMessagesWaiting
    /\ Goto(t, "store")
    /\ UNCHANGED <<k, pcWriteTo, uxMessagesWaiting, lockVars>>

(* ... and written back; a sender that waits is woken.                      *)
Store(t) ==
    /\ k.pxCurrentTCB = t /\ task[t].pc = "store"
    /\ uxMessagesWaiting' = loaded - 1
    /\ loaded' = Nothing
    /\ WakeAndYield("send")
    /\ Return(t)
    /\ UNCHANGED <<pcWriteTo, pcReadFrom, lockVars>>

(* xQueueGenericReset. *)
Reset(t) ==
    /\ Running(t, "top") /\ task[t].op = "reset"
    /\ pcWriteTo' = 0 /\ pcReadFrom' = uxLength - 1 /\ uxMessagesWaiting' = 0
    /\ xRxLock' = queueUNLOCKED /\ xTxLock' = queueUNLOCKED
    /\ WakeAndYield("send")
    /\ Return(t)
    /\ UNCHANGED loaded

Blocked(t) == \/ task[t].op = "send" /\ ~Room
              \/ task[t].op = "receive" /\ ~Data

(* Neither room nor data: at once back, or the time is noted (which a wait   *)
(* without end never looks at).                                             *)
Refuse(t) ==
    /\ Running(t, "top") /\ Blocked(t) /\ task[t].xTicksToWait = 0
    /\ Return(t)
    /\ UNCHANGED <<k, ringVars, lockVars, loaded>>

NoteTime(t) ==
    /\ Running(t, "top") /\ Blocked(t) /\ task[t].xTicksToWait > 0
    /\ IF task[t].xEntryTimeSet \/ task[t].xTicksToWait = portMAX_DELAY
       THEN Goto(t, "suspend")
       ELSE task' = [task EXCEPT ![t].pc = "suspend", ![t].xEntryTimeSet = TRUE,
                                 ![t].xTimeOut = TimeOutState(k),
                                 ![t].left = task[t].xTicksToWait]
    /\ UNCHANGED <<k, ringVars, lockVars, loaded>>

(* vTaskSuspendAll, for a queue or for vTaskDelay. *)
SuspendAll(t) ==
    /\ \/ Running(t, "suspend") /\ Goto(t, "lock")
       \/ /\ Running(t, "top") /\ task[t].op = "delay" /\ task[t].xTicksToWait > 0
          /\ Goto(t, "delay")
    /\ k' = [k EXCEPT !.uxSchedulerSuspended = 1]
    /\ UNCHANGED <<ringVars, lockVars, loaded>>

(* prvLockQueue. *)
Lock(t) ==
    /\ Running(t, "lock")
    /\ Goto(t, "timeout")
    /\ xRxLock' = IF xRxLock = queueUNLOCKED THEN 0 ELSE xRxLock
    /\ xTxLock' = IF xTxLock = queueUNLOCKED THEN 0 ELSE xTxLock
    /\ UNCHANGED <<k, ringVars, loaded>>

(* xTaskCheckForTimeOut: what is left to wait is counted from now on.       *)
CheckForTimeOut(t) ==
    /\ Running(t, "timeout")
    /\ LET me == task[t] IN
       IF TimedOut(k, me.xTimeOut, me.xTicksToWait)
       THEN task' = [task EXCEPT ![t].pc = "unlockTx", ![t].after = "failed"]
       ELSE IF me.xTicksToWait = portMAX_DELAY THEN Goto(t, "check")
       ELSE task' = [task EXCEPT ![t].pc = "check", ![t].xTimeOut = TimeOutState(k),
                                 ![t].xTicksToWait = @ - Elapsed(k, me.xTimeOut)]
    /\ UNCHANGED <<k, ringVars, lockVars, loaded>>

(* prvIsQueueFull, prvIsQueueEmpty. *)
Check(t) ==
    /\ Running(t, "check")
    /\ IF Blocked(t)
       THEN task' = [task EXCEPT ![t].pc = "place", ![t].after = "yield"]
       ELSE task' = [task EXCEPT ![t].pc = "unlockTx", ![t].after = "again"]
    /\ UNCHANGED <<k, ringVars, lockVars, loaded>>

Place(t) ==
    /\ Running(t, "place")
    /\ k' = PlaceOnEventList(k, t, task[t].op, task[t].xTicksToWait)
    /\ Goto(t, "unlockTx")
    /\ UNCHANGED <<ringVars, lockVars, loaded>>

(* prvUnlockQueue, a critical section for either end: a task is woken for   *)
(* each item that a handler sent, or received, meanwhile.                   *)
MutantWoken(count, event) == k            \* mutation: the count is thrown away
Woken(count, event) ==
    LET Signal(s) == IF s[event] = <<>> THEN s ELSE RemoveFromEventList(s, event)
    IN  Rounds(Signal, count, k)

UnlockTx(t) ==
    /\ Running(t, "unlockTx")
    /\ k' = Woken(xTxLock, "receive")
    /\ xTxLock' = queueUNLOCKED
    /\ Goto(t, "unlockRx")
    /\ UNCHANGED <<ringVars, xRxLock, loaded>>

UnlockRx(t) ==
    /\ Running(t, "unlockRx")
    /\ k' = Woken(xRxLock, "send")
    /\ xRxLock' = queueUNLOCKED
    /\ Goto(t, "resume")
    /\ UNCHANGED <<ringVars, xTxLock, loaded>>

(* vTaskDelay, with the scheduler suspended.                                *)
Sleep(t) ==
    /\ Running(t, "delay")
    /\ k' = Delay(k, t, task[t].xTicksToWait)
    /\ task' = [task EXCEPT ![t].pc = "resume", ![t].after = "yield",
                            ![t].left = task[t].xTicksToWait]
    /\ UNCHANGED <<ringVars, lockVars, loaded>>

(* n ticks are counted.                                                     *)
Passed(tasks, n) ==
    [t \in Tasks |-> [tasks[t] EXCEPT !.left = IF @ <= n THEN 0 ELSE @ - n]]

(* Where a call goes on when the task is back from its wait.                *)
Then(t) == IF task[t].op = "delay" THEN "back" ELSE "top"

(* xTaskResumeAll: it yields itself, or the caller may have to.             *)
Resume(t) ==
    /\ Running(t, "resume")
    /\ k' = ResumeAll(k)
    /\ LET me == CASE task[t].after = "failed" -> Outside
                   [] task[t].after = "yield" /\ ~k'.pendSV -> [task[t] EXCEPT !.pc = "yield"]
                   [] OTHER -> [task[t] EXCEPT !.pc = Then(t), !.after = "again"]
       IN  task' = Passed([task EXCEPT ![t] = me], k.uxPendedTicks)
    /\ UNCHANGED <<ringVars, lockVars, loaded>>

(* The yield that follows; a delay of no ticks is only that.                *)
YieldNow(t) ==
    /\ \/ Running(t, "yield")
       \/ Running(t, "top") /\ task[t].op = "delay" /\ task[t].xTicksToWait = 0
    /\ k' = Yield(k)
    /\ task' = [task EXCEPT ![t].pc = Then(t), ![t].after = "again"]
    /\ UNCHANGED <<ringVars, lockVars, loaded>>

Back(t) ==
    /\ Running(t, "back")
    /\ Return(t)
    /\ UNCHANGED <<k, ringVars, lockVars, loaded>>

Step(t) ==
    \/ Begin(t) \/ Send(t) \/ Receive(t) \/ Store(t) \/ Reset(t) \/ Refuse(t)
    \/ NoteTime(t) \/ SuspendAll(t) \/ Lock(t) \/ CheckForTimeOut(t) \/ Check(t)
    \/ Place(t) \/ UnlockTx(t) \/ UnlockRx(t) \/ Sleep(t) \/ Resume(t) \/ YieldNow(t)
    \/ Back(t)

-----------------------------------------------------------------------------
(* Interrupts.  The handlers of the peripherals come in whenever they are   *)
(* not masked; SysTick and PendSV have the lowest priority, PendSV first.   *)

May(what) == what \in Interrupts /\ (Masked => ~InCritical)

(* xQueueSendFromISR; without room it does nothing.                         *)
SendFromISR ==
    /\ May("send") /\ Room
    /\ CopyDataToQueue
    /\ IF xTxLock = queueUNLOCKED
       THEN WakeAndYield("receive") /\ UNCHANGED xTxLock
       ELSE xTxLock < MaxMeanwhile /\ xTxLock' = xTxLock + 1 /\ UNCHANGED k
    /\ UNCHANGED <<xRxLock, loaded, task>>

(* xQueueReceiveFromISR; without data it does nothing.                      *)
ReceiveFromISR ==
    /\ May("receive") /\ Data
    /\ pcReadFrom' = Up(pcReadFrom)
    /\ uxMessagesWaiting' = uxMessagesWaiting - 1
    /\ IF xRxLock = queueUNLOCKED
       THEN WakeAndYield("send") /\ UNCHANGED xRxLock
       ELSE xRxLock < MaxMeanwhile /\ xRxLock' = xRxLock + 1 /\ UNCHANGED k
    /\ UNCHANGED <<pcWriteTo, xTxLock, loaded, task>>

(* xPortSysTickHandler. *)
Tick ==
    /\ ~InCritical /\ ~k.pendSV
    /\ k.uxSchedulerSuspended = 1 => k.uxPendedTicks < MaxMeanwhile
    /\ LET r == IncrementTick(k) IN k' = IF r.switch THEN Yield(r.kernel) ELSE r.kernel
    /\ task' = Passed(task, 1 - k.uxSchedulerSuspended)
    /\ UNCHANGED <<ringVars, lockVars, loaded>>

(* xPortPendSVHandler. *)
PendSV ==
    /\ k.pendSV /\ ~InCritical
    /\ k' = SwitchContext(k)
    /\ UNCHANGED <<ringVars, lockVars, loaded, task>>

-----------------------------------------------------------------------------

Next == \/ \E t \in Tasks : Step(t)
        \/ SendFromISR \/ ReceiveFromISR \/ Tick \/ PendSV

Spec == Init /\ [][Next]_vars

-----------------------------------------------------------------------------
(* Properties.                                                              *)

In(t, list) == t \in ToSet(list)

(***************************************************************************)
(* A task is in exactly one of the lists for its state and in at most one  *)
(* event list, and never ready while an event list still holds it: an      *)
(* interrupt that then woke it would put it in the ready list twice.       *)
(***************************************************************************)
ListsConsistent ==
    /\ \A list \in {"ready", "delayed", "overflow", "send", "receive", "pending"} :
         IsInjective(k[list])
    /\ \A t \in Tasks :
         LET at == { list \in {"ready", "delayed", "overflow"} : In(t, k[list]) }
             waits == { list \in {"send", "receive", "pending"} : In(t, k[list]) }
         IN  /\ Cardinality(at) = IF t \in k.suspended THEN 0 ELSE 1
             /\ Cardinality(waits) <= 1
             /\ t \in k.suspended => waits # {}
             /\ waits \in SUBSET {"pending", task[t].op}
             /\ In(t, k.ready) => waits = {}

(***************************************************************************)
(* A delay or a wait ends on time, also across the wrap of the tick count: *)
(* whoever is still delayed wakes at a later tick, whoever has a wake time *)
(* beyond the wrap is in the other list, and the tick at which the delayed *)
(* list is looked at next is not after the first of them.                  *)
(***************************************************************************)
OnTime ==
    /\ \A list \in {"delayed", "overflow"} : \A i \in DOMAIN k[list] :
         i > 1 => k.value[k[list][i - 1]] <= k.value[k[list][i]]
    /\ \A t \in ToSet(k.delayed) : k.value[t] > k.xTickCount
                                   /\ k.xNextTaskUnblockTime <= k.value[t]
    /\ \A t \in ToSet(k.overflow) : k.value[t] < k.xTickCount

(***************************************************************************)
(* No wait ends early: a task that reports a time-out, or is back from     *)
(* vTaskDelay, has seen as many ticks as it asked for, however often it    *)
(* was woken in between and found the item gone.                           *)
(***************************************************************************)
NoEarlyTimeout ==
    \A t \in Tasks :
      task[t].after = "failed" \/ Running(t, "back") => task[t].left = 0

(* The tasks in a call that will still look at the queue before they wait.  *)
Awake(op) == { t \in Tasks : /\ task[t].op = op /\ task[t].after # "failed"
                             /\ ~In(t, k[op]) }

Makes(t, op) == \E c \in Calls[t] : c.op = op

(* A reset makes room for several and wakes one.  In the firmware that is   *)
(* enough: only task_sim808_receive sends to the queue that is reset.       *)
OneSender ==
    (\E t \in Tasks : Makes(t, "reset"))
      => \A t, u \in Tasks : Makes(t, "send") /\ Makes(u, "send") => t = u

(***************************************************************************)
(* No wake-up is lost, whenever the handler comes: while the queue is not  *)
(* locked, nobody waits for an item that nobody was woken for, and nobody  *)
(* waits for room that nobody was woken for.  (With OneSender.)            *)
(***************************************************************************)
NoLostWakeup ==
    /\ xTxLock = queueUNLOCKED /\ k.receive # <<>>
         => uxMessagesWaiting <= Cardinality(Awake("receive"))
    /\ xRxLock = queueUNLOCKED /\ k.send # <<>>
         => uxLength - uxMessagesWaiting <= Cardinality(Awake("send"))

(***************************************************************************)
(* The counter of the queue is the number of items between its pointers,   *)
(* outside of the critical section that changes both.                      *)
(***************************************************************************)
CountsItems ==
    ~InCritical => (pcWriteTo - pcReadFrom - 1) % uxLength = uxMessagesWaiting % uxLength

(***************************************************************************)
(* Time slices are fair: no delay, wake-up or interrupt puts another task  *)
(* before a ready one, and every switch brings it nearer to the processor; *)
(* with a tick, hence a switch, again and again every ready task runs.     *)
(* The one exception is the task that pxIndex points to: a task that runs  *)
(* after it, blocks and is woken before the switch goes before it again.   *)
(***************************************************************************)
TurnComes ==
    [][\A t \in Tasks :
         /\ In(t, k.ready) /\ In(t, k'.ready) /\ t # Last(k.ready)
         => \/ k'.pxCurrentTCB = t
            \/ /\ Before(k'.ready, t) \subseteq Before(k.ready, t)
               /\ PendSV /\ k.uxSchedulerSuspended = 0
                    => Before(k'.ready, t) # Before(k.ready, t)]_vars
=============================================================================
