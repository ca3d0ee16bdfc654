------------------------------ MODULE KernelProof ------------------------------
(***************************************************************************)
(* Proofs about Kernel, for any tasks, calls, handlers, width of the tick  *)
(* count and length of the queue.  The lists of the scheduler and the      *)
(* delays in them are in order between any two steps, and no wait ends     *)
(* early, whether or not the critical sections keep the handlers out; and  *)
(* as long as they do, the counter of the queue counts what is between its *)
(* pointers and no wake-up is lost.  What each operator of the scheduler   *)
(* does to its state is in SchedulerProof.                                 *)
(***************************************************************************)
EXTENDS Kernel, SchedulerProof, TLAPS

-----------------------------------------------------------------------------
(* The lists: what is true between any two steps.                           *)

(* Where a task has the scheduler suspended.                                *)
SusPcs == {"lock", "timeout", "check", "place", "unlockTx", "unlockRx", "resume", "delay"}

(* Where a task may be that has just left the ready list.                   *)
LeftPcs == {"unlockTx", "unlockRx", "resume", "yield"}

(* The scheduler is suspended by the task that runs, which is on its way    *)
(* through one of those places, and nobody is left pending when it resumes. *)
Suspended ==
    /\ k.uxSchedulerSuspended = 0 => k.pending = <<>>
    /\ k.uxSchedulerSuspended = 1 => k.pxCurrentTCB \in Tasks /\ task[k.pxCurrentTCB].pc \in SusPcs
    /\ \A t \in Tasks : task[t].pc \in SusPcs
                          => t = k.pxCurrentTCB /\ k.uxSchedulerSuspended = 1

(* The task that runs is ready, but for the way from its place in a list to *)
(* the switch.                                                              *)
RunsReady ==
    \A t \in Tasks :
      t = k.pxCurrentTCB /\ (~k.pendSV \/ k.uxSchedulerSuspended = 1)
        => t \in ToSet(k.ready) \/ (task[t].pc \in LeftPcs /\ task[t].after = "yield")

(* Nothing takes the task out of its critical section.                      *)
StoreReady ==
    \A t \in Tasks : task[t].pc = "store"
                       => t = k.pxCurrentTCB /\ InCritical /\ t \in ToSet(k.ready)

(* Who waits for an event is in the call that waits for it.                 *)
WaitsForOp ==
    /\ \A t \in ToSet(k.send) : task[t].op = "send"
    /\ \A t \in ToSet(k.receive) : task[t].op = "receive"

(* What the statements of a wait rely on.                                   *)
InWait ==
    \A t \in Tasks :
      /\ task[t].pc = "place" => task[t].op \in {"send", "receive"} /\ task[t].after = "yield"
      /\ task[t].pc \in {"suspend", "lock", "timeout", "check", "place", "delay"}
           => task[t].xTicksToWait > 0
      /\ task[t].pc \in {"timeout", "check", "place", "unlockTx"} => xTxLock >= 0 /\ xRxLock >= 0
      /\ task[t].pc = "unlockRx" => xRxLock >= 0

(* The queue, and what a critical section has read of it.                   *)
QueueType ==
    /\ pcWriteTo \in 0..uxLength - 1 /\ pcReadFrom \in 0..uxLength - 1
    /\ uxMessagesWaiting \in 0..uxLength
    /\ xRxLock \in -1..MaxMeanwhile /\ xTxLock \in -1..MaxMeanwhile
    /\ loaded \in {Nothing} \cup 1..uxLength

(***************************************************************************)
(* The invariant of the lists.  That they are consistent is not inductive: *)
(* a tick may wake a task at any moment, and PendSV may take the processor *)
(* from one, so it matters where a task is when it has suspended the       *)
(* scheduler, and that whoever has left the ready list gives the processor *)
(* away before anything else.                                              *)
(***************************************************************************)
ListInv == /\ QueueType /\ task \in [Tasks -> TaskType] /\ Sound(k, 1) /\ Looked(k)
           /\ Suspended /\ RunsReady /\ StoreReady /\ WaitsForOp /\ InWait

(* Two records of a task that differ in nothing the lists have to do with.  *)
Alike(a, b) == a.pc = b.pc /\ a.op = b.op /\ a.after = b.after /\ a.xTicksToWait = b.xTicksToWait

-----------------------------------------------------------------------------
(* Two kinds of step, and the steps.                                        *)

(* A statement of t, which runs, leaves the scheduler in order and t as me. *)
Leaves(t, me) ==
    /\ k.pxCurrentTCB = t /\ k'.pxCurrentTCB = t
    /\ QueueType' /\ Sound(k, 1)' /\ Looked(k)' /\ task' \in [Tasks -> TaskType]
    /\ Alike(task'[t], me) /\ \A x \in Tasks \ {t} : Alike(task'[x], task[x])
    /\ k'.uxSchedulerSuspended = 0 => k'.pending = <<>>
    /\ me.pc \in SusPcs <=> k'.uxSchedulerSuspended = 1
    /\ ~k'.pendSV \/ k'.uxSchedulerSuspended = 1
         => t \in ToSet(k'.ready) \/ (me.pc \in LeftPcs /\ me.after = "yield")
    /\ me.pc = "store" => loaded' # Nothing /\ t \in ToSet(k'.ready)
    /\ ToSet(k'.send) \subseteq ToSet(k.send) \cup {t}
    /\ ToSet(k'.receive) \subseteq ToSet(k.receive) \cup {t}
    /\ t \in ToSet(k'.send) => me.op = "send"
    /\ t \in ToSet(k'.receive) => me.op = "receive"
    /\ me.pc = "place" => me.op \in {"send", "receive"} /\ me.after = "yield"
    /\ me.pc \in {"suspend", "lock", "timeout", "check", "place", "delay"} => me.xTicksToWait > 0
    /\ me.pc \in {"timeout", "check", "place", "unlockTx"} => xTxLock' >= 0 /\ xRxLock' >= 0
    /\ me.pc = "unlockRx" => xRxLock' >= 0

(* ... keeps the invariant.                                                *)
LEMMA StatementKeeps ==
    ASSUME ListInv, NEW t \in Tasks, NEW me, Leaves(t, me)
    PROVE  ListInv'
<1> USE DEF Leaves
<1>1. ASSUME NEW x \in Tasks, x # t
      PROVE  /\ task'[x].pc = task[x].pc /\ task'[x].op = task[x].op
             /\ task'[x].after = task[x].after
             /\ task'[x].xTicksToWait = task[x].xTicksToWait
             /\ task[x].pc \notin SusPcs /\ task[x].pc # "store"
  BY <1>1 DEF ListInv, Suspended, StoreReady, Alike
<1>2. /\ task'[t].pc = me.pc /\ task'[t].op = me.op
      /\ task'[t].after = me.after /\ task'[t].xTicksToWait = me.xTicksToWait
  BY DEF Alike
<1>0. /\ k'.uxSchedulerSuspended \in {0, 1}
      /\ ToSet(k'.send) \subseteq Tasks /\ ToSet(k'.receive) \subseteq Tasks
  BY Elements DEF Sound, Linked, KernelType
<1>3. Suspended'
  BY <1>0, <1>1, <1>2 DEF Suspended
<1>4. RunsReady'
  BY <1>2 DEF RunsReady
<1>5. StoreReady'
  BY <1>1, <1>2 DEF StoreReady, InCritical
<1>6. WaitsForOp'
  <2>1. ASSUME NEW x \in ToSet(k'.send) PROVE task'[x].op = "send"
    BY <1>0, <1>1, <1>2 DEF ListInv, WaitsForOp
  <2>2. ASSUME NEW x \in ToSet(k'.receive) PROVE task'[x].op = "receive"
    BY <1>0, <1>1, <1>2 DEF ListInv, WaitsForOp
  <2> QED
    BY <2>1, <2>2 DEF WaitsForOp
<1>7. InWait'
  <2> SUFFICES ASSUME NEW x \in Tasks
               PROVE  /\ task'[x].pc = "place"
                           => task'[x].op \in {"send", "receive"} /\ task'[x].after = "yield"
                      /\ task'[x].pc \in {"suspend", "lock", "timeout", "check", "place", "delay"}
                           => task'[x].xTicksToWait > 0
                      /\ task'[x].pc \in {"timeout", "check", "place", "unlockTx"}
                           => xTxLock' >= 0 /\ xRxLock' >= 0
                      /\ task'[x].pc = "unlockRx" => xRxLock' >= 0
    BY DEF InWait
  <2>1. CASE x = t
    BY <1>2, <2>1
  <2>2. CASE x # t
    BY <1>1, <2>2 DEF ListInv, InWait, SusPcs
  <2> QED
    BY <2>1, <2>2
<1> QED
  BY <1>3, <1>4, <1>5, <1>6, <1>7 DEF ListInv

(* What comes without the running task: others become ready, no more.       *)
LEMMA InterruptKeeps ==
    ASSUME ListInv, QueueType', Sound(k, 1)', Looked(k)', task' \in [Tasks -> TaskType],
           \A x \in Tasks : Alike(task'[x], task[x]),
           Woke(k, k'), k.uxSchedulerSuspended = 0 => k'.pending = <<>>,
           k.pendSV => k'.pendSV,
           xTxLock >= 0 => xTxLock' >= 0, xRxLock >= 0 => xRxLock' >= 0, loaded' = loaded
    PROVE  ListInv'
<1>1. \A x \in Tasks : /\ task'[x].pc = task[x].pc /\ task'[x].op = task[x].op
                       /\ task'[x].after = task[x].after
                       /\ task'[x].xTicksToWait = task[x].xTicksToWait
  BY DEF Alike
<1>0. /\ ToSet(k'.send) \subseteq Tasks /\ ToSet(k'.receive) \subseteq Tasks
      /\ k.pxCurrentTCB \in Tasks \cup {Idle}
  BY Elements DEF ListInv, Sound, Linked, KernelType
<1>2. /\ ToSet(k.ready) \subseteq ToSet(k'.ready)
      /\ ToSet(k'.send) \subseteq ToSet(k.send) /\ ToSet(k'.receive) \subseteq ToSet(k.receive)
      /\ k'.pxCurrentTCB = k.pxCurrentTCB
      /\ k'.uxSchedulerSuspended = k.uxSchedulerSuspended
  BY DEF Woke
<1>3. Suspended'
  BY <1>1, <1>2 DEF ListInv, Suspended
<1>4. RunsReady'
  BY <1>1, <1>2 DEF ListInv, RunsReady
<1>5. StoreReady'
  BY <1>1, <1>2 DEF ListInv, StoreReady, InCritical
<1>6. WaitsForOp'
  BY <1>0, <1>1, <1>2 DEF ListInv, WaitsForOp
<1>7. InWait'
  BY <1>1 DEF ListInv, InWait
<1> QED
  BY <1>3, <1>4, <1>5, <1>6, <1>7 DEF ListInv

(* The ticks that pass change nothing but what is left to wait.             *)
LEMMA PassedIs ==
    ASSUME NEW tasks \in [Tasks -> TaskType], NEW n \in Nat
    PROVE  /\ Passed(tasks, n) \in [Tasks -> TaskType]
           /\ \A t \in Tasks : Alike(Passed(tasks, n)[t], tasks[t])
<1> SUFFICES ASSUME NEW t \in Tasks
             PROVE  /\ Passed(tasks, n)[t] \in TaskType
                    /\ Alike(Passed(tasks, n)[t], tasks[t])
  BY DEF Passed
<1>a. PICK me : me = tasks[t]
  OBVIOUS
<1>b. PICK l : l = IF me.left <= n THEN 0 ELSE me.left - n
  OBVIOUS
<1>1. me \in TaskType
  BY <1>a
<1>2. l \in 0..portMAX_DELAY
  <2>1. me.left \in 0..portMAX_DELAY /\ portMAX_DELAY \in Nat
    BY <1>1, SchedulerAssumption DEF TaskType, portMAX_DELAY
  <2> QED
    BY <1>b, <2>1
<1>3. Passed(tasks, n)[t] = [me EXCEPT !.left = l]
  BY <1>a, <1>b DEF Passed
<1>4. [me EXCEPT !.left = l] \in TaskType
  BY <1>1, <1>2 DEF TaskType
<1>5. Alike([me EXCEPT !.left = l], me)
  BY <1>1 DEF Alike, TaskType
<1> QED
  BY <1>a, <1>3, <1>4, <1>5

(* The task that runs, where it is neither on its way to a switch nor back. *)
LEMMA RunningIs ==
    ASSUME ListInv, NEW t \in Tasks, NEW p, Running(t, p)
    PROVE  /\ k.pxCurrentTCB = t /\ task[t].pc = p /\ task[t] \in TaskType
           /\ p \in SusPcs <=> k.uxSchedulerSuspended = 1
           /\ p \notin SusPcs => k.uxSchedulerSuspended = 0 /\ k.pending = <<>>
           /\ p \notin LeftPcs => t \in ToSet(k.ready) /\ t \notin Waiting(k)
           /\ task[t].after # "yield" => t \in ToSet(k.ready) /\ t \notin Waiting(k)
           /\ t \in ToSet(k.send) => task[t].op = "send"
           /\ t \in ToSet(k.receive) => task[t].op = "receive"
<1>0. k.uxSchedulerSuspended \in {0, 1} /\ ToSet(k.ready) \cap Waiting(k) = {}
  BY DEF ListInv, Sound, Linked, KernelType
<1>1. k.pxCurrentTCB = t /\ ~k.pendSV /\ task[t].pc = p /\ task[t] \in TaskType
  BY DEF Running, ListInv
<1>2. /\ p \in SusPcs <=> k.uxSchedulerSuspended = 1
      /\ p \notin SusPcs => k.uxSchedulerSuspended = 0 /\ k.pending = <<>>
  BY <1>0, <1>1 DEF ListInv, Suspended
<1>3. t \in ToSet(k.ready) \/ (p \in LeftPcs /\ task[t].after = "yield")
  BY <1>1 DEF ListInv, RunsReady
<1>4. /\ t \in ToSet(k.send) => task[t].op = "send"
      /\ t \in ToSet(k.receive) => task[t].op = "receive"
  BY DEF ListInv, WaitsForOp
<1> QED
  BY <1>0, <1>1, <1>2, <1>3, <1>4

(* A statement of t at p that leaves the scheduler alone, and t as me.      *)
Quiet(t, p, me) ==
    /\ Running(t, p) /\ UNCHANGED k /\ QueueType'
    /\ me \in TaskType /\ task' = [task EXCEPT ![t] = me]
    /\ me.pc \in SusPcs <=> p \in SusPcs
    /\ p \notin LeftPcs \/ task[t].after # "yield"
    /\ me.pc = "store" => loaded' # Nothing
    /\ me.pc = "place" => me.op \in {"send", "receive"} /\ me.after = "yield"
    /\ me.pc \in {"suspend", "lock", "timeout", "check", "place", "delay"} => me.xTicksToWait > 0
    /\ me.pc \in {"timeout", "check", "place", "unlockTx"} => xTxLock' >= 0 /\ xRxLock' >= 0
    /\ me.pc # "unlockRx"

(* ... keeps the invariant as well.                                        *)
LEMMA QuietKeeps ==
    ASSUME ListInv, NEW t \in Tasks, NEW p, NEW me, Quiet(t, p, me)
    PROVE  ListInv'
<1>0. Running(t, p) /\ k' = k /\ (p \notin LeftPcs \/ task[t].after # "yield")
  BY DEF Quiet
<1>1. /\ k.pxCurrentTCB = t /\ t \in ToSet(k.ready) /\ t \notin Waiting(k)
      /\ p \in SusPcs <=> k.uxSchedulerSuspended = 1
      /\ k.uxSchedulerSuspended = 0 => k.pending = <<>>
  BY <1>0, RunningIs DEF ListInv, Suspended
<1>2. /\ task' \in [Tasks -> TaskType] /\ Alike(task'[t], me)
      /\ \A x \in Tasks \ {t} : Alike(task'[x], task[x])
  BY DEF ListInv, Alike, Quiet
<1>3. Sound(k, 1)' /\ Looked(k)'
  BY <1>0 DEF ListInv
<1>4. t \notin ToSet(k.send) /\ t \notin ToSet(k.receive)
  BY <1>1 DEF Waiting
<1>q. /\ me.pc \in SusPcs <=> p \in SusPcs
      /\ me.pc = "store" => loaded' # Nothing
      /\ me.pc = "place" => me.op \in {"send", "receive"} /\ me.after = "yield"
      /\ me.pc \in {"suspend", "lock", "timeout", "check", "place", "delay"} => me.xTicksToWait > 0
      /\ me.pc \in {"timeout", "check", "place", "unlockTx"} => xTxLock' >= 0 /\ xRxLock' >= 0
      /\ me.pc # "unlockRx" /\ QueueType'
  BY DEF Quiet
<1>r. /\ ToSet(k'.send) \subseteq ToSet(k.send) \cup {t}
      /\ ToSet(k'.receive) \subseteq ToSet(k.receive) \cup {t}
      /\ t \in ToSet(k'.ready) /\ t \notin ToSet(k'.send) /\ t \notin ToSet(k'.receive)
      /\ k'.pxCurrentTCB = t /\ (k'.uxSchedulerSuspended = 0 => k'.pending = <<>>)
      /\ p \in SusPcs <=> k'.uxSchedulerSuspended = 1
  BY <1>0, <1>1, <1>4
<1>5. Leaves(t, me)
  BY <1>1, <1>2, <1>3, <1>q, <1>r DEF Leaves
<1> QED
  BY <1>5, StatementKeeps

(* A task outside of a call.                                               *)
LEMMA OutsideIs == Outside \in TaskType /\ Outside.pc = "idle" /\ Outside.op = "none"
BY SchedulerAssumption DEF Outside, TaskType, PCs, portMAX_DELAY

(* A call begins ...                                                       *)
LEMMA BeginKeeps == ASSUME ListInv, NEW t \in Tasks, Begin(t) PROVE ListInv'
<1>1. PICK c \in Calls[t] :
        task' = [task EXCEPT ![t] = [Outside EXCEPT !.pc = "top", !.op = c.op,
                                                    !.xTicksToWait = c.wait]]
  BY DEF Begin
<1>2. c \in [op : {"send", "receive", "delay", "reset"}, wait : 0..portMAX_DELAY]
  BY KernelAssumption
<1>a. PICK me : me = [Outside EXCEPT !.pc = "top", !.op = c.op, !.xTicksToWait = c.wait]
  OBVIOUS
<1>3. me \in TaskType /\ me.pc = "top"
  BY <1>2, <1>a, OutsideIs DEF TaskType, PCs
<1>4. Running(t, "idle") /\ UNCHANGED k /\ QueueType'
  BY DEF Begin, ListInv, QueueType, ringVars, lockVars
<1> QED
  BY <1>1, <1>3, <1>4, <1>a, QuietKeeps DEF Quiet, SusPcs, LeftPcs

(* ... and ends without a wait, or after one.                              *)
LEMMA RefuseKeeps == ASSUME ListInv, NEW t \in Tasks, Refuse(t) PROVE ListInv'
<1>1. Running(t, "top") /\ UNCHANGED k /\ QueueType' /\ task' = [task EXCEPT ![t] = Outside]
  BY DEF Refuse, Return, ListInv, QueueType, ringVars, lockVars
<1> QED
  BY <1>1, OutsideIs, QuietKeeps DEF Quiet, SusPcs, LeftPcs

(* The same, from the other side.                                          *)
LEMMA BackKeeps == ASSUME ListInv, NEW t \in Tasks, Back(t) PROVE ListInv'
<1>1. Running(t, "back") /\ UNCHANGED k /\ QueueType' /\ task' = [task EXCEPT ![t] = Outside]
  BY DEF Back, Return, ListInv, QueueType, ringVars, lockVars
<1> QED
  BY <1>1, OutsideIs, QuietKeeps DEF Quiet, SusPcs, LeftPcs

(* The first part of the critical section of a receive.                    *)
LEMMA ReceiveKeeps == ASSUME ListInv, NEW t \in Tasks, Receive(t) PROVE ListInv'
<1>a. PICK me : me = [task[t] EXCEPT !.pc = "store"]
  OBVIOUS
<1>1. task[t] \in TaskType /\ Running(t, "top") /\ UNCHANGED k
  BY DEF Receive, ListInv
<1>2. me \in TaskType /\ me.pc = "store" /\ task' = [task EXCEPT ![t] = me]
  BY <1>1, <1>a DEF Receive, Goto, ListInv, TaskType, PCs
<1>3. uxMessagesWaiting \in 1..uxLength /\ Up(pcReadFrom) \in 0..uxLength - 1
  <2>1. uxMessagesWaiting \in 1..uxLength
    BY KernelAssumption DEF Receive, Data, ListInv, QueueType
  <2> QED
    BY <2>1, KernelAssumption DEF ListInv, QueueType, Up
<1>4. QueueType' /\ loaded' # Nothing
  BY <1>3, KernelAssumption DEF Receive, ListInv, QueueType, lockVars, Nothing
<1> QED
  BY <1>1, <1>2, <1>4, QuietKeeps DEF Quiet, SusPcs, LeftPcs

(* What vTaskSetTimeOutState records.                                      *)
LEMMA TimeOutStateIs ==
    ASSUME ListInv
    PROVE  TimeOutState(k) \in [overflows : 0..OverflowWrap - 1, entering : 0..TickWrap - 1]
BY DEF ListInv, Sound, Linked, KernelType, TimeOutState

(* The time at which a wait begins is noted.                               *)
LEMMA NoteTimeKeeps == ASSUME ListInv, NEW t \in Tasks, NoteTime(t) PROVE ListInv'
<1>0. /\ task \in [Tasks -> TaskType] /\ task[t] \in TaskType /\ Running(t, "top") /\ UNCHANGED k
      /\ QueueType' /\ task[t].xTicksToWait > 0
  BY DEF NoteTime, ListInv, QueueType, ringVars, lockVars
<1>a. PICK now : now = TimeOutState(k)
  OBVIOUS
<1>b. now \in [overflows : 0..OverflowWrap - 1, entering : 0..TickWrap - 1]
  BY <1>a, TimeOutStateIs
<1>1. CASE task[t].xEntryTimeSet \/ task[t].xTicksToWait = portMAX_DELAY
  <2>a. PICK me : me = [task[t] EXCEPT !.pc = "suspend"]
    OBVIOUS
  <2>1. task' = [task EXCEPT ![t] = me]
    BY <1>0, <1>1, <2>a DEF NoteTime, Goto
  <2>2. me \in TaskType /\ me.pc = "suspend" /\ me.xTicksToWait > 0
    BY <1>0, <2>a DEF TaskType, PCs
  <2> QED
    BY <1>0, <2>1, <2>2, QuietKeeps DEF Quiet, SusPcs, LeftPcs
<1>2. CASE ~(task[t].xEntryTimeSet \/ task[t].xTicksToWait = portMAX_DELAY)
  <2>a. PICK me : me = [task[t] EXCEPT !.pc = "suspend", !.xEntryTimeSet = TRUE,
                                       !.xTimeOut = now, !.left = task[t].xTicksToWait]
    OBVIOUS
  <2>1. task' = [task EXCEPT ![t] = me]
    <3>1. task' = [task EXCEPT ![t].pc = "suspend", ![t].xEntryTimeSet = TRUE,
                                ![t].xTimeOut = now,
                                ![t].left = task[t].xTicksToWait]
      BY <1>2, <1>a DEF NoteTime
    <3> QED
      BY <1>0, <2>a, <3>1
  <2>2. me \in TaskType /\ me.pc = "suspend" /\ me.xTicksToWait > 0
    BY <1>0, <1>b, <2>a DEF TaskType, PCs
  <2> QED
    BY <1>0, <2>1, <2>2, QuietKeeps DEF Quiet, SusPcs, LeftPcs
<1> QED
  BY <1>1, <1>2

(* prvLockQueue.                                                           *)
LEMMA LockKeeps == ASSUME ListInv, NEW t \in Tasks, Lock(t) PROVE ListInv'
<1>0. task[t] \in TaskType /\ Running(t, "lock") /\ UNCHANGED k
  BY DEF Lock, ListInv
<1>a. PICK me : me = [task[t] EXCEPT !.pc = "timeout"]
  OBVIOUS
<1>1. me \in TaskType /\ me.pc = "timeout" /\ me.xTicksToWait = task[t].xTicksToWait
  BY <1>0, <1>a DEF TaskType, PCs
<1>2. me.xTicksToWait > 0
  BY <1>0, <1>1 DEF ListInv, InWait, Running
<1>3. task' = [task EXCEPT ![t] = me]
  BY <1>a DEF Lock, Goto, ListInv
<1>4. QueueType' /\ xTxLock' >= 0 /\ xRxLock' >= 0
  BY KernelAssumption DEF Lock, ListInv, QueueType, ringVars, queueUNLOCKED
<1> QED
  BY <1>0, <1>1, <1>2, <1>3, <1>4, QuietKeeps DEF Quiet, SusPcs, LeftPcs

(* The ticks since then, as the tick count has them.                       *)
LEMMA ElapsedIs ==
    ASSUME ListInv, NEW entry \in [overflows : 0..OverflowWrap - 1, entering : 0..TickWrap - 1]
    PROVE  Elapsed(k, entry) \in 0..TickWrap - 1
<1>1. k.xTickCount \in 0..TickWrap - 1 /\ TickWrap \in Nat \ {0}
  BY SchedulerAssumption DEF ListInv, Sound, Linked, KernelType
<1>2. k.xTickCount - entry.entering \in Int
  BY <1>1
<1> QED
  BY <1>1, <1>2 DEF Elapsed

(* xTaskCheckForTimeOut: what is left to wait is still a number of ticks.  *)
LEMMA CheckForTimeOutKeeps ==
    ASSUME ListInv, NEW t \in Tasks, CheckForTimeOut(t) PROVE ListInv'
<1>0. /\ task[t] \in TaskType /\ task \in [Tasks -> TaskType] /\ Running(t, "timeout")
      /\ UNCHANGED k /\ QueueType' /\ xTxLock' = xTxLock /\ xRxLock' = xRxLock
      /\ task[t].pc = "timeout" /\ task[t].xTicksToWait > 0 /\ xTxLock >= 0 /\ xRxLock >= 0
  BY DEF CheckForTimeOut, ListInv, InWait, Running, QueueType, ringVars, lockVars
<1>1. CASE TimedOut(k, task[t].xTimeOut, task[t].xTicksToWait)
  <2>a. PICK me : me = [task[t] EXCEPT !.pc = "unlockTx", !.after = "failed"]
    OBVIOUS
  <2>1. task' = [task EXCEPT ![t] = me]
    BY <1>0, <1>1, <2>a DEF CheckForTimeOut
  <2>2. me \in TaskType /\ me.pc = "unlockTx"
    BY <1>0, <2>a DEF TaskType, PCs
  <2> QED
    BY <1>0, <2>1, <2>2, QuietKeeps DEF Quiet, SusPcs, LeftPcs
<1>2. CASE ~TimedOut(k, task[t].xTimeOut, task[t].xTicksToWait)
           /\ task[t].xTicksToWait = portMAX_DELAY
  <2>a. PICK me : me = [task[t] EXCEPT !.pc = "check"]
    OBVIOUS
  <2>1. task' = [task EXCEPT ![t] = me]
    BY <1>0, <1>2, <2>a DEF CheckForTimeOut, Goto
  <2>2. me \in TaskType /\ me.pc = "check" /\ me.xTicksToWait > 0
    BY <1>0, <2>a DEF TaskType, PCs
  <2> QED
    BY <1>0, <2>1, <2>2, QuietKeeps DEF Quiet, SusPcs, LeftPcs
<1>3. CASE ~TimedOut(k, task[t].xTimeOut, task[t].xTicksToWait)
           /\ task[t].xTicksToWait # portMAX_DELAY
  <2>a. PICK now : now = TimeOutState(k)
    OBVIOUS
  <2>b. PICK rest : rest = task[t].xTicksToWait - Elapsed(k, task[t].xTimeOut)
    OBVIOUS
  <2>c. PICK me : me = [task[t] EXCEPT !.pc = "check", !.xTimeOut = now, !.xTicksToWait = rest]
    OBVIOUS
  <2>1. now \in [overflows : 0..OverflowWrap - 1, entering : 0..TickWrap - 1]
    BY <2>a, TimeOutStateIs
  <2>2. rest \in 0..portMAX_DELAY /\ rest > 0
    <3>1. /\ task[t].xTimeOut \in [overflows : 0..OverflowWrap - 1, entering : 0..TickWrap - 1]
          /\ task[t].xTicksToWait \in 0..portMAX_DELAY
      BY <1>0 DEF TaskType
    <3>2. Elapsed(k, task[t].xTimeOut) \in 0..TickWrap - 1 /\ TickWrap \in Nat
      BY <3>1, ElapsedIs, SchedulerAssumption
    <3>3. ~(Elapsed(k, task[t].xTimeOut) >= task[t].xTicksToWait)
      BY <1>3 DEF TimedOut
    <3> QED
      BY <2>b, <3>1, <3>2, <3>3 DEF portMAX_DELAY
  <2>3. task' = [task EXCEPT ![t] = me]
    <3>1. task' = [task EXCEPT ![t].pc = "check", ![t].xTimeOut = now,
                                ![t].xTicksToWait = rest]
      BY <1>0, <1>3, <2>a, <2>b DEF CheckForTimeOut
    <3> QED
      BY <1>0, <2>c, <3>1
  <2>4. me \in TaskType /\ me.pc = "check" /\ me.xTicksToWait > 0
    BY <1>0, <2>1, <2>2, <2>c DEF TaskType, PCs
  <2> QED
    BY <1>0, <2>3, <2>4, QuietKeeps DEF Quiet, SusPcs, LeftPcs
<1> QED
  BY <1>1, <1>2, <1>3

(* prvIsQueueFull and prvIsQueueEmpty decide whether the task waits.       *)
LEMMA CheckKeeps == ASSUME ListInv, NEW t \in Tasks, Check(t) PROVE ListInv'
<1>0. /\ task[t] \in TaskType /\ task \in [Tasks -> TaskType] /\ Running(t, "check") /\ UNCHANGED k
      /\ QueueType' /\ xTxLock' = xTxLock /\ xRxLock' = xRxLock
      /\ task[t].pc = "check" /\ task[t].xTicksToWait > 0 /\ xTxLock >= 0 /\ xRxLock >= 0
  BY DEF Check, ListInv, InWait, Running, QueueType, ringVars, lockVars
<1>1. CASE Blocked(t)
  <2>a. PICK me : me = [task[t] EXCEPT !.pc = "place", !.after = "yield"]
    OBVIOUS
  <2>1. task' = [task EXCEPT ![t] = me]
    BY <1>0, <1>1, <2>a DEF Check
  <2>2. /\ me \in TaskType /\ me.pc = "place" /\ me.xTicksToWait > 0
        /\ me.op = task[t].op /\ me.after = "yield"
    BY <1>0, <2>a DEF TaskType, PCs
  <2>3. me.op \in {"send", "receive"}
    BY <1>1, <2>2 DEF Blocked
  <2> QED
    BY <1>0, <2>1, <2>2, <2>3, QuietKeeps DEF Quiet, SusPcs, LeftPcs
<1>2. CASE ~Blocked(t)
  <2>a. PICK me : me = [task[t] EXCEPT !.pc = "unlockTx", !.after = "again"]
    OBVIOUS
  <2>1. task' = [task EXCEPT ![t] = me]
    BY <1>0, <1>2, <2>a DEF Check
  <2>2. me \in TaskType /\ me.pc = "unlockTx"
    BY <1>0, <2>a DEF TaskType, PCs
  <2> QED
    BY <1>0, <2>1, <2>2, QuietKeeps DEF Quiet, SusPcs, LeftPcs
<1> QED
  BY <1>1, <1>2

(* The first that waits for the event, if any, is woken and let in.         *)
LEMMA WakeAndYieldIs ==
    ASSUME NEW s, Sound(s, 1), Looked(s), NEW event \in {"send", "receive"},
           NEW u, u = IF s[event] = <<>> THEN s ELSE Yield(RemoveFromEventList(s, event))
    PROVE  /\ Sound(u, 1) /\ Looked(u) /\ Woke(s, u)
           /\ s.uxSchedulerSuspended = 0 => u.pending = s.pending
           /\ s.pendSV => u.pendSV
<1>1. CASE s[event] = <<>>
  BY <1>1, SameNotPassed DEF Woke
<1>2. CASE s[event] # <<>>
  <2>a. PICK r : r = RemoveFromEventList(s, event)
    OBVIOUS
  <2>1. /\ Linked(r, {}) /\ Due(r, 1) /\ Looked(r) /\ Held(r) /\ Woke(s, r)
        /\ s.uxSchedulerSuspended = 0 => r.pending = s.pending
    BY <1>2, <2>a, RemoveFromEventListKeeps DEF Sound
  <2>2. u = Yield(r)
    BY <1>2, <2>a
  <2>3. /\ Linked(u, {}) /\ Due(u, 1) /\ Looked(u) /\ Held(u) /\ Woke(r, u)
        /\ u.pending = r.pending /\ u.pendSV
    BY <2>1, <2>2, YieldKeeps
  <2>4. Woke(s, u)
    BY <2>1, <2>3, WokeTransitive
  <2> QED
    BY <2>1, <2>3, <2>4 DEF Sound
<1> QED
  BY <1>1, <1>2

(* The same of the state of the scheduler.                                 *)
LEMMA WakeAndYieldKeeps ==
    ASSUME ListInv, NEW event \in {"send", "receive"}, WakeAndYield(event)
    PROVE  /\ Sound(k, 1)' /\ Looked(k)' /\ Woke(k, k')
           /\ k.uxSchedulerSuspended = 0 => k'.pending = <<>>
           /\ k.pendSV => k'.pendSV
<1>1. Sound(k, 1) /\ Looked(k) /\ (k.uxSchedulerSuspended = 0 => k.pending = <<>>)
  BY DEF ListInv, Suspended
<1>2. k' = IF k[event] = <<>> THEN k ELSE Yield(RemoveFromEventList(k, event))
  BY DEF WakeAndYield
<1>3. /\ Sound(k', 1) /\ Looked(k') /\ Woke(k, k')
      /\ k.uxSchedulerSuspended = 0 => k'.pending = k.pending
      /\ k.pendSV => k'.pendSV
  BY <1>1, <1>2, WakeAndYieldIs
<1> QED
  BY <1>1, <1>3

(* A call that wakes another task on its way out.                           *)
LEMMA WakeReturnKeeps ==
    ASSUME ListInv, NEW t \in Tasks, k.pxCurrentTCB = t, task[t].pc \notin SusPcs,
           t \in ToSet(k.ready), QueueType',
           NEW event \in {"send", "receive"}, WakeAndYield(event), Return(t)
    PROVE  ListInv'
<1>a. PICK me : me = Outside
  OBVIOUS
<1>1. me \in TaskType /\ me.pc = "idle"
  BY <1>a, OutsideIs
<1>2. /\ Sound(k, 1)' /\ Looked(k)' /\ Woke(k, k')
      /\ k.uxSchedulerSuspended = 0 => k'.pending = <<>>
  BY WakeAndYieldKeeps
<1>3. k.uxSchedulerSuspended = 0
  BY DEF ListInv, Suspended, Sound, Linked, KernelType
<1>4. /\ task' \in [Tasks -> TaskType] /\ Alike(task'[t], me)
      /\ \A x \in Tasks \ {t} : Alike(task'[x], task[x])
  BY <1>a, <1>1 DEF ListInv, Alike, Return
<1>5. t \notin ToSet(k.send) /\ t \notin ToSet(k.receive)
  BY DEF ListInv, Sound, Linked, Waiting
<1>6. /\ k'.pxCurrentTCB = t /\ k'.uxSchedulerSuspended = 0 /\ t \in ToSet(k'.ready)
      /\ ToSet(k'.send) \subseteq ToSet(k.send) /\ ToSet(k'.receive) \subseteq ToSet(k.receive)
  BY <1>2, <1>3 DEF Woke
<1>7. Leaves(t, me)
  BY <1>1, <1>2, <1>3, <1>4, <1>5, <1>6 DEF Leaves, SusPcs
<1> QED
  BY <1>7, StatementKeeps

(* An item goes in, or out, or all of them go.                             *)
LEMMA SendKeeps == ASSUME ListInv, NEW t \in Tasks, Send(t) PROVE ListInv'
<1>1. Running(t, "top") /\ WakeAndYield("receive") /\ Return(t)
  BY DEF Send
<1>2. k.pxCurrentTCB = t /\ task[t].pc \notin SusPcs /\ t \in ToSet(k.ready)
  BY <1>1, RunningIs DEF SusPcs, LeftPcs
<1>3. uxMessagesWaiting' \in 0..uxLength /\ Up(pcWriteTo) \in 0..uxLength - 1
  <2>1. uxMessagesWaiting \in 0..uxLength - 1 /\ uxMessagesWaiting' = uxMessagesWaiting + 1
    BY KernelAssumption DEF Send, Room, ListInv, QueueType, CopyDataToQueue
  <2> QED
    BY <2>1, KernelAssumption DEF ListInv, QueueType, Up
<1>4. QueueType'
  BY <1>3 DEF Send, CopyDataToQueue, ListInv, QueueType, lockVars
<1> QED
  BY <1>1, <1>2, <1>4, WakeReturnKeeps

LEMMA StoreKeeps == ASSUME ListInv, NEW t \in Tasks, Store(t) PROVE ListInv'
<1>1. k.pxCurrentTCB = t /\ task[t].pc = "store" /\ WakeAndYield("send") /\ Return(t)
  BY DEF Store
<1>2. task[t].pc \notin SusPcs /\ t \in ToSet(k.ready) /\ loaded \in 1..uxLength
  BY <1>1, KernelAssumption DEF ListInv, StoreReady, SusPcs, InCritical, QueueType
<1>4. QueueType'
  BY <1>2, KernelAssumption DEF Store, ListInv, QueueType, lockVars, Nothing
<1> QED
  BY <1>1, <1>2, <1>4, WakeReturnKeeps

LEMMA ResetKeeps == ASSUME ListInv, NEW t \in Tasks, Reset(t) PROVE ListInv'
<1>1. Running(t, "top") /\ WakeAndYield("send") /\ Return(t)
  BY DEF Reset
<1>2. k.pxCurrentTCB = t /\ task[t].pc \notin SusPcs /\ t \in ToSet(k.ready)
  BY <1>1, RunningIs DEF SusPcs, LeftPcs
<1>4. QueueType'
  BY KernelAssumption DEF Reset, ListInv, QueueType, queueUNLOCKED
<1> QED
  BY <1>1, <1>2, <1>4, WakeReturnKeeps

(* vTaskSuspendAll moves nobody.                                           *)
LEMMA SuspendIs ==
    ASSUME NEW s, Sound(s, 1), Looked(s), NEW u, u = [s EXCEPT !.uxSchedulerSuspended = 1]
    PROVE  /\ Sound(u, 1) /\ Looked(u)
           /\ u.ready = s.ready /\ u.send = s.send /\ u.receive = s.receive
           /\ u.pxCurrentTCB = s.pxCurrentTCB /\ u.uxSchedulerSuspended = 1
<1>1. s \in KernelType
  BY DEF Sound, Linked
<1>2. u \in KernelType
  BY <1>1 DEF KernelType
<1>3. /\ u.ready = s.ready /\ u.delayed = s.delayed /\ u.overflow = s.overflow
      /\ u.suspended = s.suspended /\ u.pending = s.pending /\ u.send = s.send
      /\ u.receive = s.receive /\ u.value = s.value /\ u.xTickCount = s.xTickCount
      /\ u.xNextTaskUnblockTime = s.xNextTaskUnblockTime
      /\ u.pxCurrentTCB = s.pxCurrentTCB /\ u.uxSchedulerSuspended = 1
  BY <1>1 DEF KernelType
<1>4. Waiting(u) = Waiting(s)
  BY <1>3 DEF Waiting
<1>5. Linked(u, {})
  BY <1>2, <1>3, <1>4 DEF Sound, Linked
<1>6. Due(u, 1) /\ Held(u) /\ Looked(u)
  BY <1>3, <1>4 DEF Sound, Due, Held, Looked
<1> QED
  BY <1>3, <1>5, <1>6 DEF Sound

(* The task that runs suspends the scheduler.                              *)
LEMMA SuspendAllKeeps == ASSUME ListInv, NEW t \in Tasks, SuspendAll(t) PROVE ListInv'
<1>1. k' = [k EXCEPT !.uxSchedulerSuspended = 1] /\ Sound(k, 1) /\ Looked(k)
  BY DEF SuspendAll, ListInv
<1>2. /\ Sound(k', 1) /\ Looked(k')
      /\ k'.ready = k.ready /\ k'.send = k.send /\ k'.receive = k.receive
      /\ k'.pxCurrentTCB = k.pxCurrentTCB /\ k'.uxSchedulerSuspended = 1
  BY <1>1, SuspendIs
<1>3. PICK p \in {"lock", "delay"} : Goto(t, p) /\ task[t].xTicksToWait > 0
                                     /\ Running(t, IF p = "lock" THEN "suspend" ELSE "top")
  BY DEF SuspendAll, ListInv, InWait, Running
<1>a. PICK me : me = [task[t] EXCEPT !.pc = p]
  OBVIOUS
<1>4. task[t] \in TaskType /\ task \in [Tasks -> TaskType]
  BY DEF ListInv
<1>5. /\ me \in TaskType /\ me.pc = p /\ me.xTicksToWait > 0
      /\ task' = [task EXCEPT ![t] = me]
  BY <1>3, <1>4, <1>a DEF Goto, TaskType, PCs
<1>6. /\ task' \in [Tasks -> TaskType] /\ Alike(task'[t], me)
      /\ \A x \in Tasks \ {t} : Alike(task'[x], task[x])
  BY <1>4, <1>5 DEF Alike
<1>7. k.pxCurrentTCB = t /\ t \in ToSet(k.ready) /\ t \notin Waiting(k)
  <2>1. CASE p = "lock"
    BY <1>3, <2>1, RunningIs DEF LeftPcs
  <2>2. CASE p = "delay"
    BY <1>3, <2>2, RunningIs DEF LeftPcs
  <2> QED
    BY <2>1, <2>2
<1>8. /\ k'.pxCurrentTCB = t /\ t \in ToSet(k'.ready)
      /\ t \notin ToSet(k'.send) /\ t \notin ToSet(k'.receive)
      /\ ToSet(k'.send) \subseteq ToSet(k.send) /\ ToSet(k'.receive) \subseteq ToSet(k.receive)
  BY <1>2, <1>7 DEF Waiting
<1>9. QueueType'
  BY DEF SuspendAll, ListInv, QueueType, ringVars, lockVars
<1>10. Leaves(t, me)
  BY <1>2, <1>5, <1>6, <1>7, <1>8, <1>9 DEF Leaves, SusPcs
<1> QED
  BY <1>10, StatementKeeps

(* It goes into an event list, and leaves the ready list for another one.  *)
LEMMA PlaceKeeps == ASSUME ListInv, NEW t \in Tasks, Place(t) PROVE ListInv'
<1>1. /\ Running(t, "place") /\ Goto(t, "unlockTx")
      /\ k' = PlaceOnEventList(k, t, task[t].op, task[t].xTicksToWait)
      /\ QueueType' /\ xTxLock' = xTxLock /\ xRxLock' = xRxLock
  BY DEF Place, ListInv, QueueType, ringVars, lockVars
<1>2. /\ k.pxCurrentTCB = t /\ k.uxSchedulerSuspended = 1 /\ task[t] \in TaskType
      /\ t \in ToSet(k.ready) /\ t \notin Waiting(k)
  BY <1>1, RunningIs DEF SusPcs, LeftPcs
<1>3. /\ task[t].op \in {"send", "receive"} /\ task[t].after = "yield"
      /\ xTxLock >= 0 /\ xRxLock >= 0 /\ task[t].xTicksToWait > 0
  BY <1>1 DEF ListInv, InWait, Running
<1>b. PICK event \in {"send", "receive"} : event = task[t].op
  BY <1>3
<1>c. PICK ticks \in 1..TickWrap - 1 : ticks = task[t].xTicksToWait
  BY <1>2, <1>3, SchedulerAssumption DEF TaskType, portMAX_DELAY
<1>4. /\ Linked(k, {}) /\ Due(k, 1) /\ Looked(k) /\ Held(k)
      /\ k' = PlaceOnEventList(k, t, event, ticks)
  BY <1>1, <1>b, <1>c DEF ListInv, Sound
<1>5. /\ Linked(k', {}) /\ Due(k', 1) /\ Looked(k') /\ Held(k')
      /\ event = "send" => ToSet(k'.send) = ToSet(k.send) \cup {t} /\ k'.receive = k.receive
      /\ event = "receive" => ToSet(k'.receive) = ToSet(k.receive) \cup {t} /\ k'.send = k.send
      /\ k'.uxSchedulerSuspended = 1 /\ k'.pxCurrentTCB = t
  BY <1>2, <1>4, PlaceOnEventListKeeps, SMTT(60)
<1>a. PICK me : me = [task[t] EXCEPT !.pc = "unlockTx"]
  OBVIOUS
<1>6. /\ me \in TaskType /\ me.pc = "unlockTx" /\ me.after = "yield" /\ me.op = event
      /\ task' = [task EXCEPT ![t] = me] /\ task \in [Tasks -> TaskType]
  BY <1>1, <1>2, <1>3, <1>a, <1>b DEF Goto, TaskType, PCs, ListInv
<1>7. /\ task' \in [Tasks -> TaskType] /\ Alike(task'[t], me)
      /\ \A x \in Tasks \ {t} : Alike(task'[x], task[x])
  BY <1>6 DEF Alike
<1>8. /\ ToSet(k'.send) \subseteq ToSet(k.send) \cup {t}
      /\ ToSet(k'.receive) \subseteq ToSet(k.receive) \cup {t}
      /\ t \in ToSet(k'.send) => event = "send"
      /\ t \in ToSet(k'.receive) => event = "receive"
  BY <1>2, <1>5 DEF Waiting
<1>9. Sound(k, 1)' /\ Looked(k)'
  BY <1>5 DEF Sound
<1>10. Leaves(t, me)
  BY <1>1, <1>2, <1>3, <1>5, <1>6, <1>7, <1>8, <1>9 DEF Leaves, SusPcs, LeftPcs
<1> QED
  BY <1>10, StatementKeeps

(* It goes to sleep in vTaskDelay.                                         *)
LEMMA SleepKeeps == ASSUME ListInv, NEW t \in Tasks, Sleep(t) PROVE ListInv'
<1>1. /\ Running(t, "delay") /\ k' = Delay(k, t, task[t].xTicksToWait)
      /\ QueueType' /\ task[t].xTicksToWait > 0
  BY DEF Sleep, ListInv, QueueType, ringVars, lockVars, InWait, Running
<1>2. /\ k.pxCurrentTCB = t /\ k.uxSchedulerSuspended = 1 /\ task[t] \in TaskType
      /\ t \in ToSet(k.ready) /\ t \notin Waiting(k)
  BY <1>1, RunningIs DEF SusPcs, LeftPcs
<1>c. PICK ticks \in 1..TickWrap - 1 : ticks = task[t].xTicksToWait
  BY <1>1, <1>2, SchedulerAssumption DEF TaskType, portMAX_DELAY
<1>4. /\ Linked(k, {}) /\ Due(k, 1) /\ Looked(k) /\ Held(k) /\ k' = Delay(k, t, ticks)
  BY <1>1, <1>c DEF ListInv, Sound
<1>5. /\ Linked(k', {}) /\ Due(k', 1) /\ Looked(k') /\ Held(k')
      /\ k'.send = k.send /\ k'.receive = k.receive
      /\ k'.uxSchedulerSuspended = 1 /\ k'.pxCurrentTCB = t
  BY <1>2, <1>4, DelayKeeps
<1>a. PICK me : me = [task[t] EXCEPT !.pc = "resume", !.after = "yield", !.left = ticks]
  OBVIOUS
<1>6. /\ me \in TaskType /\ me.pc = "resume" /\ me.after = "yield"
      /\ task' = [task EXCEPT ![t] = me] /\ task \in [Tasks -> TaskType]
  <2>1. ticks \in 0..portMAX_DELAY
    BY <1>2, <1>c DEF TaskType
  <2>2. task' = [task EXCEPT ![t].pc = "resume", ![t].after = "yield", ![t].left = ticks]
    BY <1>c DEF Sleep
  <2>3. task \in [Tasks -> TaskType]
    BY DEF ListInv
  <2> QED
    BY <1>2, <1>a, <2>1, <2>2, <2>3, ZenonT(60) DEF TaskType, PCs
<1>7. /\ task' \in [Tasks -> TaskType] /\ Alike(task'[t], me)
      /\ \A x \in Tasks \ {t} : Alike(task'[x], task[x])
  BY <1>6 DEF Alike
<1>8. t \notin ToSet(k'.send) /\ t \notin ToSet(k'.receive)
  BY <1>2, <1>5 DEF Waiting
<1>9. Sound(k, 1)' /\ Looked(k)'
  BY <1>5 DEF Sound
<1>10. Leaves(t, me)
  BY <1>1, <1>2, <1>5, <1>6, <1>7, <1>8, <1>9 DEF Leaves, SusPcs, LeftPcs
<1> QED
  BY <1>10, StatementKeeps

(* A task is woken for each item, as long as one waits.                    *)
LEMMA WokenRounds ==
    ASSUME Sound(k, 1), Looked(k), NEW event \in {"send", "receive"}, NEW n \in Nat
    PROVE  \E f : /\ f[0] = k
                  /\ \A i \in 1..n : f[i] = IF f[i - 1][event] = <<>> THEN f[i - 1]
                                            ELSE RemoveFromEventList(f[i - 1], event)
                  /\ Woken(n, event) = f[n]
<1> DEFINE S == {s \in KernelType : Sound(s, 1) /\ Looked(s)}
           Signal(s) == IF s[event] = <<>> THEN s ELSE RemoveFromEventList(s, event)
           F == [s \in S |-> Signal(s)]
<1>1. F \in [S -> S]
  <2> SUFFICES ASSUME NEW s \in S PROVE Signal(s) \in S
    OBVIOUS
  <2>1. CASE s[event] = <<>>
    BY <2>1
  <2>2. CASE s[event] # <<>>
    <3>1. Sound(RemoveFromEventList(s, event), 1) /\ Looked(RemoveFromEventList(s, event))
      BY <2>2, RemoveFromEventListKeeps DEF Sound
    <3> QED
      BY <2>2, <3>1 DEF Sound, Linked
  <2> QED
    BY <2>1, <2>2
<1>2. k \in S
  BY DEF Sound, Linked
<1>3. ASSUME NEW s \in S PROVE F[s] = Signal(s)
  OBVIOUS
<1> HIDE DEF S, F
<1>a. PICK g : Passes(g, S, F, k, n)
  BY <1>1, <1>2, LoopExists
<1>4. g \in [0..n -> S] /\ g[0] = k /\ \A i \in 1..n : g[i] = F[g[i - 1]]
  BY <1>a DEF Passes
<1>5. g = [i \in 0..n |-> IF i = 0 THEN k ELSE Signal(g[i - 1])]
  <2>1. ASSUME NEW i \in 1..n PROVE g[i] = Signal(g[i - 1])
    <3>1. g[i - 1] \in S
      BY <1>4
    <3> HIDE DEF Signal
    <3> QED
      BY <1>3, <1>4, <3>1
  <2> DEFINE h == [i \in 0..n |-> IF i = 0 THEN k ELSE Signal(g[i - 1])]
  <2> HIDE DEF Signal
  <2>2. ASSUME NEW i \in 0..n PROVE g[i] = h[i]
    BY <1>4, <2>1
  <2> QED
    BY <1>4, <2>2
<1> DEFINE f == CHOOSE h : h = [i \in 0..n |-> IF i = 0 THEN k ELSE Signal(h[i - 1])]
<1>6. f = [i \in 0..n |-> IF i = 0 THEN k ELSE Signal(f[i - 1])]
  <2> HIDE DEF Signal
  <2> QED
    BY <1>5
<1>7. Woken(n, event) = f[n]
  BY DEF Woken, Rounds
<1> HIDE DEF f
<1>8. f[0] = k /\ \A i \in 1..n : f[i] = Signal(f[i - 1])
  <2> HIDE DEF Signal
  <2> QED
    BY <1>6
<1> QED
  BY <1>7, <1>8

(* That only makes tasks ready, or pending.                                *)
LEMMA WokenKeeps ==
    ASSUME Sound(k, 1), Looked(k), NEW event \in {"send", "receive"}, NEW n \in Nat,
           NEW u, u = Woken(n, event)
    PROVE  Sound(u, 1) /\ Looked(u) /\ Woke(k, u)
<1> DEFINE Good(s) == Sound(s, 1) /\ Looked(s) /\ Woke(k, s)
           P == {p \in (0..n) \X KernelType : Good(p[2])}
<1>1. PICK f : /\ f[0] = k
               /\ \A i \in 1..n : f[i] = IF f[i - 1][event] = <<>> THEN f[i - 1]
                                         ELSE RemoveFromEventList(f[i - 1], event)
               /\ Woken(n, event) = f[n]
  BY WokenRounds
<1>2. <<0, f[0]>> \in P
  <2>1. Good(k) /\ k \in KernelType
    BY SameNotPassed DEF Woke, Sound, Linked
  <2> QED
    BY <1>1, <2>1
<1>3. ASSUME NEW i \in 1..n, <<i - 1, f[i - 1]>> \in P PROVE <<i, f[i]>> \in P
  <2>a. PICK s : s = f[i - 1]
    OBVIOUS
  <2>b. PICK v : v = f[i]
    OBVIOUS
  <2>1. /\ Good(s) /\ s \in KernelType
        /\ v = IF s[event] = <<>> THEN s ELSE RemoveFromEventList(s, event)
    BY <1>1, <1>3, <2>a, <2>b
  <2>2. Good(v)
    <3>1. CASE s[event] = <<>>
      BY <2>1, <3>1
    <3>2. CASE s[event] # <<>>
      <4>1. Sound(v, 1) /\ Looked(v) /\ Woke(s, v)
        BY <2>1, <3>2, RemoveFromEventListKeeps DEF Sound
      <4> QED
        BY <2>1, <4>1, WokeTransitive
    <3> QED
      BY <3>1, <3>2
  <2>3. v \in KernelType /\ i \in 0..n
    BY <2>2 DEF Sound, Linked
  <2> QED
    BY <2>b, <2>2, <2>3
<1>4. <<n, f[n]>> \in P
  <2> HIDE DEF P
  <2> QED
    BY <1>2, <1>3, LoopKeeps
<1> QED
  BY <1>1, <1>4

(* Either half of prvUnlockQueue.                                          *)
LEMMA UnlockKeeps ==
    ASSUME ListInv, NEW t \in Tasks, NEW p \in {"unlockTx", "unlockRx"}, Running(t, p),
           NEW event \in {"send", "receive"}, NEW n \in Nat, k' = Woken(n, event), QueueType',
           NEW q \in {"unlockRx", "resume"}, Goto(t, q), q = "unlockRx" => xRxLock' >= 0
    PROVE  ListInv'
<1>1. /\ k.pxCurrentTCB = t /\ k.uxSchedulerSuspended = 1 /\ task[t] \in TaskType
      /\ t \in ToSet(k.ready) \/ (p \in LeftPcs /\ task[t].after = "yield")
      /\ t \in ToSet(k.send) => task[t].op = "send"
      /\ t \in ToSet(k.receive) => task[t].op = "receive"
  BY RunningIs DEF SusPcs, ListInv, RunsReady, Running
<1>2. Sound(k', 1) /\ Looked(k') /\ Woke(k, k')
  BY WokenKeeps DEF ListInv
<1>a. PICK me : me = [task[t] EXCEPT !.pc = q]
  OBVIOUS
<1>3. /\ me \in TaskType /\ me.pc = q /\ me.after = task[t].after /\ me.op = task[t].op
      /\ task' = [task EXCEPT ![t] = me] /\ task \in [Tasks -> TaskType]
  BY <1>1, <1>a DEF Goto, TaskType, PCs, ListInv
<1>4. /\ task' \in [Tasks -> TaskType] /\ Alike(task'[t], me)
      /\ \A x \in Tasks \ {t} : Alike(task'[x], task[x])
  BY <1>3 DEF Alike
<1>5. /\ k'.pxCurrentTCB = t /\ k'.uxSchedulerSuspended = 1
      /\ ToSet(k.ready) \subseteq ToSet(k'.ready)
      /\ ToSet(k'.send) \subseteq ToSet(k.send) /\ ToSet(k'.receive) \subseteq ToSet(k.receive)
  BY <1>1, <1>2 DEF Woke
<1>6. /\ t \in ToSet(k'.ready) \/ (me.pc \in LeftPcs /\ me.after = "yield")
      /\ t \in ToSet(k'.send) => me.op = "send"
      /\ t \in ToSet(k'.receive) => me.op = "receive"
  BY <1>1, <1>3, <1>5 DEF LeftPcs
<1>7. Leaves(t, me)
  BY <1>1, <1>2, <1>3, <1>4, <1>5, <1>6 DEF Leaves, SusPcs
<1> QED
  BY <1>7, StatementKeeps

(* First the half for the items that were sent, which has its count yet ... *)
LEMMA UnlockTxKeeps == ASSUME ListInv, NEW t \in Tasks, UnlockTx(t) PROVE ListInv'
<1>1. /\ Running(t, "unlockTx") /\ Goto(t, "unlockRx") /\ QueueType'
      /\ k' = Woken(xTxLock, "receive") /\ xRxLock' = xRxLock
  BY KernelAssumption DEF UnlockTx, ListInv, QueueType, ringVars, queueUNLOCKED
<1>2. xTxLock \in Nat /\ xRxLock >= 0
  BY <1>1, KernelAssumption DEF ListInv, InWait, Running, QueueType
<1> QED
  BY <1>1, <1>2, UnlockKeeps

(* ... then the half for those that were received.                         *)
LEMMA UnlockRxKeeps == ASSUME ListInv, NEW t \in Tasks, UnlockRx(t) PROVE ListInv'
<1>1. /\ Running(t, "unlockRx") /\ Goto(t, "resume") /\ QueueType'
      /\ k' = Woken(xRxLock, "send")
  BY KernelAssumption DEF UnlockRx, ListInv, QueueType, ringVars, queueUNLOCKED
<1>2. xRxLock \in Nat
  BY <1>1, KernelAssumption DEF ListInv, InWait, Running, QueueType
<1> QED
  BY <1>1, <1>2, UnlockKeeps

(* xTaskResumeAll: with the scheduler goes what made the task hold it.     *)
LEMMA ResumeKeeps == ASSUME ListInv, NEW t \in Tasks, Resume(t) PROVE ListInv'
<1>1. Running(t, "resume") /\ k' = ResumeAll(k) /\ QueueType'
  BY DEF Resume, ListInv, QueueType, ringVars, lockVars
<1>2. /\ k.pxCurrentTCB = t /\ task[t] \in TaskType /\ task \in [Tasks -> TaskType]
      /\ task[t].after # "yield" => t \in ToSet(k.ready) /\ t \notin Waiting(k)
      /\ t \in ToSet(k.send) => task[t].op = "send"
      /\ t \in ToSet(k.receive) => task[t].op = "receive"
  BY <1>1, RunningIs DEF ListInv
<1>3. /\ Sound(k', 1) /\ Looked(k') /\ ToSet(k.ready) \subseteq ToSet(k'.ready)
      /\ ToSet(k'.send) \subseteq ToSet(k.send) /\ ToSet(k'.receive) \subseteq ToSet(k.receive)
      /\ k'.pxCurrentTCB = t /\ k'.pending = <<>> /\ k'.uxSchedulerSuspended = 0
  BY <1>1, <1>2, ResumeAllKeeps DEF ListInv
<1>a. PICK me : me = CASE task[t].after = "failed" -> Outside
                       [] task[t].after = "yield" /\ ~k'.pendSV -> [task[t] EXCEPT !.pc = "yield"]
                       [] OTHER -> [task[t] EXCEPT !.pc = Then(t), !.after = "again"]
  OBVIOUS
<1>b. PICK n \in Nat : n = k.uxPendedTicks
  BY DEF ListInv, Sound, Linked, KernelType
<1>4. Then(t) \in {"back", "top"}
  BY DEF Then
<1>5. me \in TaskType /\ me.pc \in {"idle", "yield", "back", "top"}
  <2>1. CASE task[t].after = "failed"
    BY <1>a, <2>1, OutsideIs
  <2>2. CASE task[t].after = "yield" /\ ~k'.pendSV
    <3>1. me = [task[t] EXCEPT !.pc = "yield"]
      BY <1>a, <2>2
    <3> QED
      BY <1>2, <3>1 DEF TaskType, PCs
  <2>3. CASE task[t].after # "failed" /\ ~(task[t].after = "yield" /\ ~k'.pendSV)
    <3>1. me = [task[t] EXCEPT !.pc = Then(t), !.after = "again"]
      BY <1>a, <2>3
    <3> QED
      BY <1>2, <1>4, <3>1, ZenonT(60) DEF TaskType, PCs
  <2> QED
    BY <2>1, <2>2, <2>3
<1>6. task[t].after # "failed" => me.op = task[t].op
  <2>2. CASE task[t].after = "yield" /\ ~k'.pendSV
    <3>1. me = [task[t] EXCEPT !.pc = "yield"]
      BY <1>a, <2>2
    <3> QED
      BY <1>2, <3>1 DEF TaskType
  <2>3. CASE task[t].after # "failed" /\ ~(task[t].after = "yield" /\ ~k'.pendSV)
    <3>1. me = [task[t] EXCEPT !.pc = Then(t), !.after = "again"]
      BY <1>a, <2>3
    <3> QED
      BY <1>2, <3>1 DEF TaskType
  <2> QED
    BY <2>2, <2>3
<1>7. task[t].after = "yield" /\ ~k'.pendSV => me.pc = "yield" /\ me.after = "yield"
  BY <1>2, <1>a DEF TaskType
<1>c. PICK tasks : tasks = [task EXCEPT ![t] = me]
  OBVIOUS
<1>8. tasks \in [Tasks -> TaskType] /\ tasks[t] = me /\ \A x \in Tasks \ {t} : tasks[x] = task[x]
  BY <1>2, <1>5, <1>c
<1>9. task' = Passed(tasks, n)
  BY <1>a, <1>b, <1>c DEF Resume
<1>10. /\ task' \in [Tasks -> TaskType] /\ Alike(task'[t], me)
       /\ \A x \in Tasks \ {t} : Alike(task'[x], task[x])
  BY <1>8, <1>9, PassedIs
<1>11. /\ t \in ToSet(k'.send) => me.op = "send"
       /\ t \in ToSet(k'.receive) => me.op = "receive"
       /\ ~k'.pendSV => t \in ToSet(k'.ready) \/ (me.pc \in LeftPcs /\ me.after = "yield")
  BY <1>2, <1>3, <1>6, <1>7 DEF Waiting, LeftPcs
<1>12. Leaves(t, me)
  BY <1>1, <1>2, <1>3, <1>5, <1>10, <1>11 DEF Leaves, SusPcs
<1> QED
  BY <1>12, StatementKeeps

(* The yield after it, for a task that has left the ready list.            *)
LEMMA YieldNowKeeps == ASSUME ListInv, NEW t \in Tasks, YieldNow(t) PROVE ListInv'
<1>1. k' = Yield(k) /\ QueueType'
  BY DEF YieldNow, ListInv, QueueType, ringVars, lockVars
<1>2. PICK p \in {"yield", "top"} : Running(t, p)
  BY DEF YieldNow
<1>3. /\ k.pxCurrentTCB = t /\ task[t] \in TaskType /\ task \in [Tasks -> TaskType]
      /\ k.uxSchedulerSuspended = 0 /\ k.pending = <<>>
      /\ t \in ToSet(k.send) => task[t].op = "send"
      /\ t \in ToSet(k.receive) => task[t].op = "receive"
  BY <1>2, RunningIs DEF ListInv, SusPcs
<1>4. /\ Linked(k', {}) /\ Due(k', 1) /\ Looked(k') /\ Held(k') /\ Woke(k, k')
      /\ k'.pending = k.pending /\ k'.pendSV
      /\ ToSet(k'.send) = ToSet(k.send) /\ ToSet(k'.receive) = ToSet(k.receive)
  BY <1>1, YieldKeeps DEF ListInv, Sound
<1>b. PICK q \in {"back", "top"} : q = Then(t)
  BY DEF Then
<1>a. PICK me : me = [task[t] EXCEPT !.pc = q, !.after = "again"]
  OBVIOUS
<1>5. me \in TaskType /\ me.pc \in {"back", "top"} /\ me.op = task[t].op
  <2>1. q \in PCs
    BY <1>b DEF PCs
  <2> HIDE DEF PCs
  <2> QED
    BY <1>3, <1>a, <1>b, <2>1, ZenonT(60) DEF TaskType
<1>6. task' = [task EXCEPT ![t] = me]
  <2>1. task' = [task EXCEPT ![t].pc = q, ![t].after = "again"]
    BY <1>b DEF YieldNow
  <2> QED
    BY <1>3, <1>a, <2>1
<1>7. /\ task' \in [Tasks -> TaskType] /\ Alike(task'[t], me)
      /\ \A x \in Tasks \ {t} : Alike(task'[x], task[x])
  BY <1>3, <1>5, <1>6 DEF Alike
<1>8. Sound(k', 1) /\ k'.pxCurrentTCB = t /\ k'.uxSchedulerSuspended = 0
  BY <1>3, <1>4 DEF Sound, Woke
<1>9. Leaves(t, me)
  BY <1>1, <1>3, <1>4, <1>5, <1>7, <1>8 DEF Leaves, SusPcs
<1> QED
  BY <1>9, StatementKeeps

(* What an interrupt handler does to the queue.                            *)
LEMMA HandlerKeeps ==
    ASSUME ListInv, QueueType', UNCHANGED <<loaded, task>>,
           NEW event \in {"send", "receive"}, WakeAndYield(event) \/ UNCHANGED k,
           xTxLock >= 0 => xTxLock' >= 0, xRxLock >= 0 => xRxLock' >= 0
    PROVE  ListInv'
<1>1. /\ Sound(k, 1)' /\ Looked(k)' /\ Woke(k, k')
      /\ k.uxSchedulerSuspended = 0 => k'.pending = <<>>
      /\ k.pendSV => k'.pendSV
  <2>1. CASE WakeAndYield(event)
    BY <2>1, WakeAndYieldKeeps
  <2>2. CASE UNCHANGED k
    BY <2>2, SameNotPassed DEF ListInv, Suspended, Woke
  <2> QED
    BY <2>1, <2>2
<1>2. task' \in [Tasks -> TaskType] /\ \A x \in Tasks : Alike(task'[x], task[x])
  BY DEF ListInv, Alike
<1> QED
  BY <1>1, <1>2, InterruptKeeps

(* xQueueSendFromISR and xQueueReceiveFromISR, masked or not.              *)
LEMMA SendFromISRKeeps == ASSUME ListInv, SendFromISR PROVE ListInv'
<1>1. UNCHANGED <<loaded, task>> /\ (WakeAndYield("receive") \/ UNCHANGED k)
  BY DEF SendFromISR
<1>2. /\ xRxLock' = xRxLock /\ xTxLock' \in -1..MaxMeanwhile
      /\ xTxLock >= 0 => xTxLock' >= 0
  BY KernelAssumption DEF SendFromISR, ListInv, QueueType, queueUNLOCKED
<1>3. /\ uxMessagesWaiting' \in 0..uxLength
      /\ pcWriteTo' \in 0..uxLength - 1 /\ pcReadFrom' = pcReadFrom
  BY KernelAssumption DEF SendFromISR, Room, CopyDataToQueue, ListInv, QueueType, Up
<1>4. QueueType'
  BY <1>1, <1>2, <1>3 DEF ListInv, QueueType
<1> QED
  BY <1>1, <1>2, <1>4, HandlerKeeps

(* The same, from the other side.                                          *)
LEMMA ReceiveFromISRKeeps == ASSUME ListInv, ReceiveFromISR PROVE ListInv'
<1>1. UNCHANGED <<loaded, task>> /\ (WakeAndYield("send") \/ UNCHANGED k)
  BY DEF ReceiveFromISR
<1>2. /\ xTxLock' = xTxLock /\ xRxLock' \in -1..MaxMeanwhile
      /\ xRxLock >= 0 => xRxLock' >= 0
  BY KernelAssumption DEF ReceiveFromISR, ListInv, QueueType, queueUNLOCKED
<1>3. /\ uxMessagesWaiting' \in 0..uxLength
      /\ pcReadFrom' \in 0..uxLength - 1 /\ pcWriteTo' = pcWriteTo
  BY KernelAssumption DEF ReceiveFromISR, Data, ListInv, QueueType, Up
<1>4. QueueType'
  BY <1>1, <1>2, <1>3 DEF ListInv, QueueType
<1> QED
  BY <1>1, <1>2, <1>4, HandlerKeeps

(* A tick that comes while the scheduler is suspended is only counted.     *)
LEMMA PendIs ==
    ASSUME NEW s, Sound(s, 1), Looked(s), NEW u, u = [s EXCEPT !.uxPendedTicks = @ + 1]
    PROVE  Sound(u, 1) /\ Looked(u) /\ Woke(s, u) /\ u.pendSV = s.pendSV
<1>1. s \in KernelType
  BY DEF Sound, Linked
<1>2. u \in KernelType
  <2>1. s.uxPendedTicks + 1 \in Nat
    BY <1>1, SMTT(60) DEF KernelType
  <2> QED
    BY <1>1, <2>1 DEF KernelType
<1>3. /\ u.ready = s.ready /\ u.delayed = s.delayed /\ u.overflow = s.overflow
      /\ u.suspended = s.suspended /\ u.pending = s.pending /\ u.send = s.send
      /\ u.receive = s.receive /\ u.value = s.value /\ u.xTickCount = s.xTickCount
      /\ u.xNextTaskUnblockTime = s.xNextTaskUnblockTime /\ u.pendSV = s.pendSV
      /\ u.pxCurrentTCB = s.pxCurrentTCB /\ u.uxSchedulerSuspended = s.uxSchedulerSuspended
  BY <1>1 DEF KernelType
<1>4. Waiting(u) = Waiting(s)
  BY <1>3 DEF Waiting
<1>5. Linked(u, {})
  BY <1>2, <1>3, <1>4 DEF Sound, Linked
<1>6. Due(u, 1) /\ Held(u) /\ Looked(u) /\ Woke(s, u)
  BY <1>3, <1>4, SameNotPassed DEF Sound, Due, Held, Looked, Woke
<1> QED
  BY <1>3, <1>5, <1>6 DEF Sound

(* xPortSysTickHandler.                                                    *)
LEMMA TickIs ==
    ASSUME ListInv, Tick
    PROVE  /\ Sound(k', 1) /\ Looked(k') /\ Woke(k, k')
           /\ k.uxSchedulerSuspended = 0 => k'.pending = <<>>
           /\ task' \in [Tasks -> TaskType] /\ \A x \in Tasks : Alike(task'[x], task[x])
<1>a. PICK r : r = IncrementTick(k)
  OBVIOUS
<1>b. PICK u : u = r.kernel
  OBVIOUS
<1>1. /\ Sound(k, 1) /\ Looked(k) /\ k.uxSchedulerSuspended \in {0, 1}
      /\ k.uxSchedulerSuspended = 0 => k.pending = <<>>
  BY DEF ListInv, Suspended, Sound, Linked, KernelType
<1>2. /\ Sound(u, 1) /\ Looked(u) /\ Woke(k, u) /\ u.pendSV = k.pendSV
      /\ k.uxSchedulerSuspended = 0 => u.pending = <<>>
  <2>1. CASE k.uxSchedulerSuspended = 1
    <3>1. r = [kernel |-> [k EXCEPT !.uxPendedTicks = @ + 1], switch |-> k.xYieldPending]
      BY <1>a, <2>1 DEF IncrementTick
    <3>2. u = [k EXCEPT !.uxPendedTicks = @ + 1]
      BY <1>b, <3>1
    <3> QED
      BY <1>1, <2>1, <3>2, PendIs
  <2>2. CASE k.uxSchedulerSuspended = 0
    BY <1>1, <1>a, <1>b, <2>2, TickKeeps
  <2> QED
    BY <1>1, <2>1, <2>2
<1>3. k' = IF r.switch THEN Yield(u) ELSE u
  BY <1>a, <1>b DEF Tick
<1>4. /\ Sound(k', 1) /\ Looked(k') /\ Woke(k, k')
      /\ k.uxSchedulerSuspended = 0 => k'.pending = <<>>
  <2>1. CASE r.switch
    <3>1. k' = Yield(u)
      BY <1>3, <2>1
    <3>2. /\ Linked(k', {}) /\ Due(k', 1) /\ Looked(k') /\ Held(k') /\ Woke(u, k')
          /\ k'.pending = u.pending
      BY <1>2, <3>1, YieldKeeps DEF Sound
    <3>3. Woke(k, k')
      BY <1>2, <3>2, WokeTransitive
    <3> QED
      BY <1>2, <3>2, <3>3 DEF Sound
  <2>2. CASE ~r.switch
    <3>1. k' = u
      BY <1>3, <2>2
    <3> QED
      BY <1>2, <3>1
  <2> QED
    BY <2>1, <2>2
<1>c. PICK n \in Nat : n = 1 - k.uxSchedulerSuspended
  BY <1>1
<1>5. task' \in [Tasks -> TaskType] /\ \A x \in Tasks : Alike(task'[x], task[x])
  <2>1. task' = Passed(task, n)
    BY <1>c DEF Tick
  <2> QED
    BY <2>1, PassedIs DEF ListInv
<1> QED
  BY <1>4, <1>5

(* ... keeps the invariant.                                                *)
LEMMA TickStepKeeps == ASSUME ListInv, Tick PROVE ListInv'
<1>1. /\ Sound(k', 1) /\ Looked(k') /\ Woke(k, k')
      /\ k.uxSchedulerSuspended = 0 => k'.pending = <<>>
      /\ task' \in [Tasks -> TaskType] /\ \A x \in Tasks : Alike(task'[x], task[x])
  BY TickIs
<1>2. /\ QueueType' /\ loaded' = loaded /\ xTxLock' = xTxLock /\ xRxLock' = xRxLock /\ ~k.pendSV
  BY DEF Tick, ListInv, QueueType, ringVars, lockVars
<1> QED
  BY <1>1, <1>2, InterruptKeeps

(* xPortPendSVHandler: the next task is ready, and outside of all of this. *)
LEMMA PendSVKeeps == ASSUME ListInv, PendSV PROVE ListInv'
<1>0. UNCHANGED <<ringVars, lockVars, loaded, task>> /\ ~InCritical /\ k' = SwitchContext(k)
  BY DEF PendSV
<1>1. /\ Linked(k, {}) /\ Due(k, 1) /\ Looked(k) /\ Held(k)
      /\ k.uxSchedulerSuspended \in {0, 1} /\ Suspended
  BY DEF ListInv, Sound, Linked, KernelType
<1>2. /\ Linked(k', {}) /\ Due(k', 1) /\ Looked(k') /\ Held(k')
      /\ ToSet(k'.ready) = ToSet(k.ready)
      /\ k'.pending = k.pending /\ k'.send = k.send /\ k'.receive = k.receive
      /\ k'.uxSchedulerSuspended = k.uxSchedulerSuspended
      /\ k.uxSchedulerSuspended = 1 => k'.pxCurrentTCB = k.pxCurrentTCB
      /\ k.uxSchedulerSuspended = 0 => k'.pxCurrentTCB \in ToSet(k.ready) \cup {Idle}
  BY <1>0, <1>1, SwitchContextKeeps
<1>3. Suspended'
  BY <1>0, <1>1, <1>2 DEF Suspended
<1>4. RunsReady'
  <2> SUFFICES ASSUME NEW t \in Tasks, t = k'.pxCurrentTCB
               PROVE  t \in ToSet(k'.ready) \/ (task'[t].pc \in LeftPcs /\ task'[t].after = "yield")
    BY DEF RunsReady
  <2>1. CASE k.uxSchedulerSuspended = 1
    BY <1>0, <1>2, <2>1 DEF ListInv, RunsReady
  <2>2. CASE k.uxSchedulerSuspended = 0
    BY <1>2, <2>2, SchedulerAssumption
  <2> QED
    BY <1>1, <2>1, <2>2
<1>5. StoreReady'
  BY <1>0 DEF ListInv, StoreReady, InCritical
<1>6. WaitsForOp' /\ InWait'
  BY <1>0, <1>2 DEF ListInv, WaitsForOp, InWait, lockVars
<1>7. QueueType' /\ task' \in [Tasks -> TaskType]
  BY <1>0 DEF ListInv, QueueType, ringVars, lockVars
<1>8. Sound(k, 1)' /\ Looked(k)'
  BY <1>2 DEF Sound
<1> QED
  BY <1>3, <1>4, <1>5, <1>6, <1>7, <1>8 DEF ListInv

(* Where it all starts: every task is ready and outside of a call.         *)
LEMMA InitKeeps == Init => ListInv
<1> SUFFICES ASSUME Init PROVE ListInv
  OBVIOUS
<1>1. k = KernelInit /\ task = [t \in Tasks |-> Outside]
  BY DEF Init
<1>2. /\ Sound(k, 1) /\ Looked(k)
      /\ k.pxCurrentTCB \in ToSet(k.ready) /\ k.uxSchedulerSuspended = 0
      /\ k.pending = <<>> /\ k.send = <<>> /\ k.receive = <<>>
  BY <1>1, KernelInitIs
<1>3. task \in [Tasks -> TaskType] /\ \A t \in Tasks : task[t].pc = "idle"
  BY <1>1, OutsideIs
<1>4. QueueType
  BY KernelAssumption DEF Init, QueueType, Nothing, queueUNLOCKED
<1>5. Suspended /\ RunsReady /\ StoreReady /\ InWait
  BY <1>2, <1>3 DEF Suspended, RunsReady, StoreReady, InWait, SusPcs
<1>6. WaitsForOp
  BY <1>2, EmptyList DEF WaitsForOp
<1> QED
  BY <1>2, <1>3, <1>4, <1>5, <1>6 DEF ListInv

(* The invariant is inductive.                                             *)
LEMMA NextKeeps == ListInv /\ [Next]_vars => ListInv'
<1> SUFFICES ASSUME ListInv, [Next]_vars PROVE ListInv'
  OBVIOUS
<1>1. ASSUME NEW t \in Tasks, Step(t) PROVE ListInv'
  BY <1>1, BeginKeeps, SendKeeps, ReceiveKeeps, StoreKeeps, ResetKeeps, RefuseKeeps,
     NoteTimeKeeps, SuspendAllKeeps, LockKeeps, CheckForTimeOutKeeps, CheckKeeps, PlaceKeeps,
     UnlockTxKeeps, UnlockRxKeeps, SleepKeeps, ResumeKeeps, YieldNowKeeps, BackKeeps DEF Step
<1>2. CASE SendFromISR
  BY <1>2, SendFromISRKeeps
<1>3. CASE ReceiveFromISR
  BY <1>3, ReceiveFromISRKeeps
<1>4. CASE Tick
  BY <1>4, TickStepKeeps
<1>5. CASE PendSV
  BY <1>5, PendSVKeeps
<1>6. CASE UNCHANGED vars
  BY <1>6 DEF vars, ringVars, lockVars, ListInv, QueueType, Suspended, RunsReady, StoreReady,
              InCritical, WaitsForOp, InWait
<1> QED
  BY <1>1, <1>2, <1>3, <1>4, <1>5, <1>6 DEF Next

(* It has in it the types and what is said of the lists.                   *)
LEMMA ListInvIs == ListInv => TypeOK /\ ListsConsistent /\ OnTime
<1> SUFFICES ASSUME ListInv PROVE TypeOK /\ ListsConsistent /\ OnTime
  OBVIOUS
<1>0. /\ Linked(k, {}) /\ Due(k, 1) /\ Held(k) /\ Looked(k) /\ k \in KernelType /\ WaitsForOp
      /\ Marker \notin Tasks
  BY SchedulerAssumption DEF ListInv, Sound, Linked
<1>1. TypeOK
  BY <1>0 DEF ListInv, QueueType, TypeOK
<1>2. ListsConsistent
  <2>1. ASSUME NEW list \in {"ready", "delayed", "overflow", "send", "receive", "pending"}
        PROVE  IsInjective(k[list])
    BY <1>0 DEF Linked
  <2>2. ASSUME NEW t \in Tasks,
               NEW at, at = { list \in {"ready", "delayed", "overflow"} : In(t, k[list]) },
               NEW waits, waits = { list \in {"send", "receive", "pending"} : In(t, k[list]) }
        PROVE  /\ Cardinality(at) = IF t \in k.suspended THEN 0 ELSE 1
               /\ Cardinality(waits) <= 1
               /\ t \in k.suspended => waits # {}
               /\ waits \in SUBSET {"pending", task[t].op}
               /\ In(t, k.ready) => waits = {}
    <3>1. Cardinality(at) = IF t \in k.suspended THEN 0 ELSE 1
      <4>1. CASE t \in k.suspended
        <5>1. at = {}
          BY <1>0, <2>2, <4>1 DEF Linked, In
        <5> QED
          BY <4>1, <5>1, FS_EmptySet
      <4>2. CASE t \notin k.suspended
        <5>1. at = {"ready"} \/ at = {"delayed"} \/ at = {"overflow"}
          <6>1. t \in ToSet(k.ready) \/ t \in ToSet(k.delayed) \/ t \in ToSet(k.overflow)
            BY <1>0, <4>2 DEF Linked
          <6>2. /\ ~(t \in ToSet(k.ready) /\ t \in ToSet(k.delayed))
                /\ ~(t \in ToSet(k.ready) /\ t \in ToSet(k.overflow))
                /\ ~(t \in ToSet(k.delayed) /\ t \in ToSet(k.overflow))
            BY <1>0 DEF Linked
          <6>3. /\ "ready" \in at <=> t \in ToSet(k.ready)
                /\ "delayed" \in at <=> t \in ToSet(k.delayed)
                /\ "overflow" \in at <=> t \in ToSet(k.overflow)
                /\ at \subseteq {"ready", "delayed", "overflow"}
            BY <2>2 DEF In
          <6> QED
            BY <6>1, <6>2, <6>3
        <5> QED
          BY <4>2, <5>1, FS_Singleton
      <4> QED
        BY <4>1, <4>2
    <3>2. waits = {} \/ \E list : waits = {list}
      <4>1. /\ ~(t \in ToSet(k.send) /\ t \in ToSet(k.receive))
            /\ ~(t \in ToSet(k.send) /\ t \in ToSet(k.pending))
            /\ ~(t \in ToSet(k.receive) /\ t \in ToSet(k.pending))
        BY <1>0 DEF Linked
      <4>2. /\ "send" \in waits <=> t \in ToSet(k.send)
            /\ "receive" \in waits <=> t \in ToSet(k.receive)
            /\ "pending" \in waits <=> t \in ToSet(k.pending)
            /\ waits \subseteq {"send", "receive", "pending"}
        BY <2>2 DEF In
      <4>3. waits = {} \/ waits = {"send"} \/ waits = {"receive"} \/ waits = {"pending"}
        BY <4>1, <4>2
      <4> QED
        BY <4>3
    <3>3. Cardinality(waits) <= 1
      <4>1. CASE waits = {}
        BY <4>1, FS_EmptySet
      <4>2. ASSUME NEW list, waits = {list} PROVE Cardinality(waits) <= 1
        <5>1. Cardinality(waits) = 1
          BY <4>2, FS_Singleton
        <5> QED
          BY <5>1
      <4> QED
        BY <3>2, <4>1, <4>2
    <3>4. /\ t \in k.suspended => waits # {}
          /\ In(t, k.ready) => waits = {}
      BY <1>0, <2>2 DEF Linked, Held, Waiting, In
    <3>5. waits \in SUBSET {"pending", task[t].op}
      BY <1>0, <2>2 DEF WaitsForOp, In
    <3> QED
      BY <3>1, <3>3, <3>4, <3>5
  <2> QED
    BY <2>1, <2>2 DEF ListsConsistent
<1>3. OnTime
  <2>1. ASSUME NEW list \in {"delayed", "overflow"}, NEW i \in DOMAIN k[list], i > 1
        PROVE  k.value[k[list][i - 1]] <= k.value[k[list][i]]
    <3>1. k[list] \in Seq(Tasks) /\ Sorted(k[list], k.value)
      BY <1>0 DEF Due, KernelType
    <3>2. DOMAIN k[list] = 1..Len(k[list]) /\ Len(k[list]) \in Nat
      BY <3>1
    <3>3. i - 1 \in DOMAIN k[list] /\ i - 1 <= i
      BY <2>1, <3>2
    <3> QED
      BY <3>1, <3>3 DEF Sorted
  <2>2. ASSUME NEW t \in ToSet(k.delayed)
        PROVE  k.value[t] > k.xTickCount /\ k.xNextTaskUnblockTime <= k.value[t]
    <3>1. t \in Tasks
      BY <1>0, Elements DEF KernelType
    <3>2. k.value[t] \in Int /\ k.xTickCount \in Int
      BY <1>0, <3>1, SchedulerAssumption DEF KernelType
    <3> QED
      BY <1>0, <3>2 DEF Due, Looked
  <2>3. \A t \in ToSet(k.overflow) : k.value[t] < k.xTickCount
    BY <1>0 DEF Due
  <2> QED
    BY <2>1, <2>2, <2>3 DEF OnTime
<1> QED
  BY <1>1, <1>2, <1>3

-----------------------------------------------------------------------------
(* What follows for every behaviour.                                        *)

(* The invariant always holds.                                              *)
LEMMA ListInvariant == Spec => []ListInv
<1>1. Init => ListInv
  BY InitKeeps
<1>2. ListInv /\ [Next]_vars => ListInv'
  BY NextKeeps
<1> QED
  BY <1>1, <1>2, PTL DEF Spec

(***************************************************************************)
(* Every field of the scheduler, of the queue and of the tasks' locals     *)
(* keeps its range: the tick count and the wake times wrap, the pointers   *)
(* stay in the ring and what is left to wait never goes below 0.           *)
(***************************************************************************)
THEOREM KernelTypeCorrect == Spec => []TypeOK
<1> QED
  BY ListInvariant, ListInvIs, PTL

(***************************************************************************)
(* A task is in exactly one of the lists for its state and in at most one  *)
(* event list, and never ready while an event list still holds it (list.c, *)
(* tasks.c), whatever the handlers do and whether or not they are masked:  *)
(* the byte that UART.c 252 may lose costs the queue its counter, not the  *)
(* scheduler its lists.                                                    *)
(***************************************************************************)
THEOREM ListsConsistentCorrect == Spec => []ListsConsistent
<1> QED
  BY ListInvariant, ListInvIs, PTL

(***************************************************************************)
(* The delayed lists are sorted, hold nobody whose time has come, and are  *)
(* looked at in time, also across the wrap of the tick count and after the *)
(* ticks that came while the scheduler was suspended (tasks.c 1346-1411,   *)
(* 1583-1724).                                                             *)
(***************************************************************************)
THEOREM OnTimeCorrect == Spec => []OnTime
<1> QED
  BY ListInvariant, ListInvIs, PTL

-----------------------------------------------------------------------------
(* Time-outs: what is true between any two steps.                           *)

(* Where a task may be in a delay, after a time-out, and before its wait.   *)
Where(me) ==
    /\ me.pc \in {"delay", "back"} => me.op = "delay"
    /\ me.after = "failed" => me.left = 0 /\ me.pc \in {"unlockTx", "unlockRx", "resume"}
    /\ me.pc \in {"suspend", "lock", "timeout"}
         => me.xEntryTimeSet \/ me.xTicksToWait = portMAX_DELAY

(* A delay waits for no event and leaves the delayed lists when nothing is  *)
(* left of it; a wait that has been noted has as much left as was counted.  *)
Timed(s, t, me) ==
    /\ me.op = "delay" => ~me.xEntryTimeSet /\ t \notin Waiting(s) /\ Slept(s, t, me.left)
    /\ me.xEntryTimeSet => Noted(s, me.xTimeOut, me.xTicksToWait, me.left)

InTime(s, t, me) == Where(me) /\ Timed(s, t, me)

(***************************************************************************)
(* The invariant of the time-outs.  NoEarlyTimeout looks at the end of a   *)
(* wait only; what is left of one must be right at every tick of it, in    *)
(* the delayed lists for vTaskDelay and in the recorded time for a queue.  *)
(***************************************************************************)
TimeInv == \A t \in Tasks : InTime(k, t, task[t])

(* From a to b, n ticks are counted and the wait is the same.               *)
SameWait(a, b, n) ==
    /\ b.op = a.op /\ b.xTicksToWait = a.xTicksToWait /\ b.xTimeOut = a.xTimeOut
    /\ b.xEntryTimeSet = a.xEntryTimeSet /\ b.left = Remaining(a.left, n)

(* ... and the task where it was.                                           *)
Unmoved(a, b, n) == SameWait(a, b, n) /\ b.pc = a.pc /\ b.after = a.after

(* The fields of a task.                                                    *)
LEMMA TaskFields ==
    ASSUME NEW me \in TaskType
    PROVE  /\ DOMAIN me = {"pc", "op", "xTicksToWait", "xTimeOut", "xEntryTimeSet", "after", "left"}
           /\ me.left \in Nat /\ me.xTimeOut \in EntryType /\ me.xTicksToWait \in 0..portMAX_DELAY
           /\ me.xTicksToWait \in Nat
           /\ me.xEntryTimeSet \in BOOLEAN
BY SchedulerAssumption DEF TaskType, EntryType, portMAX_DELAY

(* Time goes on for a wait as for the scheduler.                            *)
LEMMA TimedOn ==
    ASSUME NEW s, NEW u, NEW n \in Nat, NEW out, Ages(s, u, n, out), NEW x \in Tasks \ out,
           NEW a \in TaskType, NEW b, SameWait(a, b, n), Timed(s, x, a)
    PROVE  Timed(u, x, b)
<1>0. /\ a.left \in Nat /\ a.xTimeOut \in EntryType /\ a.xTicksToWait \in 0..portMAX_DELAY
  BY TaskFields
<1>1. ASSUME b.op = "delay"
      PROVE  ~b.xEntryTimeSet /\ x \notin Waiting(u) /\ Slept(u, x, b.left)
  <2>1. ~a.xEntryTimeSet /\ x \notin Waiting(s) /\ Slept(s, x, a.left)
    BY <1>1 DEF SameWait, Timed
  <2>2. x \notin Waiting(u) /\ Slept(u, x, Remaining(a.left, n))
    BY <1>0, <2>1 DEF Ages, Sleepers
  <2> QED
    BY <2>1, <2>2 DEF SameWait
<1>2. ASSUME b.xEntryTimeSet PROVE Noted(u, b.xTimeOut, b.xTicksToWait, b.left)
  <2>1. Noted(s, a.xTimeOut, a.xTicksToWait, a.left)
    BY <1>2 DEF SameWait, Timed
  <2>2. Noted(u, a.xTimeOut, a.xTicksToWait, Remaining(a.left, n))
    BY <1>0, <2>1 DEF Ages, Waits
  <2> QED
    BY <2>2 DEF SameWait
<1> QED
  BY <1>1, <1>2 DEF Timed

(* ... so a task that stays where it is in its call stays in time.          *)
LEMMA OnInTime ==
    ASSUME NEW s, NEW u, NEW n \in Nat, NEW out, Ages(s, u, n, out), NEW x \in Tasks \ out,
           NEW a \in TaskType, NEW b, Unmoved(a, b, n), InTime(s, x, a)
    PROVE  InTime(u, x, b)
<1>1. Timed(u, x, b)
  BY TimedOn DEF Unmoved, InTime
<1>2. Where(b)
  <2>1. a.left \in Nat
    BY TaskFields
  <2>2. a.left = 0 => b.left = 0
    BY <2>1 DEF Unmoved, SameWait, Remaining
  <2> QED
    BY <2>2 DEF Unmoved, SameWait, InTime, Where
<1> QED
  BY <1>1, <1>2 DEF InTime

(* A step that leaves t as me, and the others where they were.              *)
LEMMA StepInTime ==
    ASSUME ListInv, TimeInv, NEW t \in Tasks, NEW me, Ages(k, k', 0, {t}),
           task' = [task EXCEPT ![t] = me], InTime(k', t, me)
    PROVE  TimeInv'
<1> SUFFICES ASSUME NEW x \in Tasks PROVE InTime(k', x, task'[x])
  BY DEF TimeInv
<1>0. task \in [Tasks -> TaskType]
  BY DEF ListInv
<1>1. CASE x = t
  BY <1>0, <1>1
<1>2. CASE x # t
  <2>1. task'[x] = task[x] /\ task[x] \in TaskType /\ InTime(k, x, task[x])
    BY <1>0, <1>2 DEF TimeInv
  <2>2. Unmoved(task[x], task'[x], 0)
    <3>1. Remaining(task[x].left, 0) = task[x].left
      BY <2>1, TaskFields, RemainingBoth
    <3> QED
      BY <2>1, <3>1 DEF Unmoved, SameWait
  <2> QED
    BY <1>2, <2>1, <2>2, OnInTime
<1> QED
  BY <1>1, <1>2

(* Outside of a call there is nothing to be early with.                     *)
LEMMA OutsideInTime ==
    ASSUME NEW s, NEW t PROVE InTime(s, t, Outside)
BY DEF Outside, InTime, Where, Timed

(* A call that is over while time stands still.                             *)
LEMMA ReturnInTime ==
    ASSUME ListInv, TimeInv, NEW t \in Tasks, Rests(k, k', {}), Return(t)
    PROVE  TimeInv'
<1>1. Ages(k, k', 0, {t})
  BY RestsMore, RestsAges
<1>2. task' = [task EXCEPT ![t] = Outside] /\ InTime(k', t, Outside)
  BY OutsideInTime DEF Return
<1> QED
  BY <1>1, <1>2, StepInTime

(* The scheduler stands still.                                              *)
LEMMA StillRests ==
    ASSUME NEW s, NEW u, u = s PROVE Rests(s, u, {})
BY DEF Rests

(* Who is woken by one that does not wait for the time.                     *)
LEMMA WakeAndYieldRests ==
    ASSUME ListInv, NEW event \in {"send", "receive"}, WakeAndYield(event)
    PROVE  Rests(k, k', {})
<1>0. Linked(k, {})
  BY DEF ListInv, Sound
<1>1. CASE k[event] = <<>>
  BY <1>1, StillRests DEF WakeAndYield
<1>2. CASE k[event] # <<>>
  <2>a. PICK r : r = RemoveFromEventList(k, event)
    OBVIOUS
  <2>1. Rests(k, r, {})
    BY <1>0, <1>2, <2>a, RemoveFromEventListRests
  <2>2. r \in KernelType
    <3>1. Linked(r, {})
      BY <1>2, <2>a, RemoveFromEventListKeeps DEF ListInv, Sound
    <3> QED
      BY <3>1 DEF Linked
  <2>3. k' = Yield(r)
    BY <1>2, <2>a DEF WakeAndYield
  <2>4. Rests(r, k', {})
    BY <2>2, <2>3, YieldRests
  <2> QED
    BY <2>1, <2>4, RestsTransitive
<1> QED
  BY <1>1, <1>2

(* A call begins ...                                                        *)
LEMMA BeginInTime ==
    ASSUME ListInv, TimeInv, NEW t \in Tasks, Begin(t) PROVE TimeInv'
<1>1. PICK c \in Calls[t] :
        task' = [task EXCEPT ![t] = [Outside EXCEPT !.pc = "top", !.op = c.op,
                                                    !.xTicksToWait = c.wait]]
  BY DEF Begin
<1>a. PICK me : me = [Outside EXCEPT !.pc = "top", !.op = c.op, !.xTicksToWait = c.wait]
  OBVIOUS
<1>2. me.pc = "top" /\ me.after = "again" /\ me.left = 0 /\ me.xEntryTimeSet = FALSE
  BY <1>a DEF Outside
<1>3. Running(t, "idle") /\ k' = k
  BY DEF Begin
<1>4. t \in ToSet(k.ready) /\ t \notin Waiting(k)
  BY <1>3, RunningIs DEF LeftPcs
<1>5. t \notin ToSet(k.delayed) /\ t \notin ToSet(k.overflow)
  BY <1>4 DEF ListInv, Sound, Linked
<1>6. Slept(k, t, 0)
  BY <1>5 DEF Slept
<1>7. InTime(k', t, me)
  BY <1>2, <1>3, <1>4, <1>6 DEF InTime, Where, Timed
<1>8. Ages(k, k', 0, {t})
  BY <1>3, StillRests, RestsMore, RestsAges
<1> QED
  BY <1>1, <1>7, <1>8, <1>a, StepInTime

(* ... and ends.                                                            *)
LEMMA EndInTime ==
    ASSUME ListInv, TimeInv, NEW t \in Tasks,
           Send(t) \/ Store(t) \/ Reset(t) \/ Refuse(t) \/ Back(t)
    PROVE  TimeInv'
<1>1. Return(t)
  BY DEF Send, Store, Reset, Refuse, Back
<1>2. WakeAndYield("receive") \/ WakeAndYield("send") \/ k' = k
  BY DEF Send, Store, Reset, Refuse, Back
<1>3. Rests(k, k', {})
  BY <1>2, WakeAndYieldRests, StillRests
<1> QED
  BY <1>1, <1>3, ReturnInTime

(* A statement of t that leaves its wait as it was: what remains to be seen *)
(* is where it goes.                                                        *)
LEMMA GoesInTime ==
    ASSUME ListInv, TimeInv, NEW t \in Tasks, Rests(k, k', {}), NEW me,
           task' = [task EXCEPT ![t] = me], Where(me),
           me.op = task[t].op, me.xTicksToWait = task[t].xTicksToWait,
           me.xTimeOut = task[t].xTimeOut, me.xEntryTimeSet = task[t].xEntryTimeSet,
           me.left = task[t].left
    PROVE  TimeInv'
<1>0. task[t] \in TaskType /\ Timed(k, t, task[t])
  BY DEF ListInv, TimeInv, InTime
<1>1. SameWait(task[t], me, 0)
  <2>1. Remaining(task[t].left, 0) = task[t].left
    BY <1>0, TaskFields, RemainingBoth
  <2> QED
    BY <2>1 DEF SameWait
<1>2. Ages(k, k', 0, {}) /\ Ages(k, k', 0, {t})
  BY RestsMore, RestsAges
<1>3. Timed(k', t, me)
  BY <1>0, <1>1, <1>2, TimedOn
<1> QED
  BY <1>2, <1>3, StepInTime DEF InTime

(* The receive that has found data.                                         *)
LEMMA ReceiveInTime ==
    ASSUME ListInv, TimeInv, NEW t \in Tasks, Receive(t) PROVE TimeInv'
<1>a. PICK me : me = [task[t] EXCEPT !.pc = "store"]
  OBVIOUS
<1>0. task \in [Tasks -> TaskType] /\ task[t] \in TaskType /\ Where(task[t])
  BY DEF ListInv, TimeInv, InTime
<1>1. /\ me.pc = "store" /\ me.after = task[t].after /\ me.op = task[t].op
      /\ me.xTicksToWait = task[t].xTicksToWait /\ me.xTimeOut = task[t].xTimeOut
      /\ me.xEntryTimeSet = task[t].xEntryTimeSet /\ me.left = task[t].left
  BY <1>0, <1>a, TaskFields
<1>2. task[t].pc = "top" /\ k' = k /\ task' = [task EXCEPT ![t] = me]
  BY <1>0, <1>a DEF Receive, Running, Goto
<1>3. Where(me)
  BY <1>0, <1>1, <1>2 DEF Where
<1>4. Rests(k, k', {})
  BY <1>2, StillRests
<1> QED
  BY <1>1, <1>2, <1>3, <1>4, GoesInTime

(* No tick has passed since this one.                                       *)
LEMMA ElapsedNow ==
    ASSUME ListInv PROVE Elapsed(k, TimeOutState(k)) = 0
<1>1. k.xTickCount \in 0..TickWrap - 1 /\ TickWrap \in Nat \ {0}
  BY SchedulerAssumption DEF ListInv, Sound, Linked, KernelType
<1>2. Elapsed(k, TimeOutState(k)) = (k.xTickCount - k.xTickCount) % TickWrap
  BY DEF TimeOutState, Elapsed
<1>3. Elapsed(k, TimeOutState(k)) = k.xTickCount - k.xTickCount
  BY <1>1, <1>2, ElapsedSince
<1> QED
  BY <1>1, <1>3

(* The time is noted: as much is left as will be waited.                    *)
LEMMA NoteTimeInTime ==
    ASSUME ListInv, TimeInv, NEW t \in Tasks, NoteTime(t) PROVE TimeInv'
<1>0. /\ task \in [Tasks -> TaskType] /\ task[t] \in TaskType /\ Where(task[t])
      /\ Timed(k, t, task[t])
  BY DEF ListInv, TimeInv, InTime
<1>1. task[t].pc = "top" /\ k' = k /\ task[t].op # "delay"
  BY DEF NoteTime, Running, Blocked
<1>2. Rests(k, k', {})
  BY <1>1, StillRests
<1>3. CASE task[t].xEntryTimeSet \/ task[t].xTicksToWait = portMAX_DELAY
  <2>a. PICK me : me = [task[t] EXCEPT !.pc = "suspend"]
    OBVIOUS
  <2>1. /\ me.pc = "suspend" /\ me.after = task[t].after /\ me.op = task[t].op
        /\ me.xTicksToWait = task[t].xTicksToWait /\ me.xTimeOut = task[t].xTimeOut
        /\ me.xEntryTimeSet = task[t].xEntryTimeSet /\ me.left = task[t].left
    BY <1>0, <2>a, TaskFields
  <2>2. task' = [task EXCEPT ![t] = me]
    BY <1>0, <1>3, <2>a DEF NoteTime, Goto
  <2>3. Where(me)
    BY <1>0, <1>1, <1>3, <2>1 DEF Where
  <2> QED
    BY <1>2, <2>1, <2>2, <2>3, GoesInTime
<1>4. CASE ~(task[t].xEntryTimeSet \/ task[t].xTicksToWait = portMAX_DELAY)
  <2>b. PICK now : now = TimeOutState(k)
    OBVIOUS
  <2>c. PICK ticks : ticks = task[t].xTicksToWait
    OBVIOUS
  <2>a. PICK me : me = [task[t] EXCEPT !.pc = "suspend", !.xEntryTimeSet = TRUE,
                                       !.xTimeOut = now, !.left = ticks]
    OBVIOUS
  <2>1. /\ me.pc = "suspend" /\ me.after = task[t].after /\ me.op = task[t].op
        /\ me.xTicksToWait = ticks /\ me.xTimeOut = now
        /\ me.xEntryTimeSet = TRUE /\ me.left = ticks
    BY <1>0, <2>a, <2>c, TaskFields
  <2>2. task' = [task EXCEPT ![t] = me]
    <3>1. task' = [task EXCEPT ![t].pc = "suspend", ![t].xEntryTimeSet = TRUE,
                                ![t].xTimeOut = now, ![t].left = ticks]
      BY <1>4, <2>b, <2>c DEF NoteTime
    <3> QED
      BY <1>0, <2>a, <3>1
  <2>3. Noted(k, now, ticks, ticks)
    <3>1. now.overflows = k.xNumOfOverflows /\ now.entering = k.xTickCount
      BY <2>b DEF TimeOutState
    <3>3. Elapsed(k, now) = 0
      BY <2>b, ElapsedNow
    <3>4. ticks \in Nat
      BY <1>0, <2>c, TaskFields
    <3>5. ticks + Elapsed(k, now) <= ticks
      BY <3>3, <3>4
    <3> QED
      BY <3>1, <3>5 DEF Noted
  <2>4. Where(me)
    BY <1>0, <1>1, <2>1 DEF Where
  <2>5. Timed(k', t, me)
    BY <1>1, <2>1, <2>3 DEF Timed
  <2>6. Ages(k, k', 0, {t})
    BY <1>2, RestsMore, RestsAges
  <2> QED
    BY <2>2, <2>4, <2>5, <2>6, StepInTime DEF InTime
<1> QED
  BY <1>3, <1>4

(* vTaskSuspendAll, on the way to a wait.                                   *)
LEMMA SuspendAllInTime ==
    ASSUME ListInv, TimeInv, NEW t \in Tasks, SuspendAll(t) PROVE TimeInv'
<1>0. /\ task \in [Tasks -> TaskType] /\ task[t] \in TaskType /\ Where(task[t])
      /\ k \in KernelType
  BY DEF ListInv, TimeInv, InTime, Sound, Linked
<1>1. PICK p \in {"lock", "delay"} :
        /\ Goto(t, p)
        /\ p = "lock" => task[t].pc = "suspend"
        /\ p = "delay" => task[t].pc = "top" /\ task[t].op = "delay"
  BY DEF SuspendAll, Running
<1>a. PICK me : me = [task[t] EXCEPT !.pc = p]
  OBVIOUS
<1>2. /\ me.pc = p /\ me.after = task[t].after /\ me.op = task[t].op
      /\ me.xTicksToWait = task[t].xTicksToWait /\ me.xTimeOut = task[t].xTimeOut
      /\ me.xEntryTimeSet = task[t].xEntryTimeSet /\ me.left = task[t].left
  BY <1>0, <1>a, TaskFields
<1>3. task' = [task EXCEPT ![t] = me]
  BY <1>0, <1>1, <1>a DEF Goto
<1>4. Where(me)
  <2>1. task[t].after # "failed"
    BY <1>0, <1>1 DEF Where
  <2>2. CASE p = "lock"
    BY <1>0, <1>1, <1>2, <2>1, <2>2 DEF Where
  <2>3. CASE p = "delay"
    BY <1>1, <1>2, <2>1, <2>3 DEF Where
  <2> QED
    BY <2>2, <2>3
<1>5. Rests(k, k', {})
  <2>1. k' = [k EXCEPT !.uxSchedulerSuspended = 1]
    BY DEF SuspendAll
  <2>2. /\ k'.send = k.send /\ k'.receive = k.receive /\ k'.pending = k.pending
        /\ k'.delayed = k.delayed /\ k'.overflow = k.overflow /\ k'.value = k.value
        /\ k'.xTickCount = k.xTickCount /\ k'.xNumOfOverflows = k.xNumOfOverflows
    BY <1>0, <2>1, FieldsAre
  <2> QED
    BY <2>2, StillAges
<1> QED
  BY <1>2, <1>3, <1>4, <1>5, GoesInTime

(* prvLockQueue. *)
LEMMA LockInTime ==
    ASSUME ListInv, TimeInv, NEW t \in Tasks, Lock(t) PROVE TimeInv'
<1>a. PICK me : me = [task[t] EXCEPT !.pc = "timeout"]
  OBVIOUS
<1>0. task \in [Tasks -> TaskType] /\ task[t] \in TaskType /\ Where(task[t])
  BY DEF ListInv, TimeInv, InTime
<1>1. /\ me.pc = "timeout" /\ me.after = task[t].after /\ me.op = task[t].op
      /\ me.xTicksToWait = task[t].xTicksToWait /\ me.xTimeOut = task[t].xTimeOut
      /\ me.xEntryTimeSet = task[t].xEntryTimeSet /\ me.left = task[t].left
  BY <1>0, <1>a, TaskFields
<1>2. task[t].pc = "lock" /\ k' = k /\ task' = [task EXCEPT ![t] = me]
  BY <1>0, <1>a DEF Lock, Running, Goto
<1>3. Where(me)
  BY <1>0, <1>1, <1>2 DEF Where
<1>4. Rests(k, k', {})
  BY <1>2, StillRests
<1> QED
  BY <1>1, <1>2, <1>3, <1>4, GoesInTime

(* prvIsQueueFull, prvIsQueueEmpty. *)
LEMMA CheckInTime ==
    ASSUME ListInv, TimeInv, NEW t \in Tasks, Check(t) PROVE TimeInv'
<1>0. task \in [Tasks -> TaskType] /\ task[t] \in TaskType /\ Where(task[t])
  BY DEF ListInv, TimeInv, InTime
<1>1. PICK p \in {"place", "unlockTx"}, a \in {"yield", "again"} :
        task' = [task EXCEPT ![t].pc = p, ![t].after = a]
  BY DEF Check
<1>a. PICK me : me = [task[t] EXCEPT !.pc = p, !.after = a]
  OBVIOUS
<1>2. /\ me.pc = p /\ me.after = a /\ me.op = task[t].op
      /\ me.xTicksToWait = task[t].xTicksToWait /\ me.xTimeOut = task[t].xTimeOut
      /\ me.xEntryTimeSet = task[t].xEntryTimeSet /\ me.left = task[t].left
  BY <1>0, <1>a, TaskFields
<1>3. k' = k /\ task' = [task EXCEPT ![t] = me]
  BY <1>0, <1>1, <1>a DEF Check
<1>4. Where(me)
  BY <1>1, <1>2 DEF Where
<1>5. Rests(k, k', {})
  BY <1>3, StillRests
<1> QED
  BY <1>2, <1>3, <1>4, <1>5, GoesInTime

(* The time-out is found out, or what is left to wait is less.              *)
LEMMA CheckForTimeOutInTime ==
    ASSUME ListInv, TimeInv, NEW t \in Tasks, CheckForTimeOut(t) PROVE TimeInv'
<1>0. /\ task \in [Tasks -> TaskType] /\ task[t] \in TaskType /\ Where(task[t])
      /\ Timed(k, t, task[t])
  BY DEF ListInv, TimeInv, InTime
<1>1. task[t].pc = "timeout" /\ k' = k
  BY DEF CheckForTimeOut, Running
<1>2. Rests(k, k', {})
  BY <1>1, StillRests
<1>a. PICK entry : entry = task[t].xTimeOut
  OBVIOUS
<1>b. PICK ticks : ticks = task[t].xTicksToWait
  OBVIOUS
<1>c. PICK l : l = task[t].left
  OBVIOUS
<1>d. PICK e : e = Elapsed(k, entry)
  OBVIOUS
<1>3. /\ entry \in EntryType /\ ticks \in Nat /\ l \in Nat /\ e \in 0..TickWrap - 1
  <2>1. entry \in [overflows : 0..OverflowWrap - 1, entering : 0..TickWrap - 1]
    BY <1>0, <1>a, TaskFields DEF EntryType
  <2> QED
    BY <1>0, <1>a, <1>b, <1>c, <1>d, <2>1, TaskFields, ElapsedIs
<1>4. ticks # portMAX_DELAY
        => task[t].xEntryTimeSet /\ task[t].op # "delay" /\ Noted(k, entry, ticks, l)
  BY <1>0, <1>1, <1>a, <1>b, <1>c DEF Where, Timed
<1>5. CASE TimedOut(k, entry, ticks)
  <2>a. PICK me : me = [task[t] EXCEPT !.pc = "unlockTx", !.after = "failed"]
    OBVIOUS
  <2>1. /\ me.pc = "unlockTx" /\ me.after = "failed" /\ me.op = task[t].op
        /\ me.xTicksToWait = task[t].xTicksToWait /\ me.xTimeOut = task[t].xTimeOut
        /\ me.xEntryTimeSet = task[t].xEntryTimeSet /\ me.left = task[t].left
    BY <1>0, <2>a, TaskFields
  <2>2. task' = [task EXCEPT ![t] = me]
    BY <1>0, <1>5, <1>a, <1>b, <2>a DEF CheckForTimeOut
  <2>3. l = 0
    <3>1. ticks # portMAX_DELAY
      BY <1>5 DEF TimedOut
    <3>2. Noted(k, entry, ticks, l)
      BY <1>4, <3>1
    <3>3. CASE k.xNumOfOverflows # entry.overflows /\ k.xTickCount >= entry.entering
      BY <3>2, <3>3 DEF Noted
    <3>4. CASE e >= ticks
      <4>1. l = 0 \/ l + e <= ticks
        BY <3>2, <1>d DEF Noted
      <4> QED
        BY <1>3, <3>4, <4>1, SchedulerAssumption
    <3> QED
      BY <1>5, <1>d, <3>3, <3>4 DEF TimedOut
  <2>4. Where(me)
    BY <1>c, <2>1, <2>3 DEF Where
  <2> QED
    BY <1>2, <2>1, <2>2, <2>4, GoesInTime
<1>6. CASE ~TimedOut(k, entry, ticks) /\ ticks = portMAX_DELAY
  <2>a. PICK me : me = [task[t] EXCEPT !.pc = "check"]
    OBVIOUS
  <2>1. /\ me.pc = "check" /\ me.after = task[t].after /\ me.op = task[t].op
        /\ me.xTicksToWait = task[t].xTicksToWait /\ me.xTimeOut = task[t].xTimeOut
        /\ me.xEntryTimeSet = task[t].xEntryTimeSet /\ me.left = task[t].left
    BY <1>0, <2>a, TaskFields
  <2>2. task' = [task EXCEPT ![t] = me]
    BY <1>0, <1>6, <1>a, <1>b, <2>a DEF CheckForTimeOut, Goto
  <2>3. Where(me)
    BY <1>0, <1>1, <2>1 DEF Where
  <2> QED
    BY <1>2, <2>1, <2>2, <2>3, GoesInTime
<1>7. CASE ~TimedOut(k, entry, ticks) /\ ticks # portMAX_DELAY
  <2>b. PICK now : now = TimeOutState(k)
    OBVIOUS
  <2>c. PICK rest : rest = ticks - e
    OBVIOUS
  <2>a. PICK me : me = [task[t] EXCEPT !.pc = "check", !.xTimeOut = now, !.xTicksToWait = rest]
    OBVIOUS
  <2>1. /\ me.pc = "check" /\ me.after = task[t].after /\ me.op = task[t].op
        /\ me.xTicksToWait = rest /\ me.xTimeOut = now
        /\ me.xEntryTimeSet = task[t].xEntryTimeSet /\ me.left = l
    BY <1>0, <1>c, <2>a, TaskFields
  <2>2. task' = [task EXCEPT ![t] = me]
    <3>1. task' = [task EXCEPT ![t].pc = "check", ![t].xTimeOut = now, ![t].xTicksToWait = @ - e]
      BY <1>7, <1>a, <1>b, <1>d, <2>b DEF CheckForTimeOut
    <3> QED
      BY <1>0, <1>b, <2>a, <2>c, <3>1
  <2>3. Noted(k, now, rest, l)
    <3>1. now.overflows = k.xNumOfOverflows /\ now.entering = k.xTickCount
      BY <2>b DEF TimeOutState
    <3>2. Elapsed(k, now) = 0
      BY <2>b, ElapsedNow
    <3>3. l = 0 \/ l + e <= ticks
      BY <1>4, <1>7, <1>d DEF Noted
    <3>4. l = 0 \/ l + Elapsed(k, now) <= rest
      BY <1>3, <2>c, <3>2, <3>3, SchedulerAssumption
    <3> QED
      BY <3>1, <3>4 DEF Noted
  <2>4. Where(me)
    BY <1>0, <1>1, <2>1 DEF Where
  <2>5. Timed(k', t, me)
    BY <1>1, <1>4, <1>7, <2>1, <2>3 DEF Timed
  <2>6. Ages(k, k', 0, {t})
    BY <1>2, RestsMore, RestsAges
  <2> QED
    BY <2>2, <2>4, <2>5, <2>6, StepInTime DEF InTime
<1> QED
  BY <1>5, <1>6, <1>7

(* It is put among those that wait for the event.                           *)
LEMMA PlaceInTime ==
    ASSUME ListInv, TimeInv, NEW t \in Tasks, Place(t) PROVE TimeInv'
<1>a. PICK me : me = [task[t] EXCEPT !.pc = "unlockTx"]
  OBVIOUS
<1>0. /\ task \in [Tasks -> TaskType] /\ task[t] \in TaskType /\ Where(task[t])
      /\ Timed(k, t, task[t])
  BY DEF ListInv, TimeInv, InTime
<1>1. /\ me.pc = "unlockTx" /\ me.after = task[t].after /\ me.op = task[t].op
      /\ me.xTicksToWait = task[t].xTicksToWait /\ me.xTimeOut = task[t].xTimeOut
      /\ me.xEntryTimeSet = task[t].xEntryTimeSet /\ me.left = task[t].left
  BY <1>0, <1>a, TaskFields
<1>2. /\ Running(t, "place") /\ task' = [task EXCEPT ![t] = me]
      /\ k' = PlaceOnEventList(k, t, task[t].op, task[t].xTicksToWait)
  BY <1>0, <1>a DEF Place, Goto
<1>3. /\ task[t].op \in {"send", "receive"} /\ task[t].xTicksToWait > 0 /\ task[t].pc = "place"
  BY <1>2 DEF ListInv, InWait, Running
<1>4. t \notin Waiting(k)
  BY <1>2, RunningIs DEF LeftPcs
<1>b. PICK event \in {"send", "receive"} : event = task[t].op
  BY <1>3
<1>c. PICK ticks \in 1..TickWrap - 1 : ticks = task[t].xTicksToWait
  BY <1>0, <1>3, SchedulerAssumption DEF TaskType, portMAX_DELAY
<1>5. Rests(k, k', {t})
  <2>1. /\ Linked(k, {}) /\ Due(k, 1) /\ Looked(k)
        /\ k' = PlaceOnEventList(k, t, event, ticks)
    BY <1>2, <1>b, <1>c DEF ListInv, Sound
  <2> QED
    BY <1>4, <2>1, PlaceOnEventListRests
<1>6. Ages(k, k', 0, {t})
  BY <1>5, RestsAges
<1>7. Where(me)
  BY <1>0, <1>1, <1>3 DEF Where
<1>8. Timed(k', t, me)
  <2>1. ASSUME me.xEntryTimeSet PROVE Noted(k', me.xTimeOut, me.xTicksToWait, me.left)
    <3>1. Noted(k, me.xTimeOut, me.xTicksToWait, me.left)
      BY <1>0, <1>1, <2>1 DEF Timed
    <3>2. k'.xTickCount = k.xTickCount /\ k'.xNumOfOverflows = k.xNumOfOverflows
      BY <1>5 DEF Rests
    <3> QED
      BY <3>1, <3>2 DEF Noted, Elapsed
  <2> QED
    BY <1>1, <1>3, <2>1 DEF Timed
<1> QED
  BY <1>2, <1>6, <1>7, <1>8, StepInTime DEF InTime

(* It goes to sleep for as many ticks as are left.                          *)
LEMMA SleepInTime ==
    ASSUME ListInv, TimeInv, NEW t \in Tasks, Sleep(t) PROVE TimeInv'
<1>0. /\ task \in [Tasks -> TaskType] /\ task[t] \in TaskType /\ Where(task[t])
      /\ Timed(k, t, task[t])
  BY DEF ListInv, TimeInv, InTime
<1>1. Running(t, "delay") /\ k' = Delay(k, t, task[t].xTicksToWait) /\ task[t].xTicksToWait > 0
  BY DEF Sleep, ListInv, InWait, Running
<1>c. PICK ticks \in 1..TickWrap - 1 : ticks = task[t].xTicksToWait
  BY <1>0, <1>1, SchedulerAssumption DEF TaskType, portMAX_DELAY
<1>a. PICK me : me = [task[t] EXCEPT !.pc = "resume", !.after = "yield", !.left = ticks]
  OBVIOUS
<1>2. /\ me.pc = "resume" /\ me.after = "yield" /\ me.op = task[t].op
      /\ me.xTicksToWait = task[t].xTicksToWait /\ me.xTimeOut = task[t].xTimeOut
      /\ me.xEntryTimeSet = task[t].xEntryTimeSet /\ me.left = ticks
  BY <1>0, <1>a, TaskFields
<1>3. task' = [task EXCEPT ![t] = me]
  <2>1. task' = [task EXCEPT ![t].pc = "resume", ![t].after = "yield", ![t].left = ticks]
    BY <1>c DEF Sleep
  <2> QED
    BY <1>0, <1>a, <2>1
<1>4. task[t].op = "delay" /\ ~task[t].xEntryTimeSet
  BY <1>0, <1>1 DEF Where, Timed, Running
<1>5. t \notin Waiting(k)
  BY <1>1, RunningIs DEF LeftPcs
<1>6. /\ Linked(k, {}) /\ Due(k, 1) /\ Looked(k) /\ k' = Delay(k, t, ticks)
  BY <1>1, <1>c DEF ListInv, Sound
<1>7. Rests(k, k', {t}) /\ Slept(k', t, ticks)
  BY <1>6, DelayRests
<1>8. t \notin Waiting(k')
  <2>1. k'.pending = k.pending /\ k'.send = k.send /\ k'.receive = k.receive
    BY <1>5, <1>6, DelayKeeps
  <2> QED
    BY <1>5, <2>1 DEF Waiting
<1>9. Where(me)
  BY <1>2 DEF Where
<1>10. Timed(k', t, me)
  BY <1>2, <1>4, <1>7, <1>8 DEF Timed
<1>11. Ages(k, k', 0, {t})
  BY <1>7, RestsAges
<1> QED
  BY <1>3, <1>9, <1>10, <1>11, StepInTime DEF InTime

(* prvUnlockQueue wakes those that wait for the queue.                      *)
LEMMA WokenRests ==
    ASSUME Sound(k, 1), Looked(k), NEW event \in {"send", "receive"}, NEW n \in Nat,
           NEW u, u = Woken(n, event)
    PROVE  Rests(k, u, {})
<1> DEFINE Good(s) == Sound(s, 1) /\ Looked(s) /\ Rests(k, s, {})
           P == {p \in (0..n) \X KernelType : Good(p[2])}
<1>1. PICK f : /\ f[0] = k
               /\ \A i \in 1..n : f[i] = IF f[i - 1][event] = <<>> THEN f[i - 1]
                                         ELSE RemoveFromEventList(f[i - 1], event)
               /\ Woken(n, event) = f[n]
  BY WokenRounds
<1>2. <<0, f[0]>> \in P
  <2>1. Good(k) /\ k \in KernelType
    BY StillRests DEF Sound, Linked
  <2> QED
    BY <1>1, <2>1
<1>3. ASSUME NEW i \in 1..n, <<i - 1, f[i - 1]>> \in P PROVE <<i, f[i]>> \in P
  <2>a. PICK s : s = f[i - 1]
    OBVIOUS
  <2>b. PICK v : v = f[i]
    OBVIOUS
  <2>1. /\ Good(s) /\ s \in KernelType
        /\ v = IF s[event] = <<>> THEN s ELSE RemoveFromEventList(s, event)
    BY <1>1, <1>3, <2>a, <2>b
  <2>2. Good(v)
    <3>1. CASE s[event] = <<>>
      BY <2>1, <3>1
    <3>2. CASE s[event] # <<>>
      <4>1. Sound(v, 1) /\ Looked(v)
        BY <2>1, <3>2, RemoveFromEventListKeeps DEF Sound
      <4>2. Rests(s, v, {})
        BY <2>1, <3>2, RemoveFromEventListRests DEF Sound
      <4> QED
        BY <2>1, <4>1, <4>2, RestsTransitive
    <3> QED
      BY <3>1, <3>2
  <2>3. v \in KernelType /\ i \in 0..n
    BY <2>2 DEF Sound, Linked
  <2> QED
    BY <2>b, <2>2, <2>3
<1>4. <<n, f[n]>> \in P
  <2> HIDE DEF P
  <2> QED
    BY <1>2, <1>3, LoopKeeps
<1> QED
  BY <1>1, <1>4

(* It does so while time stands still.                                      *)
LEMMA UnlockInTime ==
    ASSUME ListInv, TimeInv, NEW t \in Tasks, UnlockTx(t) \/ UnlockRx(t) PROVE TimeInv'
<1>0. task \in [Tasks -> TaskType] /\ task[t] \in TaskType /\ Where(task[t])
  BY DEF ListInv, TimeInv, InTime
<1>1. /\ Sound(k, 1) /\ Looked(k)
      /\ xTxLock \in -1..MaxMeanwhile /\ xRxLock \in -1..MaxMeanwhile
      /\ MaxMeanwhile \in Nat
  BY KernelAssumption DEF ListInv, QueueType
<1>2. PICK p \in {"unlockRx", "resume"} :
        Goto(t, p) /\ task[t].pc \in {"unlockTx", "unlockRx"}
  BY DEF UnlockTx, UnlockRx, Running
<1>3. Rests(k, k', {})
  <2>1. CASE UnlockTx(t)
    <3>1. k' = Woken(xTxLock, "receive")
      BY <2>1 DEF UnlockTx
    <3>2. xTxLock >= 0
      BY <2>1 DEF UnlockTx, ListInv, InWait, Running
    <3>3. xTxLock \in Nat
      BY <1>1, <3>2
    <3> QED
      BY <1>1, <3>1, <3>3, WokenRests
  <2>2. CASE UnlockRx(t)
    <3>1. k' = Woken(xRxLock, "send")
      BY <2>2 DEF UnlockRx
    <3>2. xRxLock >= 0
      BY <2>2 DEF UnlockRx, ListInv, InWait, Running
    <3>3. xRxLock \in Nat
      BY <1>1, <3>2
    <3> QED
      BY <1>1, <3>1, <3>3, WokenRests
  <2> QED
    BY <2>1, <2>2
<1>a. PICK me : me = [task[t] EXCEPT !.pc = p]
  OBVIOUS
<1>4. /\ me.pc = p /\ me.after = task[t].after /\ me.op = task[t].op
      /\ me.xTicksToWait = task[t].xTicksToWait /\ me.xTimeOut = task[t].xTimeOut
      /\ me.xEntryTimeSet = task[t].xEntryTimeSet /\ me.left = task[t].left
  BY <1>0, <1>a, TaskFields
<1>5. task' = [task EXCEPT ![t] = me]
  BY <1>0, <1>2, <1>a DEF Goto
<1>6. Where(me)
  BY <1>0, <1>2, <1>4 DEF Where
<1> QED
  BY <1>3, <1>4, <1>5, <1>6, GoesInTime

(* It yields, and is on its way back.                                       *)
LEMMA YieldNowInTime ==
    ASSUME ListInv, TimeInv, NEW t \in Tasks, YieldNow(t) PROVE TimeInv'
<1>0. /\ task \in [Tasks -> TaskType] /\ task[t] \in TaskType /\ Where(task[t])
      /\ k \in KernelType
  BY DEF ListInv, TimeInv, InTime, Sound, Linked
<1>b. PICK p \in {"back", "top"} : p = Then(t)
  BY DEF Then
<1>a. PICK me : me = [task[t] EXCEPT !.pc = p, !.after = "again"]
  OBVIOUS
<1>1. /\ me.pc = p /\ me.after = "again" /\ me.op = task[t].op
      /\ me.xTicksToWait = task[t].xTicksToWait /\ me.xTimeOut = task[t].xTimeOut
      /\ me.xEntryTimeSet = task[t].xEntryTimeSet /\ me.left = task[t].left
  BY <1>0, <1>a, TaskFields
<1>2. task' = [task EXCEPT ![t] = me]
  <2>1. task' = [task EXCEPT ![t].pc = p, ![t].after = "again"]
    BY <1>b DEF YieldNow
  <2> QED
    BY <1>0, <1>a, <2>1
<1>3. Rests(k, k', {})
  BY <1>0, YieldRests DEF YieldNow
<1>4. Where(me)
  BY <1>b, <1>1 DEF Where, Then
<1> QED
  BY <1>1, <1>2, <1>3, <1>4, GoesInTime

(* Of what is left, n ticks have passed; nothing else of a task changes.    *)
LEMMA PassedUnmoved ==
    ASSUME NEW tasks \in [Tasks -> TaskType], NEW n \in Nat, NEW x \in Tasks
    PROVE  Unmoved(tasks[x], Passed(tasks, n)[x], n)
<1>a. PICK a : a = tasks[x]
  OBVIOUS
<1>b. PICK l : l = Remaining(a.left, n)
  OBVIOUS
<1>1. a \in TaskType
  BY <1>a
<1>2. Passed(tasks, n)[x] = [a EXCEPT !.left = l]
  BY <1>a, <1>b DEF Passed, Remaining
<1>c. PICK b : b = [a EXCEPT !.left = l]
  OBVIOUS
<1>3. /\ b.op = a.op /\ b.xTicksToWait = a.xTicksToWait /\ b.xTimeOut = a.xTimeOut
      /\ b.xEntryTimeSet = a.xEntryTimeSet /\ b.left = l /\ b.pc = a.pc /\ b.after = a.after
  BY <1>1, <1>c, TaskFields
<1> QED
  BY <1>a, <1>b, <1>2, <1>3, <1>c DEF Unmoved, SameWait

(* Ticks that are counted for everybody who is in time.                     *)
LEMMA PassedInTime ==
    ASSUME ListInv, TimeInv, NEW n \in Nat, Ages(k, k', n, {}), task' = Passed(task, n)
    PROVE  TimeInv'
<1> SUFFICES ASSUME NEW x \in Tasks PROVE InTime(k', x, task'[x])
  BY DEF TimeInv
<1>1. task \in [Tasks -> TaskType] /\ task[x] \in TaskType /\ InTime(k, x, task[x])
  BY DEF ListInv, TimeInv
<1>2. Unmoved(task[x], task'[x], n)
  BY <1>1, PassedUnmoved
<1> QED
  BY <1>1, <1>2, OnInTime

(* A step of an interrupt that stops the time.                              *)
LEMMA RestsInTime ==
    ASSUME ListInv, TimeInv, Rests(k, k', {}), task' = task
    PROVE  TimeInv'
<1> SUFFICES ASSUME NEW x \in Tasks PROVE InTime(k', x, task'[x])
  BY DEF TimeInv
<1>1. task[x] \in TaskType /\ InTime(k, x, task[x])
  BY DEF ListInv, TimeInv
<1>2. Unmoved(task[x], task'[x], 0)
  <2>1. Remaining(task[x].left, 0) = task[x].left
    BY <1>1, TaskFields, RemainingBoth
  <2> QED
    BY <2>1 DEF Unmoved, SameWait
<1>3. Ages(k, k', 0, {})
  BY RestsAges
<1> QED
  BY <1>1, <1>2, <1>3, OnInTime

(* The scheduler goes on: the pended ticks count for all.                   *)
LEMMA ResumeInTime ==
    ASSUME ListInv, TimeInv, NEW t \in Tasks, Resume(t) PROVE TimeInv'
<1>0. /\ task \in [Tasks -> TaskType] /\ task[t] \in TaskType /\ Where(task[t])
      /\ Timed(k, t, task[t])
  BY DEF ListInv, TimeInv, InTime
<1>a. PICK me : me = CASE task[t].after = "failed" -> Outside
                       [] task[t].after = "yield" /\ ~k'.pendSV -> [task[t] EXCEPT !.pc = "yield"]
                       [] OTHER -> [task[t] EXCEPT !.pc = Then(t), !.after = "again"]
  OBVIOUS
<1>b. PICK n \in Nat : n = k.uxPendedTicks
  BY DEF ListInv, Sound, Linked, KernelType
<1>c. PICK p \in {"back", "top"} : p = Then(t)
  BY DEF Then
<1>d. PICK tasks : tasks = [task EXCEPT ![t] = me]
  OBVIOUS
<1>1. Ages(k, k', n, {})
  <2>1. k' = ResumeAll(k) /\ Sound(k, 1) /\ Looked(k)
    BY DEF Resume, ListInv
  <2> QED
    BY <1>b, <2>1, ResumeAllAges
<1>2. task' = Passed(tasks, n)
  BY <1>a, <1>b, <1>d DEF Resume
<1>3. \/ me = Outside
      \/ me = [task[t] EXCEPT !.pc = "yield"] /\ task[t].after = "yield"
      \/ me = [task[t] EXCEPT !.pc = p, !.after = "again"]
  BY <1>a, <1>c
<1>4. me \in TaskType
  <2>1. ASSUME me = [task[t] EXCEPT !.pc = "yield"] PROVE me \in TaskType
    BY <1>0, <2>1 DEF TaskType, PCs
  <2>2. ASSUME me = [task[t] EXCEPT !.pc = p, !.after = "again"] PROVE me \in TaskType
    BY <1>0, <1>c, <2>2, ZenonT(60) DEF TaskType, PCs
  <2> QED
    BY <1>3, <2>1, <2>2, OutsideIs
<1>5. tasks \in [Tasks -> TaskType] /\ tasks[t] = me /\ \A x \in Tasks \ {t} : tasks[x] = task[x]
  BY <1>0, <1>4, <1>d
<1>6. InTime(k, t, me)
  <2>1. CASE me = Outside
    BY <2>1, OutsideInTime
  <2>2. CASE me = [task[t] EXCEPT !.pc = "yield"] /\ task[t].after = "yield"
    <3>1. /\ me.pc = "yield" /\ me.after = "yield" /\ me.op = task[t].op
          /\ me.xTicksToWait = task[t].xTicksToWait /\ me.xTimeOut = task[t].xTimeOut
          /\ me.xEntryTimeSet = task[t].xEntryTimeSet /\ me.left = task[t].left
      BY <1>0, <2>2, TaskFields
    <3> QED
      BY <1>0, <3>1 DEF InTime, Where, Timed
  <2>3. CASE me = [task[t] EXCEPT !.pc = p, !.after = "again"]
    <3>1. /\ me.pc = p /\ me.after = "again" /\ me.op = task[t].op
          /\ me.xTicksToWait = task[t].xTicksToWait /\ me.xTimeOut = task[t].xTimeOut
          /\ me.xEntryTimeSet = task[t].xEntryTimeSet /\ me.left = task[t].left
      BY <1>0, <2>3, TaskFields
    <3>2. Where(me)
      BY <1>c, <3>1 DEF Where, Then
    <3> QED
      BY <1>0, <3>1, <3>2 DEF InTime, Timed
  <2> QED
    BY <1>3, <2>1, <2>2, <2>3
<1> SUFFICES ASSUME NEW x \in Tasks PROVE InTime(k', x, task'[x])
  BY DEF TimeInv
<1>7. tasks[x] \in TaskType /\ InTime(k, x, tasks[x])
  <2>1. CASE x = t
    BY <1>4, <1>5, <1>6, <2>1
  <2>2. CASE x # t
    BY <1>0, <1>5, <2>2 DEF TimeInv
  <2> QED
    BY <2>1, <2>2
<1>8. Unmoved(tasks[x], task'[x], n)
  BY <1>2, <1>5, PassedUnmoved
<1> QED
  BY <1>1, <1>7, <1>8, OnInTime

(* A handler sends or receives, and may wake somebody.                      *)
LEMMA HandlerInTime ==
    ASSUME ListInv, TimeInv, SendFromISR \/ ReceiveFromISR PROVE TimeInv'
<1>1. task' = task /\ (WakeAndYield("receive") \/ WakeAndYield("send") \/ k' = k)
  BY DEF SendFromISR, ReceiveFromISR
<1>2. Rests(k, k', {})
  BY <1>1, WakeAndYieldRests, StillRests
<1> QED
  BY <1>1, <1>2, RestsInTime

(* A tick counts at once, or is pended.                                     *)
LEMMA TickInTime == ASSUME ListInv, TimeInv, Tick PROVE TimeInv'
<1>a. PICK r : r = IncrementTick(k)
  OBVIOUS
<1>b. PICK u : u = r.kernel
  OBVIOUS
<1>1. /\ Sound(k, 1) /\ Looked(k) /\ k.uxSchedulerSuspended \in {0, 1} /\ k \in KernelType
      /\ k.uxSchedulerSuspended = 0 => k.pending = <<>>
  BY DEF ListInv, Suspended, Sound, Linked, KernelType
<1>c. PICK n \in Nat : n = 1 - k.uxSchedulerSuspended
  BY <1>1
<1>2. Ages(k, u, n, {}) /\ Sound(u, 1)
  <2>1. CASE k.uxSchedulerSuspended = 1
    <3>1. r = [kernel |-> [k EXCEPT !.uxPendedTicks = @ + 1], switch |-> k.xYieldPending]
      BY <1>a, <2>1 DEF IncrementTick
    <3>2. u = [k EXCEPT !.uxPendedTicks = @ + 1]
      BY <1>b, <3>1
    <3>3. Sound(u, 1)
      BY <1>1, <3>2, PendIs
    <3>4. /\ u.send = k.send /\ u.receive = k.receive /\ u.pending = k.pending
          /\ u.delayed = k.delayed /\ u.overflow = k.overflow /\ u.value = k.value
          /\ u.xTickCount = k.xTickCount /\ u.xNumOfOverflows = k.xNumOfOverflows
      BY <1>1, <3>2, FieldsAre
    <3>5. Ages(k, u, 0, {})
      BY <3>4, StillAges
    <3>6. n = 0
      BY <1>c, <2>1
    <3> QED
      BY <3>3, <3>5, <3>6
  <2>2. CASE k.uxSchedulerSuspended = 0
    <3>1. Sound(u, 1)
      BY <1>1, <1>a, <1>b, <2>2, TickKeeps
    <3>2. Ages(k, u, 1, {})
      BY <1>1, <1>a, <1>b, <2>2, TickAges
    <3>3. n = 1
      BY <1>c, <2>2
    <3> QED
      BY <3>1, <3>2, <3>3
  <2> QED
    BY <1>1, <2>1, <2>2
<1>3. k' = u \/ k' = Yield(u)
  BY <1>a, <1>b DEF Tick
<1>4. Ages(u, k', 0, {})
  <2>1. u \in KernelType
    BY <1>2 DEF Sound, Linked
  <2>2. Rests(u, k', {})
    BY <1>3, <2>1, StillRests, YieldRests
  <2> QED
    BY <2>2, RestsAges
<1>5. Ages(k, k', n + 0, {})
  BY <1>2, <1>4, AgesThen
<1>6. task' = Passed(task, n) /\ n + 0 = n
  BY <1>c DEF Tick
<1> QED
  BY <1>5, <1>6, PassedInTime

(* The switch to the next task takes no time.                               *)
LEMMA PendSVInTime == ASSUME ListInv, TimeInv, PendSV PROVE TimeInv'
<1>1. task' = task /\ k' = SwitchContext(k) /\ k \in KernelType
  BY DEF PendSV, ListInv, Sound, Linked
<1>2. Rests(k, k', {})
  BY <1>1, SwitchContextRests
<1> QED
  BY <1>1, <1>2, RestsInTime

(* Where it all starts: nobody waits.                                       *)
LEMMA InitInTime == Init => TimeInv
<1> SUFFICES ASSUME Init, NEW t \in Tasks PROVE InTime(k, t, task[t])
  BY DEF TimeInv
<1>1. task[t] = Outside
  BY DEF Init
<1> QED
  BY <1>1, OutsideInTime

(* Together with that of the lists, the invariant is inductive.             *)
LEMMA NextInTime == ListInv /\ TimeInv /\ [Next]_vars => TimeInv'
<1> SUFFICES ASSUME ListInv, TimeInv, [Next]_vars PROVE TimeInv'
  OBVIOUS
<1>1. ASSUME NEW t \in Tasks, Step(t) PROVE TimeInv'
  BY <1>1, BeginInTime, EndInTime, ReceiveInTime, NoteTimeInTime, SuspendAllInTime, LockInTime,
     CheckForTimeOutInTime, CheckInTime, PlaceInTime, UnlockInTime, SleepInTime, ResumeInTime,
     YieldNowInTime DEF Step
<1>2. CASE SendFromISR \/ ReceiveFromISR
  BY <1>2, HandlerInTime
<1>3. CASE Tick
  BY <1>3, TickInTime
<1>4. CASE PendSV
  BY <1>4, PendSVInTime
<1>5. CASE UNCHANGED vars
  <2>1. k' = k /\ task' = task
    BY <1>5 DEF vars
  <2> QED
    BY <2>1, StillRests, RestsInTime
<1> QED
  BY <1>1, <1>2, <1>3, <1>4, <1>5 DEF Next

(* It says of the end of a wait what the property does: a task back from    *)
(* vTaskDelay is ready, so it sleeps no more and nothing is left.           *)
LEMMA TimeInvIs == ListInv /\ TimeInv => NoEarlyTimeout
<1> SUFFICES ASSUME ListInv, TimeInv, NEW t \in Tasks,
                    task[t].after = "failed" \/ Running(t, "back")
             PROVE  task[t].left = 0
  BY DEF NoEarlyTimeout
<1>1. Where(task[t]) /\ Timed(k, t, task[t])
  BY DEF TimeInv, InTime
<1>2. CASE task[t].after = "failed"
  BY <1>1, <1>2 DEF Where
<1>3. CASE Running(t, "back")
  <2>1. t \in ToSet(k.ready) /\ task[t].pc = "back"
    BY <1>3, RunningIs DEF LeftPcs
  <2>2. Slept(k, t, task[t].left)
    BY <1>1, <2>1 DEF Where, Timed
  <2>3. t \notin ToSet(k.delayed) /\ t \notin ToSet(k.overflow)
    BY <2>1 DEF ListInv, Sound, Linked
  <2> QED
    BY <2>2, <2>3 DEF Slept
<1> QED
  BY <1>2, <1>3

(***************************************************************************)
(* No wait ends early, however long the tick count is and however often it *)
(* wraps: whoever reports a time-out after xTaskCheckForTimeOut (tasks.c,  *)
(* queue.c), or is back from vTaskDelay, has seen as many ticks as it      *)
(* asked for, those that were pended included.                             *)
(***************************************************************************)
THEOREM NoEarlyTimeoutCorrect == Spec => []NoEarlyTimeout
<1>1. Init => TimeInv
  BY InitInTime
<1>2. ListInv /\ TimeInv /\ [Next]_vars => TimeInv'
  BY NextInTime
<1>3. ListInv /\ TimeInv => NoEarlyTimeout
  BY TimeInvIs
<1> QED
  BY <1>1, <1>2, <1>3, ListInvariant, PTL DEF Spec

-----------------------------------------------------------------------------
(* The counter of the queue: the strengthening.                             *)

(* Every task is somewhere.                                                 *)
WithPc(tasks) == DOMAIN tasks = Tasks /\ \A t \in Tasks : "pc" \in DOMAIN tasks[t]

(* Nobody is in the critical section of a receive.                          *)
NobodyIn(tasks) == WithPc(tasks) /\ \A t \in Tasks : tasks[t].pc # "store"

RingType ==
    /\ pcWriteTo \in 0..uxLength - 1
    /\ pcReadFrom \in 0..uxLength - 1
    /\ uxMessagesWaiting \in 0..uxLength
    /\ loaded \in Int
    /\ WithPc(task)

(* n items lie between pointers w and r of the ring: their distance and n   *)
(* differ by whole turns.  Written without %, of which an addition on both  *)
(* sides says little to the provers.                                        *)
Holds(w, r, n) == w - r - 1 - n \in {0, -uxLength, -2 * uxLength}

(* Inside the critical section of a receive the pointer has moved already,  *)
(* and the counter is still what the section has read.                      *)
Counted ==
    /\ loaded = Nothing => Holds(pcWriteTo, pcReadFrom, uxMessagesWaiting)
    /\ loaded # Nothing => /\ loaded = uxMessagesWaiting /\ loaded > 0
                           /\ Holds(pcWriteTo, pcReadFrom, loaded - 1)

(* The task in the critical section is the one that runs, and no other.     *)
Inside ==
    /\ InCritical => k.pxCurrentTCB \in Tasks /\ task[k.pxCurrentTCB].pc = "store"
    /\ \A t \in Tasks : task[t].pc = "store" => InCritical /\ t = k.pxCurrentTCB

KernelInv == RingType /\ Counted /\ Inside

-----------------------------------------------------------------------------
(* The ring.                                                                *)

(* A pointer goes on by one place, or back to the first.                    *)
LEMMA UpOne ==
    ASSUME NEW p \in 0..uxLength - 1
    PROVE  Up(p) = IF p = uxLength - 1 THEN 0 ELSE p + 1
<1>1. uxLength \in Nat \ {0}
  BY KernelAssumption
<1>2. CASE p = uxLength - 1
  BY <1>1, <1>2, SMTT(30) DEF Up
<1>3. CASE p # uxLength - 1
  BY <1>1, <1>3, SMTT(30) DEF Up
<1> QED
  BY <1>2, <1>3

(* One item more is one place further for the writer ...                    *)
LEMMA HoldsMore ==
    ASSUME NEW w \in 0..uxLength - 1, NEW r \in 0..uxLength - 1,
           NEW n \in 0..uxLength - 1, Holds(w, r, n)
    PROVE  Up(w) \in 0..uxLength - 1 /\ Holds(Up(w), r, n + 1)
<1>1. uxLength \in Nat \ {0}
  BY KernelAssumption
<1> QED
  BY <1>1, UpOne DEF Holds

(* ... and one item less one place further for the reader.                  *)
LEMMA HoldsLess ==
    ASSUME NEW w \in 0..uxLength - 1, NEW r \in 0..uxLength - 1,
           NEW n \in 1..uxLength, Holds(w, r, n)
    PROVE  Up(r) \in 0..uxLength - 1 /\ Holds(w, Up(r), n - 1)
<1>1. uxLength \in Nat \ {0}
  BY KernelAssumption
<1> QED
  BY <1>1, UpOne DEF Holds

(* What Holds says in terms of %.                                           *)
LEMMA HoldsModulo ==
    ASSUME NEW w \in 0..uxLength - 1, NEW r \in 0..uxLength - 1,
           NEW n \in 0..uxLength, Holds(w, r, n)
    PROVE  (w - r - 1) % uxLength = n % uxLength
<1> DEFINE d == w - r - 1
<1>1. uxLength \in Nat \ {0} /\ d \in Int
  BY KernelAssumption
<1>2. n % uxLength = IF n = uxLength THEN 0 ELSE n
  BY <1>1, SMTT(30)
<1>3. d \in -uxLength..uxLength - 2 /\ (d = n \/ d = n - uxLength \/ d = n - 2 * uxLength)
  BY <1>1 DEF Holds
<1>4. d % uxLength = IF d >= 0 THEN d ELSE d + uxLength
  <2> HIDE DEF d
  <2>1. CASE d >= 0
    BY <1>1, <1>3, <2>1, SMTT(30)
  <2>2. CASE d < 0
    BY <1>1, <1>3, <2>2, SMTT(30)
  <2> QED
    BY <1>1, <2>1, <2>2
<1> QED
  BY <1>1, <1>2, <1>3, <1>4

-----------------------------------------------------------------------------
(* The steps.                                                               *)

LEMMA InitCounts == Init => KernelInv
<1> SUFFICES ASSUME Init PROVE KernelInv
  OBVIOUS
<1>1. uxLength \in Nat \ {0}
  BY KernelAssumption
<1>2. RingType
  BY <1>1 DEF Init, RingType, WithPc, Outside, Nothing
<1>3. Counted
  BY <1>1 DEF Init, Counted, Holds, Nothing
<1>4. Inside
  BY DEF Init, Inside, InCritical, Outside
<1> QED
  BY <1>2, <1>3, <1>4 DEF KernelInv

(* A step outside of a critical section that leaves the queue alone.        *)
LEMMA QueueUnmoved ==
    ASSUME KernelInv, ~InCritical, UNCHANGED <<ringVars, loaded>>, NobodyIn(task)'
    PROVE  KernelInv'
BY DEF KernelInv, RingType, Counted, Inside, InCritical, ringVars, NobodyIn

(* An item goes in, or comes out in one step.                               *)
LEMMA ItemIn ==
    ASSUME KernelInv, ~InCritical, Room, CopyDataToQueue, UNCHANGED loaded, NobodyIn(task)'
    PROVE  KernelInv'
<1>1. uxLength \in Nat \ {0}
  BY KernelAssumption
<1>2. uxMessagesWaiting \in 0..uxLength - 1 /\ Holds(pcWriteTo, pcReadFrom, uxMessagesWaiting)
  BY <1>1 DEF KernelInv, RingType, Counted, Room, InCritical
<1>3. /\ pcWriteTo' \in 0..uxLength - 1
      /\ Holds(pcWriteTo', pcReadFrom', uxMessagesWaiting')
  BY <1>2, HoldsMore DEF KernelInv, RingType, CopyDataToQueue
<1> QED
  BY <1>1, <1>2, <1>3 DEF KernelInv, RingType, Counted, Inside, InCritical, NobodyIn,
       CopyDataToQueue

LEMMA ItemOut ==
    ASSUME KernelInv, ~InCritical, Data, pcReadFrom' = Up(pcReadFrom),
           uxMessagesWaiting' = uxMessagesWaiting - 1, UNCHANGED <<pcWriteTo, loaded>>,
           NobodyIn(task)'
    PROVE  KernelInv'
<1>1. uxLength \in Nat \ {0}
  BY KernelAssumption
<1>2. uxMessagesWaiting \in 1..uxLength /\ Holds(pcWriteTo, pcReadFrom, uxMessagesWaiting)
  BY <1>1 DEF KernelInv, RingType, Counted, Data, InCritical
<1>3. /\ pcReadFrom' \in 0..uxLength - 1
      /\ Holds(pcWriteTo', pcReadFrom', uxMessagesWaiting')
  BY <1>2, HoldsLess DEF KernelInv, RingType
<1> QED
  BY <1>1, <1>2, <1>3 DEF KernelInv, RingType, Counted, Inside, InCritical, NobodyIn

(* In its critical section a receive first moves the pointer ...            *)
LEMMA ReceiveCounts ==
    ASSUME KernelInv, ~InCritical, NEW t \in Tasks, Receive(t)
    PROVE  KernelInv'
<1>1. uxLength \in Nat \ {0}
  BY KernelAssumption
<1>2. uxMessagesWaiting \in 1..uxLength /\ Holds(pcWriteTo, pcReadFrom, uxMessagesWaiting)
  BY <1>1 DEF KernelInv, RingType, Counted, Receive, Data, InCritical
<1>3. /\ pcReadFrom' \in 0..uxLength - 1
      /\ Holds(pcWriteTo', pcReadFrom', uxMessagesWaiting - 1)
  BY <1>2, HoldsLess DEF KernelInv, RingType, Receive
<1>4. WithPc(task)' /\ task'[t].pc = "store"
  BY DEF KernelInv, RingType, WithPc, Receive, Goto
<1>5. RingType'
  BY <1>2, <1>3, <1>4 DEF KernelInv, RingType, Receive
<1>6. Counted'
  BY <1>2, <1>3 DEF Counted, Receive, Nothing
<1>7. Inside'
  BY <1>2, <1>4 DEF Inside, InCritical, KernelInv, RingType, WithPc, Receive, Running, Goto,
       Nothing
<1> QED
  BY <1>5, <1>6, <1>7 DEF KernelInv

(* ... and then counts.                                                     *)
LEMMA StoreCounts ==
    ASSUME KernelInv, InCritical, NEW t \in Tasks, Store(t)
    PROVE  KernelInv'
<1>1. uxLength \in Nat \ {0}
  BY KernelAssumption
<1>2. loaded \in 1..uxLength /\ Holds(pcWriteTo, pcReadFrom, loaded - 1)
  BY <1>1 DEF KernelInv, RingType, Counted, InCritical
<1>3. NobodyIn(task)'
  BY DEF KernelInv, RingType, Inside, NobodyIn, WithPc, Store, Return, Outside
<1> QED
  BY <1>1, <1>2, <1>3 DEF KernelInv, RingType, Counted, Inside, InCritical, NobodyIn, Store,
     Nothing

LEMMA ResetCounts ==
    ASSUME KernelInv, ~InCritical, NEW t \in Tasks, Reset(t)
    PROVE  KernelInv'
<1>1. uxLength \in Nat \ {0}
  BY KernelAssumption
<1>2. NobodyIn(task)'
  BY DEF KernelInv, RingType, Inside, NobodyIn, WithPc, Reset, Return, Outside
<1>3. Holds(0, uxLength - 1, 0)
  BY <1>1 DEF Holds
<1> QED
  BY <1>1, <1>2, <1>3 DEF KernelInv, RingType, Counted, Inside, InCritical, NobodyIn, Reset

(* The ticks that pass move nobody.                                         *)
LEMMA PassedKeeps ==
    ASSUME NEW tasks, NobodyIn(tasks), NEW n
    PROVE  NobodyIn(Passed(tasks, n))
BY DEF NobodyIn, WithPc, Passed

(* The statements of a task that leave the queue alone.                     *)
LEMMA OtherStepsKeep ==
    ASSUME KernelInv, ~InCritical, NEW t \in Tasks,
           \/ Begin(t) \/ Refuse(t) \/ NoteTime(t) \/ SuspendAll(t) \/ Lock(t)
           \/ CheckForTimeOut(t) \/ Check(t) \/ Place(t) \/ UnlockTx(t) \/ UnlockRx(t)
           \/ Sleep(t) \/ Resume(t) \/ YieldNow(t) \/ Back(t)
    PROVE  KernelInv'
<1>0. NobodyIn(task)
  BY DEF KernelInv, RingType, Inside, NobodyIn
<1>1. CASE Refuse(t) \/ Back(t)
  BY <1>0, <1>1, QueueUnmoved DEF Refuse, Back, Return, Outside, WithPc, NobodyIn
<1>2. CASE NoteTime(t) \/ CheckForTimeOut(t)
  BY <1>0, <1>2, QueueUnmoved DEF NoteTime, CheckForTimeOut, Goto, WithPc, NobodyIn
<1>3. CASE SuspendAll(t) \/ Lock(t) \/ Check(t) \/ Place(t)
  BY <1>0, <1>3, QueueUnmoved DEF SuspendAll, Lock, Check, Place, Goto, WithPc, NobodyIn,
     ringVars
<1>4. CASE UnlockTx(t) \/ UnlockRx(t) \/ Sleep(t) \/ YieldNow(t)
  BY <1>0, <1>4, QueueUnmoved DEF UnlockTx, UnlockRx, Sleep, YieldNow, Goto, Then, WithPc, NobodyIn,
     ringVars
<1>5. CASE Resume(t)
  <2>1. PICK me : /\ "pc" \in DOMAIN me /\ me.pc # "store"
                  /\ task' = Passed([task EXCEPT ![t] = me], k.uxPendedTicks)
    BY <1>0, <1>5 DEF Resume, Outside, Then, WithPc, NobodyIn
  <2>2. NobodyIn([task EXCEPT ![t] = me])
    BY <1>0, <2>1 DEF WithPc, NobodyIn
  <2>3. NobodyIn(task)'
    BY <2>1, <2>2, PassedKeeps
  <2> QED
    BY <1>5, <2>3, QueueUnmoved DEF Resume
<1>6. CASE Begin(t)
  <2>1. PICK me : "pc" \in DOMAIN me /\ me.pc # "store" /\ task' = [task EXCEPT ![t] = me]
    BY <1>6 DEF Begin, Outside
  <2>2. NobodyIn(task)'
    BY <1>0, <2>1 DEF WithPc, NobodyIn
  <2> QED
    BY <1>6, <2>2, QueueUnmoved DEF Begin
<1> QED
  BY <1>1, <1>2, <1>3, <1>4, <1>5, <1>6

(* Nothing but the end of the critical section can come inside it.          *)
LEMMA OnlyStore ==
    ASSUME Masked, KernelInv, InCritical, Next
    PROVE  \E t \in Tasks : Store(t)
<1>1. k.pxCurrentTCB \in Tasks /\ task[k.pxCurrentTCB].pc = "store"
  BY DEF KernelInv, Inside
<1>2. ~(SendFromISR \/ ReceiveFromISR \/ Tick \/ PendSV)
  BY DEF SendFromISR, ReceiveFromISR, May, Tick, PendSV
<1>3. PICK t \in Tasks : Step(t)
  BY <1>2 DEF Next
<1>4. ASSUME NEW p, p # "store" PROVE ~Running(t, p)
  BY <1>1, <1>4, SMTT(60) DEF Running
<1>5. Store(t)
  BY <1>3, <1>4 DEF Step, Begin, Send, Receive, Reset, Refuse, NoteTime, SuspendAll, Lock,
       CheckForTimeOut, Check, Place, UnlockTx, UnlockRx, Sleep, Resume, YieldNow, Back
<1> QED
  BY <1>5

(* The invariant is inductive.                                             *)
LEMMA NextCounts ==
    ASSUME Masked, KernelInv, [Next]_vars
    PROVE  KernelInv'
<1>1. CASE UNCHANGED vars
  BY <1>1 DEF vars, ringVars, KernelInv, RingType, Counted, Inside, InCritical, WithPc
<1>2. CASE Next /\ InCritical
  BY <1>2, OnlyStore, StoreCounts
<1>3. CASE Next /\ ~InCritical
  <2>1. ASSUME NEW t \in Tasks, Send(t) PROVE KernelInv'
    <3>1. NobodyIn(task)'
      BY <1>3, <2>1 DEF KernelInv, RingType, Inside, NobodyIn, WithPc, Send, Return, Outside
    <3> QED
      BY <1>3, <2>1, <3>1, ItemIn DEF Send
  <2>2. ASSUME NEW t \in Tasks, Store(t) PROVE KernelInv'
    BY <1>3, <2>2 DEF Store, KernelInv, Inside
  <2>3. CASE SendFromISR
    BY <1>3, <2>3, ItemIn DEF SendFromISR, KernelInv, RingType, Inside, NobodyIn, WithPc
  <2>4. CASE ReceiveFromISR
    BY <1>3, <2>4, ItemOut DEF ReceiveFromISR, KernelInv, RingType, Inside, NobodyIn, WithPc
  <2>5. CASE Tick
    <3>1. NobodyIn(task)'
      BY <1>3, <2>5, PassedKeeps DEF Tick, KernelInv, RingType, Inside, NobodyIn
    <3> QED
      BY <1>3, <2>5, <3>1, QueueUnmoved DEF Tick
  <2>6. CASE PendSV
    BY <1>3, <2>6, QueueUnmoved DEF PendSV, KernelInv, RingType, Inside, NobodyIn, WithPc
  <2> QED
    BY <1>3, <2>1, <2>2, <2>3, <2>4, <2>5, <2>6, ReceiveCounts, ResetCounts, OtherStepsKeep
    DEF Next, Step
<1> QED
  BY <1>1, <1>2, <1>3

(* It holds, where the handlers are kept out.                              *)
LEMMA KernelInvariant == Masked => (Spec => []KernelInv)
<1> SUFFICES ASSUME Masked PROVE Spec => []KernelInv
  OBVIOUS
<1>1. Init => KernelInv
  BY InitCounts
<1>2. KernelInv /\ [Next]_vars => KernelInv'
  BY NextCounts
<1> QED
  BY <1>1, <1>2, PTL DEF Spec

(***************************************************************************)
(* If the critical sections keep the handlers out, the counter of a queue  *)
(* is the number of items between its pointers, whatever the queue's       *)
(* length, the tasks, their calls and the interrupts.  The UART handlers   *)
(* are not kept out (UART.c 252), and there it fails.                      *)
(***************************************************************************)
THEOREM CounterCorrect == Masked => (Spec => []CountsItems)
<1> SUFFICES ASSUME Masked PROVE Spec => []CountsItems
  OBVIOUS
<1>1. KernelInv => CountsItems
  BY HoldsModulo DEF KernelInv, RingType, Counted, CountsItems, InCritical
<1> QED
  BY <1>1, KernelInvariant, PTL

-----------------------------------------------------------------------------
(* Wake-ups: what is true between any two steps.                            *)

(* Where a task in a call is on its way to look at the queue (again).       *)
LookPcs == {"top", "store", "unlockTx", "unlockRx", "resume", "yield"}

Looks(me, op) == me.op = op /\ me.pc \in LookPcs /\ me.after # "failed"

(* Those that do, and need not be woken for it.                             *)
Looking(s, tasks, op) == { t \in Tasks : Looks(tasks[t], op) /\ t \notin ToSet(s[op]) }

(* One has seen that the queue is of no use, and is about to wait.          *)
Placing(tasks, op) == \E t \in Tasks : tasks[t].pc = "place" /\ tasks[t].op = op

(* The wake-ups that prvUnlockQueue still owes.                             *)
Owing(lock) == IF lock > 0 THEN lock ELSE 0

(* While somebody waits, or is about to, there is a task that looks or a    *)
(* wake-up that is owed for each of the n items, or places.                 *)
Promised(s, tasks, op, n, lock) ==
    ToSet(s[op]) # {} \/ Placing(tasks, op)
      => n <= Cardinality(Looking(s, tasks, op)) + Owing(lock)

(* Whoever waits will look when it is woken.                                *)
Listed(s, tasks, op) == \A t \in Tasks : t \in ToSet(s[op]) => Looks(tasks[t], op)

(* A task is in one of its calls, and takes an item only in a receive.      *)
InCall(t, me) ==
    /\ me.op = "none" \/ Makes(t, me.op)
    /\ me.pc = "store" => me.op = "receive"

(***************************************************************************)
(* The invariant of the wake-ups.  NoLostWakeup looks at an unlocked queue *)
(* only, and counts every task in the call that does not wait; what it     *)
(* says then rests on what a locked queue owes, and on those tasks only    *)
(* that have not been on their way to a wait since they last looked.       *)
(***************************************************************************)
WakeInv ==
    /\ Promised(k, task, "receive", uxMessagesWaiting, xTxLock)
    /\ Promised(k, task, "send", uxLength - uxMessagesWaiting, xRxLock)
    /\ Listed(k, task, "receive") /\ Listed(k, task, "send")
    /\ \A t \in Tasks : InCall(t, task[t])

-----------------------------------------------------------------------------
(* The promise.                                                             *)

(* There are finitely many tasks to count.                                  *)
LEMMA LookingIs ==
    ASSUME NEW s, NEW tasks, NEW op
    PROVE  /\ IsFiniteSet(Looking(s, tasks, op)) /\ Looking(s, tasks, op) \subseteq Tasks
           /\ Cardinality(Looking(s, tasks, op)) \in Nat
<1>1. Looking(s, tasks, op) \subseteq Tasks /\ IsFiniteSet(Tasks)
  BY SchedulerAssumption DEF Looking
<1>2. IsFiniteSet(Looking(s, tasks, op))
  BY <1>1, FS_Subset
<1> QED
  BY <1>1, <1>2, FS_CardinalityType

LEMMA OwingIs == ASSUME NEW l \in Int PROVE Owing(l) \in Nat
BY DEF Owing

(* Nothing is there, and nothing is promised.                               *)
LEMMA NonePromised ==
    ASSUME NEW s, NEW tasks, NEW op, NEW l \in Int
    PROVE  Promised(s, tasks, op, 0, l)
<1>1. Cardinality(Looking(s, tasks, op)) \in Nat /\ Owing(l) \in Nat
  BY LookingIs, OwingIs
<1> QED
  BY <1>1 DEF Promised

(* Nobody who looked stops looking, and no more is there than before.       *)
LEMMA MorePromise ==
    ASSUME NEW s, NEW u, NEW as, NEW bs, NEW op,
           NEW n \in Int, NEW m \in Int, NEW l \in Int, NEW j \in Int,
           Promised(s, as, op, n, l), Looking(s, as, op) \subseteq Looking(u, bs, op),
           ToSet(u[op]) # {} \/ Placing(bs, op) => ToSet(s[op]) # {} \/ Placing(as, op),
           m - Owing(j) <= n - Owing(l)
    PROVE  Promised(u, bs, op, m, j)
<1>a. PICK A : A = Looking(s, as, op)
  OBVIOUS
<1>b. PICK B : B = Looking(u, bs, op)
  OBVIOUS
<1>1. Cardinality(A) <= Cardinality(B) /\ Cardinality(A) \in Nat /\ Cardinality(B) \in Nat
  BY <1>a, <1>b, LookingIs, FS_Subset
<1> SUFFICES ASSUME ToSet(u[op]) # {} \/ Placing(bs, op)
             PROVE  m <= Cardinality(B) + Owing(j)
  BY <1>b DEF Promised
<1>2. n <= Cardinality(A) + Owing(l)
  BY <1>a DEF Promised
<1> QED
  BY <1>1, <1>2, OwingIs

(* The same, where nobody begins to wait.                                   *)
LEMMA SamePromise ==
    ASSUME NEW s, NEW u, NEW as, NEW bs, NEW op,
           NEW n \in Int, NEW m \in Int, NEW l \in Int, NEW j \in Int,
           Promised(s, as, op, n, l), ToSet(u[op]) \subseteq ToSet(s[op]),
           Placing(bs, op) => Placing(as, op),
           \A x \in Tasks : Looks(as[x], op) => Looks(bs[x], op),
           m - Owing(j) <= n - Owing(l)
    PROVE  Promised(u, bs, op, m, j)
<1>1. Looking(s, as, op) \subseteq Looking(u, bs, op)
  BY DEF Looking
<1>2. ToSet(u[op]) # {} \/ Placing(bs, op) => ToSet(s[op]) # {} \/ Placing(as, op)
  OBVIOUS
<1> QED
  BY <1>1, <1>2, MorePromise

(* Nobody but t stops looking, and nobody begins to wait.                   *)
OnlyLeaves(s, u, as, bs, op, t) ==
    /\ ToSet(u[op]) \subseteq ToSet(s[op]) /\ (Placing(bs, op) => Placing(as, op))
    /\ \A x \in Tasks \ {t} : Looks(as[x], op) => Looks(bs[x], op)

(* One who looked is gone, with what it was for.                            *)
LEMMA LeftPromise ==
    ASSUME NEW s, NEW u, NEW as, NEW bs, NEW op, NEW t, OnlyLeaves(s, u, as, bs, op, t),
           NEW n \in Int, NEW m \in Int, NEW l \in Int,
           Promised(s, as, op, n, l), m <= n - 1
    PROVE  Promised(u, bs, op, m, l)
<1>a. PICK A : A = Looking(s, as, op)
  OBVIOUS
<1>b. PICK B : B = Looking(u, bs, op)
  OBVIOUS
<1>1. A \ {t} \subseteq B
  BY <1>a, <1>b DEF Looking, OnlyLeaves
<1>2. IsFiniteSet(A) /\ Cardinality(A) \in Nat /\ IsFiniteSet(B) /\ Cardinality(B) \in Nat
  BY <1>a, <1>b, LookingIs
<1>3. Cardinality(A \ {t}) <= Cardinality(B)
  BY <1>1, <1>2, FS_Subset
<1>4. Cardinality(A) <= Cardinality(A \ {t}) + 1 /\ Cardinality(A \ {t}) \in Nat
  <2>1. CASE t \in A
    <3>1. Cardinality(A \ {t}) = Cardinality(A) - 1 /\ IsFiniteSet(A \ {t})
      BY <1>2, <2>1, FS_RemoveElement
    <3>2. Cardinality(A \ {t}) \in Nat
      BY <3>1, FS_CardinalityType
    <3> QED
      BY <1>2, <3>1, <3>2
  <2>2. CASE t \notin A
    <3>1. A \ {t} = A
      BY <2>2
    <3> QED
      BY <1>2, <3>1
  <2> QED
    BY <2>1, <2>2
<1> SUFFICES ASSUME ToSet(u[op]) # {} \/ Placing(bs, op)
             PROVE  m <= Cardinality(B) + Owing(l)
  BY <1>b DEF Promised
<1>5. n <= Cardinality(A) + Owing(l)
  BY <1>a DEF Promised, OnlyLeaves
<1> QED
  BY <1>2, <1>3, <1>4, <1>5, OwingIs

(* h, which waited for the event, is woken, and nobody else.                *)
FirstOut(s, u, event, h) ==
    /\ h \in Tasks /\ h \in ToSet(s[event]) /\ ToSet(u[event]) = ToSet(s[event]) \ {h}
    /\ \A op \in {"send", "receive"} : op # event => u[op] = s[op]

(* It looks, so that one more may be there, or one less be owed.            *)
LEMMA WokenPromise ==
    ASSUME NEW s, NEW u, NEW as, NEW bs, NEW event, NEW h, FirstOut(s, u, event, h),
           Listed(s, as, event), ~Placing(bs, event),
           NEW n \in Int, NEW m \in Int, NEW l \in Int, NEW j \in Int,
           Promised(s, as, event, n, l),
           \A x \in Tasks : Looks(as[x], event) => Looks(bs[x], event),
           m - Owing(j) <= n - Owing(l) + 1
    PROVE  Promised(u, bs, event, m, j)
<1>a. PICK A : A = Looking(s, as, event)
  OBVIOUS
<1>b. PICK B : B = Looking(u, bs, event)
  OBVIOUS
<1>1. h \in Tasks /\ h \in ToSet(s[event]) /\ ToSet(u[event]) = ToSet(s[event]) \ {h}
  BY DEF FirstOut
<1>2. h \notin A
  BY <1>1, <1>a DEF Looking
<1>3. A \cup {h} \subseteq B
  <2>1. A \subseteq B
    BY <1>1, <1>a, <1>b DEF Looking
  <2>2. h \in B
    BY <1>1, <1>b DEF Looking, Listed
  <2> QED
    BY <2>1, <2>2
<1>4. IsFiniteSet(A) /\ Cardinality(A) \in Nat /\ IsFiniteSet(B) /\ Cardinality(B) \in Nat
  BY <1>a, <1>b, LookingIs
<1>5. Cardinality(A \cup {h}) = Cardinality(A) + 1
  BY <1>2, <1>4, FS_AddElement
<1>6. Cardinality(A \cup {h}) <= Cardinality(B)
  BY <1>3, <1>4, FS_Subset
<1> SUFFICES ASSUME ToSet(u[event]) # {} PROVE m <= Cardinality(B) + Owing(j)
  BY <1>b DEF Promised
<1>7. n <= Cardinality(A) + Owing(l)
  BY <1>1, <1>a DEF Promised
<1> QED
  BY <1>4, <1>5, <1>6, <1>7, OwingIs

(* xTaskRemoveFromEventList wakes the first.                                *)
LEMMA RemoveIsFirstOut ==
    ASSUME NEW s, Linked(s, {}), NEW event \in {"send", "receive"}, s[event] # <<>>,
           NEW u, u = RemoveFromEventList(s, event)
    PROVE  \E h : FirstOut(s, u, event, h)
<1>0. s \in KernelType /\ event \in DOMAIN s
  BY FieldsAre DEF Linked
<1>1. s[event] \in Seq(Tasks) /\ IsInjective(s[event])
  <2>1. CASE event = "send"
    BY <2>1 DEF Linked, KernelType
  <2>2. CASE event = "receive"
    BY <2>2 DEF Linked, KernelType
  <2> QED
    BY <2>1, <2>2
<1>a. PICK h : h = Head(s[event])
  OBVIOUS
<1>b. PICK rest : rest = Tail(s[event])
  OBVIOUS
<1>c. PICK k1 : k1 = [s EXCEPT ![event] = rest, !.xYieldPending = TRUE]
  OBVIOUS
<1>2. /\ h \in Tasks /\ h \in ToSet(s[event]) /\ rest \in Seq(Tasks)
      /\ ToSet(rest) = ToSet(s[event]) \ {h}
  BY <1>1, <1>a, <1>b, TailKeeps
<1>3. /\ k1.send = IF event = "send" THEN rest ELSE s.send
      /\ k1.receive = IF event = "receive" THEN rest ELSE s.receive
      /\ DOMAIN k1 = DOMAIN s
  BY <1>0, <1>c, FieldsAre
<1>4. u.send = k1.send /\ u.receive = k1.receive
  <2>1. CASE s.uxSchedulerSuspended = 0
    <3>1. u = AddToReady(Unlink(k1, h), h)
      BY <2>1, <1>a, <1>b, <1>c DEF RemoveFromEventList
    <3> QED
      BY <1>0, <1>3, <3>1, FieldsAre DEF AddToReady, Unlink
  <2>2. CASE s.uxSchedulerSuspended # 0
    <3>1. u = [k1 EXCEPT !.pending = Append(@, h)]
      BY <2>2, <1>a, <1>b, <1>c DEF RemoveFromEventList
    <3> QED
      BY <1>0, <1>3, <3>1, FieldsAre
  <2> QED
    BY <2>1, <2>2
<1>5. FirstOut(s, u, event, h)
  <2>1. CASE event = "send"
    BY <1>2, <1>3, <1>4, <2>1 DEF FirstOut
  <2>2. CASE event = "receive"
    BY <1>2, <1>3, <1>4, <2>2 DEF FirstOut
  <2> QED
    BY <2>1, <2>2
<1> QED
  BY <1>5

-----------------------------------------------------------------------------
(* Wake-ups: the steps that change nothing for those who wait.              *)

(* From a to b a task stops neither looking nor waiting, and b is in a call.*)
OnItsWay(t, a, b) ==
    /\ \A op \in {"send", "receive"} : Looks(a, op) => Looks(b, op)
    /\ b.pc = "place" => a.pc = "place" /\ a.op = b.op
    /\ InCall(t, b)

(* Who does not move, or only as time passes, is on its way.               *)
LEMMA AlikeOnItsWay ==
    ASSUME NEW t, NEW a, NEW b, Alike(a, b), InCall(t, a)
    PROVE  OnItsWay(t, a, b)
BY DEF Alike, InCall, Looks, OnItsWay

(* Whoever waited and looked looks on.                                     *)
LEMMA ListedOn ==
    ASSUME NEW s, NEW u, NEW as, NEW bs, NEW op, Listed(s, as, op),
           ToSet(u[op]) \subseteq ToSet(s[op]),
           \A x \in Tasks : x \in ToSet(u[op]) => (Looks(as[x], op) => Looks(bs[x], op))
    PROVE  Listed(u, bs, op)
BY DEF Listed

(* No more is there that was not promised, for no more that wait.          *)
LEMMA MovesOn ==
    ASSUME ListInv, ListInv', WakeInv, \A x \in Tasks : OnItsWay(x, task[x], task'[x]),
           ToSet(k'.send) \subseteq ToSet(k.send), ToSet(k'.receive) \subseteq ToSet(k.receive),
           uxMessagesWaiting' - Owing(xTxLock') <= uxMessagesWaiting - Owing(xTxLock),
           uxMessagesWaiting + Owing(xRxLock) <= uxMessagesWaiting' + Owing(xRxLock')
    PROVE  WakeInv'
<1>1. /\ uxMessagesWaiting \in Int /\ uxMessagesWaiting' \in Int /\ uxLength \in Int
      /\ xTxLock \in Int /\ xTxLock' \in Int /\ xRxLock \in Int /\ xRxLock' \in Int
  BY KernelAssumption DEF ListInv, QueueType
<1>2. /\ Owing(xTxLock) \in Nat /\ Owing(xTxLock') \in Nat
      /\ Owing(xRxLock) \in Nat /\ Owing(xRxLock') \in Nat
  BY <1>1, OwingIs
<1>3. ASSUME NEW op \in {"send", "receive"}
      PROVE  /\ Placing(task', op) => Placing(task, op)
             /\ \A x \in Tasks : Looks(task[x], op) => Looks(task'[x], op)
  BY DEF Placing, OnItsWay
<1>4. Promised(k', task', "receive", uxMessagesWaiting', xTxLock')
  <2>1. Promised(k, task, "receive", uxMessagesWaiting, xTxLock)
    BY DEF WakeInv
  <2>2. ToSet(k'["receive"]) \subseteq ToSet(k["receive"])
    OBVIOUS
  <2> QED
    BY <1>1, <1>3, <2>1, <2>2, SamePromise
<1>5. Promised(k', task', "send", uxLength - uxMessagesWaiting', xRxLock')
  <2>1. Promised(k, task, "send", uxLength - uxMessagesWaiting, xRxLock)
    BY DEF WakeInv
  <2>2. ToSet(k'["send"]) \subseteq ToSet(k["send"])
    OBVIOUS
  <2>3. /\ uxLength - uxMessagesWaiting \in Int /\ uxLength - uxMessagesWaiting' \in Int
        /\ uxLength - uxMessagesWaiting' - Owing(xRxLock')
             <= uxLength - uxMessagesWaiting - Owing(xRxLock)
    BY <1>1, <1>2
  <2> QED
    BY <1>1, <1>3, <2>1, <2>2, <2>3, SamePromise
<1>6. Listed(k', task', "receive") /\ Listed(k', task', "send")
  <2>1. Listed(k, task, "receive") /\ Listed(k, task, "send")
    BY DEF WakeInv
  <2> QED
    BY <1>3, <2>1, ListedOn
<1> QED
  BY <1>4, <1>5, <1>6 DEF WakeInv, OnItsWay

(* A statement of one task that is on its way, with the queue as it was.   *)
LEMMA StatementMoves ==
    ASSUME ListInv, ListInv', WakeInv, NEW t \in Tasks, NEW me,
           task' = [task EXCEPT ![t] = me], OnItsWay(t, task[t], me),
           ToSet(k'.send) \subseteq ToSet(k.send), ToSet(k'.receive) \subseteq ToSet(k.receive),
           uxMessagesWaiting' = uxMessagesWaiting,
           Owing(xTxLock') = Owing(xTxLock), Owing(xRxLock') = Owing(xRxLock)
    PROVE  WakeInv'
<1>1. ASSUME NEW x \in Tasks PROVE OnItsWay(x, task[x], task'[x])
  <2>1. CASE x = t
    BY <2>1 DEF ListInv
  <2>2. CASE x # t
    <3>1. task'[x] = task[x] /\ InCall(x, task[x])
      BY <2>2 DEF ListInv, WakeInv
    <3> QED
      BY <3>1, AlikeOnItsWay DEF Alike
  <2> QED
    BY <2>1, <2>2
<1>2. /\ uxMessagesWaiting \in Int /\ xTxLock \in Int /\ xRxLock \in Int
  BY KernelAssumption DEF ListInv, QueueType
<1>3. Owing(xTxLock) \in Nat /\ Owing(xRxLock) \in Nat
  BY <1>2, OwingIs
<1> QED
  BY <1>1, <1>2, <1>3, MovesOn

(* On within the call.                                                     *)
LEMMA GoesOn ==
    ASSUME NEW t, NEW a, NEW b, InCall(t, a), b.op = a.op, b.pc \notin {"store", "place"},
           a.op \in {"send", "receive"} /\ a.pc \in LookPcs /\ a.after # "failed"
             => b.pc \in LookPcs /\ b.after # "failed"
    PROVE  OnItsWay(t, a, b)
BY DEF OnItsWay, Looks, InCall

(* Out of the call, for one that does not look.                            *)
LEMMA GoesOut ==
    ASSUME NEW t, NEW a, a.pc \notin LookPcs \/ a.after = "failed"
    PROVE  OnItsWay(t, a, Outside)
BY OutsideIs DEF OnItsWay, Looks, InCall

(* A call begins, and one without a wait is over.                          *)
LEMMA BeginWakes ==
    ASSUME ListInv, ListInv', WakeInv, NEW t \in Tasks, Begin(t) PROVE WakeInv'
<1>1. PICK c \in Calls[t] :
        task' = [task EXCEPT ![t] = [Outside EXCEPT !.pc = "top", !.op = c.op,
                                                    !.xTicksToWait = c.wait]]
  BY DEF Begin
<1>a. PICK me : me = [Outside EXCEPT !.pc = "top", !.op = c.op, !.xTicksToWait = c.wait]
  OBVIOUS
<1>2. me.pc = "top" /\ me.op = c.op
  BY <1>a DEF Outside
<1>3. task[t].pc = "idle"
  BY DEF Begin, Running
<1>4. OnItsWay(t, task[t], me)
  BY <1>2, <1>3 DEF OnItsWay, Looks, LookPcs, InCall, Makes
<1>5. /\ task' = [task EXCEPT ![t] = me] /\ k' = k /\ uxMessagesWaiting' = uxMessagesWaiting
      /\ Owing(xTxLock') = Owing(xTxLock) /\ Owing(xRxLock') = Owing(xRxLock)
  BY <1>1, <1>a DEF Begin, ringVars, lockVars
<1> QED
  BY <1>4, <1>5, StatementMoves

(* The same after a wait.                                                  *)
LEMMA BackWakes ==
    ASSUME ListInv, ListInv', WakeInv, NEW t \in Tasks, Back(t) PROVE WakeInv'
<1>1. OnItsWay(t, task[t], Outside)
  BY GoesOut DEF Back, Running, LookPcs
<1>2. /\ task' = [task EXCEPT ![t] = Outside] /\ k' = k
      /\ uxMessagesWaiting' = uxMessagesWaiting
      /\ Owing(xTxLock') = Owing(xTxLock) /\ Owing(xRxLock') = Owing(xRxLock)
  BY DEF Back, Return, ringVars, lockVars
<1> QED
  BY <1>1, <1>2, StatementMoves

(* The first part of a receive.                                            *)
LEMMA ReceiveWakes ==
    ASSUME ListInv, ListInv', WakeInv, NEW t \in Tasks, Receive(t) PROVE WakeInv'
<1>a. PICK me : me = [task[t] EXCEPT !.pc = "store"]
  OBVIOUS
<1>1. task[t] \in TaskType /\ task[t].op = "receive" /\ InCall(t, task[t])
  BY DEF ListInv, Receive, WakeInv
<1>2. me.pc = "store" /\ me.op = "receive" /\ me.after = task[t].after
  BY <1>1, <1>a, TaskFields
<1>3. OnItsWay(t, task[t], me)
  BY <1>1, <1>2 DEF OnItsWay, Looks, LookPcs, InCall
<1>4. /\ task' = [task EXCEPT ![t] = me] /\ k' = k
      /\ uxMessagesWaiting' = uxMessagesWaiting
      /\ Owing(xTxLock') = Owing(xTxLock) /\ Owing(xRxLock') = Owing(xRxLock)
  BY <1>a DEF Receive, Goto, ListInv, lockVars
<1> QED
  BY <1>3, <1>4, StatementMoves

(* The scheduler is suspended.                                             *)
LEMMA SuspendAllWakes ==
    ASSUME ListInv, ListInv', WakeInv, NEW t \in Tasks, SuspendAll(t) PROVE WakeInv'
<1>1. /\ task[t] \in TaskType /\ InCall(t, task[t]) /\ k \in KernelType
      /\ k' = [k EXCEPT !.uxSchedulerSuspended = 1]
  BY DEF ListInv, SuspendAll, WakeInv, Sound, Linked
<1>2. PICK p \in {"lock", "delay"} :
        /\ Goto(t, p)
        /\ task[t].pc = "suspend" \/ task[t].op = "delay"
  BY DEF SuspendAll, Running
<1>a. PICK me : me = [task[t] EXCEPT !.pc = p]
  OBVIOUS
<1>3. me.pc = p /\ me.op = task[t].op
  BY <1>1, <1>a, TaskFields
<1>4. OnItsWay(t, task[t], me)
  BY <1>1, <1>2, <1>3, GoesOn DEF LookPcs
<1>5. k'.send = k.send /\ k'.receive = k.receive
  BY <1>1, FieldsAre
<1>6. /\ task' = [task EXCEPT ![t] = me] /\ uxMessagesWaiting' = uxMessagesWaiting
      /\ Owing(xTxLock') = Owing(xTxLock) /\ Owing(xRxLock') = Owing(xRxLock)
  BY <1>2, <1>a DEF SuspendAll, Goto, ListInv, lockVars, ringVars
<1> QED
  BY <1>4, <1>5, <1>6, StatementMoves

(* prvLockQueue owes nothing yet.                                          *)
LEMMA LockWakes ==
    ASSUME ListInv, ListInv', WakeInv, NEW t \in Tasks, Lock(t) PROVE WakeInv'
<1>1. task[t] \in TaskType /\ InCall(t, task[t]) /\ task[t].pc = "lock"
  BY DEF ListInv, Lock, WakeInv, Running
<1>a. PICK me : me = [task[t] EXCEPT !.pc = "timeout"]
  OBVIOUS
<1>2. me.pc = "timeout" /\ me.op = task[t].op
  BY <1>1, <1>a, TaskFields
<1>3. OnItsWay(t, task[t], me)
  BY <1>1, <1>2, GoesOn DEF LookPcs
<1>4. Owing(xTxLock') = Owing(xTxLock) /\ Owing(xRxLock') = Owing(xRxLock)
  BY DEF Lock, Owing, queueUNLOCKED
<1>5. task' = [task EXCEPT ![t] = me] /\ k' = k /\ uxMessagesWaiting' = uxMessagesWaiting
  BY <1>a DEF Lock, Goto, ListInv, ringVars
<1> QED
  BY <1>3, <1>4, <1>5, StatementMoves

(* xTaskCheckForTimeOut.                                                   *)
LEMMA CheckForTimeOutWakes ==
    ASSUME ListInv, ListInv', WakeInv, NEW t \in Tasks, CheckForTimeOut(t) PROVE WakeInv'
<1>1. task[t] \in TaskType /\ InCall(t, task[t]) /\ task[t].pc = "timeout"
  BY DEF ListInv, CheckForTimeOut, WakeInv, Running
<1>2. PICK me : /\ task' = [task EXCEPT ![t] = me] /\ me.op = task[t].op
                /\ me.pc \in {"unlockTx", "check"}
  <2>a. PICK now : now = TimeOutState(k)
    OBVIOUS
  <2>b. PICK left : left = task[t].xTicksToWait - Elapsed(k, task[t].xTimeOut)
    OBVIOUS
  <2>c. PICK m1 : m1 = [task[t] EXCEPT !.pc = "unlockTx", !.after = "failed"]
    OBVIOUS
  <2>d. PICK m2 : m2 = [task[t] EXCEPT !.pc = "check"]
    OBVIOUS
  <2>e. PICK m3 : m3 = [task[t] EXCEPT !.pc = "check", !.xTimeOut = now, !.xTicksToWait = left]
    OBVIOUS
  <2>1. task' \in {[task EXCEPT ![t] = m1], [task EXCEPT ![t] = m2], [task EXCEPT ![t] = m3]}
    BY <2>a, <2>b, <2>c, <2>d, <2>e DEF CheckForTimeOut, Goto, ListInv
  <2>2. m1.op = task[t].op /\ m1.pc = "unlockTx"
    BY <1>1, <2>c, TaskFields
  <2>3. m2.op = task[t].op /\ m2.pc = "check"
    BY <1>1, <2>d, TaskFields
  <2>4. m3.op = task[t].op /\ m3.pc = "check"
    BY <1>1, <2>e, TaskFields
  <2> QED
    BY <2>1, <2>2, <2>3, <2>4
<1>3. OnItsWay(t, task[t], me)
  BY <1>1, <1>2, GoesOn DEF LookPcs
<1>4. /\ k' = k /\ uxMessagesWaiting' = uxMessagesWaiting
      /\ Owing(xTxLock') = Owing(xTxLock) /\ Owing(xRxLock') = Owing(xRxLock)
  BY DEF CheckForTimeOut, ringVars, lockVars
<1> QED
  BY <1>2, <1>3, <1>4, StatementMoves

(* vTaskDelay goes on.                                                     *)
LEMMA SleepWakes ==
    ASSUME ListInv, ListInv', WakeInv, NEW t \in Tasks, Sleep(t) PROVE WakeInv'
<1>1. /\ task[t] \in TaskType /\ InCall(t, task[t]) /\ Running(t, "delay")
      /\ task[t].xTicksToWait > 0 /\ k' = Delay(k, t, task[t].xTicksToWait)
  BY DEF ListInv, Sleep, WakeInv, InWait, Running
<1>2. task[t].pc = "delay" /\ t \notin Waiting(k)
  BY <1>1, RunningIs DEF LeftPcs
<1>b. PICK ticks \in 1..TickWrap - 1 : ticks = task[t].xTicksToWait
  BY <1>1, SchedulerAssumption DEF TaskType, portMAX_DELAY
<1>3. k'.send = k.send /\ k'.receive = k.receive
  <2>1. Linked(k, {}) /\ Due(k, 1) /\ Looked(k) /\ k' = Delay(k, t, ticks)
    BY <1>1, <1>b DEF ListInv, Sound
  <2> QED
    BY <1>2, <2>1, DelayKeeps
<1>a. PICK me : me = [task[t] EXCEPT !.pc = "resume", !.after = "yield",
                                     !.left = task[t].xTicksToWait]
  OBVIOUS
<1>4. me.pc = "resume" /\ me.op = task[t].op
  BY <1>1, <1>a, TaskFields
<1>5. OnItsWay(t, task[t], me)
  BY <1>1, <1>2, <1>4, GoesOn DEF LookPcs
<1>6. /\ task' = [task EXCEPT ![t] = me] /\ uxMessagesWaiting' = uxMessagesWaiting
      /\ Owing(xTxLock') = Owing(xTxLock) /\ Owing(xRxLock') = Owing(xRxLock)
  BY <1>a DEF Sleep, ListInv, lockVars, ringVars
<1> QED
  BY <1>3, <1>5, <1>6, StatementMoves

(* A yield: the task looks again when it is back.                          *)
LEMMA YieldNowWakes ==
    ASSUME ListInv, ListInv', WakeInv, NEW t \in Tasks, YieldNow(t) PROVE WakeInv'
<1>1. task[t] \in TaskType /\ InCall(t, task[t]) /\ k' = Yield(k) /\ Linked(k, {})
  BY DEF ListInv, YieldNow, WakeInv, Sound
<1>2. ToSet(k'.send) = ToSet(k.send) /\ ToSet(k'.receive) = ToSet(k.receive)
  BY <1>1, YieldKeeps
<1>b. PICK q : q = Then(t)
  OBVIOUS
<1>a. PICK me : me = [task[t] EXCEPT !.pc = q, !.after = "again"]
  OBVIOUS
<1>3. me.pc = q /\ me.op = task[t].op /\ me.after = "again"
  BY <1>1, <1>a, TaskFields
<1>4. q \notin {"store", "place"} /\ (task[t].op # "delay" => q = "top")
  BY <1>b DEF Then
<1>5. OnItsWay(t, task[t], me)
  BY <1>1, <1>3, <1>4, GoesOn DEF LookPcs
<1>6. /\ task' = [task EXCEPT ![t] = me] /\ uxMessagesWaiting' = uxMessagesWaiting
      /\ Owing(xTxLock') = Owing(xTxLock) /\ Owing(xRxLock') = Owing(xRxLock)
  BY <1>a, <1>b DEF YieldNow, ListInv, lockVars, ringVars
<1> QED
  BY <1>2, <1>5, <1>6, StatementMoves

(* xTaskResumeAll: whoever waited too long gives up.                       *)
LEMMA ResumeWakes ==
    ASSUME ListInv, ListInv', WakeInv, NEW t \in Tasks, Resume(t) PROVE WakeInv'
<1>1. /\ task \in [Tasks -> TaskType] /\ task[t] \in TaskType /\ InCall(t, task[t])
      /\ k' = ResumeAll(k) /\ task[t].pc = "resume"
  BY DEF ListInv, Resume, WakeInv, Running
<1>2. ToSet(k'.send) \subseteq ToSet(k.send) /\ ToSet(k'.receive) \subseteq ToSet(k.receive)
  BY <1>1, ResumeAllKeeps DEF ListInv
<1>b. PICK n \in Nat : n = k.uxPendedTicks
  BY DEF ListInv, Sound, Linked, KernelType
<1>c. PICK q : q = Then(t)
  OBVIOUS
<1>d. PICK m1 : m1 = [task[t] EXCEPT !.pc = "yield"]
  OBVIOUS
<1>e. PICK m2 : m2 = [task[t] EXCEPT !.pc = q, !.after = "again"]
  OBVIOUS
<1>a. PICK me : me = CASE task[t].after = "failed" -> Outside
                       [] task[t].after = "yield" /\ ~k'.pendSV -> m1
                       [] OTHER -> m2
  OBVIOUS
<1>3. /\ m1.pc = "yield" /\ m1.op = task[t].op /\ m1.after = task[t].after
      /\ m2.pc = q /\ m2.op = task[t].op /\ m2.after = "again"
  BY <1>1, <1>d, <1>e, TaskFields
<1>4. q \in {"back", "top"} /\ (task[t].op # "delay" => q = "top")
  BY <1>c DEF Then
<1>5. m1 \in TaskType /\ m2 \in TaskType
  <2>1. m1 \in TaskType
    BY <1>1, <1>d DEF TaskType, PCs
  <2>2. q \in PCs
    BY <1>4 DEF PCs
  <2>3. m2 \in TaskType
    BY <1>1, <1>e, <2>2, ZenonT(60) DEF TaskType
  <2> QED
    BY <2>1, <2>3
<1>6. me \in TaskType /\ OnItsWay(t, task[t], me)
  <2>1. CASE task[t].after = "failed"
    <3>1. me = Outside
      BY <1>a, <2>1
    <3> QED
      BY <2>1, <3>1, OutsideIs, GoesOut
  <2>2. CASE task[t].after = "yield" /\ ~k'.pendSV
    <3>1. me = m1
      BY <1>a, <2>2
    <3> QED
      BY <1>1, <1>3, <1>5, <2>2, <3>1, GoesOn DEF LookPcs
  <2>3. CASE task[t].after # "failed" /\ ~(task[t].after = "yield" /\ ~k'.pendSV)
    <3>1. me = m2
      BY <1>a, <2>3
    <3> QED
      BY <1>1, <1>3, <1>4, <1>5, <3>1, GoesOn DEF LookPcs
  <2> QED
    BY <2>1, <2>2, <2>3
<1>f. PICK tasks : tasks = [task EXCEPT ![t] = me]
  OBVIOUS
<1>7. tasks \in [Tasks -> TaskType] /\ tasks[t] = me /\ \A x \in Tasks \ {t} : tasks[x] = task[x]
  BY <1>1, <1>6, <1>f
<1>8. task' = Passed(tasks, n)
  BY <1>a, <1>b, <1>c, <1>d, <1>e, <1>f DEF Resume
<1>9. \A x \in Tasks : Alike(task'[x], tasks[x])
  BY <1>7, <1>8, PassedIs
<1>10. ASSUME NEW x \in Tasks PROVE OnItsWay(x, task[x], task'[x])
  <2>1. OnItsWay(x, task[x], tasks[x])
    <3>1. CASE x = t
      BY <1>6, <1>7, <3>1
    <3>2. CASE x # t
      <4>1. tasks[x] = task[x] /\ InCall(x, task[x])
        BY <1>7, <3>2 DEF WakeInv
      <4> QED
        BY <4>1, AlikeOnItsWay DEF Alike
    <3> QED
      BY <3>1, <3>2
  <2> QED
    BY <1>9, <2>1 DEF Alike, OnItsWay, Looks, InCall
<1>11. /\ uxMessagesWaiting' = uxMessagesWaiting /\ xTxLock' = xTxLock /\ xRxLock' = xRxLock
       /\ uxMessagesWaiting \in Int /\ xTxLock \in Int /\ xRxLock \in Int
  BY KernelAssumption DEF Resume, ListInv, QueueType, ringVars, lockVars
<1>12. Owing(xTxLock) \in Nat /\ Owing(xRxLock) \in Nat
  BY <1>11, OwingIs
<1> QED
  BY <1>2, <1>10, <1>11, <1>12, MovesOn

(* What comes without the running task and wakes nobody for the queue.     *)
LEMMA PassesOn ==
    ASSUME ListInv, ListInv', WakeInv, \A x \in Tasks : Alike(task'[x], task[x]),
           ToSet(k'.send) \subseteq ToSet(k.send), ToSet(k'.receive) \subseteq ToSet(k.receive),
           uxMessagesWaiting' = uxMessagesWaiting, xTxLock' = xTxLock, xRxLock' = xRxLock
    PROVE  WakeInv'
<1>1. ASSUME NEW x \in Tasks PROVE OnItsWay(x, task[x], task'[x])
  <2>1. Alike(task[x], task'[x]) /\ InCall(x, task[x])
    BY DEF WakeInv, Alike
  <2> QED
    BY <2>1, AlikeOnItsWay
<1>2. /\ uxMessagesWaiting \in Int /\ xTxLock \in Int /\ xRxLock \in Int
  BY KernelAssumption DEF ListInv, QueueType
<1>3. Owing(xTxLock) \in Nat /\ Owing(xRxLock) \in Nat
  BY <1>2, OwingIs
<1> QED
  BY <1>1, <1>2, <1>3, MovesOn

(* A tick wakes nobody for the queue.                                      *)
LEMMA TickWakes == ASSUME ListInv, ListInv', WakeInv, Tick PROVE WakeInv'
<1>1. Woke(k, k') /\ \A x \in Tasks : Alike(task'[x], task[x])
  BY TickIs
<1>2. uxMessagesWaiting' = uxMessagesWaiting /\ xTxLock' = xTxLock /\ xRxLock' = xRxLock
  BY DEF Tick, ringVars, lockVars
<1> QED
  BY <1>1, <1>2, PassesOn DEF Woke

(* Nor does the switch to another task.                                    *)
LEMMA PendSVWakes == ASSUME ListInv, ListInv', WakeInv, PendSV PROVE WakeInv'
<1>1. k'.send = k.send /\ k'.receive = k.receive
  BY SwitchContextKeeps DEF PendSV, ListInv, Sound
<1>2. /\ task' = task /\ uxMessagesWaiting' = uxMessagesWaiting
      /\ xTxLock' = xTxLock /\ xRxLock' = xRxLock
  BY DEF PendSV, ringVars, lockVars
<1> QED
  BY <1>1, <1>2, PassesOn DEF Alike

-----------------------------------------------------------------------------
(* Wake-ups: the steps that wake somebody, or send one to wait.             *)

(* Only the task that runs may be about to wait.                           *)
LEMMA NobodyPlaces ==
    ASSUME ListInv, NEW t \in Tasks, k.pxCurrentTCB = t, task[t].pc # "place", NEW op
    PROVE  ~Placing(task, op)
BY DEF Placing, ListInv, Suspended, SusPcs

(* A task that finds neither room nor data looks no more: there is nothing *)
(* to look for.                                                            *)
LEMMA FoundNothing ==
    ASSUME ListInv, ListInv', WakeInv, NEW t \in Tasks, NEW p, Running(t, p), p \notin LeftPcs,
           Blocked(t), UNCHANGED <<k, ringVars, lockVars>>,
           NEW me, task' = [task EXCEPT ![t] = me],
           me.op \in {task[t].op, "none"}, InCall(t, me)
    PROVE  WakeInv'
<1>1. k' = k /\ uxMessagesWaiting' = uxMessagesWaiting /\ xTxLock' = xTxLock /\ xRxLock' = xRxLock
  BY DEF ringVars, lockVars
<1>2. t \notin ToSet(k.send) /\ t \notin ToSet(k.receive)
  BY RunningIs DEF Waiting
<1>3. task'[t] = me /\ \A x \in Tasks \ {t} : task'[x] = task[x]
  BY DEF ListInv
<1>4. /\ uxMessagesWaiting \in 0..uxLength /\ uxLength \in Nat
      /\ xTxLock \in Int /\ xRxLock \in Int
  BY KernelAssumption DEF ListInv, QueueType
<1>5. Listed(k', task', "receive") /\ Listed(k', task', "send")
  <2> SUFFICES ASSUME NEW op \in {"send", "receive"} PROVE Listed(k', task', op)
    OBVIOUS
  <2>1. Listed(k, task, op) /\ t \notin ToSet(k[op])
    BY <1>2 DEF WakeInv
  <2>2. ToSet(k'[op]) \subseteq ToSet(k[op])
    BY <1>1
  <2>3. \A x \in Tasks : x \in ToSet(k'[op]) => (Looks(task[x], op) => Looks(task'[x], op))
    BY <1>1, <1>3, <2>1
  <2> QED
    BY <2>1, <2>2, <2>3, ListedOn
<1>6. \A x \in Tasks : InCall(x, task'[x])
  BY <1>3 DEF WakeInv
<1>7. ASSUME NEW op \in {"send", "receive"}, op # task[t].op,
             NEW n \in Int, NEW l \in Int, Promised(k, task, op, n, l)
      PROVE  Promised(k', task', op, n, l)
  <2>1. \A x \in Tasks : Looks(task[x], op) => Looks(task'[x], op)
    BY <1>3, <1>7 DEF Looks
  <2>2. Placing(task', op) => Placing(task, op)
    BY <1>3, <1>7 DEF Placing
  <2>3. n - Owing(l) <= n - Owing(l) /\ ToSet(k'[op]) \subseteq ToSet(k[op])
    BY <1>1, <1>7, OwingIs
  <2> QED
    BY <1>7, <2>1, <2>2, <2>3, SamePromise
<1>8. /\ Promised(k', task', "receive", uxMessagesWaiting', xTxLock')
      /\ Promised(k', task', "send", uxLength - uxMessagesWaiting', xRxLock')
  <2>0. /\ Promised(k, task, "receive", uxMessagesWaiting, xTxLock)
        /\ Promised(k, task, "send", uxLength - uxMessagesWaiting, xRxLock)
    BY DEF WakeInv
  <2>1. CASE task[t].op = "send" /\ ~Room
    <3>1. uxLength - uxMessagesWaiting = 0
      BY <1>4, <2>1 DEF Room
    <3>2. Promised(k', task', "send", uxLength - uxMessagesWaiting', xRxLock')
      BY <1>1, <1>4, <3>1, NonePromised
    <3>3. uxMessagesWaiting \in Int /\ "receive" # task[t].op
      BY <1>4, <2>1
    <3>4. Promised(k', task', "receive", uxMessagesWaiting, xTxLock)
      BY <1>4, <1>7, <2>0, <3>3
    <3> QED
      BY <1>1, <3>2, <3>4
  <2>2. CASE task[t].op = "receive" /\ ~Data
    <3>1. uxMessagesWaiting = 0
      BY <1>4, <2>2 DEF Data
    <3>2. Promised(k', task', "receive", uxMessagesWaiting', xTxLock')
      BY <1>1, <1>4, <3>1, NonePromised
    <3>3. uxLength - uxMessagesWaiting \in Int /\ "send" # task[t].op
      BY <1>4, <2>2
    <3>4. Promised(k', task', "send", uxLength - uxMessagesWaiting, xRxLock)
      BY <1>4, <1>7, <2>0, <3>3
    <3> QED
      BY <1>1, <3>2, <3>4
  <2> QED
    BY <2>1, <2>2 DEF Blocked
<1> QED
  BY <1>5, <1>6, <1>8 DEF WakeInv

(* It returns ...                                                          *)
LEMMA RefuseWakes ==
    ASSUME ListInv, ListInv', WakeInv, NEW t \in Tasks, Refuse(t) PROVE WakeInv'
<1>1. /\ Running(t, "top") /\ Blocked(t) /\ UNCHANGED <<k, ringVars, lockVars>>
      /\ task' = [task EXCEPT ![t] = Outside]
  BY DEF Refuse, Return
<1>2. Outside.op \in {task[t].op, "none"} /\ InCall(t, Outside)
  BY OutsideIs DEF InCall
<1> QED
  BY <1>1, <1>2, FoundNothing DEF LeftPcs

(* ... or notes the time ...                                               *)
LEMMA NoteTimeWakes ==
    ASSUME ListInv, ListInv', WakeInv, NEW t \in Tasks, NoteTime(t) PROVE WakeInv'
<1>1. /\ Running(t, "top") /\ Blocked(t) /\ UNCHANGED <<k, ringVars, lockVars>>
      /\ task[t] \in TaskType /\ InCall(t, task[t])
  BY DEF NoteTime, ListInv, WakeInv
<1>2. PICK me : /\ task' = [task EXCEPT ![t] = me] /\ me.op = task[t].op /\ me.pc = "suspend"
  <2>a. PICK now : now = TimeOutState(k)
    OBVIOUS
  <2>b. PICK m1 : m1 = [task[t] EXCEPT !.pc = "suspend"]
    OBVIOUS
  <2>c. PICK m2 : m2 = [task[t] EXCEPT !.pc = "suspend", !.xEntryTimeSet = TRUE,
                                       !.xTimeOut = now, !.left = task[t].xTicksToWait]
    OBVIOUS
  <2>1. task' \in {[task EXCEPT ![t] = m1], [task EXCEPT ![t] = m2]}
    BY <2>a, <2>b, <2>c DEF NoteTime, Goto, ListInv
  <2>2. m1.op = task[t].op /\ m1.pc = "suspend"
    BY <1>1, <2>b, TaskFields
  <2>3. m2.op = task[t].op /\ m2.pc = "suspend"
    BY <1>1, <2>c, TaskFields
  <2> QED
    BY <2>1, <2>2, <2>3
<1>3. InCall(t, me)
  BY <1>1, <1>2 DEF InCall
<1> QED
  BY <1>1, <1>2, <1>3, FoundNothing DEF LeftPcs

(* ... or goes to wait, unless something has come meanwhile.               *)
LEMMA CheckWakes ==
    ASSUME ListInv, ListInv', WakeInv, NEW t \in Tasks, Check(t) PROVE WakeInv'
<1>1. /\ Running(t, "check") /\ UNCHANGED <<k, ringVars, lockVars>>
      /\ task[t].pc = "check" /\ task[t] \in TaskType /\ InCall(t, task[t])
  BY DEF Check, ListInv, WakeInv, Running
<1>2. CASE Blocked(t)
  <2>a. PICK me : me = [task[t] EXCEPT !.pc = "place", !.after = "yield"]
    OBVIOUS
  <2>1. me.pc = "place" /\ me.op = task[t].op
    BY <1>1, <2>a, TaskFields
  <2>2. task' = [task EXCEPT ![t] = me] /\ InCall(t, me)
    BY <1>1, <1>2, <2>1, <2>a DEF Check, ListInv, InCall
  <2> QED
    BY <1>1, <1>2, <2>1, <2>2, FoundNothing DEF LeftPcs
<1>3. CASE ~Blocked(t)
  <2>a. PICK me : me = [task[t] EXCEPT !.pc = "unlockTx", !.after = "again"]
    OBVIOUS
  <2>1. me.pc = "unlockTx" /\ me.op = task[t].op
    BY <1>1, <2>a, TaskFields
  <2>2. OnItsWay(t, task[t], me)
    BY <1>1, <2>1, GoesOn DEF LookPcs
  <2>3. /\ task' = [task EXCEPT ![t] = me] /\ k' = k /\ uxMessagesWaiting' = uxMessagesWaiting
        /\ Owing(xTxLock') = Owing(xTxLock) /\ Owing(xRxLock') = Owing(xRxLock)
    BY <1>1, <1>3, <2>a DEF Check, ListInv, ringVars, lockVars
  <2> QED
    BY <2>2, <2>3, StatementMoves
<1> QED
  BY <1>2, <1>3

(* It waits, and will look when it is woken.                               *)
LEMMA PlaceWakes ==
    ASSUME ListInv, ListInv', WakeInv, NEW t \in Tasks, Place(t) PROVE WakeInv'
<1>1. /\ Running(t, "place") /\ Goto(t, "unlockTx")
      /\ k' = PlaceOnEventList(k, t, task[t].op, task[t].xTicksToWait)
      /\ uxMessagesWaiting' = uxMessagesWaiting /\ xTxLock' = xTxLock /\ xRxLock' = xRxLock
  BY DEF Place, ringVars, lockVars
<1>2. task[t].pc = "place" /\ task[t] \in TaskType /\ t \notin Waiting(k) /\ InCall(t, task[t])
  BY <1>1, RunningIs DEF LeftPcs, WakeInv
<1>3. /\ task[t].op \in {"send", "receive"} /\ task[t].after = "yield" /\ task[t].xTicksToWait > 0
  BY <1>1 DEF ListInv, InWait, Running
<1>b. PICK event \in {"send", "receive"} : event = task[t].op
  BY <1>3
<1>c. PICK ticks \in 1..TickWrap - 1 : ticks = task[t].xTicksToWait
  BY <1>2, <1>3, SchedulerAssumption DEF TaskType, portMAX_DELAY
<1>4. Linked(k, {}) /\ Due(k, 1) /\ Looked(k) /\ k' = PlaceOnEventList(k, t, event, ticks)
  BY <1>1, <1>b, <1>c DEF ListInv, Sound
<1>5. /\ event = "send" => ToSet(k'.send) = ToSet(k.send) \cup {t} /\ k'.receive = k.receive
      /\ event = "receive" => ToSet(k'.receive) = ToSet(k.receive) \cup {t} /\ k'.send = k.send
  <2>a. PICK u : u = k'
    OBVIOUS
  <2>1. u = PlaceOnEventList(k, t, event, ticks)
    BY <1>4, <2>a
  <2>2. /\ event = "send" => ToSet(u.send) = ToSet(k.send) \cup {t} /\ u.receive = k.receive
        /\ event = "receive" => ToSet(u.receive) = ToSet(k.receive) \cup {t} /\ u.send = k.send
    BY <1>2, <1>4, <2>1, PlaceOnEventListKeeps, SMTT(60)
  <2> QED
    BY <2>2, <2>a
<1>6. ASSUME NEW op \in {"send", "receive"}
      PROVE  ToSet(k'[op]) = IF op = event THEN ToSet(k[op]) \cup {t} ELSE ToSet(k[op])
  BY <1>5
<1>a. PICK me : me = [task[t] EXCEPT !.pc = "unlockTx"]
  OBVIOUS
<1>7. me.pc = "unlockTx" /\ me.op = event /\ me.after = "yield"
  BY <1>2, <1>3, <1>a, <1>b, TaskFields
<1>8. task'[t] = me /\ \A x \in Tasks \ {t} : task'[x] = task[x]
  BY <1>1, <1>a DEF Goto, ListInv
<1>9. Looks(me, event) /\ InCall(t, me)
  BY <1>2, <1>7, <1>b DEF Looks, LookPcs, InCall
<1>10. ASSUME NEW op \in {"send", "receive"}, Listed(k, task, op) PROVE Listed(k', task', op)
  <2> SUFFICES ASSUME NEW x \in Tasks, x \in ToSet(k'[op]) PROVE Looks(task'[x], op)
    BY DEF Listed
  <2>1. CASE x = t
    <3>1. t \notin ToSet(k[op])
      BY <1>2 DEF Waiting
    <3> QED
      BY <1>6, <1>8, <1>9, <2>1, <3>1
  <2>2. CASE x # t
    BY <1>6, <1>8, <1>10, <2>2 DEF Listed
  <2> QED
    BY <2>1, <2>2
<1>11. ASSUME NEW op \in {"send", "receive"}, NEW n \in Int, NEW l \in Int,
              Promised(k, task, op, n, l)
       PROVE  Promised(k', task', op, n, l)
  <2>1. Looking(k, task, op) \subseteq Looking(k', task', op)
    <3> SUFFICES ASSUME NEW x \in Tasks, Looks(task[x], op), x \notin ToSet(k[op])
                 PROVE  Looks(task'[x], op) /\ x \notin ToSet(k'[op])
      BY DEF Looking
    <3>1. x # t
      BY <1>2 DEF Looks, LookPcs
    <3> QED
      BY <1>6, <1>8, <3>1
  <2>2. Placing(task', op) => Placing(task, op)
    BY <1>7, <1>8 DEF Placing
  <2>3. ToSet(k'[op]) # {} => ToSet(k[op]) # {} \/ Placing(task, op)
    BY <1>2, <1>6, <1>b DEF Placing
  <2>4. n - Owing(l) <= n - Owing(l)
    BY OwingIs
  <2> QED
    BY <1>11, <2>1, <2>2, <2>3, <2>4, MorePromise
<1>12. Promised(k', task', "receive", uxMessagesWaiting', xTxLock')
  <2>1. Promised(k, task, "receive", uxMessagesWaiting, xTxLock)
    BY DEF WakeInv
  <2>2. uxMessagesWaiting \in Int /\ xTxLock \in Int
    BY KernelAssumption DEF ListInv, QueueType
  <2> QED
    BY <1>1, <1>11, <2>1, <2>2
<1>13. Promised(k', task', "send", uxLength - uxMessagesWaiting', xRxLock')
  <2>1. Promised(k, task, "send", uxLength - uxMessagesWaiting, xRxLock)
    BY DEF WakeInv
  <2>2. uxLength - uxMessagesWaiting \in Int /\ xRxLock \in Int
    BY KernelAssumption DEF ListInv, QueueType
  <2> QED
    BY <1>1, <1>11, <2>1, <2>2
<1>14. Listed(k', task', "receive") /\ Listed(k', task', "send")
  <2>1. Listed(k, task, "receive") /\ Listed(k, task, "send")
    BY DEF WakeInv
  <2> QED
    BY <1>10, <2>1
<1>15. \A x \in Tasks : InCall(x, task'[x])
  BY <1>8, <1>9 DEF WakeInv
<1> QED
  BY <1>12, <1>13, <1>14, <1>15 DEF WakeInv

(* Whoever is let in by another one: the first in the list, if any.        *)
LEMMA LetsIn ==
    ASSUME ListInv, NEW event \in {"send", "receive"}, WakeAndYield(event)
    PROVE  \/ /\ ToSet(k[event]) = {} /\ ToSet(k'[event]) = {}
              /\ \A op \in {"send", "receive"} : op # event => k'[op] = k[op]
           \/ \E h : FirstOut(k, k', event, h)
<1>1. Linked(k, {}) /\ Due(k, 1) /\ Looked(k) /\ Held(k)
  BY DEF ListInv, Sound
<1>2. CASE k[event] = <<>>
  <2>1. k' = k
    BY <1>2 DEF WakeAndYield
  <2> QED
    BY <1>2, <2>1, EmptyList
<1>3. CASE k[event] # <<>>
  <2>a. PICK u : u = RemoveFromEventList(k, event)
    OBVIOUS
  <2>1. PICK h : FirstOut(k, u, event, h)
    BY <1>1, <1>3, <2>a, RemoveIsFirstOut
  <2>2. Linked(u, {})
    BY <1>1, <1>3, <2>a, RemoveFromEventListKeeps
  <2>3. u \in KernelType /\ k' = Yield(u)
    BY <1>3, <2>2, <2>a DEF WakeAndYield, Linked
  <2>4. k'.send = u.send /\ k'.receive = u.receive
    BY <2>3, FieldsAre DEF Yield
  <2>5. FirstOut(k, k', event, h)
    BY <2>1, <2>4 DEF FirstOut
  <2> QED
    BY <2>5
<1> QED
  BY <1>2, <1>3

(* One more item or place is there for those that wait, or one wake-up     *)
(* less is owed to them.                                                   *)
LEMMA LetsInPromised ==
    ASSUME ListInv, NEW event \in {"send", "receive"}, WakeAndYield(event),
           NEW bs, Listed(k, task, event), ~Placing(bs, event),
           NEW n \in Int, NEW m \in Int, NEW l \in Int, NEW j \in Int,
           Promised(k, task, event, n, l),
           \A x \in Tasks : Looks(task[x], event) => Looks(bs[x], event),
           m - Owing(j) <= n - Owing(l) + 1
    PROVE  Promised(k', bs, event, m, j)
<1>1. CASE ToSet(k'[event]) = {}
  BY <1>1 DEF Promised
<1>2. CASE \E h : FirstOut(k, k', event, h)
  <2>1. PICK h : FirstOut(k, k', event, h)
    BY <1>2
  <2> QED
    BY <2>1, WokenPromise
<1> QED
  BY <1>1, <1>2, LetsIn

(* The other list is as it was.                                            *)
LEMMA LetsInOnly ==
    ASSUME ListInv, NEW event \in {"send", "receive"}, WakeAndYield(event)
    PROVE  \A op \in {"send", "receive"} :
             ToSet(k'[op]) \subseteq ToSet(k[op]) /\ (op # event => k'[op] = k[op])
BY LetsIn DEF FirstOut

(* A call that is over, with somebody else let in: who else waits looks.   *)
LEMMA ReturnListed ==
    ASSUME ListInv, WakeInv, NEW t \in Tasks, k.pxCurrentTCB = t, task[t].pc # "place",
           t \in ToSet(k.ready), Return(t), NEW event \in {"send", "receive"}, WakeAndYield(event)
    PROVE  /\ Listed(k', task', "receive") /\ Listed(k', task', "send")
           /\ \A x \in Tasks : InCall(x, task'[x])
           /\ task'[t] = Outside /\ \A x \in Tasks \ {t} : task'[x] = task[x]
           /\ ~Placing(task', "send") /\ ~Placing(task', "receive")
<1>1. task'[t] = Outside /\ \A x \in Tasks \ {t} : task'[x] = task[x]
  BY DEF Return, ListInv
<1>2. ~Placing(task', "send") /\ ~Placing(task', "receive")
  BY <1>1, NobodyPlaces, OutsideIs DEF Placing
<1>3. \A x \in Tasks : InCall(x, task'[x])
  BY <1>1, OutsideIs DEF WakeInv, InCall
<1>4. t \notin ToSet(k.send) /\ t \notin ToSet(k.receive)
  BY DEF ListInv, Sound, Linked, Waiting
<1>5. ASSUME NEW op \in {"send", "receive"} PROVE Listed(k', task', op)
  <2>1. Listed(k, task, op) /\ t \notin ToSet(k[op])
    BY <1>4 DEF WakeInv
  <2>2. ToSet(k'[op]) \subseteq ToSet(k[op])
    BY LetsInOnly
  <2>3. \A x \in Tasks : x \in ToSet(k'[op]) => (Looks(task[x], op) => Looks(task'[x], op))
    BY <1>1, <2>1, <2>2
  <2> QED
    BY <2>1, <2>2, <2>3, ListedOn
<1> QED
  BY <1>1, <1>2, <1>3, <1>5

(* A send lets a receiver in.                                              *)
LEMMA SendWakes ==
    ASSUME ListInv, ListInv', WakeInv, NEW t \in Tasks, Send(t) PROVE WakeInv'
<1>1. /\ Running(t, "top") /\ task[t].op = "send" /\ WakeAndYield("receive") /\ Return(t)
      /\ uxMessagesWaiting' = uxMessagesWaiting + 1
      /\ xTxLock' = xTxLock /\ xRxLock' = xRxLock
  BY DEF Send, CopyDataToQueue, lockVars
<1>2. k.pxCurrentTCB = t /\ task[t].pc # "place" /\ t \in ToSet(k.ready)
  BY <1>1, RunningIs DEF LeftPcs
<1>3. /\ Listed(k', task', "receive") /\ Listed(k', task', "send")
      /\ \A x \in Tasks : InCall(x, task'[x])
      /\ task'[t] = Outside /\ \A x \in Tasks \ {t} : task'[x] = task[x]
      /\ ~Placing(task', "send") /\ ~Placing(task', "receive")
  BY <1>1, <1>2, ReturnListed
<1>4. /\ uxMessagesWaiting \in Int /\ uxMessagesWaiting' \in Int /\ uxLength \in Int
      /\ xTxLock \in Int /\ xRxLock \in Int
  BY KernelAssumption DEF ListInv, QueueType
<1>5. Promised(k', task', "receive", uxMessagesWaiting', xTxLock')
  <2>1. Promised(k, task, "receive", uxMessagesWaiting, xTxLock) /\ Listed(k, task, "receive")
    BY DEF WakeInv
  <2>2. \A x \in Tasks : Looks(task[x], "receive") => Looks(task'[x], "receive")
    BY <1>1, <1>3 DEF Looks
  <2>3. uxMessagesWaiting' - Owing(xTxLock') <= uxMessagesWaiting - Owing(xTxLock) + 1
    BY <1>1, <1>4, OwingIs
  <2> QED
    BY <1>1, <1>3, <1>4, <2>1, <2>2, <2>3, LetsInPromised
<1>6. Promised(k', task', "send", uxLength - uxMessagesWaiting', xRxLock')
  <2>1. Promised(k, task, "send", uxLength - uxMessagesWaiting, xRxLock)
    BY DEF WakeInv
  <2>2. ToSet(k'["send"]) \subseteq ToSet(k["send"])
    BY <1>1, LetsInOnly
  <2>3. \A x \in Tasks \ {t} : Looks(task[x], "send") => Looks(task'[x], "send")
    BY <1>3
  <2>0. uxLength - uxMessagesWaiting \in Int /\ uxLength - uxMessagesWaiting' \in Int
    BY <1>4
  <2>a. PICK n \in Int : n = uxLength - uxMessagesWaiting
    BY <2>0
  <2>b. PICK m \in Int : m = uxLength - uxMessagesWaiting'
    BY <2>0
  <2>4. m <= n - 1
    <3>1. uxMessagesWaiting' = uxMessagesWaiting + 1
      BY <1>1
    <3> QED
      BY <1>4, <2>a, <2>b, <3>1
  <2>5. Promised(k, task, "send", n, xRxLock)
    BY <2>1, <2>a
  <2>6. OnlyLeaves(k, k', task, task', "send", t)
    BY <1>3, <2>2, <2>3 DEF OnlyLeaves
  <2>7. Promised(k', task', "send", m, xRxLock)
    BY <1>4, <2>4, <2>5, <2>6, LeftPromise
  <2> QED
    BY <1>1, <2>7, <2>b
<1> QED
  BY <1>3, <1>5, <1>6 DEF WakeInv

(* A receive lets a sender in.                                             *)
LEMMA StoreWakes ==
    ASSUME ListInv, ListInv', WakeInv, KernelInv, NEW t \in Tasks, Store(t) PROVE WakeInv'
<1>1. /\ k.pxCurrentTCB = t /\ task[t].pc = "store" /\ WakeAndYield("send") /\ Return(t)
      /\ uxMessagesWaiting' = loaded - 1
      /\ xTxLock' = xTxLock /\ xRxLock' = xRxLock
  BY DEF Store, lockVars
<1>2. t \in ToSet(k.ready) /\ InCritical /\ task[t].op = "receive"
  BY <1>1 DEF ListInv, StoreReady, WakeInv, InCall
<1>3. /\ Listed(k', task', "receive") /\ Listed(k', task', "send")
      /\ \A x \in Tasks : InCall(x, task'[x])
      /\ task'[t] = Outside /\ \A x \in Tasks \ {t} : task'[x] = task[x]
      /\ ~Placing(task', "send") /\ ~Placing(task', "receive")
  BY <1>1, <1>2, ReturnListed
<1>4. /\ uxMessagesWaiting \in Int /\ uxMessagesWaiting' \in Int /\ uxLength \in Int
      /\ xTxLock \in Int /\ xRxLock \in Int
  BY KernelAssumption DEF ListInv, QueueType
<1>5. uxMessagesWaiting' = uxMessagesWaiting - 1
  <2>1. loaded # Nothing
    BY <1>2 DEF InCritical
  <2>2. loaded = uxMessagesWaiting
    BY <2>1 DEF KernelInv, Counted
  <2> QED
    BY <1>1, <2>2
<1>6. Promised(k', task', "send", uxLength - uxMessagesWaiting', xRxLock')
  <2>1. Promised(k, task, "send", uxLength - uxMessagesWaiting, xRxLock) /\ Listed(k, task, "send")
    BY DEF WakeInv
  <2>2. \A x \in Tasks : Looks(task[x], "send") => Looks(task'[x], "send")
    BY <1>2, <1>3 DEF Looks
  <2>3. /\ uxLength - uxMessagesWaiting' - Owing(xRxLock')
             <= uxLength - uxMessagesWaiting - Owing(xRxLock) + 1
        /\ uxLength - uxMessagesWaiting \in Int /\ uxLength - uxMessagesWaiting' \in Int
    BY <1>1, <1>4, <1>5, OwingIs
  <2> QED
    BY <1>1, <1>3, <1>4, <2>1, <2>2, <2>3, LetsInPromised
<1>7. Promised(k', task', "receive", uxMessagesWaiting', xTxLock')
  <2>1. Promised(k, task, "receive", uxMessagesWaiting, xTxLock)
    BY DEF WakeInv
  <2>2. ToSet(k'["receive"]) \subseteq ToSet(k["receive"])
    BY <1>1, LetsInOnly
  <2>3. \A x \in Tasks \ {t} : Looks(task[x], "receive") => Looks(task'[x], "receive")
    BY <1>3
  <2>4. uxMessagesWaiting' <= uxMessagesWaiting - 1
    BY <1>4, <1>5
  <2>5. OnlyLeaves(k, k', task, task', "receive", t)
    BY <1>3, <2>2, <2>3 DEF OnlyLeaves
  <2>6. Promised(k', task', "receive", uxMessagesWaiting', xTxLock)
    BY <1>4, <2>1, <2>4, <2>5, LeftPromise
  <2> QED
    BY <1>1, <2>6
<1> QED
  BY <1>3, <1>6, <1>7 DEF WakeInv

(* A reset makes room for the one sender.                                  *)
LEMMA ResetWakes ==
    ASSUME OneSender, ListInv, ListInv', WakeInv, NEW t \in Tasks, Reset(t) PROVE WakeInv'
<1>1. /\ Running(t, "top") /\ task[t].op = "reset" /\ WakeAndYield("send") /\ Return(t)
      /\ uxMessagesWaiting' = 0
  BY DEF Reset
<1>2. k.pxCurrentTCB = t /\ task[t].pc # "place" /\ t \in ToSet(k.ready)
  BY <1>1, RunningIs DEF LeftPcs
<1>3. /\ Listed(k', task', "receive") /\ Listed(k', task', "send")
      /\ \A x \in Tasks : InCall(x, task'[x])
      /\ task'[t] = Outside /\ \A x \in Tasks \ {t} : task'[x] = task[x]
      /\ ~Placing(task', "send") /\ ~Placing(task', "receive")
  BY <1>1, <1>2, ReturnListed
<1>4. Promised(k', task', "receive", uxMessagesWaiting', xTxLock')
  <2>1. xTxLock' \in Int
    BY KernelAssumption DEF ListInv, QueueType
  <2> QED
    BY <1>1, <2>1, NonePromised
<1>5. ASSUME NEW x \in Tasks, NEW y \in Tasks, x \in ToSet(k["send"]), y \in ToSet(k["send"])
      PROVE  x = y
  <2>1. Makes(t, "reset")
    BY <1>1 DEF WakeInv, InCall
  <2>2. task[x].op = "send" /\ task[y].op = "send"
    BY <1>5 DEF ListInv, WaitsForOp
  <2>3. Makes(x, "send") /\ Makes(y, "send")
    BY <2>2 DEF WakeInv, InCall
  <2> QED
    BY <2>1, <2>3 DEF OneSender
<1>6. ToSet(k'["send"]) = {}
  <2>1. CASE ToSet(k'["send"]) = {}
    BY <2>1
  <2>2. CASE \E h : FirstOut(k, k', "send", h)
    <3>1. PICK h : FirstOut(k, k', "send", h)
      BY <2>2
    <3>2. ToSet(k["send"]) \subseteq Tasks
      BY Elements DEF ListInv, Sound, Linked, KernelType
    <3> QED
      BY <1>5, <3>1, <3>2 DEF FirstOut
  <2> QED
    BY <1>1, <2>1, <2>2, LetsIn
<1>7. Promised(k', task', "send", uxLength - uxMessagesWaiting', xRxLock')
  BY <1>3, <1>6 DEF Promised
<1> QED
  BY <1>3, <1>4, <1>7 DEF WakeInv

(* prvUnlockQueue pays what it owes.                                       *)
LEMMA WokenPromised ==
    ASSUME ListInv, NEW event \in {"send", "receive"}, NEW n \in Nat,
           Listed(k, task, event), ~Placing(task, event),
           NEW m \in Int, Promised(k, task, event, m, n), NEW u, u = Woken(n, event)
    PROVE  /\ Promised(u, task, event, m, 0)
           /\ \A op \in {"send", "receive"} :
                ToSet(u[op]) \subseteq ToSet(k[op]) /\ (op # event => u[op] = k[op])
<1> DEFINE Kept(s) == \A op \in {"send", "receive"} :
                        ToSet(s[op]) \subseteq ToSet(k[op]) /\ (op # event => s[op] = k[op])
           Good(i, s) == /\ Sound(s, 1) /\ Looked(s) /\ Kept(s)
                         /\ Promised(s, task, event, m, n - i)
           P == {p \in (0..n) \X KernelType : Good(p[1], p[2])}
<1>1. PICK f : /\ f[0] = k
               /\ \A i \in 1..n : f[i] = IF f[i - 1][event] = <<>> THEN f[i - 1]
                                         ELSE RemoveFromEventList(f[i - 1], event)
               /\ Woken(n, event) = f[n]
  BY WokenRounds DEF ListInv
<1>2. <<0, f[0]>> \in P
  <2>1. Good(0, k) /\ k \in KernelType
    BY DEF ListInv, Sound, Linked
  <2> QED
    BY <1>1, <2>1
<1>3. ASSUME NEW i \in 1..n, <<i - 1, f[i - 1]>> \in P PROVE <<i, f[i]>> \in P
  <2>a. PICK s : s = f[i - 1]
    OBVIOUS
  <2>b. PICK r : r = f[i]
    OBVIOUS
  <2>1. Good(i - 1, s) /\ i - 1 \in 0..n /\ i \in 0..n
    BY <1>3, <2>a
  <2>2. r = IF s[event] = <<>> THEN s ELSE RemoveFromEventList(s, event)
    BY <1>1, <2>a, <2>b
  <2>3. Good(i, r) /\ r \in KernelType
    <3>1. CASE s[event] = <<>>
      <4>1. r = s /\ ToSet(r[event]) = {}
        BY <2>2, <3>1, EmptyList
      <4>2. Promised(r, task, event, m, n - i)
        BY <4>1 DEF Promised
      <4> QED
        BY <2>1, <4>1, <4>2 DEF Sound, Linked
    <3>2. CASE s[event] # <<>>
      <4>1. r = RemoveFromEventList(s, event) /\ Linked(s, {}) /\ Due(s, 1) /\ Held(s) /\ Looked(s)
        BY <2>1, <2>2, <3>2 DEF Sound
      <4>2. Sound(r, 1) /\ Looked(r) /\ r \in KernelType
        <5>1. Linked(r, {}) /\ Due(r, 1) /\ Looked(r) /\ Held(r)
          BY <3>2, <4>1, RemoveFromEventListKeeps
        <5> QED
          BY <5>1 DEF Sound, Linked
      <4>3. PICK h : FirstOut(s, r, event, h)
        BY <3>2, <4>1, RemoveIsFirstOut
      <4>4. Kept(r)
        BY <2>1, <4>3 DEF FirstOut
      <4>5. Listed(s, task, event)
        BY <2>1 DEF Listed
      <4>6. Promised(s, task, event, m, n - (i - 1))
        BY <2>1
      <4>7. /\ m - Owing(n - i) <= m - Owing(n - (i - 1)) + 1
            /\ n - i \in Int /\ n - (i - 1) \in Int
        BY DEF Owing
      <4>8. Promised(r, task, event, m, n - i)
        BY <4>3, <4>5, <4>6, <4>7, WokenPromise
      <4> QED
        BY <4>2, <4>4, <4>8
    <3> QED
      BY <3>1, <3>2
  <2> QED
    BY <2>1, <2>3, <2>b
<1>4. <<n, f[n]>> \in P
  <2> HIDE DEF P
  <2> QED
    BY <1>2, <1>3, LoopKeeps
<1>5. Good(n, u)
  BY <1>1, <1>4
<1>6. n - n = 0
  OBVIOUS
<1> QED
  BY <1>5, <1>6

(* The queue is unlocked at one end, and as it was at the other.           *)
LEMMA HalfUnlocked ==
    ASSUME ListInv, WakeInv, NEW t \in Tasks, NEW p \in {"unlockTx", "unlockRx"}, Running(t, p),
           NEW q \in {"unlockRx", "resume"}, Goto(t, q),
           NEW event \in {"send", "receive"}, NEW n \in Nat, k' = Woken(n, event),
           NEW m \in Int, Promised(k, task, event, m, n)
    PROVE  /\ Promised(k', task', event, m, -1)
           /\ \A op \in {"send", "receive"} \ {event} : \A i, l \in Int :
                Promised(k, task, op, i, l) => Promised(k', task', op, i, l)
           /\ Listed(k', task', "receive") /\ Listed(k', task', "send")
           /\ \A x \in Tasks : InCall(x, task'[x])
<1>1. k.pxCurrentTCB = t /\ task[t].pc = p /\ task[t] \in TaskType /\ InCall(t, task[t])
  BY DEF Running, ListInv, WakeInv
<1>a. PICK me : me = [task[t] EXCEPT !.pc = q]
  OBVIOUS
<1>2. me.pc = q /\ me.op = task[t].op /\ me.after = task[t].after
  BY <1>1, <1>a, TaskFields
<1>3. OnItsWay(t, task[t], me)
  BY <1>1, <1>2, GoesOn DEF LookPcs
<1>4. task'[t] = me /\ \A x \in Tasks \ {t} : task'[x] = task[x]
  BY <1>a DEF Goto, ListInv
<1>5. ASSUME NEW op \in {"send", "receive"}
      PROVE  /\ ~Placing(task, op) /\ ~Placing(task', op)
             /\ \A x \in Tasks : Looks(task[x], op) => Looks(task'[x], op)
  <2>1. ~Placing(task, op)
    BY <1>1, NobodyPlaces
  <2>2. ~Placing(task', op)
    BY <1>2, <1>4, <2>1 DEF Placing
  <2> QED
    BY <1>3, <1>4, <2>1, <2>2 DEF OnItsWay
<1>6. /\ Promised(k', task, event, m, 0)
      /\ \A op \in {"send", "receive"} :
           ToSet(k'[op]) \subseteq ToSet(k[op]) /\ (op # event => k'[op] = k[op])
  <2>1. Listed(k, task, event)
    BY DEF WakeInv
  <2> QED
    BY <1>5, <2>1, WokenPromised
<1>7. Promised(k', task', event, m, -1)
  <2>1. m - Owing(-1) <= m - Owing(0)
    BY DEF Owing
  <2>2. ToSet(k'[event]) \subseteq ToSet(k'[event])
    OBVIOUS
  <2> QED
    BY <1>5, <1>6, <2>1, <2>2, SamePromise
<1>8. ASSUME NEW op \in {"send", "receive"} \ {event}, NEW i \in Int, NEW l \in Int,
             Promised(k, task, op, i, l)
      PROVE  Promised(k', task', op, i, l)
  <2>1. ToSet(k'[op]) \subseteq ToSet(k[op]) /\ i - Owing(l) <= i - Owing(l)
    BY <1>6, OwingIs
  <2> QED
    BY <1>5, <1>8, <2>1, SamePromise
<1>9. ASSUME NEW op \in {"send", "receive"} PROVE Listed(k', task', op)
  <2>1. Listed(k, task, op)
    BY DEF WakeInv
  <2> QED
    BY <1>5, <1>6, <2>1, ListedOn
<1>10. \A x \in Tasks : InCall(x, task'[x])
  BY <1>3, <1>4 DEF WakeInv, OnItsWay
<1> QED
  BY <1>7, <1>8, <1>9, <1>10

(* For what handlers sent.                                                 *)
LEMMA UnlockTxWakes ==
    ASSUME ListInv, ListInv', WakeInv, NEW t \in Tasks, UnlockTx(t) PROVE WakeInv'
<1>1. /\ Running(t, "unlockTx") /\ k' = Woken(xTxLock, "receive") /\ xTxLock' = -1
      /\ Goto(t, "unlockRx") /\ uxMessagesWaiting' = uxMessagesWaiting /\ xRxLock' = xRxLock
  BY DEF UnlockTx, ringVars, queueUNLOCKED
<1>2. xTxLock \in Nat /\ xRxLock \in Int /\ uxMessagesWaiting \in Int /\ uxLength \in Int
  BY <1>1, KernelAssumption DEF Running, ListInv, InWait, QueueType
<1>3. /\ Promised(k, task, "receive", uxMessagesWaiting, xTxLock)
      /\ Promised(k, task, "send", uxLength - uxMessagesWaiting, xRxLock)
  BY DEF WakeInv
<1>4. /\ Promised(k', task', "receive", uxMessagesWaiting, -1)
      /\ \A op \in {"send", "receive"} \ {"receive"} : \A i, l \in Int :
           Promised(k, task, op, i, l) => Promised(k', task', op, i, l)
      /\ Listed(k', task', "receive") /\ Listed(k', task', "send")
      /\ \A x \in Tasks : InCall(x, task'[x])
  BY <1>1, <1>2, <1>3, HalfUnlocked
<1>5. Promised(k', task', "send", uxLength - uxMessagesWaiting, xRxLock)
  <2>1. uxLength - uxMessagesWaiting \in Int
    BY <1>2
  <2> QED
    BY <1>2, <1>3, <1>4, <2>1
<1> QED
  BY <1>1, <1>4, <1>5 DEF WakeInv

(* For what handlers received.                                             *)
LEMMA UnlockRxWakes ==
    ASSUME ListInv, ListInv', WakeInv, NEW t \in Tasks, UnlockRx(t) PROVE WakeInv'
<1>1. /\ Running(t, "unlockRx") /\ k' = Woken(xRxLock, "send") /\ xRxLock' = -1
      /\ Goto(t, "resume") /\ uxMessagesWaiting' = uxMessagesWaiting /\ xTxLock' = xTxLock
  BY DEF UnlockRx, ringVars, queueUNLOCKED
<1>2. xRxLock \in Nat /\ xTxLock \in Int /\ uxMessagesWaiting \in Int /\ uxLength \in Int
  BY <1>1, KernelAssumption DEF Running, ListInv, InWait, QueueType
<1>a. PICK m : m = uxLength - uxMessagesWaiting
  OBVIOUS
<1>3. m \in Int /\ Promised(k, task, "send", m, xRxLock)
  BY <1>2, <1>a DEF WakeInv
<1>4. /\ Promised(k', task', "send", m, -1)
      /\ \A op \in {"send", "receive"} \ {"send"} : \A i, l \in Int :
           Promised(k, task, op, i, l) => Promised(k', task', op, i, l)
      /\ Listed(k', task', "receive") /\ Listed(k', task', "send")
      /\ \A x \in Tasks : InCall(x, task'[x])
  BY <1>1, <1>2, <1>3, HalfUnlocked
<1>5. Promised(k', task', "receive", uxMessagesWaiting, xTxLock)
  BY <1>2, <1>4 DEF WakeInv
<1> QED
  BY <1>1, <1>4, <1>5, <1>a DEF WakeInv

(* A handler that lets somebody in: the task that runs is not about to     *)
(* wait for it, the queue being unlocked at that end.                      *)
LEMMA HandlerLetsIn ==
    ASSUME ListInv, WakeInv, NEW event \in {"send", "receive"}, WakeAndYield(event), task' = task,
           ~Placing(task, event), NEW l \in Int, NEW n \in Int, NEW m \in Int, m <= n + 1,
           Promised(k, task, event, n, l), NEW i \in Int, NEW j \in Int, i <= j, NEW h \in Int,
           NEW other \in {"send", "receive"} \ {event}, Promised(k, task, other, j, h)
    PROVE  /\ Promised(k', task', event, m, l) /\ Promised(k', task', other, i, h)
           /\ Listed(k', task', "receive") /\ Listed(k', task', "send")
           /\ \A x \in Tasks : InCall(x, task'[x])
<1>1. \A op \in {"send", "receive"} : ToSet(k'[op]) \subseteq ToSet(k[op])
  BY LetsInOnly
<1>2. Promised(k', task', event, m, l)
  <2>1. m - Owing(l) <= n - Owing(l) + 1 /\ Listed(k, task, event)
    BY OwingIs DEF WakeInv
  <2>2. Promised(k', task, event, m, l)
    BY <2>1, LetsInPromised
  <2> QED
    BY <2>2
<1>3. Promised(k', task', other, i, h)
  <2>1. i - Owing(h) <= j - Owing(h)
    BY OwingIs
  <2>2. Promised(k', task, other, i, h)
    BY <1>1, <2>1, SamePromise
  <2> QED
    BY <2>2
<1>4. ASSUME NEW op \in {"send", "receive"} PROVE Listed(k', task', op)
  <2>1. Listed(k, task, op)
    BY DEF WakeInv
  <2> QED
    BY <1>1, <2>1, ListedOn
<1> QED
  BY <1>2, <1>3, <1>4 DEF WakeInv

(* xQueueSendFromISR.                                                      *)
LEMMA SendFromISRWakes == ASSUME ListInv, ListInv', WakeInv, SendFromISR PROVE WakeInv'
<1>1. /\ task' = task /\ uxMessagesWaiting' = uxMessagesWaiting + 1 /\ xRxLock' = xRxLock
      /\ \/ xTxLock = -1 /\ WakeAndYield("receive") /\ xTxLock' = xTxLock
         \/ xTxLock # -1 /\ xTxLock' = xTxLock + 1 /\ k' = k
  BY DEF SendFromISR, CopyDataToQueue, queueUNLOCKED
<1>2. /\ uxMessagesWaiting \in Int /\ uxMessagesWaiting' \in Int /\ uxLength \in Int
      /\ xTxLock \in Int /\ xTxLock >= -1 /\ xRxLock \in Int
  BY KernelAssumption DEF ListInv, QueueType
<1>a. PICK n : n = uxLength - uxMessagesWaiting
  OBVIOUS
<1>b. PICK m : m = uxLength - uxMessagesWaiting'
  OBVIOUS
<1>3. n \in Int /\ m \in Int /\ m <= n
  BY <1>1, <1>2, <1>a, <1>b
<1>4. CASE xTxLock = -1 /\ WakeAndYield("receive") /\ xTxLock' = xTxLock
  <2>1. ~Placing(task, "receive")
    BY <1>4 DEF Placing, ListInv, InWait
  <2>2. /\ Promised(k, task, "receive", uxMessagesWaiting, xTxLock)
        /\ Promised(k, task, "send", n, xRxLock)
    BY <1>a DEF WakeInv
  <2>3. uxMessagesWaiting' <= uxMessagesWaiting + 1
    BY <1>1, <1>2
  <2>4. /\ Promised(k', task', "receive", uxMessagesWaiting', xTxLock)
        /\ Promised(k', task', "send", m, xRxLock)
        /\ Listed(k', task', "receive") /\ Listed(k', task', "send")
        /\ \A x \in Tasks : InCall(x, task'[x])
    BY <1>1, <1>2, <1>3, <1>4, <2>1, <2>2, <2>3, HandlerLetsIn
  <2> QED
    BY <1>1, <1>4, <1>b, <2>4 DEF WakeInv
<1>5. CASE xTxLock # -1 /\ xTxLock' = xTxLock + 1 /\ k' = k
  <2>1. Owing(xTxLock') = Owing(xTxLock) + 1
    BY <1>2, <1>5 DEF Owing
  <2>2. Owing(xTxLock) \in Nat /\ Owing(xRxLock) \in Nat
    BY <1>2, OwingIs
  <2>3. /\ uxMessagesWaiting' - Owing(xTxLock') <= uxMessagesWaiting - Owing(xTxLock)
        /\ uxMessagesWaiting + Owing(xRxLock) <= uxMessagesWaiting' + Owing(xRxLock')
    BY <1>1, <1>2, <2>1, <2>2
  <2>4. \A x \in Tasks : OnItsWay(x, task[x], task'[x])
    BY <1>1, AlikeOnItsWay DEF Alike, WakeInv
  <2> QED
    BY <1>5, <2>3, <2>4, MovesOn
<1> QED
  BY <1>1, <1>4, <1>5

(* xQueueReceiveFromISR.                                                   *)
LEMMA ReceiveFromISRWakes == ASSUME ListInv, ListInv', WakeInv, ReceiveFromISR PROVE WakeInv'
<1>1. /\ task' = task /\ uxMessagesWaiting' = uxMessagesWaiting - 1 /\ xTxLock' = xTxLock
      /\ \/ xRxLock = -1 /\ WakeAndYield("send") /\ xRxLock' = xRxLock
         \/ xRxLock # -1 /\ xRxLock' = xRxLock + 1 /\ k' = k
  BY DEF ReceiveFromISR, queueUNLOCKED
<1>2. /\ uxMessagesWaiting \in Int /\ uxMessagesWaiting' \in Int /\ uxLength \in Int
      /\ xRxLock \in Int /\ xRxLock >= -1 /\ xTxLock \in Int
  BY KernelAssumption DEF ListInv, QueueType
<1>a. PICK n : n = uxLength - uxMessagesWaiting
  OBVIOUS
<1>b. PICK m : m = uxLength - uxMessagesWaiting'
  OBVIOUS
<1>3. n \in Int /\ m \in Int /\ m <= n + 1
  BY <1>1, <1>2, <1>a, <1>b
<1>4. CASE xRxLock = -1 /\ WakeAndYield("send") /\ xRxLock' = xRxLock
  <2>1. ~Placing(task, "send")
    BY <1>4 DEF Placing, ListInv, InWait
  <2>2. /\ Promised(k, task, "receive", uxMessagesWaiting, xTxLock)
        /\ Promised(k, task, "send", n, xRxLock)
    BY <1>a DEF WakeInv
  <2>3. uxMessagesWaiting' <= uxMessagesWaiting
    BY <1>1, <1>2
  <2>4. /\ Promised(k', task', "send", m, xRxLock)
        /\ Promised(k', task', "receive", uxMessagesWaiting', xTxLock)
        /\ Listed(k', task', "receive") /\ Listed(k', task', "send")
        /\ \A x \in Tasks : InCall(x, task'[x])
    BY <1>1, <1>2, <1>3, <1>4, <2>1, <2>2, <2>3, HandlerLetsIn
  <2> QED
    BY <1>1, <1>4, <1>b, <2>4 DEF WakeInv
<1>5. CASE xRxLock # -1 /\ xRxLock' = xRxLock + 1 /\ k' = k
  <2>1. Owing(xRxLock') = Owing(xRxLock) + 1
    BY <1>2, <1>5 DEF Owing
  <2>2. Owing(xTxLock) \in Nat /\ Owing(xRxLock) \in Nat
    BY <1>2, OwingIs
  <2>3. /\ uxMessagesWaiting' - Owing(xTxLock') <= uxMessagesWaiting - Owing(xTxLock)
        /\ uxMessagesWaiting + Owing(xRxLock) <= uxMessagesWaiting' + Owing(xRxLock')
    BY <1>1, <1>2, <2>1, <2>2
  <2>4. \A x \in Tasks : OnItsWay(x, task[x], task'[x])
    BY <1>1, AlikeOnItsWay DEF Alike, WakeInv
  <2> QED
    BY <1>5, <2>3, <2>4, MovesOn
<1> QED
  BY <1>1, <1>4, <1>5

-----------------------------------------------------------------------------
(* Wake-ups: the theorem.                                                   *)

(* Nobody waits at first.                                                  *)
LEMMA InitWakes == Init => WakeInv
<1> SUFFICES ASSUME Init PROVE WakeInv
  OBVIOUS
<1>1. k = KernelInit /\ \A t \in Tasks : task[t] = Outside
  BY DEF Init
<1>2. k.send = <<>> /\ k.receive = <<>>
  BY <1>1, KernelInitIs
<1>3. ToSet(k["send"]) = {} /\ ToSet(k["receive"]) = {}
  BY <1>2, EmptyList
<1>4. \A op : ~Placing(task, op)
  BY <1>1, OutsideIs DEF Placing
<1>5. \A t \in Tasks : InCall(t, task[t])
  BY <1>1, OutsideIs DEF InCall
<1> QED
  BY <1>3, <1>4, <1>5 DEF WakeInv, Promised, Listed

(* Together with that of the lists and of the counter, it is inductive.    *)
LEMMA NextWakes ==
    ASSUME OneSender, ListInv, ListInv', KernelInv, WakeInv, [Next]_vars
    PROVE  WakeInv'
<1>1. ASSUME NEW t \in Tasks, Step(t) PROVE WakeInv'
  BY <1>1, BeginWakes, SendWakes, ReceiveWakes, StoreWakes, ResetWakes, RefuseWakes,
     NoteTimeWakes, SuspendAllWakes, LockWakes, CheckForTimeOutWakes, CheckWakes, PlaceWakes,
     UnlockTxWakes, UnlockRxWakes, SleepWakes, ResumeWakes, YieldNowWakes, BackWakes DEF Step
<1>2. CASE SendFromISR
  BY <1>2, SendFromISRWakes
<1>3. CASE ReceiveFromISR
  BY <1>3, ReceiveFromISRWakes
<1>4. CASE Tick
  BY <1>4, TickWakes
<1>5. CASE PendSV
  BY <1>5, PendSVWakes
<1>6. CASE UNCHANGED vars
  <2>1. /\ k' = k /\ task' = task /\ uxMessagesWaiting' = uxMessagesWaiting
        /\ xTxLock' = xTxLock /\ xRxLock' = xRxLock
    BY <1>6 DEF vars, ringVars, lockVars
  <2> QED
    BY <2>1, PassesOn DEF Alike
<1> QED
  BY <1>1, <1>2, <1>3, <1>4, <1>5, <1>6 DEF Next

(* Whoever looks is awake, and an unlocked queue owes nothing.             *)
LEMMA WakeInvIs == ListInv /\ WakeInv => NoLostWakeup
<1> SUFFICES ASSUME ListInv, WakeInv PROVE NoLostWakeup
  OBVIOUS
<1>1. ASSUME NEW op \in {"send", "receive"}, k[op] # <<>>,
             NEW n \in Int, Promised(k, task, op, n, -1)
      PROVE  n <= Cardinality(Awake(op))
  <2>1. k[op] \in Seq(Tasks) /\ IsInjective(k[op])
    <3>1. CASE op = "send"
      BY <3>1 DEF ListInv, Sound, Linked, KernelType
    <3>2. CASE op = "receive"
      BY <3>2 DEF ListInv, Sound, Linked, KernelType
    <3> QED
      BY <3>1, <3>2
  <2>2. ToSet(k[op]) # {}
    BY <1>1, <2>1, TailKeeps
  <2>a. PICK A : A = Looking(k, task, op)
    OBVIOUS
  <2>b. PICK B : B = Awake(op)
    OBVIOUS
  <2>3. A \subseteq B /\ B \subseteq Tasks
    BY <2>a, <2>b DEF Looking, Looks, Awake, In
  <2>4. IsFiniteSet(B) /\ Cardinality(A) \in Nat
    BY <2>3, <2>a, LookingIs, FS_Subset, SchedulerAssumption
  <2>5. Cardinality(A) <= Cardinality(B) /\ Cardinality(B) \in Nat
    BY <2>3, <2>4, FS_Subset, FS_CardinalityType
  <2>6. n <= Cardinality(A)
    BY <1>1, <2>2, <2>4, <2>a DEF Promised, Owing
  <2> QED
    BY <1>1, <2>4, <2>5, <2>6, <2>b
<1>2. uxMessagesWaiting \in Int /\ uxLength - uxMessagesWaiting \in Int
  BY KernelAssumption DEF ListInv, QueueType
<1>3. xTxLock = queueUNLOCKED /\ k.receive # <<>>
        => uxMessagesWaiting <= Cardinality(Awake("receive"))
  BY <1>1, <1>2 DEF WakeInv, queueUNLOCKED
<1>4. xRxLock = queueUNLOCKED /\ k.send # <<>>
        => uxLength - uxMessagesWaiting <= Cardinality(Awake("send"))
  BY <1>1, <1>2 DEF WakeInv, queueUNLOCKED
<1> QED
  BY <1>3, <1>4 DEF NoLostWakeup

(***************************************************************************)
(* No wake-up is lost between a task that finds the queue full or empty    *)
(* and waits, and the handlers and tasks that send and receive meanwhile   *)
(* (queue.c 554-705, 1036-1185, 1472-1541; UART.c): while the queue is not *)
(* locked there is, for each item that somebody waits for, a task awake    *)
(* that will look for it, and likewise for room.  Of the two hypotheses,   *)
(* Masked is what the UART handlers break (UART.c 252), and OneSender is   *)
(* what queue.c asks of those who use it: xQueueGenericReset (258-283)     *)
(* wakes one sender, however much room it makes.                           *)
(***************************************************************************)
THEOREM NoLostWakeupCorrect == Masked /\ OneSender => (Spec => []NoLostWakeup)
<1> SUFFICES ASSUME Masked, OneSender PROVE Spec => []NoLostWakeup
  OBVIOUS
<1>1. Init => WakeInv
  BY InitWakes
<1>2. ListInv /\ ListInv' /\ KernelInv /\ WakeInv /\ [Next]_vars => WakeInv'
  BY NextWakes
<1>3. ListInv /\ WakeInv => NoLostWakeup
  BY WakeInvIs
<1>4. Spec => []KernelInv
  BY KernelInvariant
<1> QED
  BY <1>1, <1>2, <1>3, <1>4, ListInvariant, PTL DEF Spec

-----------------------------------------------------------------------------
(* Time slices are fair.                                                    *)

(* In this step nobody comes before a ready task, but for the one that      *)
(* pxIndex points to.                                                       *)
NobodyPassed ==
    \A t \in ToSet(k.ready) :
      t # Last(k.ready) => Before(k'.ready, t) \subseteq Before(k.ready, t)

(* The ready list stays as it is, or some become ready ...                 *)
LEMMA OrderStays == ASSUME k'.ready = k.ready PROVE NobodyPassed
BY DEF NobodyPassed

LEMMA OrderWhenWoken == ASSUME Woke(k, k') PROVE NobodyPassed
BY DEF NobodyPassed, Woke, NotPassed

(* ... or one leaves.                                                      *)
LEMMA OrderWhenLeft ==
    ASSUME ListInv, NEW t \in Tasks, k'.ready = RemoveFirst(k.ready, t)
    PROVE  NobodyPassed
<1>1. k.ready \in Seq(Tasks \cup {Marker}) /\ IsInjective(k.ready)
  BY DEF ListInv, Sound, Linked, KernelType
<1>2. \A x : Before(RemoveFirst(k.ready, t), x) \subseteq Before(k.ready, x)
  BY <1>1, RemoveFirstBefore
<1> QED
  BY <1>2 DEF NobodyPassed

(* The statements of a task.                                                *)
LEMMA StepPassesNobody == ASSUME ListInv, NEW t \in Tasks, Step(t) PROVE NobodyPassed
<1>0. k \in KernelType /\ Sound(k, 1) /\ Looked(k) /\ task[t] \in TaskType
  BY DEF ListInv, Sound, Linked
<1>1. CASE Begin(t) \/ Receive(t) \/ Refuse(t) \/ NoteTime(t)
  <2>1. UNCHANGED k
    BY <1>1, Zenon DEF Begin, Receive, Refuse, NoteTime
  <2> QED
    BY <2>1, OrderStays
<1>2. CASE Lock(t) \/ CheckForTimeOut(t) \/ Check(t) \/ Back(t)
  <2>1. UNCHANGED k
    BY <1>2, Zenon DEF Lock, CheckForTimeOut, Check, Back
  <2> QED
    BY <2>1, OrderStays
<1>3. CASE SuspendAll(t)
  <2>1. k' = [k EXCEPT !.uxSchedulerSuspended = 1]
    BY <1>3 DEF SuspendAll
  <2>2. k'.ready = k.ready
    BY <1>0, <2>1, FieldsAre
  <2> QED
    BY <2>2, OrderStays
<1>4. CASE YieldNow(t)
  <2>1. k' = [k EXCEPT !.pendSV = TRUE]
    BY <1>4 DEF YieldNow, Yield
  <2>2. k'.ready = k.ready
    BY <1>0, <2>1, FieldsAre
  <2> QED
    BY <2>2, OrderStays
<1>5. CASE Send(t) \/ Store(t) \/ Reset(t)
  <2>1. PICK event \in {"send", "receive"} : WakeAndYield(event)
    BY <1>5 DEF Send, Store, Reset
  <2> QED
    BY <2>1, WakeAndYieldKeeps, OrderWhenWoken
<1>6. CASE UnlockTx(t) \/ UnlockRx(t)
  <2>1. PICK event \in {"send", "receive"}, n \in Nat : k' = Woken(n, event)
    <3>1. CASE UnlockTx(t)
      <4>1. Running(t, "unlockTx") /\ k' = Woken(xTxLock, "receive")
        BY <3>1 DEF UnlockTx
      <4>2. xTxLock \in Nat
        BY <4>1, KernelAssumption DEF ListInv, InWait, Running, QueueType
      <4> QED
        BY <4>1, <4>2
    <3>2. CASE UnlockRx(t)
      <4>1. Running(t, "unlockRx") /\ k' = Woken(xRxLock, "send")
        BY <3>2 DEF UnlockRx
      <4>2. xRxLock \in Nat
        BY <4>1, KernelAssumption DEF ListInv, InWait, Running, QueueType
      <4> QED
        BY <4>1, <4>2
    <3> QED
      BY <1>6, <3>1, <3>2
  <2> QED
    BY <1>0, <2>1, WokenKeeps, OrderWhenWoken
<1>7. CASE Place(t)
  <2>1. /\ Running(t, "place")
        /\ k' = PlaceOnEventList(k, t, task[t].op, task[t].xTicksToWait)
    BY <1>7 DEF Place
  <2>2. t \notin Waiting(k)
    BY <2>1, RunningIs DEF SusPcs, LeftPcs
  <2>3. task[t].op \in {"send", "receive"} /\ task[t].xTicksToWait > 0
    BY <2>1 DEF ListInv, InWait, Running
  <2>a. PICK event \in {"send", "receive"} : event = task[t].op
    BY <2>3
  <2>b. PICK ticks \in 1..TickWrap - 1 : ticks = task[t].xTicksToWait
    BY <1>0, <2>3, SchedulerAssumption DEF TaskType, portMAX_DELAY
  <2>4. Linked(k, {}) /\ Due(k, 1) /\ k' = PlaceOnEventList(k, t, event, ticks)
    BY <1>0, <2>1, <2>a, <2>b DEF Sound
  <2>5. k'.ready = RemoveFirst(k.ready, t)
    BY <1>0, <2>2, <2>4, PlaceOnEventListKeeps
  <2> QED
    BY <2>5, OrderWhenLeft
<1>8. CASE Sleep(t)
  <2>1. Running(t, "delay") /\ k' = Delay(k, t, task[t].xTicksToWait)
    BY <1>8 DEF Sleep
  <2>2. t \notin Waiting(k)
    BY <2>1, RunningIs DEF SusPcs, LeftPcs
  <2>3. task[t].xTicksToWait > 0
    BY <2>1 DEF ListInv, InWait, Running
  <2>a. PICK ticks \in 1..TickWrap - 1 : ticks = task[t].xTicksToWait
    BY <1>0, <2>3, SchedulerAssumption DEF TaskType, portMAX_DELAY
  <2>4. Linked(k, {}) /\ Due(k, 1) /\ k' = Delay(k, t, ticks)
    BY <1>0, <2>1, <2>a DEF Sound
  <2>5. k'.ready = RemoveFirst(k.ready, t)
    BY <1>0, <2>2, <2>4, DelayKeeps
  <2> QED
    BY <2>5, OrderWhenLeft
<1>9. CASE Resume(t)
  <2>1. NotPassed(k.ready, k'.ready)
    BY <1>0, <1>9, ResumeAllKeeps DEF Resume
  <2> QED
    BY <2>1 DEF NotPassed, NobodyPassed
<1> QED
  BY <1>1, <1>2, <1>3, <1>4, <1>5, <1>6, <1>7, <1>8, <1>9 DEF Step

(* The handlers and the tick.                                               *)
LEMMA InterruptPassesNobody ==
    ASSUME ListInv, SendFromISR \/ ReceiveFromISR \/ Tick
    PROVE  NobodyPassed
<1>1. CASE SendFromISR \/ ReceiveFromISR
  <2>1. CASE UNCHANGED k
    BY <2>1, OrderStays
  <2>2. CASE \E event \in {"send", "receive"} : WakeAndYield(event)
    <3>1. PICK event \in {"send", "receive"} : WakeAndYield(event)
      BY <2>2
    <3> QED
      BY <3>1, WakeAndYieldKeeps, OrderWhenWoken
  <2> QED
    BY <1>1, <2>1, <2>2 DEF SendFromISR, ReceiveFromISR
<1>2. CASE Tick
  BY <1>2, TickIs, OrderWhenWoken
<1> QED
  BY <1>1, <1>2

(***************************************************************************)
(* Every ready task gets its turn (vTaskSwitchContext, tasks.c; list.c):   *)
(* whatever tasks, handlers and ticks do, nobody else comes before it in   *)
(* the ring, and with each switch there is one less before it, or it is    *)
(* its turn.  That rests on ListsConsistent: whoever is woken was in no    *)
(* ready list, so that its list item goes in once, before pxIndex.         *)
(***************************************************************************)
THEOREM TurnComesCorrect == Spec => TurnComes
<1> DEFINE Turn(t) ==
      /\ In(t, k.ready) /\ In(t, k'.ready) /\ t # Last(k.ready)
      => \/ k'.pxCurrentTCB = t
         \/ /\ Before(k'.ready, t) \subseteq Before(k.ready, t)
            /\ PendSV /\ k.uxSchedulerSuspended = 0
                 => Before(k'.ready, t) # Before(k.ready, t)
<1>1. ListInv /\ [Next]_vars => [\A t \in Tasks : Turn(t)]_vars
  <2> SUFFICES ASSUME ListInv, Next, NEW t \in Tasks,
                      In(t, k.ready), t # Last(k.ready), k'.pxCurrentTCB # t
               PROVE  /\ Before(k'.ready, t) \subseteq Before(k.ready, t)
                      /\ PendSV /\ k.uxSchedulerSuspended = 0
                           => Before(k'.ready, t) # Before(k.ready, t)
    OBVIOUS
  <2>0. k \in KernelType /\ Linked(k, {}) /\ t \in ToSet(k.ready)
    BY DEF ListInv, Sound, Linked, In
  <2>1. CASE PendSV /\ k.uxSchedulerSuspended = 0
    <3>1. k' = SwitchContext(k)
      BY <2>1 DEF PendSV
    <3> QED
      BY <2>0, <2>1, <3>1, SwitchContextTurns
  <2>2. CASE ~(PendSV /\ k.uxSchedulerSuspended = 0)
    <3>1. CASE PendSV
      <4>1. k.uxSchedulerSuspended = 1
        BY <2>0, <2>2, <3>1 DEF KernelType
      <4>2. k' = [k EXCEPT !.xYieldPending = TRUE, !.pendSV = FALSE]
        BY <3>1, <4>1 DEF PendSV, SwitchContext
      <4>3. k'.ready = k.ready
        BY <2>0, <4>2, FieldsAre
      <4> QED
        BY <2>2, <4>3
    <3>2. CASE ~PendSV
      <4>1. NobodyPassed
        BY <3>2, StepPassesNobody, InterruptPassesNobody DEF Next
      <4> QED
        BY <2>0, <3>2, <4>1 DEF NobodyPassed
    <3> QED
      BY <3>1, <3>2
  <2> QED
    BY <2>1, <2>2
<1> QED
  BY <1>1, ListInvariant, PTL DEF Spec, TurnComes
=================================================================================
