------------------------------- MODULE Scheduler -------------------------------
(***************************************************************************)
(* The scheduler of FreeRTOS 7.5.3 as the firmware uses it (list.c,        *)
(* tasks.c, port.c): all tasks of one priority above the idle task, time   *)
(* slices, delays, event lists, ticks that wait while it is suspended.     *)
(*                                                                         *)
(* Its state is a record k with the names of tasks.c; an operation maps a  *)
(* state to the next one.  Every operation runs in a critical section or   *)
(* with the scheduler suspended, so none is cut short.                     *)
(***************************************************************************)
EXTENDS Integers, Sequences, FiniteSets, SequencesExt

CONSTANTS
    Tasks,
    Idle,           \* the idle task
    Marker,         \* xListEnd, the marker in the ring of a ready list
    TickWrap,       \* xTickCount wraps to 0 here
    OverflowWrap    \* and xNumOfOverflows here

ASSUME SchedulerAssumption ==
    /\ IsFiniteSet(Tasks) /\ Tasks # {} /\ Idle \notin Tasks /\ Marker \notin Tasks
    /\ TickWrap \in Nat \ {0} /\ OverflowWrap \in Nat \ {0, 1}

portMAX_DELAY == TickWrap - 1

-----------------------------------------------------------------------------
(* Lists (list.c).  A ready list is a ring; it is written in the order in   *)
(* which it will be visited, so that pxIndex points to its last element.    *)

(* vListInsertEnd: before pxIndex.                                          *)
MutantInsertEnd(ring, t) == <<t>> \o ring       \* mutation: after pxIndex
InsertEnd(ring, t) == InsertAt(ring, Len(ring), t)

(* listGET_OWNER_OF_NEXT_ENTRY: pxIndex moves on, past the marker.          *)
NextEntry(ring) ==
    LET Rotated(r) == Append(Tail(r), Head(r))
    IN  IF Head(ring) = Marker THEN Rotated(Rotated(ring)) ELSE Rotated(ring)

(* The tasks that are visited before t is, and t itself.                    *)
Before(ring, t) ==
    { u \in Tasks : \E i, j \in DOMAIN ring : i <= j /\ ring[i] = u /\ ring[j] = t }

(* vListInsert: in the order of the values, behind those with the same.     *)
Insert(list, t, value) ==
    InsertAt(list, 1 + Cardinality({i \in DOMAIN list : value[list[i]] <= value[t]}), t)

(* So many rounds of a loop. *)
Rounds(Round(_), n, k) ==
    LET After[i \in 0..n] == IF i = 0 THEN k ELSE Round(After[i - 1]) IN After[n]

-----------------------------------------------------------------------------
(* What the scheduler keeps (tasks.c), the lists without their list items.   *)
KernelType ==
    [ pxCurrentTCB : Tasks \cup {Idle},
      ready : Seq(Tasks \cup {Marker}), delayed : Seq(Tasks), overflow : Seq(Tasks),
      suspended : SUBSET Tasks,
      pending : Seq(Tasks), send : Seq(Tasks), receive : Seq(Tasks),
      value : [Tasks -> 0..TickWrap - 1],
      xTickCount : 0..TickWrap - 1, xNumOfOverflows : 0..OverflowWrap - 1,
      xNextTaskUnblockTime : 0..TickWrap - 1,
      uxSchedulerSuspended : {0, 1}, uxPendedTicks : Nat,
      xYieldPending : BOOLEAN, pendSV : BOOLEAN ]

(* The state at vTaskStartScheduler: the task created last runs first.      *)

KernelInit ==
    LET order == SetToSeq(Tasks) IN
    [ pxCurrentTCB |-> Last(order),
      ready     |-> Append(order, Marker),      \* pxReadyTasksLists[1]
      delayed   |-> <<>>,                       \* pxDelayedTaskList
      overflow  |-> <<>>,                       \* pxOverflowDelayedTaskList
      suspended |-> {},                         \* xSuspendedTaskList
      pending   |-> <<>>,                       \* xPendingReadyList
      send      |-> <<>>,                       \* xTasksWaitingToSend
      receive   |-> <<>>,                       \* xTasksWaitingToReceive
      value     |-> [t \in Tasks |-> 0],        \* xItemValue of xGenericListItem
      xTickCount |-> 0, xNumOfOverflows |-> 0, xNextTaskUnblockTime |-> portMAX_DELAY,
      uxSchedulerSuspended |-> 0, uxPendedTicks |-> 0,
      xYieldPending |-> FALSE,
      pendSV    |-> FALSE ]                     \* the interrupt that switches is pending

(* uxListRemove of t's xGenericListItem, whichever list it is in.  Its value *)
(* means nothing after that: it counts as 0.                                *)
Unlink(k, t) ==
    [k EXCEPT !.ready = RemoveFirst(@, t), !.delayed = RemoveFirst(@, t), !.value[t] = 0,
              !.overflow = RemoveFirst(@, t), !.suspended = @ \ {t}]

(* prvAddTaskToReadyList. *)
AddToReady(k, t) == [k EXCEPT !.ready = InsertEnd(@, t)]

(* portYIELD_WITHIN_API and portEND_SWITCHING_ISR. *)
Yield(k) == [k EXCEPT !.pendSV = TRUE]

(* vTaskSwitchContext, called by the PendSV interrupt.                      *)
SwitchContext(k) ==
    IF k.uxSchedulerSuspended = 1
    THEN [k EXCEPT !.xYieldPending = TRUE, !.pendSV = FALSE]
    ELSE LET ring == NextEntry(k.ready)
             idle == k.ready = <<Marker>>
         IN  [k EXCEPT !.xYieldPending = FALSE, !.pendSV = FALSE,
                       !.ready = IF idle THEN @ ELSE ring,
                       !.pxCurrentTCB = IF idle THEN Idle ELSE Last(ring)]

(***************************************************************************)
(* xTaskRemoveFromEventList: the first waiting task becomes ready, or is   *)
(* held pending while the scheduler is suspended.  Its priority is never   *)
(* below the current task's, so a switch is always asked for.              *)
(***************************************************************************)
RemoveFromEventList(k, event) ==
    LET t == Head(k[event])
        k1 == [k EXCEPT ![event] = Tail(@), !.xYieldPending = TRUE]
    IN  IF k.uxSchedulerSuspended = 0
        THEN AddToReady(Unlink(k1, t), t)
        ELSE [k1 EXCEPT !.pending = Append(@, t)]

(* prvAddCurrentTaskToDelayedList. *)
AddToDelayed(k, t, wake) ==
    LET v == [k.value EXCEPT ![t] = wake] IN
    IF wake < k.xTickCount
    THEN [k EXCEPT !.value = v, !.overflow = Insert(@, t, v)]
    ELSE [k EXCEPT !.value = v, !.delayed = Insert(@, t, v),
                   !.xNextTaskUnblockTime = IF wake < @ THEN wake ELSE @]

TimeToWake(k, ticks) == (k.xTickCount + ticks) % TickWrap

(* The body of vTaskDelay. *)
Delay(k, t, ticks) == AddToDelayed(Unlink(k, t), t, TimeToWake(k, ticks))

(* vTaskPlaceOnEventList: a wait without end is not put among the delays.   *)
PlaceOnEventList(k, t, event, ticks) ==
    LET k1 == Unlink([k EXCEPT ![event] = Append(@, t)], t) IN
    IF ticks = portMAX_DELAY
    THEN [k1 EXCEPT !.suspended = @ \cup {t}]
    ELSE AddToDelayed(k1, t, TimeToWake(k, ticks))

-----------------------------------------------------------------------------
(* Ticks.                                                                   *)

NextUnblock(k) ==
    IF k.delayed = <<>> THEN portMAX_DELAY ELSE k.value[Head(k.delayed)]

(* taskSWITCH_DELAYED_LISTS, when the tick count has wrapped.               *)
MutantSwitchDelayedLists(k) == k        \* mutation: the lists are not switched
SwitchDelayedLists(k) ==
    LET k1 == [k EXCEPT !.delayed = k.overflow, !.overflow = k.delayed,
                        !.xNumOfOverflows = (@ + 1) % OverflowWrap]
    IN  [k1 EXCEPT !.xNextTaskUnblockTime = NextUnblock(k1)]

(* The event list that a task may wait in, when its time is up.             *)
MutantLeaveEvent(k, t) == k     \* mutation: the task stays in it
LeaveEvent(k, t) == [k EXCEPT !.send = RemoveFirst(@, t), !.receive = RemoveFirst(@, t)]

(* A round of the loop that makes the tasks ready whose time has come.      *)
WakeFirst(k) ==
    LET t == Head(k.delayed) IN
    IF k.delayed = <<>> \/ k.value[t] > k.xTickCount THEN k
    ELSE AddToReady(Unlink(LeaveEvent(k, t), t), t)

Expire(k) ==
    LET k1 == Rounds(WakeFirst, Len(k.delayed), k)
    IN  [k1 EXCEPT !.xNextTaskUnblockTime = NextUnblock(k1)]

(* xTaskIncrementTick: the next state, and whether a switch is required.    *)
IncrementTick(k) ==
    IF k.uxSchedulerSuspended = 1
    THEN [kernel |-> [k EXCEPT !.uxPendedTicks = @ + 1], switch |-> k.xYieldPending]
    ELSE LET k1 == [k EXCEPT !.xTickCount = (@ + 1) % TickWrap]
             k2 == IF k1.xTickCount = 0 THEN SwitchDelayedLists(k1) ELSE k1
             k3 == IF k2.xTickCount >= k2.xNextTaskUnblockTime THEN Expire(k2) ELSE k2
             slice == k.pxCurrentTCB # Idle /\ Len(k3.ready) > 2
         IN  [kernel |-> k3,
              switch |-> slice \/ k3.delayed # k2.delayed \/ k.xYieldPending]

(* xTaskResumeAll: the pending tasks become ready, the pended ticks count.  *)
MoveFirst(k) ==
    LET t == Head(k.pending)
        k1 == [k EXCEPT !.pending = Tail(@), !.xYieldPending = TRUE]
    IN  IF k.pending = <<>> THEN k ELSE AddToReady(Unlink(k1, t), t)

PendedTick(k) ==
    LET r == IncrementTick(k) IN
    IF k.uxPendedTicks = 0 THEN k
    ELSE [r.kernel EXCEPT !.xYieldPending = @ \/ r.switch, !.uxPendedTicks = k.uxPendedTicks - 1]

ResumeAll(k) ==
    LET k1 == Rounds(MoveFirst, Len(k.pending), [k EXCEPT !.uxSchedulerSuspended = 0])
        k2 == Rounds(PendedTick, k.uxPendedTicks, k1)
    IN  IF k2.xYieldPending THEN Yield(k2) ELSE k2

(***************************************************************************)
(* xTaskCheckForTimeOut: entry is what vTaskSetTimeOutState recorded.      *)
(***************************************************************************)
TimeOutState(k) == [overflows |-> k.xNumOfOverflows, entering |-> k.xTickCount]

Elapsed(k, entry) == (k.xTickCount - entry.entering) % TickWrap

MutantTimedOut(k, entry, ticks) ==      \* mutation: any overflow counts
    ticks # portMAX_DELAY /\ (k.xNumOfOverflows # entry.overflows \/ Elapsed(k, entry) >= ticks)
TimedOut(k, entry, ticks) ==
    /\ ticks # portMAX_DELAY
    /\ \/ k.xNumOfOverflows # entry.overflows /\ k.xTickCount >= entry.entering
       \/ Elapsed(k, entry) >= ticks
=============================================================================
