# Verification of the pet tracker firmware

The firmware (`src/firmware/projects/mascotas`) runs on an LPC1769 under
FreeRTOS 7.5.3. A SIM808 modem gives it GPS positions and SMS. The owner sends
one SMS with a safe zone (centre and radius); when the pet leaves the zone the
device texts its position to the owner, once a minute while the pet is outside.

This directory holds a model of that firmware in TLA+, the TLC runs that check
it on small instances, and TLAPS proofs of what holds for every instance.

## 1. Inventory

| Part | Where | State | Operations |
|---|---|---|---|
| `task_gsm` | `main.c` 218-458 | static `status` (16 cases), `coord`, `gsm_status`, `phone_number`, `device_status` | set up the modem, register, read and delete the configuration SMS, text alerts |
| `task_gps` | `main.c` 462-575 | static `status` (7 cases), `gps_status` | power the GPS, wait for a fix, ask for positions |
| `task_sim808_receive` | `main.c` 578-653 | static `status` 0..3, `index`, `last_response`; `sms_check` | cut the modem's bytes into responses |
| `task_coordinates` | `main.c` 185-215 | `new_coordinate`, `sms_hold` | compare a position with the zone, raise an alert |
| position parsing | `GPS.c` | statics of `parse_frame` | parse a frame, publish it; distance |
| UART driver | `UART.c` | `tx_in_progress[3]`, six queues of 100 bytes | `uart_send_data`, three interrupt handlers |
| safe zone | `main.c` 683-815, `NVM.c` | `sz_latitude`, `sz_longitude`, `sz_radius`, five registers GPREG0-4 | store a configuration, restore it after a reset |
| battery, LED, buzzer | `main.c` 656-680 and 819-846, `ADC.c`, `RGB.c`, `BUZZER.c` | three queues of one slot | measure, show the status, beep |
| FreeRTOS | `modules/lpc1769/freertos`: `list.c`, `tasks.c`, `queue.c`, `port.c` | ready ring, delayed lists, tick count, queues and their event lists | ticks, context switch, delay, send, receive, reset |
| SIM808 | hardware | | answers AT commands |

How they interact:

    SIM808 --UART1 handler--> queue_uart_1_rx --> task_sim808_receive
           --> queue_sim808 (5) --> task_gsm and task_gps, one at a time
    task_gsm, task_gps --uart_send_data--> queue_uart_1_tx --UART1 handler--> SIM808
    task_gps --queue_coordinates (1)--> task_coordinates --queue_sms (1)--> task_gsm
    mutex_sim808: one exchange with the modem; binary_sim808: task_gsm lets task_gps start
    shared without a lock: sms_check, sms_hold, gsm_status, gps_status,
                           device_status, the zone, tx_in_progress
    UART_DEBUG: four tasks print through uart_send_data

All eight tasks have the same priority and are preempted by time slices.

What is hard, and the property that makes each part correct:

* **The exchange.** A command and its answer are in two different cases of a
  `switch`, and so are the Take and the Give of `mutex_sim808`. Correct means
  that whoever is in an exchange holds the mutex (`MutexOwner`), and that what it
  receives answers its own command (`AnswersBelong`), although stale lines, late
  lines and unsolicited lines go through the same queue.
* **Framing.** The receiver counts CR LFs. Correct means that it is between two
  lines whenever the line is silent (`ReceiverInPhase`), although the body of a message
  comes as a bare line. The code allows for one bare line per AT+CMGL, so this holds
  only until two stored messages are listed at once.
* **Alerts.** `sms_hold` is written by two tasks without a lock, and the alert
  goes through a queue that drops it when full. Correct means that there is at
  most one alert, it is in one place, and `sms_hold` tells (`AlertConserved`);
  that it is justified (`AlertJustified`); and that an escape is reported again
  and again (`OutsideReported`).
* **Configuration.** The first message must be applied and not be deleted unread
  (`FirstConfigApplied`, `FirstConfigKept`).
* **Blocking.** Nearly every wait has no timeout, several of them with the mutex
  held. Correct means that positions go on coming (`PositionsKeepComing`).
* **The zone.** It is stored in eight statements, read while it may be half stored,
  and a reset may come after any of them. Correct means that loaded registers are
  those of one message (`RegistersWhole`), that the zone watched is the one told
  (`ZoneKept`) and compared with as a whole (`ReadsOneZone`), and that a reset does
  not lose a message (`EventuallyApplied`). The code protects the first zone only;
  what is left of this while a loaded zone is replaced, the properties say.
* **The kernel.** Interrupts come between a test of a queue and the wait for it, with
  the scheduler suspended and ticks pending. Correct means no lost wake-up
  (`NoLostWakeup`), no wait too short or too long (`NoEarlyTimeout`, `OnTime`), a
  task in the right lists (`ListsConsistent`), its turn for every task (`TurnComes`),
  and a counter that counts (`CountsItems`).
* **Indicators.** Requests go through queues of one place that drop what does not
  fit. Correct means that LED and alarm follow the state in the end (`LedSettles`,
  `AlarmFollowsBattery`), and what a wrong colour can mean (`WrongOnlyIfLost`).
* **Sending.** `tx_in_progress` is tested and set without a lock, against other
  tasks and the interrupt handler. Correct means that no byte is left behind
  (`NoByteForgotten`, `KeepsGoing`) and that a full queue is emptied (`RoomWillCome`),
  which a message longer than the queue prevents.
* **Restart.** Zone and number are kept in registers that survive a reset.
  Correct means that a restarted device reports as the one before the reset did.

The full list of hazards, each at its line, is in `PROJECT.json`.

## 2. Modules

    Sim808 <- Sim808Receive <- Tracker -> (INSTANCE) AlertCycle
                   Tracker <- TrackerProof <- TrackerAlertProof <- TrackerDialogueProof
    UartTx -> (INSTANCE) ByteLine        UartTx <- UartTxProof
    SafeZone <- MCSafeZone               SafeZone <- SafeZoneProof
    Scheduler <- Kernel <- MCKernel
    Scheduler <- SchedulerProof          Kernel, SchedulerProof <- KernelProof
    Indicators <- IndicatorsProof

**Sim808** is the environment: the modem is not in the repository, so it is
written from the commands the tasks send and the answers they compare with. What
it sends is a sequence of tokens: `NL` (the bytes CR LF) and the text of a line.
It answers a command at once and correctly unless it spends one of `MaxFaults`
faults: `silent` (no answer), `refuse` (an error), `late` (a delay or timeout of
the firmware ends before the answer is in), `urc` (a line nobody asked for) and
`early` ("SMS Ready" before it is awaited). Two things it does without a fault,
because the code provokes them: a command sent while it collects the text of an
SMS becomes part of the text, and AT+CMGS with a number that is none is refused.
The owner may send a configuration message at any moment, and messages may have come
while the device was off: `inbox` counts those stored, up to `MaxStored`, and AT+CMGL
lists all of them (`Listing`), each as a header and, after its CR LF, a bare line.
`crowded` remembers that it once listed more than one. `sms_check` covers one bare line,
so after a listing of two the receiver takes texts for gaps and gaps for texts; nothing
puts it right but another bare line too many.
Each token carries, for `AnswersBelong`, the command it answers; no action reads
that field. `intruded`, `crowded` and `retried` (in Tracker) are auxiliary too.

**Sim808Receive** is `task_sim808_receive`. State 1 (CR seen) is passed through
within a step, since the LF always follows on this line; the CR that ends a line
and the LF after it are two steps, because the `xQueueSend` between them may
block; `sms_check` is read in one step and cleared in the next, because `task_gsm`
may set it in between. `last_response.size` is 0, 2 or more, which is all the
code compares it with, and the text of an empty line is the one captured before,
as in the code, where `data` is not cleared.

**Tracker** is the core. `status` is the two static variables of the same name;
`pc` tells how far a task is inside its case:

| pc | in the code |
|---|---|
| `case` | at the top of the case; in a `WAIT_` case, in `xQueueReceive` |
| `delay` | has the mutex, is in `vTaskDelay` before the command |
| `coord` | `SEND_SMS_1`: has taken the alert, waits for the mutex |
| `body` | `WAIT_READ_SMS`: waits for the second line |
| `publish` | in `parse_frame`, waits for room in `queue_coordinates` |
| `give` | has handled the answer, about to give the mutex |

Each case is one action named after it, plus the shared `TaskTake` and `TaskGive`.
`task_coordinates` is one action per statement that touches shared state: the
receive, the test of `sms_hold`, its assignment, the send. The distance is
abstracted to whether a position is in `Outside`. Debug prints are left out;
UartTx shows when one of them blocks, and that it goes on with the next bytes printed,
but in the case of messages longer than the queue; what Tracker says of liveness assumes that
no debug print blocks for ever. Time is abstracted to `Elapsed`: a delay or timeout ends when everything the modem had to say has
arrived, unless the fault `late` is spent. `PowerUps` says which starts are considered:
the first one, with nothing in the registers, or one that finds a zone there.

**AlertCycle** is what the tracker promises about alerts: armed, raised, taken,
texted, pause, armed, with the same position all along. `Tracker` implements it
under `AlertPhase` and `AlertPosition`, which are computed from the place the
alert is in.

**UartTx** is `uart_send_data` and the transmit half of an interrupt handler, for
any set of tasks; the three ports have the same code. Each statement that touches
`tx_in_progress`, the queue or the holding register is an action. `data_index` counts the
bytes of a message already queued: the test of `tx_in_progress` comes after the last one, so
a message longer than the queue waits for room that nobody is going to make. A queue
operation is one step, as the kernel intends (see section 6). `Exclusive` says
how the port is used: UART_COMM only by the holder of the mutex, which waits for
the modem's answer; UART_DEBUG by any task at any moment.

**ByteLine** is what a port promises: bytes leave in order, each once.

**SafeZone** is the storing of a configuration message, which is one outcome in
Tracker. `pc` names the statement of `store_phone_number` and `store_sms_data` that
comes next; `After` is their order. The registers `gpreg` survive `Reset`, all other
variables but the modem's message do not. A coordinate is an integer with `Fine` units
per unit of a register. `Register` is the conversion as it is: the sign is dropped,
the rest truncated, and the product of a double with 10000 may fall one unit short.
`Restored` makes every coordinate negative. `task_coordinates` reads the three fields
one by one. `told`, `misread`, `replacing`, `spoiled`, `disturbed` and `parsed` are
auxiliary. `told` is the owner of the last message stored completely and the zone of the
last one of them that was well-formed, whatever the code made of the others.
A text has two commas, and then is a zone, or it has not (`Malformed`); the strings
cut from it are static and survive to the next message.

**Scheduler** is the part of FreeRTOS the firmware uses, as operators on a record with
the names of `tasks.c`: the ready ring with its marker and `pxIndex`, the two delayed
lists, the pending list, the event lists of one queue, ticks, suspension. All tasks
have one priority above the idle task, as in `main.c` 131-138, so priority inheritance
never has anything to do. **Kernel** puts tasks, `queue.c` and interrupts around it:
each critical section is an action, and so is each statement outside of one, so an
interrupt may come wherever it may in the code. The two halves of
`--uxMessagesWaiting` are two actions (`Receive`, `Store`); with `Masked` nothing can
come between them. `task[t].pc` follows `xQueueGenericSend` and `xQueueGenericReceive`:

| pc | in the code |
|---|---|
| `top` | at the head of the `for` loop: send, receive, refuse, or note the time |
| `suspend`, `lock` | `vTaskSuspendAll`, `prvLockQueue` |
| `timeout`, `check` | `xTaskCheckForTimeOut`, `prvIsQueueFull` or `prvIsQueueEmpty` |
| `place` | `vTaskPlaceOnEventList` |
| `unlockTx`, `unlockRx` | the two critical sections of `prvUnlockQueue` |
| `resume`, `yield` | `xTaskResumeAll`, the yield after it |
| `delay`, `back` | inside `vTaskDelay`, and at its end |

`left` is auxiliary: the ticks that must still pass before a wait may end.

**Indicators** is the LED and the alarm: `task_led` reads the flags one at a time,
requests go through queues of one place without waiting, the ADC's handler answers
`task_adc`. Delays take any time. The flags change as task_gsm and task_gps change
them.

## 3. Runs

| Run | Instance | Shows |
|---|---|---|
| `tracker_prompt` | no faults, up to two stored messages, fresh device, fairness | the first configuration is applied, however many messages there are; until two are listed at once: own answers, framing, the alert cycle is completed, positions keep coming, escapes reported |
| `tracker_faults` | one fault of any kind at any point, one stored message, fresh device or restarted with a stored zone | ownership of the mutex, conservation of alerts, alerts justified, AlertCycle implemented, first configuration not deleted unread |
| `uart_comm` | two senders in turns, messages of 1-3 bytes, queue of 3, 9 bytes | never blocks; all bytes leave in order |
| `safe_zone` | two zones, two owners (one number too long for a register), malformed messages, two resets | the registers are of the last message stored, or of that one and the one being stored; the zone kept within one unit over resets; the comparison with one zone, but while a loaded one is replaced; messages applied although resets interrupt |
| `kernel` | a receiver (with a time-out, without, reset) and a sender (send at once or waiting, delays), a queue of 2, handlers that send and receive, a tick count that wraps at 4 and an overflow count that wraps at 2 | lists consistent, waits on time, no early time-out, no lost wake-up, items counted, no ready task passed over |
| `indicators` | as in the code | LED and alarm settle on what they should show |
| `uart_debug` | three senders at any moment, messages of 0, 2 or 5 bytes, queue of 4, 8 bytes | no lost start, no byte left behind; a full queue is emptied unless it is full of unfinished messages |

Five runs find what the code does against its documentation:

| Run | What happens |
|---|---|
| `rx_unmasked` | the UART interrupts keep priority 0, which critical sections do not mask: a byte comes in between the read and the write of `--uxMessagesWaiting`, is put into the queue and is not counted |
| `restart_silent` | `NVM.c` declares `phone_number` an integer, `main.c` a text: after a restart the number is not one, every AT+CMGS is refused and no escape is reported |
| `two_messages` | a modem without any fault, two stored messages: AT+CMGL lists two headers and two bare lines, `sms_check` covers the first of these, and from then on the receiver pairs the wrong CR LFs and no position is recognised |
| `lost_answer` | the answer to AT+CMGL is lost, `sms_check` stays 1, the next line is taken for the header of a message, and the receiver pairs the wrong CR LFs from then on |
| `text_intruded` | the mutex is free between the prompt and the text of an SMS, and `task_gps` sends its command there |

The bounds. Positions: one inside the zone and one outside; nothing else is
compared. Faults: one, at any point of the endless behaviour; each of the code
paths for errors and timeouts is one fault away, and what needs no bound on the
faults is proved (section 5). The modem works on one command at a time, so
`uart_rx` is bounded by the answers themselves. `MaxStored` is 2 in `tracker_prompt` and
`two_messages`, so that the listing of several messages is in, and 1 in `tracker_faults`,
`restart_silent`, `lost_answer` and `text_intruded`; what those check of safety is proved for
any `MaxStored`. The queues have the code's own lengths (5, 1, 1); two messages do not fill
`queue_sim808`, five would. Five properties of `tracker_prompt` are conditional:
`AnswersBelong` and `ReceiverInPhase` speak of the time until two messages are listed at once
(`~crowded`), and `CompletesAlertCycle`, `PositionsKeepComing` and `OutsideReported` of
behaviours in which they never are (`OneAtATime`), which leaves in those where the owner
sends the next message after the one before has been deleted, or where a second one comes
between the listing and the deletion of the first. What happens otherwise is `two_messages`.
For UartTx, three senders are enough for two of them to race
for the start while a third adds bytes; a queue of 4 is filled by two messages of 2
together and by one of 5 alone, and the queue of 3 of `uart_comm` by one message. `MaxBytes`
bounds the bytes numbered; the queue runs full and empty more than once before.
For SafeZone, one zone has a coordinate the register holds exactly, one that it does
not, and one of the wrong sign; two resets let one interrupt the storing and another
the storing that makes up for it. For Kernel, two tasks are enough to fill each event
list, and with the other in a delay both delayed lists; a wrap at 4 makes waits of
2 and 3 ticks cross it; `MaxMeanwhile` = 1 lets one tick and one item of either kind fall into
each suspension, and the queue's length of 2 tells full, empty and neither apart.

What the runs show besides the properties: the LED can show blue, magenta or green for
a combination of flags that never existed, if the fix is lost between two reads; red
and yellow never do. A zone that is not south and west comes back mirrored: `ZoneKept`
says that the magnitudes are kept and that no restored coordinate is positive. A reset in
the middle of REPLACING a zone leaves registers of two zones under a status that says
loaded, until the message, which is not deleted yet, is read again: `spoiled` marks that
interval, and `RegistersWhole` says which two zones they can be of.

What the code does not protect, and the properties therefore exempt:

* a comparison of `task_coordinates` while a field of a loaded zone is being replaced, or with
  a zone that a reset left mixed (`disturbed` in `ReadsOneZone`);
* a first message since power-up without two commas, which loads a zone of zeros
  (`misread` in `ZoneKept`);
* a queue filled by the first parts of unfinished messages, the third case of `RoomWillCome`:
  its senders wait for ever. The firmware can get there on UART_DEBUG, where it prints
  responses of up to 150 bytes (`main.c` 302, 516) into a queue of 100 when the line is idle;
* a configuration message, other than the first, that is deleted before it was read
  (`FirstConfigKept`).

Deadlock is checked in `tracker_prompt`. With a fault the tracker really may stop
(`SMS_READY` waits without a timeout for a line the modem sends once), and on UART_DEBUG
senders may wait for each other's next byte, for room that nobody makes, or have nothing
to send; those runs say so. It is checked in
`safe_zone`, `kernel` and `indicators`.

## 4. Fairness

Tasks have equal priorities and the kernel switches between them on every tick
(`configUSE_PREEMPTION`, `main.c` 131-138), so weak fairness holds for each task. This
is what `TurnComes` shows of the kernel: no delay, wake-up or interrupt puts another
task before a ready one in the ring, and every switch brings it nearer to the
processor. It has one exception, which the ring has by construction: the task that
`pxIndex` points to can be overtaken by one that runs after it, blocks, and is woken
before the switch. `TurnComes` is a property of steps, since the liveness of the
whole kernel is too large for TLC; the ticks make the switches happen. It is proved for
any tasks (`TurnComesCorrect`).
Giving the mutex makes the waiting task ready and, at equal priority, runs it
(`tasks.c` 1995, `>=`), and every holder sleeps at least 10 ms with it, so a task
that waits for the mutex finds it free again and again and is not passed over for
ever: strong fairness for `TaskTake`. The modem works on the command it has, and
sends "SMS Ready" once it is awaited; what it never does on its own is a fault.
The owner's message is not fair: nobody has to send one. In UartTx the line moves
on, interrupts are served and a task that can run does; no task has to send. In
SafeZone task_gsm goes on; no message has to come and no position has to be checked.
In Indicators the tasks go on and the converter answers; nothing says how the flags or
the battery change. Kernel states no fairness.

## 5. Proofs

All proofs hold for any positions, any senders, sizes and capacity, any zones, owners and
number of resets, any number of stored messages and, but for three theorems that say so,
any faults and `MaxFaults`. They rest on the assumptions named in the modules.

* `TrackerProof`: `TypeCorrect`, one lemma for each group of actions, with the lengths
  of the four queues, which the other proofs use; and `MutexCorrect`. `MutexOwner` is not inductive: it says who holds
  the mutex, and a Give would break it if the status left behind expected the
  mutex. `GiveEndsExchange` adds that it never does, until an AT+CMGS has been
  left without its prompt (`retried`). From there on `WAIT_SEND_SMS_1` keeps its
  status and gives the mutex again each round (`main.c` 409-418), also while
  `task_gps` holds it: the code breaks its own rule there, and the theorem ends.
* `TrackerAlertProof`: `AlertsConserved`, `AlertsJustified` and `Refinement`, from
  one invariant `AlertInv`. Conservation is not inductive because
  `task_coordinates` sets `sms_hold` a step after it tested it: `HoldIsFree` says
  that it is still 0 then, which is true because only `task_gsm` writes it
  otherwise, and writes 0. `AllJustified` follows the position through every
  place; `NumberFirst` says that a number is stored before the zone is. Each action
  is shown to keep the invariant and to be a step of AlertCycle or a stutter.
  No part of it depends on the mutex, so it holds after a lost prompt too.
* `TrackerDialogueProof`: what passes between the tasks, the receiver and the modem.
  `AnswersBelongCorrect`, `ReceiverInPhaseCorrect` and `MutexAlwaysOwned` are about a
  modem that answers (`Prompt`: no fault is left to it, and the telephone number is not
  the one `NVM.c` restores), for any positions and any `MaxStored`, until AT+CMGL has listed
  more than one message at once; TLC shows that each of them ends there, and with one
  fault. They come from one invariant, `DialogueInv`, which holds as long as `~crowded`:
  a listing of one message is then the only one the induction has to follow, and
  `CrowdedStays` says that `crowded` is never taken back. `Framed` says that what
  the modem has sent and the receiver has not yet taken, counted from the place in its
  line where the receiver is, is one line, two lines, the message of AT+CMGL or the
  prompt, and that `sms_check` is 1 only where the next line is a bare one. `Load`
  bounds by 8 what is under way, twice the responses queued plus the tokens that will
  make one: with 5 places in `queue_sim808` a delay can then only end on a silent line,
  which is why the next command finds one. `OwnAnswers` and `Pending` say that whatever
  can still reach a waiting task answers its own command; that no two tasks wait is
  `MutexInv`. `PromptInv` says that the first response after AT+CMGS is the prompt, for
  which the number must be the owner's: that comes from `AlertsJustified`. So the
  repetition that ends `MutexOwner` never happens with such a modem.
  `FirstConfigKeptCorrect` holds for any modem, any faults and any number of messages: `ReadFirst` says that
  AT+CMGDA is only ever sent, or still on its way, once a configuration was stored.
* `SafeZoneProof`: `SafeZoneTypeCorrect`, `RegistersCorrect`, `ZoneCorrect` and
  `ReadingCorrect`, from one invariant, `SafeZoneInv`. None of the properties is
  inductive, because they speak of the moments when nothing is being stored.
  `Registers` says at each statement which registers are already those of the message
  and which still those of the one before; `Status` that the status register is loaded
  only by a complete message; `Pending` that while a loaded zone is being replaced, or
  after a reset in the middle of that, each register is of the message kept or of the one
  asked for; `ToldWell` that the zone told is a well-formed one, but for a misread message;
  `Watched` the same as `Registers` of the RAM, where a field is either the one told or the
  one restored; `Responding` ties the message being stored to the strings; `Checked` follows the fields task_coordinates has read. That a restored
  coordinate stored again would not move is not needed: a register is only ever written
  from a message, and that is the reason why the loss does not add up.
* `UartTxProof`: for any senders, `UartTypeCorrect`, `UartKeepsGoing` and
  `UartNoByteForgotten`, from `HandoverInv`, which adds that what gets into the
  holding register is a real byte. For senders in turns whose messages fit in the
  queue (`InTurns`), `UartNeverBlocks` and `UartRefinesByteLine`, from `TurnsInv`:
  there is one sender, it finds a silent line, and the bytes on the line, in the
  register or in hand, and in the queue have consecutive numbers. `UartRoomWillCome`
  is about any number of senders at any moment and messages of any size, and needs only that
  the senders are finitely many. `RoomInv` counts: while nobody transmits or is about to, the
  queue holds no other bytes than those of calls that have not reached the test of
  `tx_in_progress` (`Unfinished`). So a full queue that nobody is going to empty is full of
  those, which is the third case of the property and does happen in the run.
* `SchedulerProof`: what each operator of Scheduler does to a scheduler state. First lists
  without repetitions (`RemoveFirst`, `Insert` into a sorted list, the ring), then `Linked`
  (each task in one list for its state and at most one event list, but for those that are
  out for a moment), `Held` (who waits without end is in an event list), `Due` (the delayed
  lists sorted, nobody late) and `Looked` (the next look comes in time), one lemma per
  operator. The loops are `Rounds` of one operator, a recursive function: `LoopExists` and
  `LoopKeeps` are an induction over their rounds, written with sets because the induction
  theorems of the library take an operator. A second set of lemmas follows the time: what
  an operator leaves of a sleep (`Slept`) and of a wait that has been noted (`Noted`).
  While time stands still nothing is lost (`Rests`), and over n counted ticks nobody loses
  more than n (`Ages`), also where the lists change places at the wrap of the tick count
  and in the rounds that count the pended ticks. A third set follows the order of the
  ready ring (`NotPassed`, `RemoveFirstBefore`, `NextEntryBefore`, `SwitchContextTurns`).
* `KernelProof`: `KernelTypeCorrect`, `ListsConsistentCorrect` and `OnTimeCorrect`, for any
  tasks, calls, interrupts, widths of the tick count and length of the queue, whether or
  not the handlers are masked, from one invariant, `ListInv`. The lists are not inductive
  on their own: a task that has left the ready list still runs until the switch, so
  `RunsReady` says on which statements that may be, `Suspended` that the task which has
  suspended the scheduler is the one that runs and where in its call it is, `StoreReady`
  that nothing takes the task out of its critical section, `WaitsForOp` that who waits is
  in the call that waits, and `InWait` what the statements of a wait rely on.
  A step is then one of two kinds, a statement of the running task (`StatementKeeps`) or
  an interrupt that makes others ready and no more (`InterruptKeeps`), but for the switch.
  From `ListInv` and a second invariant, `TimeInv`, comes `NoEarlyTimeoutCorrect`. What the
  property says of the end of a wait is not inductive: `TimeInv` says at every tick of it
  that what is left of a delay is no more than the task's place in the delayed lists, that
  what is left of a wait for a queue is no more than what xTaskCheckForTimeOut will find
  in the recorded time, and that nothing is left where it sees that the tick count went all
  the way round; and that a delay waits for no event, so that no wake-up cuts it short.
  On the assumption `Masked` also `CounterCorrect`: the counter of a queue counts what is
  between its pointers. `rx_unmasked` shows that it does not without that assumption, so
  the priority of the handlers is all that the counter depends on, and the lists do not
  depend on it. `CountsItems` is not inductive, since it says nothing inside the critical
  section of a receive: `Counted` says there what has been read and how far the pointer
  has moved, and `Inside` that the task in it is the one that runs, so that nothing but
  its end can come next. `Holds` says without `%` that pointers and counter differ by
  whole turns of the ring.
  With `CounterCorrect` and on one more assumption, `OneSender`, comes
  `NoLostWakeupCorrect`, from `WakeInv`. The property speaks of an unlocked queue and counts
  every task of a call that does not wait. `Promised` says at every moment, while somebody
  waits or is about to (`Placing`), that there is for each item a task on its way to look
  (`Looking`, which leaves out those on their way to a wait) or a wake-up that a lock still
  owes (`Owing`), and the same of the room; `Listed` that whoever waits will look when it is
  woken. A task goes to wait only when it has found nothing, so it takes no promise with it.
  `OneSender` says that a queue which is reset has one sender: xQueueGenericReset makes
  room for several and wakes one task, as its comment says (`queue.c` 256-260), so with two
  senders waiting the second stays where it is, beside a queue with room, until the next
  receive. TLC finds that with three tasks. The firmware resets `queue_sim808` only, to which
  `task_sim808_receive` alone sends, and the `kernel` run has one sender for that reason.
  `TurnComesCorrect` needs `ListInv` only, masked or not. `Before(ring, t)` is the set of
  tasks that are visited up to `t`. A newcomer goes in before `pxIndex`, which is behind
  every other task, and it was in no ready list (`ListInv`), so it comes in once; a removal
  takes one away from those before `t`, and so does a switch, unless it is `t`'s turn.
  `NotPassed` says this of two rings for all but the task at `pxIndex`, and the lemmas of
  SchedulerProof carry it through the loops that wake several tasks (`Woke`).
* `IndicatorsProof`: `IndicatorsTypeCorrect` and `WrongOnlyIfLostCorrect`. The second
  is not inductive: `LedInv` says, for each flag `task_led` has read, which colours were
  meant at some moment since.

Every invariant and every action property that the passing runs check is stated by a
theorem. Only model-checked is what must eventually happen, since fairness and ENABLED are
out of the prover's reach: `CompletesAlertCycle`, `FirstConfigApplied`,
`PositionsKeepComing`, `OutsideReported`, `DeliversAll`, `EventuallyApplied`, `LedSettles`
and `AlarmFollowsBattery`.

## 6. Not modelled, and the plan

Not modelled: GPIO, C library stubs and start-up code (no state of their own);
the floating-point arithmetic of distances and of NMEA degrees, which neither TLC nor
the provers have; of the kernel, what the firmware does not use (creation and deletion
of tasks, several priorities, queue sets, timers, co-routines). The bytes within a text
are one token, so the bounds of `data[150]` and of the loops over it, and the characters
of a configuration message, are out of the model. In Tracker and UartTx a queue
operation is one step: Kernel shows the steps inside it, and `rx_unmasked` where they
are not what the kernel intends.

Most of the repository's lines are in modules that are vendored and not linked:
`arm_math`, `fatfs`, `fatfs_ssp`, `lwip`, `lpcusblib` and others, with example projects
around them. The Makefile of `mascotas` takes `freertos`, `base`, `board` and `chip`
only, and of `chip` the program uses the clock set-up of the start-up code. The models
cover the program's own modules and the part of the kernel it runs on; modelling a TCP/IP
stack or a file system that no task calls would say nothing about it.

What comes next:

1. `Framing`: the receiver byte by byte with the bound of `data[150]`, shown to implement
   Sim808Receive on lines that fit.
