-------------------------------- MODULE UartTx --------------------------------
(***************************************************************************)
(* Sending through one of the three serial ports (UART.c): tasks call      *)
(* uart_send_data, which queues the bytes and, if nobody is transmitting,  *)
(* takes the first one out and writes it to the holding register U0THR;    *)
(* from then on the interrupt handler feeds the register until the queue   *)
(* is empty.  tx_in_progress is shared by all of them without a lock.      *)
(*                                                                         *)
(* Bytes are numbered in the order in which they are queued.               *)
(***************************************************************************)
EXTENDS Integers, Sequences, FiniteSets

CONSTANTS
    Senders,    \* the tasks that use the port
    Sizes,      \* the values of data_size
    Capacity,   \* xQueueCreate(100, ...)
    Exclusive,  \* a call begins only when the line is idle (UART_COMM)
    MaxBytes    \* bound: bytes queued in a behaviour

ASSUME UartTxAssumption ==
    /\ IsFiniteSet(Senders)
    /\ Sizes \subseteq Nat
    /\ Capacity \in Nat \ {0}
    /\ Exclusive \in BOOLEAN
    /\ MaxBytes \in Nat

Empty == 0      \* no byte

VARIABLES
    tx_queue,           \* queue_uart_n_tx
    tx_in_progress,
    thr,                \* the holding register, or Empty
    thre,               \* its interrupt is pending
    pc, byte,           \* of each sender: where it is, its local
    data_index, left,   \* bytes of its message queued, and to queue
    accepted, emitted   \* the last byte queued, the last byte on the line

portVars   == <<tx_queue, tx_in_progress, thr, thre>>
senderVars == <<pc, left, data_index, byte>>
vars       == <<portVars, senderVars, accepted, emitted>>

PCs == {"idle", "queue", "claim", "receive", "write"}

TypeOK ==
    /\ tx_queue \in Seq(Nat) /\ Len(tx_queue) <= Capacity
    /\ tx_in_progress \in {0, 1}
    /\ thr \in Nat
    /\ thre \in BOOLEAN
    /\ pc \in [Senders -> PCs]
    /\ left \in [Senders -> Nat]
    /\ data_index \in [Senders -> Nat]
    /\ byte \in [Senders -> Nat]
    /\ accepted \in Nat
    /\ emitted \in Nat

Init ==
    /\ tx_queue = <<>>
    /\ tx_in_progress = 0
    /\ thr = Empty
    /\ thre = FALSE
    /\ pc = [s \in Senders |-> "idle"]
    /\ left = [s \in Senders |-> 0]
    /\ data_index = [s \in Senders |-> 0]
    /\ byte = [s \in Senders |-> Empty]
    /\ accepted = 0
    /\ emitted = 0

-----------------------------------------------------------------------------
(* uart_send_data.                                                          *)

MutantLineIdle == \A r \in Senders : pc[r] = "idle"    \* mutation: the answer is not awaited
LineIdle == tx_in_progress = 0 /\ \A r \in Senders : pc[r] = "idle"

Call(s) ==
    /\ pc[s] = "idle"
    /\ Exclusive => LineIdle
    /\ \E size \in Sizes : /\ accepted + size <= MaxBytes
                           /\ left' = [left EXCEPT ![s] = size]
    /\ data_index' = [data_index EXCEPT ![s] = 0]
    /\ pc' = [pc EXCEPT ![s] = "queue"]
    /\ UNCHANGED <<portVars, byte, accepted, emitted>>

MutantRoom == Len(tx_queue) <= Capacity     \* mutation: one too many
Room == Len(tx_queue) < Capacity

(* xQueueSend(queue, &(data[data_index]), portMAX_DELAY). *)
QueueByte(s) ==
    /\ pc[s] = "queue" /\ left[s] > 0
    /\ Room
    /\ tx_queue' = Append(tx_queue, accepted + 1)
    /\ accepted' = accepted + 1
    /\ left' = [left EXCEPT ![s] = @ - 1]
    /\ data_index' = [data_index EXCEPT ![s] = @ + 1]
    /\ UNCHANGED <<tx_in_progress, thr, thre, pc, byte, emitted>>

(* if (tx_in_progress == 0) *)
MutantMustStart == tx_in_progress = 1       \* mutation: the test is inverted
MustStart == tx_in_progress = 0

(* data_index is not used again before the next call sets it to 0. *)
Check(s) ==
    /\ pc[s] = "queue" /\ left[s] = 0
    /\ pc' = [pc EXCEPT ![s] = IF MustStart THEN "claim" ELSE "idle"]
    /\ data_index' = [data_index EXCEPT ![s] = 0]
    /\ UNCHANGED <<portVars, left, byte, accepted, emitted>>

Claim(s) ==
    /\ pc[s] = "claim"
    /\ tx_in_progress' = 1
    /\ pc' = [pc EXCEPT ![s] = "receive"]
    /\ UNCHANGED <<tx_queue, thr, thre, left, data_index, byte, accepted, emitted>>

(* xQueueReceive(queue, &byte, portMAX_DELAY). *)
TakeByte(s) ==
    /\ pc[s] = "receive"
    /\ tx_queue # <<>>
    /\ byte' = [byte EXCEPT ![s] = Head(tx_queue)]
    /\ tx_queue' = Tail(tx_queue)
    /\ pc' = [pc EXCEPT ![s] = "write"]
    /\ UNCHANGED <<tx_in_progress, thr, thre, left, data_index, accepted, emitted>>

(* U0THR = byte.  What the register held is overwritten; the write also     *)
(* withdraws an interrupt that is pending.                                  *)
WriteByte(s) ==
    /\ pc[s] = "write"
    /\ thr' = byte[s]
    /\ thre' = FALSE
    /\ byte' = [byte EXCEPT ![s] = Empty]
    /\ pc' = [pc EXCEPT ![s] = "idle"]
    /\ UNCHANGED <<tx_queue, tx_in_progress, left, data_index, accepted, emitted>>

Sender(s) == \/ QueueByte(s) \/ Check(s) \/ Claim(s) \/ TakeByte(s) \/ WriteByte(s)

-----------------------------------------------------------------------------
(* The hardware: the register moves to the shift register and on the line.  *)

Shift ==
    /\ thr # Empty
    /\ emitted' = thr
    /\ thr' = Empty
    /\ thre' = TRUE
    /\ UNCHANGED <<tx_queue, tx_in_progress, senderVars, accepted>>

(***************************************************************************)
(* UART0_IRQHandler, iir & 0x02.  No task runs while it does.              *)
(***************************************************************************)
MutantAtEnd == tx_in_progress       \* mutation: the handler leaves the flag
AtEnd == 0

IrqTransmit ==
    /\ thre
    /\ thre' = FALSE
    /\ IF tx_queue = <<>>
       THEN /\ tx_in_progress' = AtEnd
            /\ UNCHANGED <<tx_queue, thr>>
       ELSE /\ thr' = Head(tx_queue)
            /\ tx_queue' = Tail(tx_queue)
            /\ UNCHANGED tx_in_progress
    /\ UNCHANGED <<senderVars, accepted, emitted>>

Next == (\E s \in Senders : Call(s) \/ Sender(s)) \/ Shift \/ IrqTransmit

Safety == Init /\ [][Next]_vars

(* The line works, interrupts are served and a task that can run does. *)
Fairness == WF_vars(Shift) /\ WF_vars(IrqTransmit) /\ \A s \in Senders : WF_vars(Sender(s))

Spec == Safety /\ Fairness

-----------------------------------------------------------------------------
(* Properties that hold however many tasks send, whenever they send.        *)

(* tx_in_progress = 1 is not left behind: a byte is in the register, an     *)
(* interrupt is pending, or a task is about to write the register.          *)
KeepsGoing ==
    tx_in_progress = 1 => \/ thr # Empty
                          \/ thre
                          \/ \E s \in Senders : pc[s] \in {"receive", "write"}

(* A queued byte is not forgotten: a transmission is in progress, or a task *)
(* has still to check whether it is, or has found that it is not.           *)
NoByteForgotten ==
    tx_queue # <<>> => \/ tx_in_progress = 1
                       \/ \E s \in Senders : pc[s] \in {"queue", "claim"}

(* The bytes queued by the calls of uart_send_data that have not reached    *)
(* the test of tx_in_progress, each as sender and place in its message.     *)
Unfinished ==
    {b \in Senders \X (1..MaxBytes) : pc[b[1]] = "queue" /\ b[2] <= data_index[b[1]]}

(* A full queue will be emptied: a transmission is in progress, or a task   *)
(* that has nothing left to queue is going to start one.  The one exception *)
(* is a queue full of the first parts of messages whose senders wait for    *)
(* room, as with one message longer than the queue: they wait for ever.     *)
RoomWillCome ==
    ~Room => \/ tx_in_progress = 1
             \/ \E s \in Senders : pc[s] = "claim" \/ (pc[s] = "queue" /\ left[s] = 0)
             \/ Cardinality(Unfinished) >= Capacity

-----------------------------------------------------------------------------
(* Properties of a port whose users take turns with messages that fit.      *)

InTurns == Exclusive /\ Sizes \subseteq 1..Capacity

(* uart_send_data never blocks, neither on a full queue nor on an empty one. *)
NeverBlocks ==
    \A s \in Senders : /\ pc[s] = "queue" /\ left[s] > 0 => Room
                       /\ pc[s] = "receive" => tx_queue # <<>>

(* The port implements the byte line, and all bytes get out.                *)
Line == INSTANCE ByteLine

ImplementsByteLine == Line!ByteLineSafety
DeliversAll        == Line!ByteLineSpec
=============================================================================
