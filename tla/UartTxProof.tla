----------------------------- MODULE UartTxProof -----------------------------
(***************************************************************************)
(* Proofs about UartTx.  First, for any senders, sizes and capacity: the   *)
(* flag is never left behind, no byte is forgotten, and nobody waits for    *)
(* ever on a full queue unless it is full of messages that do not fit.     *)
(* Then, for a port whose users take turns with messages that fit in the   *)
(* queue: nobody blocks, and the port implements ByteLine.                 *)
(***************************************************************************)
EXTENDS UartTx, FiniteSetTheorems, TLAPS

(* Every step keeps the variables in their ranges.                          *)
LEMMA TypeStep ==
    ASSUME TypeOK, [Next]_vars
    PROVE  TypeOK'
<1> USE UartTxAssumption
<1>1. CASE UNCHANGED vars
  BY <1>1 DEF vars, portVars, senderVars, TypeOK
<1>2. ASSUME NEW s \in Senders, Call(s)
      PROVE  TypeOK'
  <2>1. PICK size \in Sizes : left' = [left EXCEPT ![s] = size]
    BY <1>2 DEF Call
  <2> QED
    BY <1>2, <2>1 DEF Call, portVars, TypeOK, PCs
<1>3. ASSUME NEW s \in Senders, QueueByte(s)
      PROVE  TypeOK'
  <2>1. left' \in [Senders -> Nat] /\ data_index' \in [Senders -> Nat]
    BY <1>3 DEF QueueByte, TypeOK
  <2>2. tx_queue' \in Seq(Nat) /\ Len(tx_queue') <= Capacity /\ accepted' \in Nat
    BY <1>3 DEF QueueByte, Room, TypeOK
  <2> QED
    BY <1>3, <2>1, <2>2 DEF QueueByte, TypeOK
<1>4. ASSUME NEW s \in Senders, Check(s) \/ Claim(s)
      PROVE  TypeOK'
  BY <1>4 DEF Check, Claim, portVars, TypeOK, PCs
<1>5. ASSUME NEW s \in Senders, TakeByte(s)
      PROVE  TypeOK'
  <2>1. Head(tx_queue) \in Nat /\ Tail(tx_queue) \in Seq(Nat) /\ Len(Tail(tx_queue)) <= Capacity
    BY <1>5 DEF TakeByte, TypeOK
  <2> QED
    BY <1>5, <2>1 DEF TakeByte, TypeOK, PCs
<1>6. ASSUME NEW s \in Senders, WriteByte(s)
      PROVE  TypeOK'
  BY <1>6 DEF WriteByte, TypeOK, PCs, Empty
<1>7. CASE Shift
  BY <1>7 DEF Shift, senderVars, TypeOK, Empty
<1>8. CASE IrqTransmit
  <2>1. tx_queue # <<>> => /\ Head(tx_queue) \in Nat /\ Tail(tx_queue) \in Seq(Nat)
                           /\ Len(Tail(tx_queue)) <= Capacity
    BY DEF TypeOK
  <2> QED
    BY <1>8, <2>1 DEF IrqTransmit, AtEnd, senderVars, TypeOK
<1> QED
  BY <1>1, <1>2, <1>3, <1>4, <1>5, <1>6, <1>7, <1>8 DEF Next, Sender

(***************************************************************************)
(* The sending path never overfills queue_uart_n_tx and keeps its types.   *)
(***************************************************************************)
THEOREM UartTypeCorrect == Safety => []TypeOK
<1>1. Init => TypeOK
  <2> SUFFICES ASSUME Init PROVE TypeOK
    OBVIOUS
  <2>1. tx_queue \in Seq(Nat) /\ Len(tx_queue) <= Capacity
    BY UartTxAssumption DEF Init
  <2>2. /\ pc \in [Senders -> PCs]
        /\ left \in [Senders -> Nat] /\ byte \in [Senders -> Nat]
        /\ data_index \in [Senders -> Nat]
    BY DEF Init, PCs, Empty
  <2> QED
    BY <2>1, <2>2 DEF Init, TypeOK, Empty
<1>2. TypeOK /\ [Next]_vars => TypeOK'
  BY TypeStep
<1> QED
  BY <1>1, <1>2, PTL DEF Safety

-----------------------------------------------------------------------------
(* Any senders.                                                             *)

(* The numbers of the bytes that are about to reach the holding register    *)
(* are not 0, which stands for the empty register.                          *)
RealBytes == /\ \A i \in 1..Len(tx_queue) : tx_queue[i] # Empty
             /\ \A s \in Senders : pc[s] = "write" => byte[s] # Empty

HandoverInv == KeepsGoing /\ NoByteForgotten /\ RealBytes

(* What is left of a queue of real bytes, and its first byte, are real.     *)
LEMMA TakeReal ==
    ASSUME TypeOK, RealBytes, tx_queue # <<>>
    PROVE  /\ Head(tx_queue) # Empty
           /\ \A i \in 1..Len(Tail(tx_queue)) : Tail(tx_queue)[i] # Empty
  BY DEF TypeOK, RealBytes

(* No step of any sender, of the handler or of the line breaks it.          *)
LEMMA HandoverStep ==
    ASSUME TypeOK, HandoverInv, [Next]_vars
    PROVE  HandoverInv'
<1> USE DEF HandoverInv, KeepsGoing, NoByteForgotten, RealBytes
<1>1. CASE UNCHANGED vars
  BY <1>1 DEF vars, portVars, senderVars
<1>2. ASSUME NEW s \in Senders, Call(s)
      PROVE  HandoverInv'
  BY <1>2 DEF Call, portVars, TypeOK
<1>3. ASSUME NEW s \in Senders, QueueByte(s)
      PROVE  HandoverInv'
  <2>1. KeepsGoing'
    BY <1>3 DEF QueueByte
  <2>2. NoByteForgotten'
    BY <1>3 DEF QueueByte
  <2>3. \A i \in 1..Len(tx_queue') : tx_queue'[i] # Empty
    BY <1>3, SMTT(60) DEF QueueByte, TypeOK, Empty
  <2> QED
    BY <1>3, <2>1, <2>2, <2>3 DEF QueueByte
<1>4. ASSUME NEW s \in Senders, Check(s)
      PROVE  HandoverInv'
  BY <1>4 DEF Check, MustStart, portVars, TypeOK
<1>5. ASSUME NEW s \in Senders, Claim(s)
      PROVE  HandoverInv'
  BY <1>5 DEF Claim, TypeOK
<1>6. ASSUME NEW s \in Senders, TakeByte(s)
      PROVE  HandoverInv'
  <2>1. pc'[s] = "write" /\ \A r \in Senders \ {s} : pc'[r] = pc[r]
    BY <1>6 DEF TakeByte, TypeOK
  <2>2. byte'[s] # Empty /\ \A r \in Senders \ {s} : byte'[r] = byte[r]
    BY <1>6, TakeReal DEF TakeByte, TypeOK
  <2>3. \A i \in 1..Len(tx_queue') : tx_queue'[i] # Empty
    BY <1>6, TakeReal DEF TakeByte
  <2>4. RealBytes'
    BY <2>1, <2>2, <2>3
  <2>5. KeepsGoing'
    BY <2>1
  <2> QED
    BY <1>6, <2>4, <2>5 DEF TakeByte
<1>7. ASSUME NEW s \in Senders, WriteByte(s)
      PROVE  HandoverInv'
  BY <1>7 DEF WriteByte, TypeOK
<1>8. CASE Shift
  BY <1>8 DEF Shift, senderVars
<1>9. CASE IrqTransmit
  <2>1. CASE tx_queue = <<>>
    BY <1>9, <2>1 DEF IrqTransmit, AtEnd, senderVars
  <2>2. CASE tx_queue # <<>>
    BY <1>9, <2>2, TakeReal DEF IrqTransmit, senderVars
  <2> QED
    BY <2>1, <2>2
<1> QED
  BY <1>1, <1>2, <1>3, <1>4, <1>5, <1>6, <1>7, <1>8, <1>9 DEF Next, Sender

(* It therefore holds throughout.                                          *)
LEMMA HandoverCorrect == Safety => []HandoverInv
<1>1. Init => HandoverInv
  BY DEF Init, HandoverInv, KeepsGoing, NoByteForgotten, RealBytes, Empty
<1>2. TypeOK /\ HandoverInv /\ [Next]_vars => HandoverInv'
  BY HandoverStep
<1> QED
  BY <1>1, <1>2, UartTypeCorrect, PTL DEF Safety

(***************************************************************************)
(* However many tasks send, whenever they do and whatever the lengths:     *)
(* tx_in_progress is 1 only while somebody still has to clear it.          *)
(***************************************************************************)
THEOREM UartKeepsGoing == Safety => []KeepsGoing
<1>1. HandoverInv => KeepsGoing
  BY DEF HandoverInv
<1> QED
  BY <1>1, HandoverCorrect, PTL

(***************************************************************************)
(* And a byte in the queue is always going to be transmitted: either a     *)
(* transmission is in progress or a sender has still to start it.          *)
(***************************************************************************)
THEOREM UartNoByteForgotten == Safety => []NoByteForgotten
<1>1. HandoverInv => NoByteForgotten
  BY DEF HandoverInv
<1> QED
  BY <1>1, HandoverCorrect, PTL

-----------------------------------------------------------------------------
(* Who waits for room.                                                      *)

Still == tx_in_progress = 0 /\ \A s \in Senders : pc[s] # "claim"

(* While nobody transmits or is about to, the queue holds no other bytes    *)
(* than those of unfinished messages.                                       *)
RoomInv ==
    /\ \A s \in Senders : data_index[s] + left[s] <= MaxBytes
    /\ Still => Len(tx_queue) <= Cardinality(Unfinished)

(* There are finitely many such bytes.                                      *)
LEMMA UnfinishedFinite == IsFiniteSet(Unfinished) /\ IsFiniteSet(Unfinished')
<1>1. IsFiniteSet(Senders \X (1..MaxBytes))
  <2>1. IsFiniteSet(1..MaxBytes) /\ IsFiniteSet(Senders)
    BY FS_Interval, UartTxAssumption
  <2> QED
    BY <2>1, FS_Product
<1>2. Unfinished \subseteq Senders \X (1..MaxBytes) /\ Unfinished' \subseteq Senders \X (1..MaxBytes)
  BY DEF Unfinished
<1> QED
  BY <1>1, <1>2, FS_Subset

(* A step that only adds such bytes, and none to the queue, keeps the bound. *)
LEMMA UnfinishedMore ==
    ASSUME TypeOK, TypeOK',
           Unfinished \subseteq Unfinished', Len(tx_queue') <= Len(tx_queue),
           Len(tx_queue) <= Cardinality(Unfinished)
    PROVE  Len(tx_queue') <= Cardinality(Unfinished')
<1>1. Cardinality(Unfinished) <= Cardinality(Unfinished')
  BY UnfinishedFinite, FS_Subset
<1>2. Cardinality(Unfinished) \in Nat /\ Cardinality(Unfinished') \in Nat
  BY UnfinishedFinite, FS_CardinalityType
<1> QED
  BY <1>1, <1>2 DEF TypeOK

(* No step of any sender, of the handler or of the line breaks it.          *)
LEMMA RoomStep ==
    ASSUME TypeOK, TypeOK', RoomInv, [Next]_vars
    PROVE  RoomInv'
<1> DEFINE Within == \A s \in Senders : data_index'[s] + left'[s] <= MaxBytes
<1> DEFINE Bound == Still' => Len(tx_queue') <= Cardinality(Unfinished')
<1> SUFFICES Within /\ Bound
  BY DEF RoomInv
<1>0. /\ \A s \in Senders : data_index[s] \in Nat /\ left[s] \in Nat
      /\ \A s \in Senders : data_index[s] + left[s] <= MaxBytes
      /\ Still => Len(tx_queue) <= Cardinality(Unfinished)
      /\ Len(tx_queue) \in Nat /\ MaxBytes \in Nat
      /\ Cardinality(Unfinished) \in Nat /\ Cardinality(Unfinished') \in Nat
  BY UnfinishedFinite, FS_CardinalityType, UartTxAssumption, SMTT(60) DEF RoomInv, TypeOK
<1>1. CASE UNCHANGED vars
  BY <1>0, <1>1 DEF vars, portVars, senderVars, Unfinished, Still
<1>2. ASSUME NEW s \in Senders, Call(s)
      PROVE  Within /\ Bound
  <2>1. PICK size \in Sizes : accepted + size <= MaxBytes /\ left' = [left EXCEPT ![s] = size]
    BY <1>2 DEF Call
  <2>2. data_index' = [data_index EXCEPT ![s] = 0]
    BY <1>2 DEF Call
  <2>3. Within
    <3>1. size <= MaxBytes /\ size \in Nat
      BY <2>1, <1>0, UartTxAssumption DEF TypeOK
    <3> QED
      BY <1>0, <2>1, <2>2, <3>1 DEF TypeOK
  <2>4. Unfinished \subseteq Unfinished'
    BY <1>2, <2>2 DEF Call, Unfinished, TypeOK
  <2>5. Still' => Still
    BY <1>2 DEF Call, portVars, TypeOK, Still
  <2>6. tx_queue' = tx_queue
    BY <1>2 DEF Call, portVars
  <2> QED
    BY <1>0, <2>3, <2>4, <2>5, <2>6, UnfinishedMore
<1>3. ASSUME NEW s \in Senders, QueueByte(s)
      PROVE  Within /\ Bound
  <2> DEFINE next == data_index[s] + 1
  <2>1. /\ left'[s] = left[s] - 1 /\ data_index'[s] = next /\ next \in 1..MaxBytes
        /\ \A r \in Senders \ {s} : left'[r] = left[r] /\ data_index'[r] = data_index[r]
    <3>1. left' = [left EXCEPT ![s] = @ - 1] /\ left[s] > 0
      BY <1>3 DEF QueueByte
    <3>2. data_index' = [data_index EXCEPT ![s] = next]
      BY <1>3 DEF QueueByte
    <3>3. left \in [Senders -> Nat] /\ data_index \in [Senders -> Nat]
      BY DEF TypeOK
    <3>4. next \in 1..MaxBytes
      BY <1>0, <3>1
    <3> HIDE DEF next
    <3> QED
      BY <3>1, <3>2, <3>3, <3>4
  <2>2. Within
    <3>1. data_index'[s] + left'[s] = data_index[s] + left[s]
      <4>1. data_index'[s] = data_index[s] + 1 /\ left'[s] = left[s] - 1
        BY <2>1
      <4>2. data_index[s] \in Nat /\ left[s] \in Nat
        BY <1>0
      <4> QED
        BY <4>1, <4>2
    <3>2. \A r \in Senders \ {s} : data_index'[r] + left'[r] = data_index[r] + left[r]
      BY <2>1
    <3> QED
      BY <1>0, <3>1, <3>2
  <2>3. Unfinished' = Unfinished \cup {<<s, next>>}
    <3>1. ASSUME NEW r \in Senders, NEW i \in 1..MaxBytes
          PROVE  <<r, i>> \in Unfinished' <=> <<r, i>> \in Unfinished \/ <<r, i>> = <<s, next>>
      <4>1. pc' = pc /\ pc[s] = "queue"
        BY <1>3 DEF QueueByte
      <4>2. <<r, i>> \in Unfinished' <=> pc[r] = "queue" /\ i <= data_index'[r]
        BY <4>1 DEF Unfinished
      <4>3. <<r, i>> \in Unfinished <=> pc[r] = "queue" /\ i <= data_index[r]
        BY DEF Unfinished
      <4>4. CASE r = s
        BY <1>0, <2>1, <4>1, <4>2, <4>3, <4>4
      <4>5. CASE r # s
        BY <2>1, <4>2, <4>3, <4>5
      <4> QED
        BY <4>4, <4>5
    <3>2. /\ <<s, next>> \in Senders \X (1..MaxBytes)
          /\ Unfinished \subseteq Senders \X (1..MaxBytes)
          /\ Unfinished' \subseteq Senders \X (1..MaxBytes)
      BY <2>1 DEF Unfinished
    <3> HIDE DEF next
    <3> QED
      BY <3>1, <3>2
  <2>4. <<s, next>> \notin Unfinished
    BY <1>0 DEF Unfinished
  <2>5. Cardinality(Unfinished') = Cardinality(Unfinished) + 1
    BY <2>3, <2>4, UnfinishedFinite, FS_AddElement
  <2>6. Len(tx_queue') = Len(tx_queue) + 1
    BY <1>3 DEF QueueByte, TypeOK
  <2>7. Still' => Still
    BY <1>3 DEF QueueByte, Still
  <2> QED
    BY <1>0, <2>2, <2>5, <2>6, <2>7
<1>4. ASSUME NEW s \in Senders, Check(s)
      PROVE  Within /\ Bound
  <2>1. left' = left /\ data_index' = [data_index EXCEPT ![s] = 0]
    BY <1>4 DEF Check
  <2>2. Within
    BY <1>0, <2>1 DEF TypeOK
  <2>3. ~Still'
    BY <1>4 DEF Check, MustStart, portVars, TypeOK, Still
  <2> QED
    BY <2>2, <2>3
<1>5. ASSUME NEW s \in Senders, Claim(s)
      PROVE  Within /\ Bound
  BY <1>0, <1>5 DEF Claim, Still
<1>6. ASSUME NEW s \in Senders, TakeByte(s) \/ WriteByte(s)
      PROVE  Within /\ Bound
  <2>1. /\ left' = left /\ data_index' = data_index /\ tx_in_progress' = tx_in_progress
        /\ Len(tx_queue') <= Len(tx_queue)
        /\ \A r \in Senders : pc[r] \in {"queue", "claim"} <=> pc'[r] \in {"queue", "claim"}
        /\ \A r \in Senders : pc[r] = "queue" => pc'[r] = "queue"
    BY <1>6, SMTT(60) DEF TakeByte, WriteByte, TypeOK
  <2>2. Unfinished \subseteq Unfinished'
    BY <2>1 DEF Unfinished
  <2>3. Still' => Still
    BY <1>6 DEF TakeByte, WriteByte, TypeOK, Still
  <2>4. Within
    BY <1>0, <2>1
  <2> QED
    BY <1>0, <2>1, <2>2, <2>3, <2>4, UnfinishedMore
<1>7. CASE Shift
  BY <1>0, <1>7 DEF Shift, senderVars, Unfinished, Still
<1>8. CASE IrqTransmit
  <2>1. left' = left /\ data_index' = data_index /\ pc' = pc /\ Unfinished' = Unfinished
    BY <1>8 DEF IrqTransmit, senderVars, Unfinished
  <2>2. CASE tx_queue = <<>>
    BY <1>0, <1>8, <2>1, <2>2 DEF IrqTransmit
  <2>3. CASE tx_queue # <<>>
    <3>1. Len(tx_queue') <= Len(tx_queue) /\ tx_in_progress' = tx_in_progress
      BY <1>8, <2>3 DEF IrqTransmit, TypeOK
    <3> QED
      BY <1>0, <2>1, <3>1, UnfinishedMore DEF Still
  <2> QED
    BY <2>2, <2>3
<1> QED
  BY <1>1, <1>2, <1>3, <1>4, <1>5, <1>6, <1>7, <1>8 DEF Next, Sender

(***************************************************************************)
(* For any senders and messages of any length: a task waits on a full      *)
(* queue only while somebody transmits or is going to without having to    *)
(* wait, or while the queue is full of the first parts of messages that    *)
(* are all still being queued, which therefore do not fit in it.           *)
(***************************************************************************)
THEOREM UartRoomWillCome == Safety => []RoomWillCome
<1>1. Init => RoomInv
  <2> SUFFICES ASSUME Init PROVE RoomInv
    OBVIOUS
  <2>1. Cardinality(Unfinished) \in Nat /\ MaxBytes \in Nat
    BY UnfinishedFinite, FS_CardinalityType, UartTxAssumption
  <2>2. Len(tx_queue) = 0
    BY DEF Init
  <2> QED
    BY <2>1, <2>2 DEF Init, RoomInv
<1>2. TypeOK /\ TypeOK' /\ RoomInv /\ [Next]_vars => RoomInv'
  BY RoomStep
<1>3. TypeOK /\ RoomInv => RoomWillCome
  <2> SUFFICES ASSUME TypeOK, RoomInv, ~Room, Still
               PROVE  Cardinality(Unfinished) >= Capacity
    BY DEF RoomWillCome, Still, TypeOK
  <2>1. Len(tx_queue) <= Cardinality(Unfinished) /\ Cardinality(Unfinished) \in Nat
    BY UnfinishedFinite, FS_CardinalityType DEF RoomInv
  <2> QED
    BY <2>1, UartTxAssumption DEF Room, TypeOK
<1> QED
  BY <1>1, <1>2, <1>3, UartTypeCorrect, PTL DEF Safety

-----------------------------------------------------------------------------
(* A port whose users take turns.                                           *)

(* The number of the last byte that has left the queue.                     *)
Taken == accepted - Len(tx_queue)

OneSender == \A r, s \in Senders : pc[r] # "idle" /\ pc[s] # "idle" => r = s

(* While somebody sends, the line is silent, there is room for the rest of  *)
(* the message and, once it is queued, a byte to take.                      *)
LineQuiet ==
    /\ thr # Empty \/ thre => tx_in_progress = 1
    /\ thr = Empty \/ ~thre
    /\ \A s \in Senders : pc[s] # "idle" => thr = Empty /\ ~thre
    /\ \A s \in Senders : pc[s] \in {"queue", "claim"} => tx_in_progress = 0
    /\ \A s \in Senders : pc[s] = "queue" => /\ left[s] + Len(tx_queue) <= Capacity
                                             /\ left[s] + Len(tx_queue) > 0
    /\ \A s \in Senders : pc[s] \in {"claim", "receive"} => tx_queue # <<>>
    /\ \A s \in Senders : pc[s] = "write" => tx_in_progress = 1

(* The bytes are on the line, in the register or in a sender's hand, and in *)
(* the queue, in the order of their numbers.                                *)
InHand == thr # Empty \/ \E s \in Senders : pc[s] = "write"

InOrder ==
    /\ \A i \in 1..Len(tx_queue) : tx_queue[i] = Taken + i
    /\ thr # Empty => thr = Taken
    /\ \A s \in Senders : pc[s] = "write" => byte[s] = Taken
    /\ emitted = IF InHand THEN Taken - 1 ELSE Taken
    /\ emitted >= 0

TurnsInv == OneSender /\ LineQuiet /\ InOrder

(* The first byte of the queue is the one after the last that was taken.   *)
LEMMA TakeNext ==
    ASSUME TypeOK, InOrder, tx_queue # <<>>
    PROVE  /\ Head(tx_queue) = Taken + 1
           /\ Len(Tail(tx_queue)) = Len(tx_queue) - 1
           /\ \A i \in 1..Len(Tail(tx_queue)) : Tail(tx_queue)[i] = Taken + 1 + i
           /\ Taken \in Nat /\ Taken + 1 # Empty
<1>1. Taken \in Nat
  BY DEF TypeOK, InOrder, Taken
<1> QED
  BY <1>1 DEF TypeOK, InOrder, Empty

(* No step of a sender, of the handler or of the line breaks it.           *)
LEMMA TurnsStep ==
    ASSUME InTurns, TypeOK, TypeOK', HandoverInv, TurnsInv, [Next]_vars
    PROVE  TurnsInv'
<1> USE DEF TurnsInv, OneSender
<1>1. CASE UNCHANGED vars
  BY <1>1 DEF vars, portVars, senderVars, LineQuiet, InOrder, InHand, Taken
<1>2. ASSUME NEW s \in Senders, Call(s)
      PROVE  TurnsInv'
  <2>1. LineIdle
    BY <1>2 DEF Call, InTurns
  <2>2. PICK size \in Sizes : left' = [left EXCEPT ![s] = size]
    BY <1>2 DEF Call
  <2>3. tx_queue = <<>>
    BY <2>1 DEF LineIdle, HandoverInv, NoByteForgotten
  <2>4. /\ pc'[s] = "queue" /\ left'[s] \in 1..Capacity
        /\ \A r \in Senders \ {s} : pc'[r] = "idle"
    BY <1>2, <2>1, <2>2 DEF Call, LineIdle, InTurns, TypeOK
  <2>5. UNCHANGED <<tx_queue, tx_in_progress, thr, thre, byte, accepted, emitted>>
    BY <1>2 DEF Call, portVars
  <2>6. LineQuiet'
    BY <2>1, <2>3, <2>4, <2>5, UartTxAssumption DEF LineQuiet, LineIdle, TypeOK
  <2>7. InOrder'
    BY <2>1, <2>4, <2>5 DEF InOrder, InHand, Taken, LineIdle
  <2> QED
    BY <2>4, <2>6, <2>7
<1>3. ASSUME NEW s \in Senders, QueueByte(s)
      PROVE  TurnsInv'
  <2>1. /\ Len(tx_queue') = Len(tx_queue) + 1
        /\ \A i \in 1..Len(tx_queue) : tx_queue'[i] = tx_queue[i]
        /\ tx_queue'[Len(tx_queue) + 1] = accepted + 1
        /\ tx_queue' # <<>>
    <3>1. tx_queue' = Append(tx_queue, accepted + 1)
      BY <1>3 DEF QueueByte
    <3>2. tx_queue \in Seq(Nat) /\ accepted + 1 \in Nat
      BY DEF TypeOK
    <3> QED
      BY <3>1, <3>2
  <2>2. Taken' = Taken /\ Taken \in Int
    <3>1. accepted' = accepted + 1 /\ accepted \in Nat /\ Len(tx_queue) \in Nat
      BY <1>3 DEF QueueByte, TypeOK
    <3>2. Len(tx_queue') = Len(tx_queue) + 1
      BY <2>1
    <3> QED
      BY <3>1, <3>2 DEF Taken
  <2>3. left'[s] = left[s] - 1 /\ left[s] \in Nat
    BY <1>3 DEF QueueByte, TypeOK
  <2>4. LineQuiet'
    <3>1. /\ UNCHANGED <<tx_in_progress, thr, thre, pc>>
          /\ pc[s] = "queue" /\ \A r \in Senders \ {s} : pc[r] = "idle"
      BY <1>3 DEF QueueByte
    <3>2. left'[s] + Len(tx_queue') = left[s] + Len(tx_queue) /\ left'[s] \in Int
      BY <2>1, <2>3 DEF TypeOK
    <3> QED
      BY <2>1, <3>1, <3>2 DEF LineQuiet
  <2>5. \A i \in 1..Len(tx_queue') : tx_queue'[i] = Taken' + i
    <3>1. Len(tx_queue) \in Nat /\ accepted + 1 = Taken + (Len(tx_queue) + 1)
      BY DEF Taken, TypeOK
    <3>2. \A i \in 1..Len(tx_queue) : tx_queue'[i] = Taken + i
      BY <2>1 DEF InOrder
    <3>3. 1..Len(tx_queue') = 1..Len(tx_queue) \cup {Len(tx_queue) + 1}
      BY <2>1, <3>1
    <3> QED
      BY <2>1, <2>2, <3>1, <3>2, <3>3
  <2>6. InOrder'
    BY <1>3, <2>2, <2>5 DEF QueueByte, InOrder, InHand
  <2> QED
    BY <1>3, <2>4, <2>6 DEF QueueByte
<1>4. ASSUME NEW s \in Senders, Check(s)
      PROVE  TurnsInv'
  <2>1. /\ UNCHANGED <<tx_queue, tx_in_progress, thr, thre, left, byte, accepted, emitted>>
        /\ pc'[s] = "claim" /\ pc[s] = "queue" /\ left[s] = 0
        /\ \A r \in Senders \ {s} : pc'[r] = pc[r]
    BY <1>4 DEF Check, MustStart, portVars, LineQuiet, TypeOK
  <2>2. LineQuiet'
    BY <2>1 DEF LineQuiet, TypeOK
  <2>3. InOrder'
    BY <2>1 DEF InOrder, InHand, Taken
  <2> QED
    BY <2>1, <2>2, <2>3
<1>5. ASSUME NEW s \in Senders, Claim(s)
      PROVE  TurnsInv'
  <2>1. /\ UNCHANGED <<tx_queue, thr, thre, left, byte, accepted, emitted>>
        /\ tx_in_progress' = 1
        /\ pc'[s] = "receive" /\ pc[s] = "claim"
        /\ \A r \in Senders \ {s} : pc'[r] = pc[r] /\ pc[r] = "idle"
    BY <1>5 DEF Claim, TypeOK
  <2>2. LineQuiet'
    BY <2>1 DEF LineQuiet
  <2>3. InOrder'
    BY <2>1 DEF InOrder, InHand, Taken
  <2> QED
    BY <2>1, <2>2, <2>3
<1>6. ASSUME NEW s \in Senders, TakeByte(s)
      PROVE  TurnsInv'
  <2>1. /\ UNCHANGED <<tx_in_progress, thr, thre, left, accepted, emitted>>
        /\ tx_queue' = Tail(tx_queue) /\ tx_queue # <<>>
        /\ pc'[s] = "write" /\ pc[s] = "receive" /\ byte'[s] = Head(tx_queue)
        /\ \A r \in Senders \ {s} : pc'[r] = pc[r] /\ pc[r] = "idle"
    BY <1>6 DEF TakeByte, TypeOK
  <2>2. /\ Taken' = Taken + 1 /\ byte'[s] = Taken' /\ Taken \in Nat
        /\ \A i \in 1..Len(tx_queue') : tx_queue'[i] = Taken' + i
    BY <2>1, TakeNext DEF Taken, TypeOK
  <2>3. tx_in_progress = 1
    BY <2>1 DEF LineQuiet, TypeOK, HandoverInv, NoByteForgotten
  <2>4. LineQuiet'
    BY <2>1, <2>3 DEF LineQuiet
  <2>5. InOrder'
    <3>1. thr = Empty /\ ~InHand /\ InHand'
      BY <2>1 DEF LineQuiet, InHand
    <3> QED
      BY <2>1, <2>2, <3>1 DEF InOrder
  <2> QED
    BY <2>1, <2>4, <2>5
<1>7. ASSUME NEW s \in Senders, WriteByte(s)
      PROVE  TurnsInv'
  <2>1. /\ UNCHANGED <<tx_queue, tx_in_progress, left, accepted, emitted>>
        /\ thr' = byte[s] /\ thre' = FALSE
        /\ pc'[s] = "idle" /\ pc[s] = "write"
        /\ \A r \in Senders \ {s} : pc'[r] = pc[r] /\ pc[r] = "idle"
    BY <1>7 DEF WriteByte, TypeOK
  <2>2. thr' # Empty
    BY <2>1 DEF HandoverInv, RealBytes
  <2>3. LineQuiet'
    BY <2>1 DEF LineQuiet
  <2>4. InOrder'
    <3>1. InHand /\ InHand'
      BY <2>1, <2>2 DEF InHand
    <3> QED
      BY <2>1, <3>1 DEF InOrder, Taken
  <2> QED
    BY <2>1, <2>3, <2>4
<1>8. CASE Shift
  <2>1. /\ UNCHANGED <<tx_queue, tx_in_progress, pc, left, byte, accepted>>
        /\ thr # Empty /\ thr' = Empty /\ thre' = TRUE /\ emitted' = thr
    BY <1>8 DEF Shift, senderVars
  <2>2. \A s \in Senders : pc[s] = "idle"
    BY <2>1 DEF LineQuiet
  <2>3. LineQuiet'
    BY <2>1, <2>2 DEF LineQuiet
  <2>4. InOrder'
    BY <2>1, <2>2 DEF InOrder, InHand, Taken, TypeOK
  <2> QED
    BY <2>1, <2>3, <2>4
<1>9. CASE IrqTransmit
  <2>1. /\ UNCHANGED <<pc, left, byte, accepted, emitted>>
        /\ thre /\ thr = Empty /\ thre' = FALSE
    BY <1>9 DEF IrqTransmit, senderVars, LineQuiet
  <2>2. \A s \in Senders : pc[s] = "idle"
    BY <2>1 DEF LineQuiet
  <2>3. CASE tx_queue = <<>>
    <3>1. UNCHANGED <<tx_queue, thr>>
      BY <1>9, <2>3 DEF IrqTransmit
    <3> QED
      BY <2>1, <2>2, <3>1 DEF LineQuiet, InOrder, InHand, Taken
  <2>4. CASE tx_queue # <<>>
    <3>1. /\ thr' = Head(tx_queue) /\ tx_queue' = Tail(tx_queue)
          /\ tx_in_progress' = tx_in_progress
      BY <1>9, <2>4 DEF IrqTransmit
    <3>2. /\ Taken' = Taken + 1 /\ thr' = Taken' /\ thr' # Empty /\ Taken \in Nat
          /\ \A i \in 1..Len(tx_queue') : tx_queue'[i] = Taken' + i
      <4>1. Taken' = Taken + 1 /\ Taken \in Nat
        BY <2>1, <2>4, <3>1, TakeNext DEF Taken, TypeOK
      <4> QED
        BY <2>4, <3>1, <4>1, TakeNext
    <3>3. LineQuiet'
      BY <2>1, <2>2, <3>1 DEF LineQuiet
    <3>4. ~InHand /\ InHand'
      BY <2>1, <2>2, <3>2 DEF InHand
    <3>5. InOrder'
      BY <2>1, <2>2, <3>2, <3>4 DEF InOrder
    <3> QED
      BY <2>1, <3>3, <3>5
  <2> QED
    BY <2>3, <2>4
<1> QED
  BY <1>1, <1>2, <1>3, <1>4, <1>5, <1>6, <1>7, <1>8, <1>9 DEF Next, Sender

(* It therefore holds throughout.                                          *)
LEMMA TurnsCorrect == InTurns => (Safety => []TurnsInv)
<1> SUFFICES ASSUME InTurns PROVE Safety => []TurnsInv
  OBVIOUS
<1>1. Init => TurnsInv
  <2> SUFFICES ASSUME Init PROVE TurnsInv
    OBVIOUS
  <2>1. \A s \in Senders : pc[s] = "idle"
    BY DEF Init
  <2> QED
    <3>1. Len(tx_queue) = 0
      BY DEF Init
    <3>2. Taken = 0 /\ ~InHand
      <4>1. accepted = 0
        BY DEF Init
      <4>2. ~InHand
        BY <2>1 DEF Init, InHand
      <4> QED
        BY <3>1, <4>1, <4>2 DEF Taken
    <3>3. LineQuiet
      BY <2>1 DEF Init, LineQuiet, Empty
    <3>4. InOrder
      BY <2>1, <3>1, <3>2 DEF Init, InOrder, Empty
    <3> QED
      BY <2>1, <3>3, <3>4 DEF TurnsInv, OneSender
<1>2. TypeOK /\ TypeOK' /\ HandoverInv /\ TurnsInv /\ [Next]_vars => TurnsInv'
  BY TurnsStep
<1> QED
  BY <1>1, <1>2, UartTypeCorrect, HandoverCorrect, PTL DEF Safety

(***************************************************************************)
(* On a port whose users take turns with messages that fit in its queue,   *)
(* uart_send_data never blocks, whatever the number of tasks: it finds     *)
(* room for every byte and its own first byte to write.                    *)
(***************************************************************************)
THEOREM UartNeverBlocks == InTurns => (Safety => []NeverBlocks)
<1> SUFFICES ASSUME InTurns PROVE Safety => []NeverBlocks
  OBVIOUS
<1>1. TypeOK /\ TurnsInv => NeverBlocks
  <2> SUFFICES ASSUME TypeOK, TurnsInv, NEW s \in Senders
               PROVE  /\ pc[s] = "queue" /\ left[s] > 0 => Room
                      /\ pc[s] = "receive" => tx_queue # <<>>
    BY DEF NeverBlocks
  <2>1. left[s] \in Nat /\ Len(tx_queue) \in Nat /\ Capacity \in Nat
    BY UartTxAssumption DEF TypeOK
  <2> QED
    BY <2>1 DEF TurnsInv, LineQuiet, Room
<1> QED
  BY <1>1, TurnsCorrect, UartTypeCorrect, PTL

(***************************************************************************)
(* On such a port every step of the senders, the handler and the line is   *)
(* a step of the byte line or none: bytes leave in order, each once.       *)
(***************************************************************************)
THEOREM UartRefinesByteLine == InTurns => (Safety => ImplementsByteLine)
<1> SUFFICES ASSUME InTurns PROVE Safety => ImplementsByteLine
  OBVIOUS
<1> USE DEF Line!ByteLineInit, Line!byteLineVars, Line!Accept, Line!Emit
<1>1. Init => Line!ByteLineInit
  BY DEF Init
<1>2. TypeOK /\ TurnsInv /\ [Next]_vars =>
        [Line!Accept \/ Line!Emit]_(Line!byteLineVars)
  <2> SUFFICES ASSUME TypeOK, TurnsInv, [Next]_vars
               PROVE  [Line!Accept \/ Line!Emit]_(Line!byteLineVars)
    OBVIOUS
  <2>1. ASSUME NEW s \in Senders, QueueByte(s) PROVE Line!Accept
    BY <2>1 DEF QueueByte
  <2>2. ASSUME Shift PROVE Line!Emit
    <3>1. emitted' = emitted + 1 /\ emitted < accepted
      BY <2>2 DEF Shift, TypeOK, TurnsInv, InOrder, InHand, Taken
    <3> QED
      BY <2>2, <3>1 DEF Shift
  <2>3. ASSUME NEW s \in Senders, Call(s) \/ Check(s) \/ Claim(s) \/ TakeByte(s) \/ WriteByte(s)
        PROVE  UNCHANGED <<accepted, emitted>>
    BY <2>3 DEF Call, Check, Claim, TakeByte, WriteByte
  <2>4. CASE IrqTransmit
    BY <2>4 DEF IrqTransmit
  <2>5. CASE UNCHANGED vars
    BY <2>5 DEF vars
  <2> QED
    BY <2>1, <2>2, <2>3, <2>4, <2>5 DEF Next, Sender
<1> QED
  BY <1>1, <1>2, TurnsCorrect, UartTypeCorrect, PTL
     DEF Safety, ImplementsByteLine, Line!ByteLineSafety
=============================================================================
