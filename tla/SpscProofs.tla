----------------------------- MODULE SpscProofs -----------------------------
(***************************************************************************)
(* Proofs about the SPSC rings: for every capacity, every room up to the   *)
(* capacity and every set of items, the two sides never touch the same     *)
(* slot, and the ring implements a bounded FIFO queue.                     *)
(***************************************************************************)
EXTENDS Spsc, SequenceTheorems, TLAPS

\* A slot index is a slot of the ring.
LEMMA SlotType ==
  ASSUME NEW a \in Nat
  PROVE  Slot(a) \in 0..(Capacity - 1)
  BY SpscAssumption DEF Slot

\* Two positions less than a lap apart are in different slots.
LEMMA SlotInjective ==
  ASSUME NEW a \in Nat, NEW b \in Nat, a < b, b < a + Capacity
  PROVE  Slot(a) # Slot(b)
<1>1. Capacity \in Nat /\ Capacity > 0 BY SpscAssumption
<1>2. a = Capacity * (a \div Capacity) + (a % Capacity) BY <1>1
<1>3. b = Capacity * (b \div Capacity) + (b % Capacity) BY <1>1
<1>4. (a \div Capacity) \in Int /\ (b \div Capacity) \in Int BY <1>1
<1>5. SUFFICES ASSUME a % Capacity = b % Capacity PROVE FALSE BY DEF Slot
<1> DEFINE d == (b \div Capacity) - (a \div Capacity)
<1>6. d \in Int BY <1>4
<1>7. b - a = Capacity * d
  <2>1. a % Capacity \in Int /\ b % Capacity \in Int BY <1>1
  <2>2. Capacity * d = Capacity * (b \div Capacity) - Capacity * (a \div Capacity) BY <1>1, <1>4
  <2> QED BY <1>2, <1>3, <1>5, <2>1, <2>2, <1>1, <1>4
<1> HIDE DEF d
<1>8. CASE d <= 0
  <2>1. Capacity * d <= 0 BY <1>1, <1>6, <1>8
  <2> QED BY <1>7, <2>1
<1>9. CASE d >= 1
  <2>1. Capacity * d >= Capacity BY <1>1, <1>6, <1>9
  <2> QED BY <1>7, <2>1, <1>1
<1> QED BY <1>6, <1>8, <1>9

-----------------------------------------------------------------------------
(***************************************************************************)
(* The inductive invariant.  Each side relies on what it has checked       *)
(* staying true while the other moves: the room a producer has seen can    *)
(* only grow, the item a consumer has seen stays.  What is written at tail *)
(* and not yet published, and what is read at head and not yet freed, is   *)
(* what the slot holds.                                                    *)
(***************************************************************************)
IInv ==
  /\ TypeOK
  /\ IndicesInRange
  /\ spc \in {"write", "publish"} => tail - head < Room
  /\ rpc \in {"read", "free"} => head < tail
  /\ spc = "publish" => buffer[Slot(tail)] = item
  /\ rpc = "free" => buffer[Slot(head)] = got
  /\ (spc # "idle") <=> (sres = "none")
  /\ (rpc # "idle") <=> (rres = "none")

\* A fresh ring satisfies the invariant.
LEMMA InitIInv == Init => IInv
  BY SpscAssumption DEF Init, IInv, TypeOK, IndicesInRange

\* While there is room, the slot at tail holds none of the items in the ring.
LEMMA FreeSlot ==
  ASSUME IInv, tail - head < Room, NEW i \in head..(tail - 1)
  PROVE  Slot(i) # Slot(tail)
<1>1. head \in Nat /\ tail \in Nat BY DEF IInv, TypeOK
<1>2. i \in Nat /\ i < tail /\ tail < i + Capacity BY <1>1, SpscAssumption
<1> QED BY <1>1, <1>2, SlotInjective

\* Every step of try_send and try_recv preserves the invariant.
LEMMA StepIInv == IInv /\ [Next]_vars => IInv'
<1> SUFFICES ASSUME IInv, [Next]_vars PROVE IInv'
  OBVIOUS
<1> USE SpscAssumption DEF IInv, TypeOK, IndicesInRange, sendVars, recvVars
<1>0. Slot(head) \in 0..(Capacity - 1) /\ Slot(tail) \in 0..(Capacity - 1)
  BY SlotType
<1>1. CASE SendCall BY <1>1 DEF SendCall
<1>2. CASE SendCheck BY <1>2 DEF SendCheck
<1>3. CASE SendWrite
  <2>1. rpc = "free" => Slot(head) # Slot(tail)
    BY <1>3, FreeSlot DEF SendWrite
  <2>2. buffer' \in [0..(Capacity - 1) -> Values] /\ buffer'[Slot(tail)] = item
    BY <1>0, <1>3 DEF SendWrite
  <2>3. rpc = "free" => buffer'[Slot(head)] = buffer[Slot(head)]
    BY <1>0, <1>3, <2>1 DEF SendWrite
  <2> QED BY <1>3, <2>2, <2>3 DEF SendWrite, Slot
<1>4. CASE SendPublish BY <1>4 DEF SendPublish
<1>5. CASE RecvCall BY <1>5 DEF RecvCall
<1>6. CASE RecvCheck BY <1>6 DEF RecvCheck
<1>7. CASE RecvRead BY <1>0, <1>7 DEF RecvRead, Slot
<1>8. CASE RecvFree BY <1>8 DEF RecvFree
<1>9. CASE UNCHANGED vars BY <1>9 DEF vars, Slot
<1> QED BY <1>1, <1>2, <1>3, <1>4, <1>5, <1>6, <1>7, <1>8, <1>9 DEF Next, Send, Recv

\* The inductive invariant holds in every state.
THEOREM Invariance == Spec => []IInv
  BY InitIInv, StepIInv, PTL DEF Spec

\* The type invariant of the rings.
THEOREM TypeCorrect == Spec => []TypeOK
<1>1. IInv => TypeOK BY DEF IInv
<1> QED BY Invariance, <1>1, PTL

\* The unsynchronised slot accesses of try_send and try_recv never meet.
THEOREM SlotsDisjointThm == Spec => []SlotsDisjoint
<1>1. IInv => SlotsDisjoint
  BY FreeSlot DEF IInv, TypeOK, SlotsDisjoint
<1> QED BY Invariance, <1>1, PTL

\* tail - head is at most what the ring may hold and never underflows.
THEOREM IndicesInRangeThm == Spec => []IndicesInRange
<1>1. IInv => IndicesInRange BY DEF IInv
<1> QED BY Invariance, <1>1, PTL

-----------------------------------------------------------------------------
(* The refinement of the bounded FIFO queue. *)

\* The items in the ring form a sequence of tail - head values.
LEMMA ContentsSeq ==
  ASSUME IInv
  PROVE  /\ Contents \in Seq(Values)
         /\ Len(Contents) = tail - head
         /\ \A i \in 1..(tail - head) : Contents[i] = buffer[Slot(head + i - 1)]
<1>1. tail - head \in Nat BY DEF IInv, TypeOK, IndicesInRange
<1>2. \A i \in 1..(tail - head) : buffer[Slot(head + i - 1)] \in Values
  <2> SUFFICES ASSUME NEW i \in 1..(tail - head) PROVE buffer[Slot(head + i - 1)] \in Values
    OBVIOUS
  <2>1. head + i - 1 \in Nat BY DEF IInv, TypeOK
  <2> QED BY <2>1, SlotType DEF IInv, TypeOK
<1> QED BY <1>1, <1>2 DEF Contents

\* A fresh ring is an empty FIFO queue.
LEMMA InitRefines == Init => Fifo!Init
<1> SUFFICES ASSUME Init PROVE Fifo!Init
  OBVIOUS
<1>1. Contents \in Seq(Values) /\ Len(Contents) = 0
  BY InitIInv, ContentsSeq DEF Init
<1> QED BY <1>1 DEF Init, Fifo!Init

\* Steps that move neither index nor a slot between them leave the queue alone.
LEMMA ContentsUnchanged ==
  ASSUME head' = head, tail' = tail, buffer' = buffer
  PROVE  Contents' = Contents
  BY DEF Contents, Slot

\* A write at tail is not a change of the queue before it is published.
LEMMA WriteInvisible ==
  ASSUME IInv, SendWrite
  PROVE  Contents' = Contents
<1>1. \A i \in 1..(tail - head) : buffer'[Slot(head + i - 1)] = buffer[Slot(head + i - 1)]
  <2> SUFFICES ASSUME NEW i \in 1..(tail - head)
               PROVE  buffer'[Slot(head + i - 1)] = buffer[Slot(head + i - 1)]
    OBVIOUS
  <2>1. head + i - 1 \in head..(tail - 1) /\ head + i - 1 \in Nat
    BY DEF IInv, TypeOK
  <2>2. Slot(head + i - 1) # Slot(tail)
    BY <2>1, FreeSlot DEF IInv, SendWrite
  <2>3. Slot(head + i - 1) \in 0..(Capacity - 1) BY <2>1, SlotType
  <2> QED BY <2>2, <2>3 DEF IInv, TypeOK, SendWrite
<1>2. head' = head /\ tail' = tail BY DEF SendWrite, recvVars
<1> QED BY <1>1, <1>2 DEF Contents, Slot

\* Publishing appends the item that was written.
LEMMA PublishAppends ==
  ASSUME IInv, IInv', SendPublish
  PROVE  Contents' = Append(Contents, item)
<1> DEFINE n == tail - head
<1>1. n \in Nat /\ tail' - head' = n + 1
  BY DEF IInv, TypeOK, IndicesInRange, SendPublish, recvVars
<1>2. Len(Contents) = n /\ Contents \in Seq(Values) BY ContentsSeq
<1>3. Append(Contents, item) \in Seq(Values) /\ Len(Append(Contents, item)) = n + 1
  BY <1>1, <1>2 DEF IInv, TypeOK
<1>4. Contents' = [i \in 1..(n + 1) |-> buffer[Slot(head + i - 1)]]
  BY <1>1 DEF Contents, SendPublish, recvVars, Slot
<1>5. \A i \in 1..(n + 1) : Append(Contents, item)[i] = buffer[Slot(head + i - 1)]
  <2> SUFFICES ASSUME NEW i \in 1..(n + 1)
               PROVE  Append(Contents, item)[i] = buffer[Slot(head + i - 1)]
    OBVIOUS
  <2>1. CASE i <= n
    <3>1. Append(Contents, item)[i] = Contents[i] BY <1>1, <1>2, <2>1
    <3> QED BY <1>1, <2>1, <3>1, ContentsSeq
  <2>2. CASE i = n + 1
    <3>1. head + i - 1 = tail BY <2>2, <1>1 DEF IInv, TypeOK
    <3>2. Append(Contents, item)[i] = item BY <1>1, <1>2, <2>2
    <3>3. buffer[Slot(tail)] = item BY DEF IInv, SendPublish
    <3>4. buffer[Slot(head + i - 1)] = buffer[Slot(tail)] BY <3>1
    <3> QED BY <3>2, <3>3, <3>4
  <2>3. i <= n \/ i = n + 1 BY <1>1
  <2> QED BY <2>1, <2>2, <2>3
<1> HIDE DEF n
<1>6. \A i \in 1..(n + 1) : buffer[Slot(head + i - 1)] \in Values
  <2> SUFFICES ASSUME NEW i \in 1..(n + 1) PROVE buffer[Slot(head + i - 1)] \in Values
    OBVIOUS
  <2>1. head + i - 1 \in Nat BY <1>1 DEF IInv, TypeOK
  <2> QED BY <2>1, SlotType DEF IInv, TypeOK
<1>7. Contents' \in Seq(Values) /\ Len(Contents') = n + 1
  BY <1>1, <1>4, <1>6
<1>8. \A i \in 1..Len(Contents') : Contents'[i] = Append(Contents, item)[i]
  BY <1>1, <1>4, <1>5, <1>7
<1> QED BY <1>3, <1>7, <1>8, SeqEqual

\* Freeing removes the oldest item, the one that was read.
LEMMA FreeRemoves ==
  ASSUME IInv, IInv', RecvFree
  PROVE  Contents # <<>> /\ got = Head(Contents) /\ Contents' = Tail(Contents)
<1> DEFINE n == tail - head
<1>1. n \in Nat /\ n > 0 /\ tail' - head' = n - 1
  BY DEF IInv, TypeOK, IndicesInRange, RecvFree, sendVars
<1>2. Len(Contents) = n /\ Contents \in Seq(Values) BY ContentsSeq
<1>3. Contents # <<>> BY <1>1, <1>2
<1>4. got = Head(Contents)
  <2>1. Contents[1] = buffer[Slot(head + 1 - 1)] BY <1>1, ContentsSeq
  <2>2. head + 1 - 1 = head BY DEF IInv, TypeOK
  <2> QED BY <1>3, <1>2, <2>1, <2>2 DEF IInv, RecvFree
<1>5. Contents' = [i \in 1..(n - 1) |-> buffer[Slot((head + 1) + i - 1)]]
  BY <1>1 DEF Contents, RecvFree, sendVars, Slot
<1>6. Tail(Contents) \in Seq(Values) /\ Len(Tail(Contents)) = n - 1
  BY <1>1, <1>2, <1>3
<1>7. \A i \in 1..(n - 1) : Tail(Contents)[i] = buffer[Slot((head + 1) + i - 1)]
  <2> SUFFICES ASSUME NEW i \in 1..(n - 1)
               PROVE  Tail(Contents)[i] = buffer[Slot((head + 1) + i - 1)]
    OBVIOUS
  <2>1. Tail(Contents)[i] = Contents[i + 1] BY <1>1, <1>2, <1>3
  <2>2. Contents[i + 1] = buffer[Slot(head + (i + 1) - 1)] BY <1>1, ContentsSeq
  <2>3. head + (i + 1) - 1 = (head + 1) + i - 1 BY <1>1 DEF IInv, TypeOK
  <2> QED BY <2>1, <2>2, <2>3
<1> HIDE DEF n
<1>8. \A i \in 1..(n - 1) : buffer[Slot((head + 1) + i - 1)] \in Values
  BY <1>1, <1>6, <1>7
<1>9. Contents' \in Seq(Values) /\ Len(Contents') = n - 1
  BY <1>1, <1>5, <1>8
<1>10. \A i \in 1..Len(Contents') : Contents'[i] = Tail(Contents)[i]
  BY <1>1, <1>5, <1>7, <1>9
<1>11. Contents' = Tail(Contents) BY <1>6, <1>9, <1>10, SeqEqual
<1> QED BY <1>3, <1>4, <1>11

\* Every step of the ring is a step of the FIFO queue or leaves it alone.
LEMMA StepRefines ==
  ASSUME IInv, IInv', [Next]_vars
  PROVE  [Fifo!Next]_(Fifo!vars)
<1> USE DEF Fifo!Next, Fifo!vars, sendVars, recvVars
<1>0. Len(Contents) = tail - head /\ Contents \in Seq(Values) BY ContentsSeq
<1>1. CASE SendCall
  BY <1>1, ContentsUnchanged DEF SendCall, Fifo!SendCall, IInv, TypeOK
<1>2. CASE SendCheck
  <2>1. Contents' = Contents BY <1>2, ContentsUnchanged DEF SendCheck
  <2>2. sres = "none" BY <1>2 DEF SendCheck, IInv
  <2>3. CASE tail - head >= Room
    <3>1. Len(Contents) = Room BY <1>0, <2>3, SpscAssumption DEF IInv, TypeOK, IndicesInRange
    <3>2. sres' = "full" BY <1>2, <2>3, SpscAssumption DEF SendCheck, IInv, TypeOK
    <3> QED BY <1>2, <2>1, <2>2, <3>1, <3>2 DEF SendCheck, Fifo!SendFull
  <2>4. CASE tail - head < Room
    BY <1>2, <2>1, <2>4, SpscAssumption DEF SendCheck, IInv, TypeOK
  <2> QED BY <1>2, <2>3, <2>4 DEF SendCheck
<1>3. CASE SendWrite
  BY <1>3, WriteInvisible DEF SendWrite
<1>4. CASE SendPublish
  BY <1>0, <1>4, PublishAppends DEF SendPublish, Fifo!SendOk, IInv, TypeOK
<1>5. CASE RecvCall
  BY <1>5, ContentsUnchanged DEF RecvCall, Fifo!RecvCall, IInv, TypeOK
<1>6. CASE RecvCheck
  BY <1>0, <1>6, ContentsUnchanged DEF RecvCheck, Fifo!RecvEmpty, IInv, TypeOK
<1>7. CASE RecvRead
  BY <1>7, ContentsUnchanged DEF RecvRead
<1>8. CASE RecvFree
  BY <1>8, FreeRemoves DEF RecvFree, Fifo!RecvOk, IInv, TypeOK
<1>9. CASE UNCHANGED vars
  BY <1>9, ContentsUnchanged DEF vars
<1> QED BY <1>1, <1>2, <1>3, <1>4, <1>5, <1>6, <1>7, <1>8, <1>9 DEF Next, Send, Recv

\* SpscQueue and SpscChannel implement a bounded FIFO queue: every call takes
\* effect at one instant, at any capacity and under any interleaving.
THEOREM Refinement == Spec => ImplementsBoundedFifo
<1>1. Spec => []IInv BY Invariance
<1>2. IInv /\ IInv' /\ [Next]_vars => [Fifo!Next]_(Fifo!vars) BY StepRefines
<1> QED BY <1>1, <1>2, InitRefines, PTL DEF Spec, ImplementsBoundedFifo, Fifo!Spec
=============================================================================
