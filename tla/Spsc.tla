-------------------------------- MODULE Spsc --------------------------------
(***************************************************************************)
(* The single-producer single-consumer rings of the kernel: SpscQueue      *)
(* (k_nano, smp/spsc.rs) and SpscChannel (k_nano, async_rt.rs).  Both      *)
(* write the slot at tail and then publish it, read the slot at head and   *)
(* then free it.  They differ in how much of the ring they use: SpscQueue  *)
(* refuses an item when tail + 1 - head >= capacity, so it holds           *)
(* capacity - 1 items; SpscChannel when tail - head > mask, so it holds    *)
(* capacity.  Room is that limit.  Producer and consumer are on different  *)
(* cores, so the interrupt mask of SpscChannel does not separate them;     *)
(* every load and store is a step.                                         *)
(***************************************************************************)
EXTENDS Integers

CONSTANTS Values,     \* the items
          Capacity,   \* slots in the ring
          Room,       \* items it accepts
          MaxItems    \* bound: items sent in a behaviour

ASSUME SpscAssumption ==
  /\ Capacity \in Nat \ {0}
  /\ Room \in 1..Capacity
  /\ MaxItems \in Nat
  /\ "none" \notin Values /\ "empty" \notin Values

VARIABLES head, tail,   \* the indices, never reduced modulo the capacity
          buffer,       \* the slots
          spc, item,    \* the producer: where it is and what it sends
          rpc, got,     \* the consumer: where it is and what it has read
          sres, rres    \* results of their last calls

sendVars == <<tail, spc, item, sres>>
recvVars == <<head, rpc, got, rres>>
vars == <<buffer, sendVars, recvVars>>

\* A fresh ring: its slots are uninitialised memory.
Init ==
  /\ head = 0 /\ tail = 0
  /\ buffer \in [0..(Capacity - 1) -> Values]
  /\ spc = "idle" /\ item \in Values /\ sres = "ok"
  /\ rpc = "idle" /\ got \in Values /\ rres = "empty"

Slot(pos) == pos % Capacity

-----------------------------------------------------------------------------
(* Mutated forms used to show that the properties depend on the code. *)

\* The fullness test is off by one.
SendCheckLate ==
  /\ spc = "check"
  /\ IF tail - head > Room
     THEN spc' = "idle" /\ sres' = "full"
     ELSE spc' = "write" /\ UNCHANGED sres
  /\ UNCHANGED <<buffer, recvVars, tail, item>>

\* The slot is freed before it is read.
RecvReadAfterFree ==
  /\ rpc = "read"
  /\ head' = head + 1
  /\ rpc' = "free"
  /\ UNCHANGED <<buffer, sendVars, got, rres>>

\* The slot is not the position modulo the capacity.
SendWriteUnmasked ==
  /\ spc = "write"
  /\ buffer' = [i \in DOMAIN buffer \cup {tail} |-> IF i = tail THEN item ELSE buffer[i]]
  /\ spc' = "publish"
  /\ UNCHANGED <<tail, sres, item, recvVars>>

\* An empty ring is read.
RecvCheckNone ==
  /\ rpc = "check" /\ rpc' = "read"
  /\ UNCHANGED <<buffer, sendVars, head, got, rres>>

-----------------------------------------------------------------------------
(* try_send / try_push *)

SendCall ==
  /\ spc = "idle" /\ tail < MaxItems
  /\ item' \in Values
  /\ spc' = "check" /\ sres' = "none"
  /\ UNCHANGED <<buffer, recvVars, tail>>

\* head.load and the fullness test
SendCheck ==
  /\ spc = "check"
  /\ \/ tail - head >= Room /\ spc' = "idle" /\ sres' = "full"
     \/ tail - head < Room /\ spc' = "write" /\ UNCHANGED sres
  /\ UNCHANGED <<buffer, recvVars, tail, item>>

SendWrite ==
  /\ spc = "write"
  /\ buffer' = [buffer EXCEPT ![Slot(tail)] = item]
  /\ spc' = "publish"
  /\ UNCHANGED <<recvVars, tail, item, sres>>

\* tail.store(next_pos)
SendPublish ==
  /\ spc = "publish"
  /\ tail' = tail + 1
  /\ spc' = "idle" /\ sres' = "ok"
  /\ UNCHANGED <<buffer, recvVars, item>>

-----------------------------------------------------------------------------
(* try_recv / try_pop *)

RecvCall ==
  /\ rpc = "idle"
  /\ rpc' = "check" /\ rres' = "none"
  /\ UNCHANGED <<buffer, sendVars, head, got>>

\* tail.load and the emptiness test
RecvCheck ==
  /\ rpc = "check"
  /\ \/ head = tail /\ rpc' = "idle" /\ rres' = "empty"
     \/ head # tail /\ rpc' = "read" /\ UNCHANGED rres
  /\ UNCHANGED <<buffer, sendVars, head, got>>

RecvRead ==
  /\ rpc = "read"
  /\ got' = buffer[Slot(head)]
  /\ rpc' = "free"
  /\ UNCHANGED <<buffer, sendVars, head, rres>>

\* head.store(pos + 1)
RecvFree ==
  /\ rpc = "free"
  /\ head' = head + 1
  /\ rpc' = "idle" /\ rres' = got
  /\ UNCHANGED <<buffer, sendVars, got>>

Send == SendCall \/ SendCheck \/ SendWrite \/ SendPublish
Recv == RecvCall \/ RecvCheck \/ RecvRead \/ RecvFree

Next == Send \/ Recv

Spec == Init /\ [][Next]_vars

-----------------------------------------------------------------------------
\* The items between head and tail, oldest first.
Contents == [i \in 1..(tail - head) |-> buffer[Slot(head + i - 1)]]

\* The types: the slots always hold items and the indices are naturals.
TypeOK ==
  /\ head \in Nat /\ tail \in Nat
  /\ buffer \in [0..(Capacity - 1) -> Values]
  /\ spc \in {"idle", "check", "write", "publish"} /\ item \in Values
  /\ rpc \in {"idle", "check", "read", "free"} /\ got \in Values
  /\ sres \in {"none", "ok", "full"} /\ rres \in Values \cup {"none", "empty"}

\* The unsynchronised accesses of the two sides never meet in a slot: while the
\* producer writes (or has written and not yet published) the slot at tail, the
\* consumer does not read it.
SlotsDisjoint ==
  spc \in {"write", "publish"} /\ rpc \in {"read", "free"} => Slot(tail) # Slot(head)

\* head never overtakes tail and never falls more than the ring behind it, so
\* tail - head (len, and the drop of the remaining items) never underflows.
IndicesInRange == head <= tail /\ tail - head <= Room

Fifo == INSTANCE BoundedFifo WITH q <- Contents, Spurious <- FALSE

\* try_send and try_recv are the operations of a bounded FIFO queue, each taking
\* effect at one instant: no item is lost, duplicated, reordered or torn.
ImplementsBoundedFifo == Fifo!Spec
=============================================================================
