-------------------------------- MODULE Mpmc --------------------------------
(***************************************************************************)
(* MpmcQueue (k_nano, sync/mpmc.rs), the bounded queue behind the inboxes  *)
(* of cells.  A sender claims a position by a compare-exchange on          *)
(* enqueue_pos and then waits, for a bounded number of spins, until the    *)
(* slot is EMPTY; a receiver does the same on dequeue_pos and READY.  One  *)
(* that gives up tries to roll its position back.  Every atomic access is  *)
(* a step.                                                                 *)
(*                                                                         *)
(* A process that has failed an attempt may give up at once or try again:  *)
(* the budget of MAX_RETRIES attempts can be spent before anybody else     *)
(* moves.  Positions do not wrap in a behaviour; wrapping_sub of a larger  *)
(* position is huge, which the fullness test treats as full.               *)
(***************************************************************************)
EXTENDS Integers

CONSTANTS Senders, Receivers,
          Capacity,   \* slots (a power of two in the code)
          Items,      \* the items, each sent at most once: the bound on try_send calls
          NoItem,     \* an unwritten slot
          MaxPos      \* bound: receivers stop calling when dequeue_pos gets here

ASSUME MpmcAssumption ==
  /\ Capacity \in Nat \ {0}
  /\ MaxPos \in Nat
  /\ NoItem \notin Items
  /\ Senders \cap Receivers = {}

VARIABLES enq, deq,    \* enqueue_pos and dequeue_pos
          state,       \* the state of each slot
          data,        \* the item last written to each slot
          pc, pos,     \* each process: where it is, the position it works on
          item,        \* the item a process sent or has read
          sent,        \* items given to try_send
          res,         \* what each process's last call returned
          live         \* items accepted and not yet received

vars == <<enq, deq, state, data, pc, pos, item, sent, res, live>>

Procs == Senders \cup Receivers
Slots == 0..(Capacity - 1)

Init ==
  /\ enq = 0 /\ deq = 0
  /\ state = [i \in Slots |-> "EMPTY"]
  /\ data = [i \in Slots |-> NoItem]
  /\ pc = [p \in Procs |-> "idle"]
  /\ pos = [p \in Procs |-> 0]
  /\ item = [p \in Procs |-> NoItem]
  /\ sent = {}
  /\ res = [p \in Procs |-> IF p \in Senders THEN "ok" ELSE "empty"]
  /\ live = {}

Goto(p, l) == pc' = [pc EXCEPT ![p] = l]

\* A call returns r; its locals are dead.
Return(p, r) ==
  /\ Goto(p, "idle")
  /\ res' = [res EXCEPT ![p] = r]
  /\ pos' = [pos EXCEPT ![p] = 0]
  /\ item' = [item EXCEPT ![p] = NoItem]

SlotOf(p) == pos[p] % Capacity
Full(at) == at < deq \/ at - deq >= Capacity

-----------------------------------------------------------------------------
(* Mutated forms used to show that the properties depend on the code. *)

\* The sender does not wait for the slot to become EMPTY.
SendClaimSlotAnyway(p) ==
  /\ pc[p] = "sendSlot"
  /\ state' = [state EXCEPT ![SlotOf(p)] = "STORING"]
  /\ Goto(p, "sendWrite")
  /\ UNCHANGED <<enq, deq, data, pos, item, sent, res, live>>

\* The receiver looks at the state and leaves it READY.
RecvClaimSlotShared(p) ==
  /\ pc[p] = "recvSlot" /\ state[SlotOf(p)] = "READY"
  /\ Goto(p, "recvRead")
  /\ UNCHANGED <<enq, deq, state, data, pos, item, sent, res, live>>

\* The slot is READY before it is written.
SendWriteNothing(p) ==
  /\ pc[p] = "sendWrite"
  /\ Goto(p, "sendReady")
  /\ UNCHANGED <<enq, deq, state, data, pos, item, sent, res, live>>

\* The rollback is off by one.
RollbackDeqTooFar(p) ==
  /\ pc[p] = "rollbackDeq"
  /\ deq' = IF deq = pos[p] + 1 THEN pos[p] - 1 ELSE deq
  /\ Return(p, "empty")
  /\ UNCHANGED <<enq, state, data, sent, live>>

-----------------------------------------------------------------------------
(* try_send *)

SendCall(p) ==
  /\ p \in Senders /\ pc[p] = "idle" /\ sent # Items
  /\ LET x == CHOOSE y \in Items : y \notin sent IN
       sent' = sent \cup {x} /\ item' = [item EXCEPT ![p] = x]
  /\ res' = [res EXCEPT ![p] = "none"]
  /\ Goto(p, "sendLoad")
  /\ UNCHANGED <<enq, deq, state, data, pos, live>>

SendLoad(p) ==
  /\ pc[p] = "sendLoad"
  /\ pos' = [pos EXCEPT ![p] = enq]
  /\ Goto(p, "sendCheck")
  /\ UNCHANGED <<enq, deq, state, data, item, sent, res, live>>

SendCheck(p) ==
  /\ pc[p] = "sendCheck"
  /\ \/ Full(pos[p]) /\ Return(p, "full")
     \/ ~Full(pos[p]) /\ Goto(p, "sendCas") /\ UNCHANGED <<pos, item, res>>
  /\ UNCHANGED <<enq, deq, state, data, sent, live>>

SendCas(p) ==
  /\ pc[p] = "sendCas"
  /\ \/ /\ enq = pos[p]
        /\ enq' = pos[p] + 1
        /\ Goto(p, "sendRecheck") /\ UNCHANGED <<pos, item, res>>
     \/ /\ enq # pos[p]
        /\ \/ Return(p, "full")
           \/ Goto(p, "sendLoad") /\ UNCHANGED <<pos, item, res>>
        /\ UNCHANGED enq
  /\ UNCHANGED <<deq, state, data, sent, live>>

SendRecheck(p) ==
  /\ pc[p] = "sendRecheck"
  /\ Goto(p, IF Full(pos[p]) THEN "rollbackEnq" ELSE "sendSlot")
  /\ UNCHANGED <<enq, deq, state, data, pos, item, sent, res, live>>

\* EMPTY -> STORING, or the spins are used up.
SendClaimSlot(p) ==
  /\ pc[p] = "sendSlot"
  /\ \/ /\ state[SlotOf(p)] = "EMPTY"
        /\ state' = [state EXCEPT ![SlotOf(p)] = "STORING"]
        /\ Goto(p, "sendWrite")
     \/ /\ state[SlotOf(p)] # "EMPTY"
        /\ Goto(p, "rollbackEnq")
        /\ UNCHANGED state
  /\ UNCHANGED <<enq, deq, data, pos, item, sent, res, live>>

SendWrite(p) ==
  /\ pc[p] = "sendWrite"
  /\ data' = [data EXCEPT ![SlotOf(p)] = item[p]]
  /\ Goto(p, "sendReady")
  /\ UNCHANGED <<enq, deq, state, pos, item, sent, res, live>>

SendReady(p) ==
  /\ pc[p] = "sendReady"
  /\ state' = [state EXCEPT ![SlotOf(p)] = "READY"]
  /\ live' = live \cup {item[p]}
  /\ Return(p, "ok")
  /\ UNCHANGED <<enq, deq, data, sent>>

\* The best-effort compare-exchange back, and Err.
RollbackEnq(p) ==
  /\ pc[p] = "rollbackEnq"
  /\ enq' = IF enq = pos[p] + 1 THEN pos[p] ELSE enq
  /\ Return(p, "full")
  /\ UNCHANGED <<deq, state, data, sent, live>>

-----------------------------------------------------------------------------
(* try_recv *)

RecvCall(p) ==
  /\ p \in Receivers /\ pc[p] = "idle" /\ deq < MaxPos
  /\ res' = [res EXCEPT ![p] = "none"]
  /\ Goto(p, "recvLoad")
  /\ UNCHANGED <<enq, deq, state, data, pos, item, sent, live>>

RecvLoad(p) ==
  /\ pc[p] = "recvLoad"
  /\ pos' = [pos EXCEPT ![p] = deq]
  /\ Goto(p, "recvCheck")
  /\ UNCHANGED <<enq, deq, state, data, item, sent, res, live>>

RecvCheck(p) ==
  /\ pc[p] = "recvCheck"
  /\ \/ pos[p] = enq /\ Return(p, "empty")
     \/ pos[p] # enq /\ Goto(p, "recvCas") /\ UNCHANGED <<pos, item, res>>
  /\ UNCHANGED <<enq, deq, state, data, sent, live>>

RecvCas(p) ==
  /\ pc[p] = "recvCas"
  /\ \/ /\ deq = pos[p]
        /\ deq' = pos[p] + 1
        /\ Goto(p, "recvRecheck") /\ UNCHANGED <<pos, item, res>>
     \/ /\ deq # pos[p]
        /\ \/ Return(p, "empty")
           \/ Goto(p, "recvLoad") /\ UNCHANGED <<pos, item, res>>
        /\ UNCHANGED deq
  /\ UNCHANGED <<enq, state, data, sent, live>>

RecvRecheck(p) ==
  /\ pc[p] = "recvRecheck"
  /\ Goto(p, IF pos[p] = enq THEN "rollbackDeq" ELSE "recvSlot")
  /\ UNCHANGED <<enq, deq, state, data, pos, item, sent, res, live>>

\* READY -> LOADING, or the spins are used up.
RecvClaimSlot(p) ==
  /\ pc[p] = "recvSlot"
  /\ \/ /\ state[SlotOf(p)] = "READY"
        /\ state' = [state EXCEPT ![SlotOf(p)] = "LOADING"]
        /\ Goto(p, "recvRead")
     \/ /\ state[SlotOf(p)] # "READY"
        /\ Goto(p, "rollbackDeq")
        /\ UNCHANGED state
  /\ UNCHANGED <<enq, deq, data, pos, item, sent, res, live>>

RecvRead(p) ==
  /\ pc[p] = "recvRead"
  /\ item' = [item EXCEPT ![p] = data[SlotOf(p)]]
  /\ Goto(p, "recvFree")
  /\ UNCHANGED <<enq, deq, state, data, pos, sent, res, live>>

RecvFree(p) ==
  /\ pc[p] = "recvFree"
  /\ state' = [state EXCEPT ![SlotOf(p)] = "EMPTY"]
  /\ live' = live \ {item[p]}
  /\ Return(p, item[p])
  /\ UNCHANGED <<enq, deq, data, sent>>

RollbackDeq(p) ==
  /\ pc[p] = "rollbackDeq"
  /\ deq' = IF deq = pos[p] + 1 THEN pos[p] ELSE deq
  /\ Return(p, "empty")
  /\ UNCHANGED <<enq, state, data, sent, live>>

-----------------------------------------------------------------------------
SendStep(p) ==
  \/ SendLoad(p) \/ SendCheck(p) \/ SendCas(p) \/ SendRecheck(p)
  \/ SendClaimSlot(p) \/ SendWrite(p) \/ SendReady(p) \/ RollbackEnq(p)

RecvStep(p) ==
  \/ RecvCall(p) \/ RecvLoad(p) \/ RecvCheck(p) \/ RecvCas(p) \/ RecvRecheck(p)
  \/ RecvClaimSlot(p) \/ RecvRead(p) \/ RecvFree(p) \/ RollbackDeq(p)

Next ==
  \/ \E p \in Senders : SendCall(p) \/ SendStep(p)
  \/ \E p \in Receivers : RecvStep(p)

Spec == Init /\ [][Next]_vars

\* A call that has begun returns, and receivers keep calling try_recv.
FairSpec ==
  /\ Spec
  /\ \A p \in Senders : WF_vars(SendStep(p))
  /\ \A p \in Receivers : WF_vars(RecvStep(p))

-----------------------------------------------------------------------------
\* The types; a slot is in one of the four states of the Slot's state word.
TypeOK ==
  /\ enq \in Nat /\ deq \in Nat
  /\ state \in [Slots -> {"EMPTY", "STORING", "READY", "LOADING"}]
  /\ data \in [Slots -> Items \cup {NoItem}]
  /\ \A p \in Procs : pos[p] \in Nat /\ item[p] \in Items \cup {NoItem}
  /\ sent \subseteq Items
  /\ live \subseteq Items

\* An item that try_send accepted and nobody has received is in a slot that is
\* READY or being read: giving up and rolling back never overwrites or drops it.
AcceptedItemsStored ==
  \A x \in live : \E i \in Slots : data[i] = x /\ state[i] \in {"READY", "LOADING"}

\* A receiver returns an item that was accepted and not received before, and no
\* two receivers are about to return the same one.
ReceivedOnce ==
  \A p \in Receivers : pc[p] = "recvFree" =>
     /\ item[p] \in live
     /\ \A q \in Receivers \ {p} : pc[q] = "recvFree" => item[q] # item[p]

\* The item slots are never accessed by two processes at once: the data of a slot
\* is written and read under STORING and LOADING only.
SlotOwned ==
  \A p, q \in Procs :
     /\ p # q
     /\ pc[p] \in {"sendWrite", "sendReady", "recvRead", "recvFree"}
     /\ pc[q] \in {"sendWrite", "sendReady", "recvRead", "recvFree"}
     => SlotOf(p) # SlotOf(q)

\* An accepted item is received as long as receivers keep calling (the comment
\* in try_send: a phantom gap is skipped by try_recv).
AcceptedItemsReceived == \A x \in Items : x \in live ~> x \notin live
=============================================================================
