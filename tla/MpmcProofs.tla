----------------------------- MODULE MpmcProofs -----------------------------
(***************************************************************************)
(* The item slots of MpmcQueue are accessed by one process at a time, an   *)
(* accepted item stays in its slot until it is received, and it is         *)
(* received once: for any senders and receivers and any capacity, and      *)
(* however positions are claimed, abandoned and rolled back.               *)
(***************************************************************************)
EXTENDS Mpmc, TLAPS

Writing == {"sendWrite", "sendReady"}
Reading == {"recvRead", "recvFree"}
Inside == Writing \cup Reading
Outside ==
  {"idle", "sendLoad", "sendCheck", "sendCas", "sendRecheck", "sendSlot", "rollbackEnq",
   "recvLoad", "recvCheck", "recvCas", "recvRecheck", "recvSlot", "rollbackDeq"}
Labels == Inside \cup Outside

\* A process that accesses a slot has put the slot's state word to the state
\* that keeps the others out.
SlotInv ==
  /\ enq \in Nat /\ deq \in Nat
  /\ pc \in [Procs -> Labels]
  /\ pos \in [Procs -> Nat]
  /\ state \in [Slots -> {"EMPTY", "STORING", "READY", "LOADING"}]
  /\ \A p \in Procs : pc[p] \in Writing => state[SlotOf(p)] = "STORING"
  /\ \A p \in Procs : pc[p] \in Reading => state[SlotOf(p)] = "LOADING"
  /\ SlotOwned

\* A position names a slot.
LEMMA SlotOfSlots ==
  ASSUME SlotInv, NEW p \in Procs
  PROVE  SlotOf(p) \in Slots
  BY MpmcAssumption DEF SlotInv, SlotOf, Slots

\* A step of p that leaves the slots alone and does not take p inside one.
LEMMA OutsideStep ==
  ASSUME SlotInv, NEW p \in Procs, state' = state,
         enq' \in Nat, deq' \in Nat, NEW l \in Outside, NEW n \in Nat,
         pc' = [pc EXCEPT ![p] = l], pos' = [pos EXCEPT ![p] = n]
  PROVE  SlotInv'
  BY DEF SlotInv, SlotOwned, SlotOf, Labels, Outside, Inside, Writing, Reading

\* A step of p inside its slot.
LEMMA InsideStep ==
  ASSUME SlotInv, NEW p \in Procs, UNCHANGED <<enq, deq, pos, state>>,
         NEW l \in Labels, pc' = [pc EXCEPT ![p] = l],
         (pc[p] \in Writing /\ l \in Writing) \/ (pc[p] \in Reading /\ l \in Reading)
  PROVE  SlotInv'
  BY DEF SlotInv, SlotOwned, SlotOf, Labels, Outside, Inside, Writing, Reading

\* p enters a slot that nobody is in.
LEMMA EnterStep ==
  ASSUME SlotInv, NEW p \in Procs, UNCHANGED <<enq, deq, pos>>,
         NEW s \in {"STORING", "LOADING"}, NEW l \in Inside,
         pc' = [pc EXCEPT ![p] = l], state' = [state EXCEPT ![SlotOf(p)] = s],
         state[SlotOf(p)] \in {"EMPTY", "READY"},
         l \in Writing <=> s = "STORING"
  PROVE  SlotInv'
<1>1. SlotOf(p) \in Slots
  BY SlotOfSlots
<1>2. \A q \in Procs : SlotOf(q)' = SlotOf(q) /\ SlotOf(q) \in Slots
  BY SlotOfSlots DEF SlotOf
<1>3. \A q \in Procs : pc[q] \in Inside => SlotOf(q) # SlotOf(p)
  BY DEF SlotInv, Inside
<1>4. pc'[p] = l /\ \A q \in Procs \ {p} : pc'[q] = pc[q]
  BY DEF SlotInv
<1>5. state'[SlotOf(p)] = s /\ \A i \in Slots \ {SlotOf(p)} : state'[i] = state[i]
  BY <1>1 DEF SlotInv
<1>6. ASSUME NEW q \in Procs
      PROVE  /\ pc'[q] \in Writing => state'[SlotOf(q)] = "STORING"
             /\ pc'[q] \in Reading => state'[SlotOf(q)] = "LOADING"
  <2>1. CASE q = p
    BY <2>1, <1>4, <1>5 DEF Inside, Writing, Reading
  <2>2. CASE q # p
    BY <2>2, <1>2, <1>3, <1>4, <1>5 DEF SlotInv, Inside
  <2> QED BY <2>1, <2>2
<1>7. SlotOwned'
  BY <1>2, <1>3, <1>4 DEF SlotInv, SlotOwned, Inside, Writing, Reading
<1>8. /\ enq' \in Nat /\ deq' \in Nat /\ pos' \in [Procs -> Nat]
      /\ pc' \in [Procs -> Labels]
      /\ state' \in [Slots -> {"EMPTY", "STORING", "READY", "LOADING"}]
  BY DEF SlotInv, Labels
<1> QED BY <1>2, <1>6, <1>7, <1>8 DEF SlotInv

\* p leaves its slot and returns.
LEMMA LeaveStep ==
  ASSUME SlotInv, NEW p \in Procs, UNCHANGED <<enq, deq>>, pc[p] \in Inside,
         NEW s \in {"READY", "EMPTY"}, state' = [state EXCEPT ![SlotOf(p)] = s],
         pc' = [pc EXCEPT ![p] = "idle"], pos' = [pos EXCEPT ![p] = 0]
  PROVE  SlotInv'
<1>1. \A q \in Procs : SlotOf(q) \in Slots
  BY SlotOfSlots
<1>2. \A q \in Procs \ {p} : pc[q] \in Inside => SlotOf(q) # SlotOf(p)
  BY DEF SlotInv, SlotOwned, Inside, Writing, Reading
<1>3. \A q \in Procs \ {p} : SlotOf(q)' = SlotOf(q) /\ pc'[q] = pc[q]
  BY DEF SlotInv, SlotOf
<1>4. pc'[p] = "idle"
  BY DEF SlotInv
<1>5. \A i \in Slots \ {SlotOf(p)} : state'[i] = state[i]
  BY DEF SlotInv
<1>6. ASSUME NEW q \in Procs
      PROVE  /\ pc'[q] \in Writing => state'[SlotOf(q)'] = "STORING"
             /\ pc'[q] \in Reading => state'[SlotOf(q)'] = "LOADING"
  BY <1>1, <1>2, <1>3, <1>4, <1>5 DEF SlotInv, Inside, Writing, Reading
<1>7. SlotOwned'
  BY <1>3, <1>4 DEF SlotInv, SlotOwned
<1>8. /\ enq' \in Nat /\ deq' \in Nat /\ pos' \in [Procs -> Nat]
      /\ pc' \in [Procs -> Labels]
      /\ state' \in [Slots -> {"EMPTY", "STORING", "READY", "LOADING"}]
  BY DEF SlotInv, Labels, Outside
<1> QED BY <1>6, <1>7, <1>8 DEF SlotInv

\* At the start nobody is inside a slot.
LEMMA InitSlot == Init => SlotInv
<1> SUFFICES ASSUME Init PROVE SlotInv
  OBVIOUS
<1>1. \A p \in Procs : pc[p] = "idle"
  BY DEF Init
<1>2. /\ enq \in Nat /\ deq \in Nat /\ pos \in [Procs -> Nat] /\ pc \in [Procs -> Labels]
      /\ state \in [Slots -> {"EMPTY", "STORING", "READY", "LOADING"}]
  BY DEF Init, Labels, Outside
<1>3. SlotOwned
  BY <1>1 DEF SlotOwned
<1> QED BY <1>1, <1>2, <1>3 DEF SlotInv, Writing, Reading

\* Every step of try_send and try_recv keeps it.
LEMMA StepSlot == SlotInv /\ [Next]_vars => SlotInv'
<1> SUFFICES ASSUME SlotInv, [Next]_vars PROVE SlotInv'
  OBVIOUS
<1> USE DEF Goto, Return, Inside, Writing, Reading
<1>1. ASSUME NEW p \in Procs,
             SendCall(p) \/ SendLoad(p) \/ SendCheck(p) \/ SendCas(p) \/ SendRecheck(p)
             \/ RollbackEnq(p) \/ RecvCall(p) \/ RecvLoad(p) \/ RecvCheck(p) \/ RecvCas(p)
             \/ RecvRecheck(p) \/ RollbackDeq(p)
      PROVE  SlotInv'
  <2>1. state' = state
    BY <1>1 DEF SendCall, SendLoad, SendCheck, SendCas, SendRecheck, RollbackEnq,
                RecvCall, RecvLoad, RecvCheck, RecvCas, RecvRecheck, RollbackDeq
  <2>2. enq' \in Nat /\ deq' \in Nat
    <3>1. enq \in Nat /\ deq \in Nat /\ pos[p] \in Nat
      BY DEF SlotInv
    <3>2. CASE SendCas(p) \/ RollbackEnq(p)
      BY <3>1, <3>2 DEF SendCas, RollbackEnq
    <3>3. CASE RecvCas(p) \/ RollbackDeq(p)
      BY <3>1, <3>3 DEF RecvCas, RollbackDeq
    <3>4. CASE UNCHANGED <<enq, deq>>
      BY <3>1, <3>4
    <3> QED
      BY <1>1, <3>2, <3>3, <3>4 DEF SendCall, SendLoad, SendCheck, SendRecheck,
                                    RecvCall, RecvLoad, RecvCheck, RecvRecheck
  <2>3. \E l \in Outside : pc' = [pc EXCEPT ![p] = l]
    <3>1. CASE SendCall(p) \/ SendLoad(p) \/ SendCheck(p)
      BY <3>1 DEF SendCall, SendLoad, SendCheck, Outside
    <3>2. CASE SendCas(p) \/ SendRecheck(p) \/ RollbackEnq(p)
      BY <3>2 DEF SendCas, SendRecheck, RollbackEnq, Outside
    <3>3. CASE RecvCall(p) \/ RecvLoad(p) \/ RecvCheck(p)
      BY <3>3 DEF RecvCall, RecvLoad, RecvCheck, Outside
    <3>4. CASE RecvCas(p) \/ RecvRecheck(p) \/ RollbackDeq(p)
      BY <3>4 DEF RecvCas, RecvRecheck, RollbackDeq, Outside
    <3> QED BY <1>1, <3>1, <3>2, <3>3, <3>4
  <2>4. \E n \in Nat : pos' = [pos EXCEPT ![p] = n]
    <3>1. pos = [pos EXCEPT ![p] = pos[p]] /\ pos[p] \in Nat
      BY DEF SlotInv
    <3> QED
      BY <1>1, <3>1 DEF SendCall, SendLoad, SendCheck, SendCas, SendRecheck, RollbackEnq,
                RecvCall, RecvLoad, RecvCheck, RecvCas, RecvRecheck, RollbackDeq, SlotInv
  <2> QED BY <2>1, <2>2, <2>3, <2>4, OutsideStep
<1>2. ASSUME NEW p \in Procs, SendWrite(p) \/ RecvRead(p) PROVE SlotInv'
  BY <1>2, InsideStep DEF SendWrite, RecvRead, Labels
<1>3. ASSUME NEW p \in Procs, SendReady(p) \/ RecvFree(p) PROVE SlotInv'
  BY <1>3, LeaveStep DEF SendReady, RecvFree
<1>4. ASSUME NEW p \in Procs, SendClaimSlot(p) \/ RecvClaimSlot(p) PROVE SlotInv'
  <2>1. CASE state' = state /\ (Goto(p, "rollbackEnq") \/ Goto(p, "rollbackDeq"))
    <3>1. pos' = [pos EXCEPT ![p] = pos[p]] /\ pos[p] \in Nat
      BY <1>4 DEF SendClaimSlot, RecvClaimSlot, SlotInv
    <3>2. enq' \in Nat /\ deq' \in Nat
      BY <1>4 DEF SendClaimSlot, RecvClaimSlot, SlotInv
    <3> QED BY <2>1, <3>1, <3>2, OutsideStep DEF Outside
  <2>2. CASE state[SlotOf(p)] = "EMPTY" /\ SendClaimSlot(p)
    BY <2>2, EnterStep DEF SendClaimSlot
  <2>3. CASE state[SlotOf(p)] = "READY" /\ RecvClaimSlot(p)
    BY <2>3, EnterStep DEF RecvClaimSlot
  <2> QED BY <1>4, <2>1, <2>2, <2>3 DEF SendClaimSlot, RecvClaimSlot
<1>5. CASE UNCHANGED vars
  BY <1>5 DEF vars, SlotInv, SlotOwned, SlotOf
<1> QED
  BY <1>1, <1>2, <1>3, <1>4, <1>5 DEF Next, SendStep, RecvStep, Procs

\* The state words agree with who is inside which slot.
THEOREM SlotInvariance == Spec => []SlotInv
  BY InitSlot, StepSlot, PTL DEF Spec

\* The UnsafeCell of a slot is never accessed by two processes at once.
THEOREM SlotOwnedThm == Spec => []SlotOwned
<1>1. SlotInv => SlotOwned
  BY DEF SlotInv
<1> QED BY <1>1, SlotInvariance, PTL

-----------------------------------------------------------------------------
(* The items. *)

Sending ==
  {"sendLoad", "sendCheck", "sendCas", "sendRecheck", "sendSlot", "sendWrite", "sendReady",
   "rollbackEnq"}
Filled == {"READY", "LOADING"}

\* A call of try_send carries an item that is its own and not yet accepted; the
\* filled slots and the accepted items correspond one to one; between the access
\* to a slot and the store of its state word, process and slot have the same item.
ItemInv ==
  /\ data \in [Slots -> Items \cup {NoItem}]
  /\ item \in [Procs -> Items \cup {NoItem}]
  /\ sent \subseteq Items /\ live \subseteq sent
  /\ \A p \in Procs : pc[p] \in Sending => item[p] \in sent \ live
  /\ \A p, q \in Procs : pc[p] \in Sending /\ pc[q] \in Sending /\ item[p] = item[q] => p = q
  /\ \A x \in live : \E i \in Slots : data[i] = x /\ state[i] \in Filled
  /\ \A i \in Slots : state[i] \in Filled => data[i] \in live
  /\ \A i, j \in Slots : state[i] \in Filled /\ state[j] \in Filled /\ data[i] = data[j] => i = j
  /\ \A p \in Procs : pc[p] \in {"sendReady", "recvFree"} => data[SlotOf(p)] = item[p]

QueueInv == SlotInv /\ ItemInv

\* A step of p that touches no slot and ends outside one: p keeps its item, or
\* returns and drops it.
LEMMA CarryStep ==
  ASSUME QueueInv, NEW p \in Procs, UNCHANGED <<state, data, sent, live>>,
         NEW l \in Labels \ {"sendReady", "recvFree"}, pc' = [pc EXCEPT ![p] = l],
         l \in Sending => pc[p] \in Sending,
         NEW n \in Nat, pos' = [pos EXCEPT ![p] = n],
         item' = item \/ (item' = [item EXCEPT ![p] = NoItem] /\ l = "idle")
  PROVE  ItemInv'
<1> USE DEF QueueInv, SlotInv, ItemInv
<1>1. \A q \in Procs \ {p} : pc'[q] = pc[q] /\ SlotOf(q)' = SlotOf(q) /\ item'[q] = item[q]
  BY DEF SlotOf
<1>2. pc'[p] = l /\ (l \in Sending => item'[p] = item[p])
  BY DEF Sending
<1>3. item' \in [Procs -> Items \cup {NoItem}]
  OBVIOUS
<1>4. \A q \in Procs : pc'[q] \in Sending => item'[q] \in sent \ live
  BY <1>1, <1>2
<1>5. \A q, r \in Procs :
        pc'[q] \in Sending /\ pc'[r] \in Sending /\ item'[q] = item'[r] => q = r
  BY <1>1, <1>2
<1>6. \A q \in Procs : pc'[q] \in {"sendReady", "recvFree"} => data[SlotOf(q)'] = item'[q]
  BY <1>1, <1>2
<1> QED BY <1>3, <1>4, <1>5, <1>6

\* No call of try_send carries anything at the start, and no slot is filled.
LEMMA InitItem == Init => ItemInv
<1> SUFFICES ASSUME Init PROVE ItemInv
  OBVIOUS
<1>1. \A p \in Procs : pc[p] = "idle"
  BY DEF Init
<1>2. \A i \in Slots : state[i] = "EMPTY"
  BY DEF Init
<1>3. /\ data \in [Slots -> Items \cup {NoItem}] /\ item \in [Procs -> Items \cup {NoItem}]
      /\ sent = {} /\ live = {}
  BY DEF Init
<1> QED BY <1>1, <1>2, <1>3 DEF ItemInv, Sending, Filled

\* The item of a new call was given to no call before.
LEMMA CallItem == ASSUME QueueInv, NEW p \in Procs, SendCall(p) PROVE ItemInv'
<1> USE DEF QueueInv, SlotInv, ItemInv
<1>1. PICK x \in Items \ sent : sent' = sent \cup {x} /\ item' = [item EXCEPT ![p] = x]
  <2>1. \E y \in Items : y \notin sent
    BY DEF SendCall
  <2> HIDE DEF QueueInv
  <2> QED BY <2>1 DEF SendCall
<1>2. UNCHANGED <<state, data, live>> /\ \A q \in Procs : SlotOf(q)' = SlotOf(q)
  BY DEF SendCall, SlotOf
<1>3. pc'[p] = "sendLoad" /\ item'[p] = x
      /\ \A q \in Procs \ {p} : pc'[q] = pc[q] /\ item'[q] = item[q]
  BY <1>1 DEF SendCall, Goto
<1>4. item' \in [Procs -> Items \cup {NoItem}] /\ sent' \subseteq Items /\ live \subseteq sent'
  BY <1>1
<1>5. \A q \in Procs : pc'[q] \in Sending => item'[q] \in sent' \ live
  BY <1>1, <1>3
<1>6. \A q, r \in Procs :
        pc'[q] \in Sending /\ pc'[r] \in Sending /\ item'[q] = item'[r] => q = r
  BY <1>1, <1>3
<1>7. \A q \in Procs : pc'[q] \in {"sendReady", "recvFree"} => data[SlotOf(q)] = item'[q]
  BY <1>3
<1> QED BY <1>2, <1>4, <1>5, <1>6, <1>7

\* The item goes into a slot that is STORING.
LEMMA WriteItem == ASSUME QueueInv, NEW p \in Procs, SendWrite(p) PROVE ItemInv'
<1> USE DEF QueueInv, SlotInv, ItemInv
<1> DEFINE k == SlotOf(p)
<1>1. k \in Slots /\ \A q \in Procs : SlotOf(q) \in Slots
  BY SlotOfSlots
<1>2. state[k] \notin Filled /\ pc[p] \in Inside
  BY DEF SendWrite, Writing, Filled, Inside
<1>3. data'[k] = item[p] /\ \A i \in Slots \ {k} : data'[i] = data[i]
  BY <1>1 DEF SendWrite
<1>4. UNCHANGED <<state, item, sent, live>> /\ \A q \in Procs : SlotOf(q)' = SlotOf(q)
  BY DEF SendWrite, SlotOf
<1>5. pc'[p] = "sendReady" /\ \A q \in Procs \ {p} : pc'[q] = pc[q]
  BY DEF SendWrite, Goto
<1>6. \A q \in Procs \ {p} : pc[q] \in Inside => SlotOf(q) # k
  BY <1>2 DEF SlotOwned, Inside, Writing, Reading
<1>7. \A q \in Procs : pc'[q] \in Sending => pc[q] \in Sending
  BY <1>5 DEF SendWrite, Sending
<1>8. \A q \in Procs : pc'[q] \in {"sendReady", "recvFree"} => data'[SlotOf(q)] = item[q]
  BY <1>1, <1>3, <1>5, <1>6 DEF Inside, Writing, Reading
<1>9. data' \in [Slots -> Items \cup {NoItem}]
  BY DEF SendWrite
<1>10. \A i \in Slots : state[i] \in Filled => data'[i] = data[i]
  BY <1>2, <1>3
<1> HIDE DEF k
<1>11. \A x \in live : \E i \in Slots : data'[i] = x /\ state[i] \in Filled
  BY <1>10
<1>12. \A i, j \in Slots : state[i] \in Filled /\ state[j] \in Filled /\ data'[i] = data'[j] => i = j
  BY <1>10
<1> QED BY <1>4, <1>7, <1>8, <1>9, <1>10, <1>11, <1>12

\* The store of READY accepts the item.
LEMMA ReadyItem == ASSUME QueueInv, NEW p \in Procs, SendReady(p) PROVE ItemInv'
<1> USE DEF QueueInv, SlotInv, ItemInv
<1> DEFINE k == SlotOf(p)
<1>1. k \in Slots /\ \A q \in Procs : SlotOf(q) \in Slots
  BY SlotOfSlots
<1>2. /\ data[k] = item[p] /\ item[p] \in sent \ live /\ pc[p] \in Sending
      /\ state[k] \notin Filled
  BY DEF SendReady, Sending, Writing, Filled
<1>3. state'[k] = "READY" /\ \A i \in Slots \ {k} : state'[i] = state[i]
  BY <1>1 DEF SendReady
<1>4. UNCHANGED <<data, sent>> /\ live' = live \cup {item[p]}
  BY DEF SendReady
<1>5. pc'[p] = "idle" /\ \A q \in Procs \ {p} :
        pc'[q] = pc[q] /\ item'[q] = item[q] /\ SlotOf(q)' = SlotOf(q)
  BY DEF SendReady, Return, Goto, SlotOf
<1>6. item' \in [Procs -> Items \cup {NoItem}]
  BY DEF SendReady, Return
<1> HIDE DEF k
<1>7. live' \subseteq sent
  BY <1>2, <1>4
<1>8. \A q \in Procs : pc'[q] \in Sending => item'[q] \in sent \ live'
  BY <1>2, <1>4, <1>5 DEF Sending
<1>9. \A q, r \in Procs :
        pc'[q] \in Sending /\ pc'[r] \in Sending /\ item'[q] = item'[r] => q = r
  BY <1>5 DEF Sending
<1>10. \A x \in live' : \E i \in Slots : data[i] = x /\ state'[i] \in Filled
  BY <1>1, <1>2, <1>3, <1>4 DEF Filled
<1>11. \A i \in Slots : state'[i] \in Filled => data[i] \in live'
  BY <1>2, <1>3, <1>4
<1>12. \A i, j \in Slots :
         state'[i] \in Filled /\ state'[j] \in Filled /\ data[i] = data[j] => i = j
  BY <1>2, <1>3
<1>13. \A q \in Procs : pc'[q] \in {"sendReady", "recvFree"} => data[SlotOf(q)'] = item'[q]
  BY <1>5
<1> QED BY <1>4, <1>6, <1>7, <1>8, <1>9, <1>10, <1>11, <1>12, <1>13

\* The store of EMPTY gives the item of the slot to the caller.
LEMMA FreeItem == ASSUME QueueInv, NEW p \in Procs, RecvFree(p) PROVE ItemInv'
<1> USE DEF QueueInv, SlotInv, ItemInv
<1> DEFINE k == SlotOf(p)
<1>1. k \in Slots /\ \A q \in Procs : SlotOf(q) \in Slots
  BY SlotOfSlots
<1>2. data[k] = item[p] /\ state[k] \in Filled
  BY DEF RecvFree, Reading, Filled
<1>3. state'[k] = "EMPTY" /\ \A i \in Slots \ {k} : state'[i] = state[i]
  BY <1>1 DEF RecvFree
<1>4. UNCHANGED <<data, sent>> /\ live' = live \ {item[p]}
  BY DEF RecvFree
<1>5. pc'[p] = "idle" /\ \A q \in Procs \ {p} :
        pc'[q] = pc[q] /\ item'[q] = item[q] /\ SlotOf(q)' = SlotOf(q)
  BY DEF RecvFree, Return, Goto, SlotOf
<1>6. item' \in [Procs -> Items \cup {NoItem}]
  BY DEF RecvFree, Return
<1> HIDE DEF k
<1>7. \A q \in Procs : pc'[q] \in Sending => item'[q] \in sent \ live'
  BY <1>4, <1>5 DEF Sending
<1>8. \A q, r \in Procs :
        pc'[q] \in Sending /\ pc'[r] \in Sending /\ item'[q] = item'[r] => q = r
  BY <1>5 DEF Sending
<1>9. \A x \in live' : \E i \in Slots : data[i] = x /\ state'[i] \in Filled
  BY <1>2, <1>3, <1>4
<1>10. \A i \in Slots : state'[i] \in Filled => i # k /\ state[i] \in Filled
  BY <1>3 DEF Filled
<1>11. \A i \in Slots : state'[i] \in Filled => data[i] \in live'
  BY <1>1, <1>2, <1>4, <1>10
<1>12. \A q \in Procs : pc'[q] \in {"sendReady", "recvFree"} => data[SlotOf(q)'] = item'[q]
  BY <1>5
<1> QED BY <1>4, <1>6, <1>7, <1>8, <1>9, <1>10, <1>11, <1>12

\* A claim of a slot's state word fills and empties nothing.
LEMMA ClaimItem ==
  ASSUME QueueInv, NEW p \in Procs, SendClaimSlot(p) \/ RecvClaimSlot(p)
  PROVE  ItemInv'
<1> USE DEF QueueInv, SlotInv, ItemInv
<1>1. SlotOf(p) \in Slots
  BY SlotOfSlots
<1>2. UNCHANGED <<data, item, sent, live>> /\ \A q \in Procs : SlotOf(q)' = SlotOf(q)
  BY DEF SendClaimSlot, RecvClaimSlot, SlotOf
<1>3. \A i \in Slots : state'[i] \in Filled <=> state[i] \in Filled
  BY <1>1 DEF SendClaimSlot, RecvClaimSlot, Filled
<1>4. \A q \in Procs : /\ pc'[q] \in Sending => pc[q] \in Sending
                       /\ pc'[q] \in {"sendReady", "recvFree"} => pc'[q] = pc[q]
  BY DEF SendClaimSlot, RecvClaimSlot, Goto, Sending
<1>5. \A x \in live : \E i \in Slots : data[i] = x /\ state'[i] \in Filled
  BY <1>3
<1>6. \A i, j \in Slots :
        state'[i] \in Filled /\ state'[j] \in Filled /\ data[i] = data[j] => i = j
  BY <1>3
<1> QED BY <1>2, <1>3, <1>4, <1>5, <1>6

\* A receiver copies the item of the slot it has put to LOADING.
LEMMA ReadItem == ASSUME QueueInv, NEW p \in Procs, RecvRead(p) PROVE ItemInv'
<1> USE DEF QueueInv, SlotInv, ItemInv
<1>1. SlotOf(p) \in Slots
  BY SlotOfSlots
<1>2. UNCHANGED <<state, data, sent, live>> /\ \A q \in Procs : SlotOf(q)' = SlotOf(q)
  BY DEF RecvRead, SlotOf
<1>3. pc'[p] = "recvFree" /\ item'[p] = data[SlotOf(p)]
      /\ \A q \in Procs \ {p} : pc'[q] = pc[q] /\ item'[q] = item[q]
  BY DEF RecvRead, Goto
<1>4. item' \in [Procs -> Items \cup {NoItem}]
  BY <1>1 DEF RecvRead
<1>5. \A q \in Procs : pc'[q] \in Sending => pc[q] \in Sending /\ item'[q] = item[q]
  BY <1>3 DEF Sending
<1>6. \A q \in Procs : pc'[q] \in {"sendReady", "recvFree"} => data[SlotOf(q)] = item'[q]
  BY <1>3
<1> QED BY <1>2, <1>4, <1>5, <1>6

\* Every step of try_send and try_recv keeps items and slots in agreement.
LEMMA StepItem == QueueInv /\ [Next]_vars => ItemInv'
<1> SUFFICES ASSUME QueueInv, [Next]_vars PROVE ItemInv'
  OBVIOUS
<1>1. ASSUME NEW p \in Procs,
             SendLoad(p) \/ SendCheck(p) \/ SendCas(p) \/ SendRecheck(p) \/ RollbackEnq(p)
             \/ RecvCall(p) \/ RecvLoad(p) \/ RecvCheck(p) \/ RecvCas(p)
             \/ RecvRecheck(p) \/ RollbackDeq(p)
      PROVE  ItemInv'
  <2> USE DEF Goto, Return
  <2>1. UNCHANGED <<state, data, sent, live>>
    BY <1>1 DEF SendLoad, SendCheck, SendCas, SendRecheck, RollbackEnq,
                RecvCall, RecvLoad, RecvCheck, RecvCas, RecvRecheck, RollbackDeq
  <2>2. \E l \in Labels \ {"sendReady", "recvFree"} :
           /\ pc' = [pc EXCEPT ![p] = l]
           /\ l \in Sending => pc[p] \in Sending
           /\ item' = item \/ (item' = [item EXCEPT ![p] = NoItem] /\ l = "idle")
    <3> USE DEF Labels, Outside, Sending
    <3>1. CASE SendLoad(p) \/ SendCheck(p)
      BY <3>1 DEF SendLoad, SendCheck
    <3>2. CASE SendCas(p)
      BY <3>2 DEF SendCas
    <3>3. CASE SendRecheck(p) \/ RollbackEnq(p)
      BY <3>3 DEF SendRecheck, RollbackEnq
    <3>4. CASE RecvCall(p) \/ RecvLoad(p) \/ RecvCheck(p)
      BY <3>4 DEF RecvCall, RecvLoad, RecvCheck
    <3>5. CASE RecvCas(p)
      BY <3>5 DEF RecvCas
    <3>6. CASE RecvRecheck(p) \/ RollbackDeq(p)
      BY <3>6 DEF RecvRecheck, RollbackDeq
    <3> QED BY <1>1, <3>1, <3>2, <3>3, <3>4, <3>5, <3>6
  <2>3. \E n \in Nat : pos' = [pos EXCEPT ![p] = n]
    <3>1. pos = [pos EXCEPT ![p] = pos[p]] /\ pos[p] \in Nat /\ enq \in Nat /\ deq \in Nat
      BY DEF QueueInv, SlotInv
    <3> QED
      BY <1>1, <3>1 DEF SendLoad, SendCheck, SendCas, SendRecheck, RollbackEnq,
                RecvCall, RecvLoad, RecvCheck, RecvCas, RecvRecheck, RollbackDeq
  <2> HIDE DEF Goto, Return
  <2> QED BY <2>1, <2>2, <2>3, CarryStep
<1>2. CASE UNCHANGED vars
  BY <1>2 DEF vars, QueueInv, ItemInv, SlotOf
<1> QED
  BY <1>1, <1>2, CallItem, WriteItem, ReadyItem, FreeItem, ClaimItem, ReadItem
     DEF Next, SendStep, RecvStep, Procs

\* Slots, accepted items and processes agree in every reachable state.
THEOREM QueueInvariance == Spec => []QueueInv
<1>1. QueueInv /\ [Next]_vars => QueueInv'
  BY StepSlot, StepItem DEF QueueInv
<1> QED BY <1>1, InitSlot, InitItem, PTL DEF Spec, QueueInv

\* Positions, state words and items keep their types.
THEOREM TypeCorrect == Spec => []TypeOK
<1>1. QueueInv => TypeOK
  BY DEF QueueInv, SlotInv, ItemInv, TypeOK
<1> QED BY <1>1, QueueInvariance, PTL

\* An item that try_send accepted stays in a READY or LOADING slot until it is
\* received, whoever gives up and rolls back.
THEOREM AcceptedItemsStoredThm == Spec => []AcceptedItemsStored
<1>1. QueueInv => AcceptedItemsStored
  BY DEF QueueInv, ItemInv, AcceptedItemsStored, Filled
<1> QED BY <1>1, QueueInvariance, PTL

\* try_recv returns accepted items only, and each of them once.
THEOREM ReceivedOnceThm == Spec => []ReceivedOnce
<1>1. QueueInv => ReceivedOnce
  <2> SUFFICES ASSUME QueueInv, NEW p \in Receivers, pc[p] = "recvFree"
               PROVE  /\ item[p] \in live
                      /\ \A q \in Receivers \ {p} : pc[q] = "recvFree" => item[q] # item[p]
    BY DEF ReceivedOnce
  <2>1. \A q \in Receivers : q \in Procs /\ SlotOf(q) \in Slots
    BY SlotOfSlots DEF Procs, QueueInv
  <2>2. \A q \in Receivers : pc[q] = "recvFree" =>
           state[SlotOf(q)] \in Filled /\ data[SlotOf(q)] = item[q]
    BY <2>1 DEF QueueInv, SlotInv, ItemInv, Reading, Filled
  <2>3. \A q \in Receivers \ {p} : pc[q] = "recvFree" => SlotOf(q) # SlotOf(p)
    BY <2>1 DEF QueueInv, SlotInv, SlotOwned
  <2> QED BY <2>1, <2>2, <2>3 DEF QueueInv, ItemInv
<1> QED BY <1>1, QueueInvariance, PTL
=============================================================================
