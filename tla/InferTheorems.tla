--------------------------- MODULE InferTheorems ---------------------------
(***************************************************************************)
(* What the ring of the inference queue guarantees, with the arithmetic of *)
(* finite sets: PENDING_COUNT is exact, the bounds of the types, and (with *)
(* at most as many open calls as slots) claims are intact and no job is    *)
(* lost.                                                                   *)
(***************************************************************************)
EXTENDS InferProofs, FiniteSetTheorems

\* The published jobs; the submitters that have published and not counted; a
\* claim that has emptied its slot and not yet counted down.
Occupied == {i \in Ring : slots[i].occupied}
Uncounted == {s \in Submitters : sub[s].pc = "count"}
Taken == IF \E p \in Pollers : pol[p].pc = "uncount" THEN 1 ELSE 0

\* PENDING_COUNT is the number of published jobs, but for those not yet counted.
PendInv ==
  /\ IsFiniteSet(Uncounted)
  /\ pending + Cardinality(Uncounted) = Cardinality(Occupied) + Taken

\* There are finitely many published jobs.
LEMMA OccupiedFinite == IsFiniteSet(Occupied) /\ Cardinality(Occupied) \in Nat
<1>1. IsFiniteSet(Ring)
  BY Numbers, FS_Interval DEF Ring
<1>2. IsFiniteSet(Occupied)
  BY <1>1, FS_Subset DEF Occupied
<1> QED BY <1>2, FS_CardinalityType

\* Nothing is published or counted at the start.
LEMMA InitPend == Init => PendInv
<1> SUFFICES ASSUME Init PROVE PendInv
  OBVIOUS
<1>1. Uncounted = {} /\ Taken = 0 /\ pending = 0
  BY DEF Init, Uncounted, Taken
<1>2. Occupied = {}
  BY DEF Init, Occupied, Ring
<1> QED BY <1>1, <1>2, FS_EmptySet DEF PendInv

\* Steps that neither publish, empty nor count.
LEMMA PendKept ==
  ASSUME PendInv, pending' = pending, SameOccupied, SameAt("uncount"), SameCount
  PROVE  PendInv'
<1>1. Occupied' = Occupied
  BY Zenon DEF Occupied, SameOccupied
<1>2. Uncounted' = Uncounted
  BY Zenon DEF Uncounted, SameCount
<1>3. Taken' = Taken
  BY Zenon DEF Taken, SameAt
<1> QED BY <1>1, <1>2, <1>3, Zenon DEF PendInv

\* A job is published before it is counted.
LEMMA PendPublish ==
  ASSUME Types, RingInv, PendInv, NEW s \in Submitters, Publish(s)
  PROVE  PendInv'
<1> DEFINE j == SlotOf(sub[s].t)
<1>1. pending' = pending /\ pol' = pol /\ sub[s].pc = "publish"
  BY Zenon DEF Publish
<1>2. j \in Ring
  BY RingTypes, Zenon
<1>3. ~slots[j].occupied
  <2>1. sub[s].pc \in Filling
    BY <1>1 DEF Filling
  <2> QED BY <2>1, Zenon DEF RingInv
<1>4. SlotTo(j, TRUE, slots[j].id, slots[j].cancel, slots[j].call)
  BY SlotMoves, Zenon DEF SlotOf
<1>5. SubTo(s, "count", sub[s].call, sub[s].t, sub[s].id)
  BY SubMoves, Zenon
<1> HIDE DEF j
<1>6. Occupied' = Occupied \cup {j} /\ j \notin Occupied
  BY <1>2, <1>3, <1>4 DEF Occupied, SlotTo
<1>7. Uncounted' = Uncounted \cup {s} /\ s \notin Uncounted
  BY <1>1, <1>5 DEF Uncounted, SubTo
<1>8. Taken' = Taken
  BY <1>1, Zenon DEF Taken
<1>9. /\ IsFiniteSet(Uncounted') /\ Cardinality(Uncounted') = Cardinality(Uncounted) + 1
      /\ Cardinality(Occupied') = Cardinality(Occupied) + 1
  BY <1>6, <1>7, OccupiedFinite, FS_AddElement DEF PendInv
<1>10. Cardinality(Uncounted) \in Nat /\ Cardinality(Occupied) \in Nat /\ Taken \in Nat /\ pending \in Int
  BY OccupiedFinite, FS_CardinalityType DEF PendInv, Taken, Types, NumTypes
<1> QED BY <1>1, <1>8, <1>9, <1>10 DEF PendInv

\* fetch_add after the publication.
LEMMA PendCount ==
  ASSUME Types, PendInv, NEW s \in Submitters, CountPending(s)
  PROVE  PendInv'
<1>1. pending' = pending + 1 /\ UNCHANGED <<slots, pol>> /\ sub[s].pc = "count"
  BY Zenon DEF CountPending
<1>2. SubTo(s, "idle", 0, 0, 0)
  BY SubMoves, Zenon
<1>3. Occupied' = Occupied /\ Taken' = Taken
  BY <1>1, Zenon DEF Occupied, Taken
<1>4. Uncounted' = Uncounted \ {s} /\ s \in Uncounted
  BY <1>1, <1>2 DEF Uncounted, SubTo
<1>5. IsFiniteSet(Uncounted') /\ Cardinality(Uncounted') = Cardinality(Uncounted) - 1
  BY <1>4, FS_RemoveElement DEF PendInv
<1>6. Cardinality(Uncounted) \in Nat /\ Cardinality(Occupied) \in Nat /\ Taken \in Nat /\ pending \in Int
  BY OccupiedFinite, FS_CardinalityType DEF PendInv, Taken, Types, NumTypes
<1> QED BY <1>1, <1>3, <1>5, <1>6 DEF PendInv

\* The latch: nobody else is in a claim.
LEMMA Alone ==
  ASSUME FlightInv, NEW p \in Pollers, pol[p].pc # "idle", NEW l, l # "idle", pol[p].pc # l
  PROVE  \A q \in Pollers : pol[q].pc # l
  BY Zenon DEF FlightInv, Latched

\* The claim takes a published job before it counts down.
LEMMA PendSwap ==
  ASSUME Types, FlightInv, RingInv, PendInv, NEW p \in Pollers, SwapOccupied(p)
  PROVE  PendInv'
<1> DEFINE j == SlotOf(head - 1)
<1>1. UNCHANGED <<pending, sub>> /\ pol[p].pc = "swap"
  BY Zenon DEF SwapOccupied
<1>2. PolGoes(p, "uncount")
  BY PolMoves, Zenon
<1>3. SlotTo(j, FALSE, slots[j].id, slots[j].cancel, slots[j].call)
  BY SlotMoves, Zenon DEF SlotOf, Claimed
<1>4. j \in Ring /\ slots[j].occupied
  <2>1. Swapping
    BY <1>1, Zenon DEF Swapping
  <2>2. j \in Ring
    BY RingTypes
  <2> QED BY <2>1, <2>2, Zenon DEF RingInv
<1> HIDE DEF j
<1>5. Occupied' = Occupied \ {j} /\ j \in Occupied
  BY <1>3, <1>4 DEF Occupied, SlotTo
<1>6. Uncounted' = Uncounted
  BY <1>1, Zenon DEF Uncounted
<1>7. Taken = 0 /\ Taken' = 1
  <2>1. \A q \in Pollers : pol[q].pc # "uncount"
    BY <1>1, Alone
  <2>2. pol'[p].pc = "uncount"
    BY <1>2, Zenon DEF PolGoes, PolTo
  <2> QED BY <2>1, <2>2, Zenon DEF Taken
<1>8. Cardinality(Occupied') = Cardinality(Occupied) - 1
  BY <1>5, OccupiedFinite, FS_RemoveElement
<1>9. Cardinality(Uncounted) \in Nat /\ Cardinality(Occupied) \in Nat /\ pending \in Int
  BY OccupiedFinite, FS_CardinalityType DEF PendInv, Types, NumTypes
<1> QED BY <1>1, <1>6, <1>7, <1>8, <1>9 DEF PendInv

\* fetch_sub after the swap.
LEMMA PendUncount ==
  ASSUME Types, FlightInv, PendInv, NEW p \in Pollers, UncountPending(p)
  PROVE  PendInv'
<1>1. pending' = pending - 1 /\ UNCHANGED <<slots, sub>> /\ pol[p].pc = "uncount"
  BY Zenon DEF UncountPending
<1>2. PolGoes(p, "loadId")
  BY PolMoves, Zenon
<1>3. Occupied' = Occupied /\ Uncounted' = Uncounted
  BY <1>1, Zenon DEF Occupied, Uncounted
<1>4. Taken = 1 /\ Taken' = 0
  <2>1. \A q \in Pollers \ {p} : pol[q].pc = "idle" /\ pol'[q] = pol[q]
    BY <1>1, <1>2 DEF FlightInv, Latched, PolGoes, PolTo
  <2>2. pol'[p].pc = "loadId"
    BY <1>2, Zenon DEF PolGoes, PolTo
  <2>3. \A q \in Pollers : pol'[q].pc # "uncount"
    BY <2>1, <2>2
  <2> QED BY <1>1, <2>3, Zenon DEF Taken
<1>5. Cardinality(Uncounted) \in Nat /\ Cardinality(Occupied) \in Nat /\ pending \in Int
  BY OccupiedFinite, FS_CardinalityType DEF PendInv, Types, NumTypes
<1> QED BY <1>1, <1>3, <1>4, <1>5 DEF PendInv

\* Every step keeps the count.
LEMMA StepPend ==
  ASSUME Types, FlightInv, RingInv, PendInv, [Next]_vars
  PROVE  PendInv'
<1>1. ASSUME NEW s \in Submitters, SubmitCall(s) \/ SubmitStep(s) PROVE PendInv'
  <2>1. CASE Publish(s) \/ CountPending(s)
    BY <2>1, PendPublish, PendCount, Zenon
  <2>2. CASE ~(Publish(s) \/ CountPending(s))
    <3>1. SameAt("uncount")
      BY <1>1, SubmitRest, Zenon DEF SameAt
    <3> QED BY <1>1, <2>2, <3>1, SubmitRest, PendKept, Zenon
  <2> QED BY <2>1, <2>2
<1>2. ASSUME NEW p \in Pollers, PollStep(p) \/ WatchdogAbort(p) PROVE PendInv'
  <2>1. CASE SwapOccupied(p) \/ UncountPending(p)
    BY <2>1, PendSwap, PendUncount, Zenon
  <2>2. CASE ~(SwapOccupied(p) \/ UncountPending(p))
    <3>1. SameCount
      BY <1>2, PollRest, Zenon DEF SameCount
    <3> QED BY <1>2, <2>2, <3>1, PollRest, PendKept, Zenon
  <2> QED BY <2>1, <2>2
<1>3. CASE UNCHANGED vars \/ HeapChange \/ CancelStep
  <2>1. UNCHANGED <<pending, sub, pol>> /\ (slots' = slots \/ CancelSetSlot \/ CancelSetHead)
    BY <1>3, Background, Zenon
  <2>2. SameOccupied
    BY <2>1, SlotMoves, Zenon DEF SlotTo, SameOccupied
  <2> QED BY <2>1, <2>2, PendKept, Zenon DEF SameAt, SameCount
<1> QED BY <1>1, <1>2, <1>3, Zenon DEF Next

\* The inductive invariant of the ring and its count.
QueueInv == CortexInv /\ RingInv /\ PendInv

\* The ring, the jobs and the count agree in every reachable state.
THEOREM QueueInvariance == Spec => []QueueInv
<1>1. Init => QueueInv
  BY InitTypes, InitFlight, InitJobs, InitRing, InitPend, Zenon DEF QueueInv, CortexInv
<1>2. QueueInv /\ [Next]_vars => QueueInv'
  BY StepTypes, StepFlight, StepRun, JobEdge, StepJobInv, StepRing, StepPend, Zenon
     DEF QueueInv, CortexInv
<1> QED BY <1>1, <1>2, PTL DEF Spec

\* When nobody is inside submit or claim PENDING_COUNT is the number of published
\* jobs: for any submitters, pollers and slots.
THEOREM PendingExactThm == Spec => []PendingExact
<1>1. QueueInv => PendingExact
  <2> SUFFICES ASSUME QueueInv, \A s \in Submitters : sub[s].pc = "idle",
                      \A p \in Pollers : pol[p].pc \notin {"swap", "uncount"}
               PROVE  pending = Cardinality({i \in DOMAIN slots : slots[i].occupied})
    BY DEF PendingExact
  <2>1. Uncounted = {} /\ Taken = 0
    BY DEF Uncounted, Taken
  <2>2. DOMAIN slots = Ring /\ pending \in Int
    BY DEF QueueInv, CortexInv, Types, SlotTypes, NumTypes
  <2>3. pending + 0 = Cardinality(Occupied) + 0
    BY <2>1, FS_EmptySet DEF QueueInv, PendInv
  <2> QED BY <2>2, <2>3, OccupiedFinite DEF Occupied
<1> QED BY <1>1, QueueInvariance, PTL

-----------------------------------------------------------------------------
(* How many calls took a position. *)

\* The submitters without a position, and those with a position and no id yet.
Waiting == {"loadTail", "checkFull", "casTail"}
Begun == {s \in Submitters : sub[s].pc \in Waiting}
Drawing == {s \in Submitters : sub[s].pc = "takeId"}

\* Every position was taken by one call, and every id belongs to one position.
CountInv ==
  /\ IsFiniteSet(Begun) /\ IsFiniteSet(Drawing)
  /\ tail + Cardinality(Begun) <= calls
  /\ nextId + Cardinality(Drawing) = tail + 1

\* Ids that have been drawn are the only ones around.
Drawn == 0..(nextId - 1)
IdInv ==
  /\ \A s \in Submitters : sub[s].id \in Drawn
  /\ \A i \in Ring : slots[i].id \in Drawn
  /\ \A p \in Pollers : pol[p].id \in Drawn
  /\ active.id \in Drawn /\ activeId \in Drawn

\* No position and no id is taken at the start.
LEMMA InitCount == Init => CountInv /\ IdInv
<1> SUFFICES ASSUME Init PROVE CountInv /\ IdInv
  OBVIOUS
<1>1. Begun = {} /\ Drawing = {} /\ tail = 0 /\ calls = 0 /\ nextId = 1
  BY DEF Init, Begun, Drawing, Waiting
<1>2. CountInv
  BY <1>1, FS_EmptySet DEF CountInv
<1>3. 0 \in Drawn
  BY <1>1 DEF Drawn
<1>4. IdInv
  BY <1>3 DEF Init, Ring, NoJob, IdInv
<1> QED BY <1>2, <1>4

\* How a step of a submitter changes the two sets.
LEMMA SetMoves ==
  ASSUME NEW s \in Submitters, NEW l, NEW c, NEW t, NEW i, SubTo(s, l, c, t, i)
  PROVE  /\ Begun' = IF l \in Waiting THEN Begun \cup {s} ELSE Begun \ {s}
         /\ Drawing' = IF l = "takeId" THEN Drawing \cup {s} ELSE Drawing \ {s}
<1>1. Begun' = IF l \in Waiting THEN Begun \cup {s} ELSE Begun \ {s}
  BY DEF SubTo, Begun
<1>2. Drawing' = IF l = "takeId" THEN Drawing \cup {s} ELSE Drawing \ {s}
  BY DEF SubTo, Drawing
<1> QED BY <1>1, <1>2

\* Every step keeps the counts.
LEMMA StepCount ==
  ASSUME Types, CountInv, [Next]_vars
  PROVE  CountInv'
<1>0. /\ tail \in Nat /\ nextId \in Nat /\ calls \in Nat
      /\ Cardinality(Begun) \in Nat /\ Cardinality(Drawing) \in Nat
      /\ IsFiniteSet(Begun) /\ IsFiniteSet(Drawing)
      /\ tail + Cardinality(Begun) <= calls /\ nextId + Cardinality(Drawing) = tail + 1
  <2>1. tail \in Nat /\ nextId \in Nat /\ calls \in Nat
    BY Numbers DEF Types, NumTypes
  <2> QED BY <2>1, FS_CardinalityType DEF CountInv
<1>1. ASSUME UNCHANGED <<tail, nextId>>, Begun' = Begun, Drawing' = Drawing,
             calls' = calls \/ calls' = calls + 1
      PROVE  CountInv'
  BY <1>0, <1>1 DEF CountInv
<1>2. ASSUME UNCHANGED <<tail, nextId, sub, calls>> PROVE CountInv'
  <2>1. Begun' = Begun /\ Drawing' = Drawing
    BY <1>2, Zenon DEF Begun, Drawing
  <2> QED BY <1>1, <1>2, <2>1, Zenon
<1>3. ASSUME NEW s \in Submitters, SubmitCall(s) PROVE CountInv'
  <2>1. UNCHANGED <<tail, nextId>> /\ calls' = calls + 1 /\ sub[s].pc = "idle"
    BY <1>3, Zenon DEF SubmitCall, queueVars
  <2>2. CASE sub' = sub
    <3>1. Begun' = Begun /\ Drawing' = Drawing
      BY <2>2, Zenon DEF Begun, Drawing
    <3> QED BY <1>1, <2>1, <3>1, Zenon
  <2>3. CASE SubTo(s, "loadTail", calls + 1, sub[s].t, sub[s].id)
    <3>1. "loadTail" \in Waiting /\ "loadTail" # "takeId"
      BY DEF Waiting
    <3>2. s \notin Begun /\ s \notin Drawing
      BY <2>1 DEF Begun, Drawing, Waiting
    <3>3. Begun' = Begun \cup {s} /\ Drawing' = Drawing
      BY <2>3, <3>1, <3>2, SetMoves
    <3>4. IsFiniteSet(Begun') /\ Cardinality(Begun') = Cardinality(Begun) + 1
      BY <1>0, <3>2, <3>3, FS_AddElement
    <3> QED BY <1>0, <2>1, <3>3, <3>4 DEF CountInv
  <2> QED BY <1>3, <2>2, <2>3, SubMoves, Zenon
<1>4. ASSUME NEW s \in Submitters, LoadTail(s) \/ (CasTail(s) /\ tail' = tail) PROVE CountInv'
  <2>1. UNCHANGED <<tail, nextId, calls>> /\ sub[s].pc \in Waiting
    BY <1>4 DEF LoadTail, CasTail, queueVars, ghosts, Waiting
  <2>2. \E l \in {"checkFull", "loadTail"} : \E c, t, i : SubTo(s, l, c, t, i)
    <3>1. tail \in Nat /\ tail + 1 # tail
      BY <1>0
    <3>2. CASE CasTail(s)
      <4>1. Sub(s, "loadTail")
        BY <1>4, <3>1, <3>2, Zenon DEF CasTail, LoadTail, queueVars
      <4>2. SubTo(s, "loadTail", sub[s].call, sub[s].t, sub[s].id)
        BY <4>1 DEF Types, SubTypes, SubRec, Sub, SubTo
      <4> QED BY <4>2
    <3> QED BY <1>4, <3>2, SubMoves, Zenon
  <2>3. \A l \in {"checkFull", "loadTail"} : l \in Waiting /\ l # "takeId"
    BY DEF Waiting
  <2>4. s \in Begun /\ s \notin Drawing
    BY <2>1 DEF Begun, Drawing, Waiting
  <2>5. Begun' = Begun /\ Drawing' = Drawing
    BY <2>2, <2>3, <2>4, SetMoves
  <2> QED BY <1>1, <2>1, <2>5, Zenon
<1>5. ASSUME NEW s \in Submitters, CheckFull(s) PROVE CountInv'
  <2>1. UNCHANGED <<tail, nextId, calls>> /\ sub[s].pc = "checkFull"
    BY <1>5, Zenon DEF CheckFull, queueVars, ghosts
  <2>2. s \in Begun /\ s \notin Drawing /\ "casTail" \in Waiting /\ "idle" \notin Waiting
    BY <2>1 DEF Begun, Drawing, Waiting
  <2>3. CASE SubTo(s, "casTail", sub[s].call, sub[s].t, sub[s].id)
    <3>1. Begun' = Begun /\ Drawing' = Drawing
      BY <2>2, <2>3, SetMoves
    <3> QED BY <1>1, <2>1, <3>1, Zenon
  <2>4. CASE SubTo(s, "idle", 0, 0, 0)
    <3>1. Begun' = Begun \ {s} /\ Drawing' = Drawing
      BY <2>2, <2>4, SetMoves
    <3>2. IsFiniteSet(Begun') /\ Cardinality(Begun') = Cardinality(Begun) - 1
      BY <1>0, <2>2, <3>1, FS_RemoveElement
    <3> QED BY <1>0, <2>1, <3>1, <3>2 DEF CountInv
  <2> QED BY <1>5, <2>3, <2>4, SubMoves, Zenon
<1>6. ASSUME NEW s \in Submitters, CasTail(s), tail' = tail + 1, Sub(s, "takeId") PROVE CountInv'
  <2>1. UNCHANGED <<nextId, calls>> /\ sub[s].pc = "casTail"
    BY <1>6, Zenon DEF CasTail, ghosts
  <2>2. SubTo(s, "takeId", sub[s].call, sub[s].t, sub[s].id)
    BY <1>6 DEF Types, SubTypes, SubRec, Sub, SubTo
  <2>3. s \in Begun /\ s \notin Drawing /\ "takeId" \notin Waiting
    BY <2>1 DEF Begun, Drawing, Waiting
  <2>4. Begun' = Begun \ {s} /\ Drawing' = Drawing \cup {s}
    BY <2>2, <2>3, SetMoves
  <2>5. IsFiniteSet(Begun') /\ Cardinality(Begun') = Cardinality(Begun) - 1
    BY <1>0, <2>3, <2>4, FS_RemoveElement
  <2>6. IsFiniteSet(Drawing') /\ Cardinality(Drawing') = Cardinality(Drawing) + 1
    BY <1>0, <2>3, <2>4, FS_AddElement
  <2> QED BY <1>0, <1>6, <2>1, <2>5, <2>6 DEF CountInv
<1>7. ASSUME NEW s \in Submitters, TakeId(s) PROVE CountInv'
  <2>1. UNCHANGED <<tail, calls>> /\ nextId' = nextId + 1 /\ sub[s].pc = "takeId"
    BY <1>7, Zenon DEF TakeId
  <2>2. SubTo(s, "putPrompt", sub[s].call, sub[s].t, nextId)
    BY <1>7, SubMoves, Zenon
  <2>3. s \notin Begun /\ s \in Drawing /\ "putPrompt" \notin Waiting
    BY <2>1 DEF Begun, Drawing, Waiting
  <2>4. Begun' = Begun /\ Drawing' = Drawing \ {s}
    BY <2>2, <2>3, SetMoves
  <2>5. IsFiniteSet(Drawing') /\ Cardinality(Drawing') = Cardinality(Drawing) - 1
    BY <1>0, <2>3, <2>4, FS_RemoveElement
  <2> QED BY <1>0, <2>1, <2>4, <2>5 DEF CountInv
<1>8. ASSUME NEW s \in Submitters,
             PutPrompt(s) \/ ClearCancel(s) \/ PutId(s) \/ Publish(s) \/ CountPending(s)
      PROVE  CountInv'
  <2>1. UNCHANGED <<tail, nextId, calls>>
        /\ sub[s].pc \in {"putPrompt", "clearCancel", "putId", "publish", "count"}
    BY <1>8, Zenon DEF PutPrompt, ClearCancel, PutId, Publish, CountPending, ghosts
  <2>2. \E l \in {"clearCancel", "putId", "publish", "count", "idle"} : \E c, t, i : SubTo(s, l, c, t, i)
    BY <1>8, SubMoves, Zenon
  <2>3. \A l \in {"clearCancel", "putId", "publish", "count", "idle"} : l \notin Waiting /\ l # "takeId"
    BY DEF Waiting
  <2>4. s \notin Begun /\ s \notin Drawing
    BY <2>1 DEF Begun, Drawing, Waiting
  <2>5. Begun' = Begun /\ Drawing' = Drawing
    BY <2>2, <2>3, <2>4, SetMoves
  <2> QED BY <1>1, <2>1, <2>5, Zenon
<1>9. ASSUME NEW s \in Submitters, SubmitCall(s) \/ SubmitStep(s) PROVE CountInv'
  <2>1. CASE CasTail(s)
    BY <1>4, <1>6, <2>1, Zenon DEF CasTail
  <2> QED BY <1>3, <1>4, <1>5, <1>7, <1>8, <1>9, <2>1, Zenon DEF SubmitStep
<1>10. ASSUME NEW p \in Pollers, PollStep(p) \/ WatchdogAbort(p) PROVE CountInv'
  BY <1>2, <1>10, PollFrame, Zenon
<1>11. CASE UNCHANGED vars \/ HeapChange \/ CancelStep
  BY <1>2, <1>11, Background, Zenon
<1> QED BY <1>9, <1>10, <1>11, Zenon DEF Next

\* Ids come from submitters only, through slots and pollers into ACTIVE.
LEMMA StepId ==
  ASSUME Types, IdInv, [Next]_vars
  PROVE  IdInv'
<1>0. nextId \in Nat /\ nextId # 0
  BY DEF Types, NumTypes
<1>1. nextId' = nextId \/ \E s \in Submitters : TakeId(s)
  <2>1. ASSUME NEW s \in Submitters, SubmitCall(s) \/ SubmitStep(s), ~TakeId(s) PROVE nextId' = nextId
    BY <2>1, Zenon DEF SubmitCall, SubmitStep, LoadTail, CheckFull, CasTail, PutPrompt,
       ClearCancel, PutId, Publish, CountPending, queueVars
  <2>2. ASSUME NEW p \in Pollers, PollStep(p) \/ WatchdogAbort(p) PROVE nextId' = nextId
    BY <2>2, PollFrame, Zenon
  <2>3. CASE UNCHANGED vars \/ HeapChange \/ CancelStep
    BY <2>3, Background, Zenon
  <2> QED BY <2>1, <2>2, <2>3, Zenon DEF Next, SubmitStep
<1>2. Drawn \subseteq Drawn' /\ 0 \in Drawn
  <2>1. nextId' = nextId \/ nextId' = nextId + 1
    BY <1>1, Zenon DEF TakeId
  <2> QED BY <1>0, <2>1 DEF Drawn
<1>3. \A s \in Submitters : sub'[s].id \in Drawn'
  <2>1. CASE sub' = sub
    BY <1>2, <2>1 DEF IdInv
  <2>2. ASSUME NEW s \in Submitters, SubmitCall(s) \/ SubmitStep(s), sub' # sub
        PROVE  \A r \in Submitters : sub'[r].id \in Drawn'
    <3>1. \E l, c, t : \E i \in Drawn' : SubTo(s, l, c, t, i)
      <4>1. sub[s].id \in Drawn' /\ 0 \in Drawn'
        BY <1>2 DEF IdInv
      <4>2. TakeId(s) => nextId \in Drawn'
        BY <1>0 DEF TakeId, Drawn
      <4> QED BY <2>2, <4>1, <4>2, SubMoves, Zenon DEF SubmitStep
    <3> QED BY <1>2, <3>1 DEF SubTo, IdInv
  <2> QED BY <2>1, <2>2, Writers, Zenon
<1>4. \A i \in Ring : slots'[i].id \in Drawn'
  <2>1. CASE slots' = slots
    BY <1>2, <2>1 DEF IdInv
  <2>2. ASSUME NEW j, NEW o, NEW i, NEW x, NEW c, SlotTo(j, o, i, x, c),
               i = slots[j].id \/ i \in Drawn
        PROVE  \A k \in Ring : slots'[k].id \in Drawn'
    BY <1>2, <2>2 DEF SlotTo, IdInv
  <2>3. \A s \in Submitters : sub[s].id \in Drawn
    BY Zenon DEF IdInv
  <2> QED BY <2>1, <2>2, <2>3, Writers, SlotMoves, Zenon
<1>5. \A p \in Pollers : pol'[p].id \in Drawn'
  <2>1. CASE pol' = pol
    BY <1>2, <2>1 DEF IdInv
  <2>2. ASSUME NEW p \in Pollers, PollStep(p)
        PROVE  \A q \in Pollers : pol'[q].id \in Drawn'
    <3>0. Claimed \in Ring
      BY Numbers DEF Types, NumTypes, Claimed
    <3>1. pol[p].id \in Drawn /\ slots[Claimed].id \in Drawn
      BY <3>0, Zenon DEF IdInv
    <3>2. \E i \in Drawn : \E l, x, c, k : PolTo(p, l, i, x, c, k)
      <4>1. CASE ClaimStep(p)
        BY <1>2, <3>1, <4>1, PolMoves, Zenon DEF ClaimStep, PolGoes, PolReset
      <4>2. CASE ~ClaimStep(p)
        BY <1>2, <2>2, <3>1, <4>2, PolMoves, SliceMoves, Zenon DEF PollStep, PolGoes, PolReset, PolFinish
      <4> QED BY <4>1, <4>2
    <3> QED BY <1>2, <3>2 DEF PolTo, IdInv
  <2> QED BY <2>1, <2>2, Writers, Zenon
<1>6. active'.id \in Drawn' /\ activeId' \in Drawn'
  <2>0. active.id \in Drawn' /\ activeId \in Drawn' /\ 0 \in Drawn' /\ \A p \in Pollers : pol[p].id \in Drawn'
    BY <1>2 DEF IdInv
  <2>1. CASE active' = active /\ activeId' = activeId
    BY <2>0, <2>1
  <2>2. ASSUME NEW p \in Pollers, SetActiveId(p) \/ FinishClearId(p)
        PROVE  active'.id \in Drawn' /\ activeId' \in Drawn'
    BY <2>0, <2>2, Zenon DEF SetActiveId, FinishClearId
  <2>3. ASSUME NEW p \in Pollers, SetActive(p)
        PROVE  active'.id \in Drawn' /\ activeId' \in Drawn'
    BY <2>0, <2>3 DEF SetActive
  <2>4. ASSUME NEW p \in Pollers, SliceDrop(p) \/ FinishClearCancel(p)
        PROVE  active'.id \in Drawn' /\ activeId' \in Drawn'
    BY <2>0, <2>4 DEF SliceDrop, FinishClearCancel, NoJob
  <2>5. ASSUME NEW p \in Pollers, SliceWork(p) \/ WatchdogAbort(p)
        PROVE  active'.id \in Drawn' /\ activeId' \in Drawn'
    <3>1. activeId' \in {0, activeId}
      BY <2>5 DEF SliceWork, WatchdogAbort
    <3>2. active'.id = active.id
      <4>1. active \in JobRec
        BY DEF Types, ActTypes
      <4>2. CASE active' = active
        BY <4>2
      <4>3. CASE \E ph \in {"work", "coarse"} : active' = [active EXCEPT !.left = @ - 1, !.phase = ph]
        BY <4>1, <4>3 DEF JobRec
      <4>4. CASE active' = [active EXCEPT !.phase = "idle"]
        BY <4>1, <4>4 DEF JobRec
      <4> QED BY <2>5, <4>2, <4>3, <4>4, Zenon DEF SliceWork, WatchdogAbort
    <3> QED BY <2>0, <3>1, <3>2
  <2>6. ASSUME NEW p \in Pollers, PollStep(p) \/ WatchdogAbort(p)
        PROVE  \/ active' = active /\ activeId' = activeId
               \/ SetActiveId(p) \/ FinishClearId(p) \/ SetActive(p) \/ SliceDrop(p)
               \/ FinishClearCancel(p) \/ SliceWork(p) \/ WatchdogAbort(p)
    BY <2>6, Zenon DEF PollStep, ClaimStep, SliceEnter, SliceCheck, ClaimHead, SwapOccupied,
       UncountPending, LoadId, LoadCancel, TakePrompt, ClaimDecide, ResetActiveCancel,
       SliceCoarse, CoarseGenerated, FinishReply, SliceExit, activeVars
  <2>7. ASSUME NEW s \in Submitters, SubmitCall(s) \/ SubmitStep(s)
        PROVE  active' = active /\ activeId' = activeId
    BY <2>7, Zenon DEF SubmitCall, SubmitStep, LoadTail, CheckFull, CasTail, TakeId, PutPrompt,
       ClearCancel, PutId, Publish, CountPending, activeVars
  <2>8. CASE UNCHANGED vars \/ HeapChange \/ CancelStep
    <3>1. active' = active /\ activeId' = activeId
      BY <2>8, Zenon DEF vars, activeVars, HeapChange, CancelStep, CancelCall, CancelLoadActive,
         CancelSetFlag, CancelScan, CancelSetSlot, CancelActiveCall, CancelRaise, CancelHeadSlot,
         CancelSetHead
    <3> QED BY <2>1, <3>1
  <2> QED BY <2>1, <2>2, <2>3, <2>4, <2>5, <2>6, <2>7, <2>8, Zenon DEF Next
<1> QED BY <1>3, <1>4, <1>5, <1>6, Zenon DEF IdInv

\* The types; TAIL never falls behind HEAD, and neither positions nor ids pass the
\* calls made: for any submitters, pollers and slots.
THEOREM TypeCorrect == Spec => []TypeOK
<1>1. Init => CountInv /\ IdInv
  BY InitCount
<1>2. QueueInv /\ CountInv /\ IdInv /\ [Next]_vars => CountInv' /\ IdInv'
  BY StepCount, StepId, Zenon DEF QueueInv, CortexInv
<1>3. QueueInv /\ CountInv /\ IdInv => TypeOK
  <2> SUFFICES ASSUME QueueInv, CountInv, IdInv PROVE TypeOK
    OBVIOUS
  <2>1. Types /\ head <= tail
    BY DEF QueueInv, CortexInv, RingInv
  <2>2. head \in Nat /\ tail \in Nat /\ calls \in 0..MaxCalls /\ MaxCalls \in Nat /\ nextId \in Nat
    BY <2>1, Numbers DEF Types, NumTypes
  <2>3. Cardinality(Begun) \in Nat /\ Cardinality(Drawing) \in Nat
    BY FS_CardinalityType DEF CountInv
  <2>4. tail <= MaxCalls /\ nextId <= MaxCalls + 1
    BY <2>2, <2>3 DEF CountInv
  <2>5. head \in 0..MaxCalls /\ tail \in head..MaxCalls
    BY <2>1, <2>2, <2>4
  <2>6. activeId \in 0..MaxCalls
    BY <2>2, <2>4 DEF IdInv, Drawn
  <2>7. \A i \in DOMAIN slots : slots[i].call \in 0..MaxCalls
    BY <2>1 DEF Types, SlotTypes, SlotRec
  <2>8. /\ active.call \in 0..MaxCalls /\ active.left \in 0..MaxSlices
        /\ activeCancel \in BOOLEAN /\ busy \in BOOLEAN /\ heap \in HeapLevels
    BY <2>1, Zenon DEF Types, ActTypes, JobRec, NumTypes
  <2> QED BY <2>5, <2>6, <2>7, <2>8 DEF TypeOK
<1> QED BY <1>1, <1>2, <1>3, QueueInvariance, PTL DEF Spec

-----------------------------------------------------------------------------
(* How many calls are open. *)

\* At most MaxOpen calls are open.
OpenInv == Cardinality(Open) <= MaxOpen

\* There are finitely many open calls.
LEMMA OpenFinite == IsFiniteSet(Open) /\ Cardinality(Open) \in Nat
<1>1. IsFiniteSet(Calls)
  BY Numbers, FS_Interval DEF Calls
<1>2. IsFiniteSet(Open)
  BY <1>1, FS_Subset DEF Open
<1> QED BY <1>2, FS_CardinalityType

\* No call is open at the start.
LEMMA InitOpen == Init => OpenInv
<1> SUFFICES ASSUME Init PROVE OpenInv
  OBVIOUS
<1>1. \A c \in Calls : c # 0
  BY Numbers DEF Calls
<1>2. Open = {}
  BY <1>1 DEF Init, Open
<1> QED BY <1>2, FS_EmptySet, InferQueueAssumption DEF OpenInv

\* The bound on the open calls is kept: a call that is not open begins as a new one.
LEMMA StepOpen ==
  ASSUME Types, FlightInv, RunInv, JobInv, OpenInv, [Next]_vars
  PROVE  OpenInv'
<1>0. \A c \in Calls : reply'[c] = "none" => reply[c] = "none"
  BY JobEdge, RepliesStay, Zenon
<1>1. 0 \notin Calls /\ MaxOpen \in Nat
  BY InferQueueAssumption DEF Calls
<1>2. IsFiniteSet(Open) /\ Cardinality(Open) \in Nat /\ IsFiniteSet(Open') /\ Cardinality(Open') \in Nat
  <2>1. IsFiniteSet(Calls)
    BY Numbers, FS_Interval DEF Calls
  <2>2. IsFiniteSet(Open')
    BY <2>1, FS_Subset DEF Open
  <2> QED BY <2>2, OpenFinite, FS_CardinalityType
<1>3. ASSUME Open' \subseteq Open PROVE OpenInv'
  <2>1. Cardinality(Open') <= Cardinality(Open)
    BY <1>2, <1>3, FS_Subset
  <2> QED BY <1>1, <1>2, <2>1 DEF OpenInv
<1>4. ASSUME \A c \in Calls : idOf'[c] # 0 => idOf[c] # 0 \/ \E s \in Submitters : sub[s].call = c,
             \A s \in Submitters : sub'[s].call \in {sub[s].call, 0}
      PROVE  OpenInv'
  <2>1. Open' \subseteq Open
    BY <1>0, <1>1, <1>4, ZenonT(40) DEF Open
  <2> QED BY <1>3, <2>1
<1>5. ASSUME UNCHANGED <<sub, idOf>> PROVE OpenInv'
  BY <1>4, <1>5, Zenon
<1>6. ASSUME NEW s \in Submitters, SubmitCall(s) PROVE OpenInv'
  <2>1. idOf' = idOf /\ Cardinality(Open) < MaxOpen
    BY <1>6, Zenon DEF SubmitCall
  <2>2. sub' = sub \/ SubTo(s, "loadTail", calls + 1, sub[s].t, sub[s].id)
    BY <1>6, SubMoves, Zenon
  <2>3. Open' \subseteq Open \cup {calls + 1}
    BY <1>0, <2>1, <2>2, Zenon DEF Open, SubTo
  <2>4. Cardinality(Open \cup {calls + 1}) <= Cardinality(Open) + 1 /\ IsFiniteSet(Open \cup {calls + 1})
    <3> DEFINE c == calls + 1
    <3> HIDE DEF c
    <3>1. IsFiniteSet(Open \cup {c})
          /\ Cardinality(Open \cup {c}) = IF c \in Open THEN Cardinality(Open) ELSE Cardinality(Open) + 1
      BY <1>2, FS_AddElement
    <3>2. Cardinality(Open \cup {c}) <= Cardinality(Open) + 1
      BY <1>2, <3>1
    <3> QED BY <3>1, <3>2 DEF c
  <2>5. Cardinality(Open') <= Cardinality(Open \cup {calls + 1})
    BY <2>3, <2>4, FS_Subset
  <2>6. Cardinality(Open \cup {calls + 1}) \in Nat
    BY <2>4, FS_CardinalityType
  <2> QED BY <1>1, <1>2, <2>1, <2>4, <2>5, <2>6 DEF OpenInv
<1>7. ASSUME NEW s \in Submitters, SubmitStep(s) PROVE OpenInv'
  <2>1. \A r \in Submitters : sub'[r].call \in {sub[r].call, 0}
    BY <1>7, SubMoves, Zenon DEF SubmitStep, SubTo
  <2>2. CASE idOf' = idOf
    BY <1>4, <2>1, <2>2, Zenon
  <2>3. CASE TakeId(s)
    <3>1. \A c \in Calls : c # sub[s].call => idOf'[c] = idOf[c]
      BY <2>3 DEF TakeId, Types, CallTypes
    <3> QED BY <1>4, <2>1, <3>1, Zenon
  <2> QED BY <1>7, <2>2, <2>3, Zenon DEF SubmitStep, LoadTail, CheckFull, CasTail, PutPrompt,
             ClearCancel, PutId, Publish, CountPending, ghosts
<1>8. ASSUME NEW p \in Pollers, PollStep(p) \/ WatchdogAbort(p) PROVE OpenInv'
  BY <1>5, <1>8, PollFrame, Zenon
<1>9. CASE UNCHANGED vars \/ HeapChange \/ CancelStep
  BY <1>5, <1>9, Background, Zenon
<1> QED BY <1>6, <1>7, <1>8, <1>9, Zenon DEF Next

\* With at most QueueCap open calls the position TAIL is less than a lap after the
\* one a claim has not yet emptied: every position of the window holds an open
\* call, and the call that asks for one more is another.
LEMMA RoomAtTail ==
  ASSUME Types, JobInv, RingInv, KeptInv, OpenInv, MaxOpen <= QueueCap
  PROVE  Room
<1> SUFFICES ASSUME NEW s \in Submitters, sub[s].pc = "casTail" PROVE tail < Low + QueueCap
  BY Zenon DEF Room
<1>0. /\ head \in Nat /\ tail \in Nat /\ QueueCap \in Nat /\ QueueCap >= 1 /\ MaxOpen \in Nat
      /\ Low \in Int /\ tail <= Low + QueueCap /\ Low >= 0
  <2>1. /\ head \in Nat /\ tail \in Nat /\ QueueCap \in Nat /\ QueueCap >= 1 /\ MaxOpen \in Nat
    BY RingTypes, InferQueueAssumption
  <2>2. Low \in Int /\ tail <= Low + QueueCap /\ Low >= 0
    BY <2>1 DEF KeptInv, KeptWindow, Low
  <2> QED BY <2>1, <2>2
<1> SUFFICES ASSUME tail = Low + QueueCap PROVE FALSE
  BY <1>0
<1> DEFINE Pos == Low..tail
           Filler(k) == CHOOSE r \in Submitters : sub[r].pc \in Early /\ sub[r].t = k
           Place(k) == IF k = tail THEN <<"sub", s>>
                       ELSE IF slots[SlotOf(k)].call # 0 THEN <<"slot", SlotOf(k)>>
                       ELSE <<"sub", Filler(k)>>
           f == [k \in Pos |-> job[Place(k)]]
<1>1. ASSUME NEW k \in Pos, k # tail PROVE Window(k)
  BY <1>0, <1>1 DEF Window
<1>2. ASSUME NEW k \in Pos, k # tail, slots[SlotOf(k)].call = 0
      PROVE  Filler(k) \in Submitters /\ sub[Filler(k)].pc \in Early /\ sub[Filler(k)].t = k
  <2>1. Window(k) /\ k \in Nat
    BY <1>1, <1>2, Zenon DEF Window
  <2>2. \E r \in Submitters : sub[r].pc \in Early /\ sub[r].t = k
    BY <1>2, <2>1, Zenon DEF KeptInv, KeptCalls
  <2> QED BY <2>2, Zenon
<1>3. ASSUME NEW k \in Pos PROVE SlotOf(k) \in Ring
  BY <1>0, RingTypes
<1> HIDE DEF Pos, Filler
<1>4. "casTail" \in Carrying /\ "casTail" \notin Early /\ Early \subseteq Carrying
      /\ "casTail" \in Unnamed /\ Early \subseteq Unnamed \cup NamedSub
  BY DEF Carrying, Early, Unnamed, NamedSub
<1>5. ASSUME NEW r \in Submitters, sub[r].pc \in Early \/ sub[r].pc = "casTail"
      PROVE  /\ <<"sub", r>> \in Places /\ job[<<"sub", r>>] = sub[r].call /\ sub[r].call # 0
  <2>1. SubJob(r) = sub[r].call
    BY <1>4, <1>5, Zenon DEF SubJob
  <2>2. sub[r].call # 0
    <3>1. sub[r].pc \in Unnamed \cup NamedSub
      BY <1>4, <1>5
    <3> QED BY <3>1, Zenon DEF KeptInv, KeptSub
  <2> QED BY <2>1, <2>2, JobAt, Zenon
<1>6. ASSUME NEW k \in Pos
      PROVE  Place(k) \in Places /\ job[Place(k)] # 0 /\ job[Place(k)] \in Open
  <2>0. ASSUME NEW x \in Places, job[x] # 0,
               idOf[job[x]] # 0 \/ \E r \in Submitters : sub[r].call = job[x]
        PROVE  job[x] \in Open
    <3>1. job[x] \in Calls
      <4>1. job[x] \in 0..calls /\ calls \in 0..MaxCalls /\ MaxCalls \in Nat
        BY Numbers, Zenon DEF JobInv, Types, NumTypes
      <4> QED BY <2>0, <4>1 DEF Calls
    <3>2. reply[job[x]] = "none"
      BY <2>0, Zenon DEF JobInv
    <3> QED BY <2>0, <3>1, <3>2, Zenon DEF Open
  <2>1. CASE k = tail
    BY <1>5, <2>0, <2>1, Zenon
  <2>2. CASE k # tail /\ slots[SlotOf(k)].call # 0
    <3>1. <<"slot", SlotOf(k)>> \in Places /\ job[<<"slot", SlotOf(k)>>] = slots[SlotOf(k)].call
      BY <1>3, JobAt, Zenon
    <3>2. idOf[slots[SlotOf(k)].call] # 0
      BY <1>3, <2>2, Zenon DEF KeptInv, KeptCalls
    <3> QED BY <2>0, <2>2, <3>1, <3>2, Zenon
  <2>3. CASE k # tail /\ slots[SlotOf(k)].call = 0
    <3>1. Filler(k) \in Submitters /\ sub[Filler(k)].pc \in Early
      BY <1>2, <2>3, Zenon
    <3> QED BY <1>5, <2>0, <2>3, <3>1, Zenon
  <2> QED BY <2>1, <2>2, <2>3, Zenon
<1>7. ASSUME NEW k \in Pos, NEW m \in Pos, k # m PROVE Place(k) # Place(m)
  <2>1. \A r \in Submitters : \A i : <<"sub", r>> # <<"slot", i>>
    OBVIOUS
  <2>2. \A a, b : <<"sub", a>> = <<"sub", b>> => a = b
    OBVIOUS
  <2>3. \A a, b : <<"slot", a>> = <<"slot", b>> => a = b
    OBVIOUS
  <2>4. ASSUME NEW i \in Pos, i # tail, slots[SlotOf(i)].call = 0 PROVE Filler(i) # s /\ Filler(i) \in Submitters
    BY <1>2, <1>4, <2>4, Zenon
  <2>5. CASE k = tail
    <3>1. m # tail
      BY <1>7, <2>5
    <3> QED BY <2>1, <2>2, <2>4, <2>5, <3>1, Zenon
  <2>6. CASE m = tail
    <3>1. k # tail
      BY <1>7, <2>6
    <3> QED BY <2>1, <2>2, <2>4, <2>6, <3>1, Zenon
  <2>7. CASE k # tail /\ m # tail /\ slots[SlotOf(k)].call # 0 /\ slots[SlotOf(m)].call # 0
    <3>1. SlotOf(k) # SlotOf(m)
      BY <1>1, <1>7, <2>7, WindowSlots, Zenon DEF KeptInv
    <3> QED BY <2>3, <2>7, <3>1, Zenon
  <2>8. CASE k # tail /\ m # tail /\ slots[SlotOf(k)].call = 0 /\ slots[SlotOf(m)].call = 0
    <3>1. Filler(k) # Filler(m)
      BY <1>2, <1>7, <2>8, Zenon
    <3> QED BY <2>2, <2>8, <3>1, Zenon
  <2>9. CASE k # tail /\ m # tail /\ slots[SlotOf(k)].call # 0 /\ slots[SlotOf(m)].call = 0
    BY <2>1, <2>4, <2>9, Zenon
  <2>10. CASE k # tail /\ m # tail /\ slots[SlotOf(k)].call = 0 /\ slots[SlotOf(m)].call # 0
    BY <2>1, <2>4, <2>10, Zenon
  <2> QED BY <2>5, <2>6, <2>7, <2>8, <2>9, <2>10, Zenon
<1> HIDE DEF Place
<1>8. f \in [Pos -> Open] /\ \A k, m \in Pos : f[k] = f[m] => k = m
  <2>1. f \in [Pos -> Open]
    BY <1>6, Zenon
  <2>2. \A k \in Pos : f[k] = job[Place(k)]
    BY Zenon
  <2> QED BY <1>6, <1>7, <2>1, <2>2, Zenon DEF JobInv
<1>9. IsFiniteSet(Pos) /\ Cardinality(Pos) = QueueCap + 1
  BY <1>0, FS_Interval DEF Pos
<1>10. Cardinality(Open) < Cardinality(Pos)
  BY <1>0, <1>9, OpenFinite DEF OpenInv
<1> HIDE DEF f
<1>11. \E k, m \in Pos : k # m /\ f[k] = f[m]
  BY <1>8, <1>9, <1>10, OpenFinite, FS_PigeonHole
<1> QED BY <1>8, <1>11, Zenon

\* Each slot keeps the job of its position while at most QueueCap calls are open.
THEOREM KeptInvariance ==
  ASSUME MaxOpen <= QueueCap
  PROVE  Spec => [](QueueInv /\ KeptInv /\ OpenInv)
<1>1. Init => KeptInv /\ OpenInv
  BY InitKept, InitOpen, Zenon
<1>2. QueueInv /\ KeptInv /\ OpenInv /\ [Next]_vars => KeptInv' /\ OpenInv'
  BY RoomAtTail, StepKept, StepOpen, Zenon DEF QueueInv, CortexInv
<1> QED BY <1>1, <1>2, QueueInvariance, PTL DEF Spec

\* While at most QueueCap calls are open, a claim gets the prompt and the id that
\* one submit call put into the slot (the H1 comment in try_claim_into_active).
THEOREM ClaimIntactThm ==
  ASSUME MaxOpen <= QueueCap
  PROVE  Spec => []ClaimIntact
<1>1. KeptInv => ClaimIntact
  BY Zenon DEF KeptInv, KeptPol, ClaimIntact
<1> QED BY <1>1, KeptInvariance, PTL

\* While at most QueueCap calls are open and the heap never gets critical, an
\* accepted job that has not been answered is in a slot, being claimed, or active.
THEOREM JobNotLostThm ==
  ASSUME MaxOpen <= QueueCap, "critical" \notin HeapLevels
  PROVE  Spec => []JobNotLost
<1>1. Init => LostInv
  BY InitKept, Zenon
<1>2. QueueInv /\ KeptInv /\ LostInv /\ [Next]_vars => LostInv'
  BY StepLost, Zenon DEF QueueInv, CortexInv
<1>3. QueueInv /\ LostInv => JobNotLost
  BY LostCovers, Zenon DEF QueueInv, CortexInv
<1> QED BY <1>1, <1>2, <1>3, KeptInvariance, PTL DEF Spec

=============================================================================
