---------------------------- MODULE InferProofs ----------------------------
(***************************************************************************)
(* The inference queue runs one job at a time and answers none twice: for  *)
(* any number of submitters, pollers and slots, with cancels, the watchdog *)
(* and a heap that runs low or critical.  First the latch and ACTIVE_ID,   *)
(* then the types and what each step writes, then the places of the jobs,  *)
(* then the ring: the slots of the positions between HEAD and TAIL, what   *)
(* they hold while they are filled, published and emptied, and where a job *)
(* is on its way to its reply.                                             *)
(***************************************************************************)
EXTENDS InferQueue, TLAPS

\* Where the owner of SLICE_BUSY is while it claims a job, before and after it
\* has stored ACTIVE_ID.
Claiming == {"claim", "swap", "uncount", "loadId", "loadCancel", "takePrompt", "decide", "setId"}
Installing == {"resetCancel", "setActive"}

\* The registers of the pollers, and the job in ACTIVE, are records of their fields.
PolShape ==
  pol = [p \in Pollers |-> [pc |-> pol[p].pc, id |-> pol[p].id, call |-> pol[p].call,
                            cancelled |-> pol[p].cancelled, kind |-> pol[p].kind]]
ActiveShape ==
  active = [id |-> active.id, call |-> active.call, phase |-> active.phase, left |-> active.left]

\* SLICE_BUSY is set while somebody is in poll_slice.
Latched ==
  /\ \A p \in Pollers : pol[p].pc # "idle" => busy
  /\ \A p, q \in Pollers : pol[p].pc # "idle" /\ pol[q].pc # "idle" => p = q

\* A claim begins without an active job, and the watchdog leaves it alone.
ClaimInv ==
  \A p \in Pollers :
     /\ pol[p].pc \in Claiming \cup Installing => active = NoJob
     /\ pol[p].pc \in Installing => activeId = pol[p].id

\* ACTIVE_ID names the job that runs.
Named ==
  active.phase \in {"work", "coarse"} =>
     activeId = active.id \/ \E p \in Pollers : pol[p].pc = "clearFlag"

\* The latch, the claim and ACTIVE_ID agree: inductive by itself.
FlightInv == PolShape /\ ActiveShape /\ Latched /\ ClaimInv /\ Named

\* Nobody polls at the start.
LEMMA InitFlight == Init => FlightInv
  BY DEF Init, FlightInv, PolShape, ActiveShape, Latched, ClaimInv, Named, NoJob,
         Claiming, Installing

\* The record of a poller is made of its fields.
IsRec(r) ==
  r = [pc |-> r.pc, id |-> r.id, call |-> r.call, cancelled |-> r.cancelled, kind |-> r.kind]

\* What the core p alone in poll_slice must respect when it moves to r.
LEMMA PollerStep ==
  ASSUME FlightInv, NEW p \in Pollers, \A q \in Pollers \ {p} : pol[q].pc = "idle",
         NEW r, IsRec(r), pol' = [pol EXCEPT ![p] = r],
         r.pc # "idle" => busy',
         ActiveShape',
         r.pc \in Claiming \cup Installing => active' = NoJob,
         r.pc \in Installing => activeId' = r.id,
         active'.phase \in {"work", "coarse"} =>
            activeId' = active'.id \/ r.pc = "clearFlag"
  PROVE  FlightInv'
<1>1. pol'[p] = r /\ \A q \in Pollers \ {p} : pol'[q] = pol[q]
  BY DEF FlightInv, PolShape
<1>2. PolShape'
  BY <1>1, Zenon DEF FlightInv, PolShape, IsRec
<1>3. Latched'
  BY <1>1 DEF FlightInv, Latched
<1>4. ClaimInv'
  BY <1>1 DEF FlightInv, ClaimInv, Claiming, Installing
<1>5. Named'
  BY <1>1 DEF FlightInv, Named
<1> QED BY <1>2, <1>3, <1>4, <1>5 DEF FlightInv

\* A step of the owner that leaves ACTIVE and ACTIVE_ID as they are.
LEMMA OwnerMoves ==
  ASSUME FlightInv, NEW p \in Pollers, pol[p].pc # "idle", pol[p].pc # "clearFlag",
         NEW r, IsRec(r), pol' = [pol EXCEPT ![p] = r],
         UNCHANGED <<active, activeId, busy>>,
         r.pc \in Claiming => pol[p].pc \in Claiming \/ active = NoJob,
         r.pc \in Installing => pol[p].pc \in Installing /\ r.id = pol[p].id
  PROVE  FlightInv'
<1>1. \A q \in Pollers \ {p} : pol[q].pc = "idle"
  BY DEF FlightInv, Latched
<1>2. busy' /\ ActiveShape'
  BY DEF FlightInv, Latched, ActiveShape
<1>3. r.pc \in Claiming \cup Installing => active' = NoJob
  BY DEF FlightInv, ClaimInv
<1>4. r.pc \in Installing => activeId' = r.id
  BY DEF FlightInv, ClaimInv
<1>5. active'.phase \in {"work", "coarse"} => activeId' = active'.id
  BY <1>1 DEF FlightInv, Named
<1> QED BY <1>1, <1>2, <1>3, <1>4, <1>5, PollerStep, Zenon

\* One field of a local state changes.
LEMMA OneField ==
  ASSUME NEW x, IsRec(x), NEW v
  PROVE  /\ IsRec([x EXCEPT !.pc = v]) /\ [x EXCEPT !.pc = v].pc = v
         /\ IsRec([x EXCEPT !.id = v]) /\ [x EXCEPT !.id = v].pc = x.pc
         /\ IsRec([x EXCEPT !.call = v]) /\ [x EXCEPT !.call = v].pc = x.pc
         /\ IsRec([x EXCEPT !.cancelled = v]) /\ [x EXCEPT !.cancelled = v].pc = x.pc
         /\ IsRec([x EXCEPT !.kind = v]) /\ [x EXCEPT !.kind = v].pc = x.pc
<1>1. IsRec([x EXCEPT !.pc = v]) /\ [x EXCEPT !.pc = v].pc = v
  BY DEF IsRec
<1>2. IsRec([x EXCEPT !.id = v]) /\ [x EXCEPT !.id = v].pc = x.pc
  BY DEF IsRec
<1>3. IsRec([x EXCEPT !.call = v]) /\ [x EXCEPT !.call = v].pc = x.pc
  BY DEF IsRec
<1>4. IsRec([x EXCEPT !.cancelled = v]) /\ [x EXCEPT !.cancelled = v].pc = x.pc
  BY DEF IsRec
<1>5. IsRec([x EXCEPT !.kind = v]) /\ [x EXCEPT !.kind = v].pc = x.pc
  BY DEF IsRec
<1> QED BY <1>1, <1>2, <1>3, <1>4, <1>5

\* The local state of p with another label, or reset.
At(p, l) == [pol[p] EXCEPT !.pc = l]

\* The registers of a poller after a return.
Fresh(l) == [pc |-> l, id |-> 0, cancelled |-> FALSE, call |-> 0, kind |-> "none"]

\* Both are records of the right shape, and what Pol and PolReturn store.
LEMMA AtIsRec ==
  ASSUME FlightInv, NEW p \in Pollers, NEW l
  PROVE  /\ IsRec(At(p, l)) /\ At(p, l).pc = l /\ At(p, l).id = pol[p].id
         /\ IsRec(Fresh(l)) /\ Fresh(l).pc = l
         /\ Pol(p, l) => pol' = [pol EXCEPT ![p] = At(p, l)]
         /\ PolReturn(p, l) => pol' = [pol EXCEPT ![p] = Fresh(l)]
<1>1. pol[p] = [pc |-> pol[p].pc, id |-> pol[p].id, call |-> pol[p].call,
                cancelled |-> pol[p].cancelled, kind |-> pol[p].kind]
  BY DEF FlightInv, PolShape
<1>2. IsRec(At(p, l)) /\ At(p, l).pc = l /\ At(p, l).id = pol[p].id
  BY <1>1 DEF At, IsRec
<1>3. IsRec(Fresh(l)) /\ Fresh(l).pc = l
  BY DEF Fresh, IsRec
<1>4. Pol(p, l) => pol' = [pol EXCEPT ![p] = At(p, l)]
  BY DEF Pol, At
<1>5. PolReturn(p, l) => pol' = [pol EXCEPT ![p] = Fresh(l)]
  BY DEF PolReturn, Fresh
<1> QED BY <1>2, <1>3, <1>4, <1>5

\* Every step of submitters, pollers, cancellers and the heap keeps it.
LEMMA StepFlight == FlightInv /\ [Next]_vars => FlightInv'
<1> SUFFICES ASSUME FlightInv, [Next]_vars PROVE FlightInv'
  OBVIOUS
<1>a. ASSUME UNCHANGED <<pol, active, activeId, busy>> PROVE FlightInv'
  BY <1>a, Zenon DEF FlightInv, PolShape, ActiveShape, Latched, ClaimInv, Named
<1>1. ASSUME NEW s \in Submitters, SubmitCall(s) \/ SubmitStep(s) PROVE FlightInv'
  BY <1>1, <1>a, Zenon DEF SubmitCall, SubmitStep, LoadTail, CheckFull, CasTail, TakeId, PutPrompt,
     ClearCancel, PutId, Publish, CountPending, activeVars
<1>2. CASE CancelStep \/ HeapChange
  BY <1>2, <1>a DEF CancelStep, CancelCall, CancelLoadActive, CancelSetFlag, CancelScan,
     CancelSetSlot, CancelActiveCall, CancelRaise, CancelHeadSlot, CancelSetHead,
     HeapChange, activeVars
<1>3. ASSUME NEW p \in Pollers, SliceEnter(p) PROVE FlightInv'
  <2>1. \A q \in Pollers : pol[q].pc = "idle"
    BY <1>3 DEF SliceEnter, FlightInv, Latched
  <2>2. busy' /\ UNCHANGED <<active, activeId>> /\ Pol(p, "check")
    BY <1>3 DEF SliceEnter, activeVars
  <2>3. ActiveShape' /\ (active'.phase \in {"work", "coarse"} => activeId' = active'.id)
    BY <2>1, <2>2 DEF FlightInv, ActiveShape, Named
  <2> QED BY <2>1, <2>2, <2>3, AtIsRec, PollerStep DEF Claiming, Installing
<1>4. ASSUME NEW p \in Pollers, SliceCheck(p) PROVE FlightInv'
  <2>1. UNCHANGED <<active, activeId, busy>> /\ pol[p].pc = "check"
    BY <1>4 DEF SliceCheck, activeVars
  <2>2. Pol(p, "slice") \/ (Pol(p, "claim") /\ active = NoJob)
    BY <1>4 DEF SliceCheck
  <2> QED BY <2>1, <2>2, AtIsRec, OwnerMoves DEF Claiming, Installing
<1>5. ASSUME NEW p \in Pollers,
             ClaimHead(p) \/ SwapOccupied(p) \/ UncountPending(p) \/ ClaimDecide(p)
      PROVE  FlightInv'
  <2>1. UNCHANGED <<active, activeId, busy>> /\ pol[p].pc \in Claiming
    BY <1>5 DEF ClaimHead, SwapOccupied, UncountPending, ClaimDecide, activeVars, Claiming
  <2>2. (\E l \in {"slice", "swap", "uncount", "loadId", "setId"} : Pol(p, l))
        \/ PolReturn(p, "claim")
    BY <1>5 DEF ClaimHead, SwapOccupied, UncountPending, ClaimDecide
  <2> QED BY <2>1, <2>2, AtIsRec, OwnerMoves DEF Claiming, Installing
<1>6. ASSUME NEW p \in Pollers, LoadId(p) \/ LoadCancel(p) \/ TakePrompt(p) PROVE FlightInv'
  <2>1. UNCHANGED <<active, activeId, busy>> /\ pol[p].pc \in Claiming
    BY <1>6 DEF LoadId, LoadCancel, TakePrompt, activeVars, Claiming
  <2>2. \E r : IsRec(r) /\ r.pc \in {"loadCancel", "takePrompt", "decide"}
               /\ pol' = [pol EXCEPT ![p] = r]
    <3> DEFINE r1 == [At(p, "loadCancel") EXCEPT !.id = slots[Claimed].id]
               r2 == [At(p, "takePrompt") EXCEPT !.cancelled = slots[Claimed].cancel]
               r3 == [At(p, "decide") EXCEPT !.call = slots[Claimed].call]
    <3>1. IsRec(r1) /\ r1.pc = "loadCancel"
      <4>1. IsRec(At(p, "loadCancel")) /\ At(p, "loadCancel").pc = "loadCancel"
        BY AtIsRec
      <4> QED BY <4>1, OneField, Zenon
    <3>2. IsRec(r2) /\ r2.pc = "takePrompt"
      <4>1. IsRec(At(p, "takePrompt")) /\ At(p, "takePrompt").pc = "takePrompt"
        BY AtIsRec
      <4> QED BY <4>1, OneField, Zenon
    <3>3. IsRec(r3) /\ r3.pc = "decide"
      <4>1. IsRec(At(p, "decide")) /\ At(p, "decide").pc = "decide"
        BY AtIsRec
      <4> QED BY <4>1, OneField, Zenon
    <3>4. \/ pol' = [pol EXCEPT ![p] = r1]
          \/ pol' = [pol EXCEPT ![p] = r2]
          \/ pol' = [pol EXCEPT ![p] = r3]
      BY <1>6, Zenon DEF LoadId, LoadCancel, TakePrompt, At
    <3> HIDE DEF r1, r2, r3
    <3> QED BY <3>1, <3>2, <3>3, <3>4
  <2> QED BY <2>1, <2>2, OwnerMoves, Zenon DEF Claiming, Installing
<1>7. ASSUME NEW p \in Pollers, SetActiveId(p) PROVE FlightInv'
  <2>1. /\ pol[p].pc = "setId" /\ activeId' = pol[p].id /\ Pol(p, "resetCancel")
        /\ active' = active /\ busy' = busy
    BY <1>7 DEF SetActiveId
  <2>2. busy /\ active = NoJob /\ \A q \in Pollers \ {p} : pol[q].pc = "idle"
    BY <2>1 DEF FlightInv, Latched, ClaimInv, Claiming
  <2>3. ActiveShape' /\ active'.phase = "none"
    BY <2>1, <2>2 DEF ActiveShape, NoJob
  <2> QED BY <2>1, <2>2, <2>3, AtIsRec, PollerStep
<1>8. ASSUME NEW p \in Pollers, ResetActiveCancel(p) PROVE FlightInv'
  <2>1. /\ pol[p].pc = "resetCancel" /\ Pol(p, "setActive")
        /\ UNCHANGED <<active, activeId, busy>>
    BY <1>8 DEF ResetActiveCancel
  <2> QED BY <2>1, AtIsRec, OwnerMoves DEF Claiming, Installing
<1>9. ASSUME NEW p \in Pollers, SetActive(p) PROVE FlightInv'
  <2>1. /\ pol[p].pc = "setActive" /\ PolReturn(p, "slice") /\ activeId' = activeId
        /\ busy' = busy /\ active'.id = pol[p].id /\ ActiveShape'
    BY <1>9 DEF SetActive, ActiveShape
  <2>2. busy /\ activeId = pol[p].id /\ \A q \in Pollers \ {p} : pol[q].pc = "idle"
    BY <2>1 DEF FlightInv, Latched, ClaimInv, Installing
  <2> QED BY <2>1, <2>2, AtIsRec, PollerStep DEF Claiming, Installing
<1>10. ASSUME NEW p \in Pollers, SliceDrop(p) \/ FinishClearCancel(p) PROVE FlightInv'
  <2>1. active' = NoJob /\ busy' = busy /\ Pol(p, "exit") /\ pol[p].pc # "idle"
    BY <1>10 DEF SliceDrop, FinishClearCancel
  <2>2. busy /\ \A q \in Pollers \ {p} : pol[q].pc = "idle"
    BY <2>1 DEF FlightInv, Latched
  <2>3. ActiveShape' /\ active'.phase = "none"
    BY <2>1 DEF ActiveShape, NoJob
  <2> QED BY <2>1, <2>2, <2>3, AtIsRec, PollerStep DEF Claiming, Installing
<1>11. ASSUME NEW p \in Pollers, NEW k, Finish(p, k), pol[p].pc \in {"slice", "generated"},
              UNCHANGED <<active, activeId, busy>>
       PROVE  FlightInv'
  <2> DEFINE r == [At(p, "reply") EXCEPT !.kind = k]
  <2>1. IsRec(r) /\ r.pc = "reply"
    <3>1. IsRec(At(p, "reply")) /\ At(p, "reply").pc = "reply"
      BY AtIsRec
    <3> QED BY <3>1, OneField, Zenon
  <2>2. pol' = [pol EXCEPT ![p] = r]
    BY <1>11, Zenon DEF Finish, At
  <2> HIDE DEF r
  <2> QED BY <1>11, <2>1, <2>2, OwnerMoves, Zenon DEF Claiming, Installing
<1>12. ASSUME NEW p \in Pollers, SliceWork(p) PROVE FlightInv'
  <2>1. CASE active' = active
    <3>1. (\E k : Finish(p, k)) \/ Pol(p, "exit")
      BY <1>12 DEF SliceWork
    <3>2. pol[p].pc = "slice" /\ UNCHANGED <<active, activeId, busy>>
      BY <1>12, <2>1 DEF SliceWork
    <3>3. CASE Pol(p, "exit")
      BY <3>2, <3>3, AtIsRec, OwnerMoves DEF Claiming, Installing
    <3> QED BY <3>1, <3>2, <3>3, <1>11
  <2>2. CASE active' # active
    <3>1. /\ pol[p].pc = "slice" /\ Pol(p, "exit") /\ busy' = busy /\ activeId' = activeId
          /\ active.phase = "work"
          /\ \E ph : active' = [active EXCEPT !.left = active.left - 1, !.phase = ph]
      BY <1>12, <2>2, Zenon DEF SliceWork
    <3>2. ActiveShape' /\ active'.id = active.id
      BY <3>1, Zenon DEF FlightInv, ActiveShape
    <3>3. busy /\ \A q \in Pollers \ {p} : pol[q].pc = "idle"
      BY <3>1 DEF FlightInv, Latched
    <3>4. activeId = active.id
      BY <3>1, <3>3 DEF FlightInv, Named
    <3> QED BY <3>1, <3>2, <3>3, <3>4, AtIsRec, PollerStep DEF Claiming, Installing
  <2> QED BY <2>1, <2>2
<1>13. ASSUME NEW p \in Pollers, SliceCoarse(p) \/ CoarseGenerated(p) PROVE FlightInv'
  <2>1. /\ pol[p].pc \in {"slice", "generated"} /\ UNCHANGED <<active, activeId, busy>>
        /\ (\E k : Finish(p, k)) \/ Pol(p, "generated")
    BY <1>13 DEF SliceCoarse, CoarseGenerated, activeVars
  <2>2. CASE Pol(p, "generated")
    BY <2>1, <2>2, AtIsRec, OwnerMoves DEF Claiming, Installing
  <2> QED BY <2>1, <2>2, <1>11
<1>14. ASSUME NEW p \in Pollers, FinishReply(p) PROVE FlightInv'
  <2>1. /\ pol[p].pc = "reply" /\ Pol(p, "clearId") /\ UNCHANGED <<active, activeId, busy>>
    BY <1>14 DEF FinishReply, activeVars
  <2> QED BY <2>1, AtIsRec, OwnerMoves DEF Claiming, Installing
<1>15. ASSUME NEW p \in Pollers, FinishClearId(p) PROVE FlightInv'
  <2>1. /\ pol[p].pc = "clearId" /\ Pol(p, "clearFlag") /\ active' = active /\ busy' = busy
    BY <1>15 DEF FinishClearId
  <2>2. busy /\ ActiveShape' /\ \A q \in Pollers \ {p} : pol[q].pc = "idle"
    BY <2>1 DEF FlightInv, Latched, ActiveShape
  <2> QED BY <2>1, <2>2, AtIsRec, PollerStep DEF Claiming, Installing
<1>16. ASSUME NEW p \in Pollers, SliceExit(p) PROVE FlightInv'
  <2>1. /\ pol[p].pc = "exit" /\ PolReturn(p, "idle") /\ UNCHANGED <<active, activeId>>
    BY <1>16 DEF SliceExit, activeVars
  <2>2. ActiveShape' /\ \A q \in Pollers \ {p} : pol[q].pc = "idle"
    BY <2>1 DEF FlightInv, Latched, ActiveShape
  <2>3. active'.phase \in {"work", "coarse"} => activeId' = active'.id
    BY <2>1, <2>2 DEF FlightInv, Named
  <2> QED BY <2>1, <2>2, <2>3, AtIsRec, PollerStep DEF Claiming, Installing
<1>17. ASSUME NEW p \in Pollers, WatchdogAbort(p) PROVE FlightInv'
  <2>1. /\ active.phase \in {"work", "coarse"} /\ UNCHANGED <<pol, busy>>
        /\ active' = [active EXCEPT !.phase = "idle"]
    BY <1>17 DEF WatchdogAbort
  <2>2. active # NoJob
    BY <2>1 DEF NoJob
  <2>3. \A q \in Pollers : pol[q].pc \notin Claiming \cup Installing
    BY <2>2 DEF FlightInv, ClaimInv
  <2>4. ActiveShape' /\ active'.phase = "idle"
    BY <2>1 DEF FlightInv, ActiveShape
  <2> QED BY <2>1, <2>3, <2>4 DEF FlightInv, PolShape, Latched, ClaimInv, Named
<1>18. CASE UNCHANGED vars
  BY <1>18, <1>a DEF vars, activeVars
<1> QED
  BY <1>1, <1>2, <1>3, <1>4, <1>5, <1>6, <1>7, <1>8, <1>9, <1>10, <1>12, <1>13, <1>14,
     <1>15, <1>16, <1>17, <1>18 DEF Next, PollStep, ClaimStep

\* The latch, the claim and ACTIVE_ID agree in every reachable state.
THEOREM FlightInvariance == Spec => []FlightInv
  BY InitFlight, StepFlight, PTL DEF Spec

\* Slices never overlap, and ACTIVE_ID names the job that runs.
THEOREM OneJobInFlightThm == Spec => []OneJobInFlight
<1>1. FlightInv => OneJobInFlight
  BY DEF FlightInv, Latched, Named, OneJobInFlight
<1> QED BY <1>1, FlightInvariance, PTL

-----------------------------------------------------------------------------
(* The types, and what a step writes. *)

\* The slots, where a submitter has a job that is in no slot yet, and where it
\* fills the slot of its position.
Ring == 0..(QueueCap - 1)
Carrying == {"loadTail", "checkFull", "casTail", "takeId", "putPrompt"}
Filling == {"takeId", "putPrompt", "clearCancel", "putId", "publish"}
SubLabels == {"idle", "count"} \cup Carrying \cup Filling
PolLabels == {"idle", "check", "slice", "generated", "reply", "clearId", "clearFlag", "exit"}
             \cup Claiming \cup Installing

\* The step takes a submitter, a poller or a slot to the state given by its fields, and
\* leaves the others alone.
SubTo(s, l, c, t, i) ==
  /\ sub'[s].pc = l /\ sub'[s].call = c /\ sub'[s].t = t /\ sub'[s].id = i
  /\ \A r \in Submitters \ {s} : sub'[r] = sub[r]
PolTo(p, l, i, x, c, k) ==
  /\ pol'[p].pc = l /\ pol'[p].id = i /\ pol'[p].cancelled = x /\ pol'[p].call = c
  /\ pol'[p].kind = k
  /\ \A q \in Pollers \ {p} : pol'[q] = pol[q]
SlotTo(j, o, i, x, c) ==
  /\ slots'[j].occupied = o /\ slots'[j].id = i /\ slots'[j].cancel = x /\ slots'[j].call = c
  /\ \A k \in Ring \ {j} : slots'[k] = slots[k]

\* The types of the registers.
Kinds == {"none", "cancelled", "refused", "text"}
Replies == Kinds \cup {"stopped", "again"}
SubRec == [pc : SubLabels, call : 0..MaxCalls, t : Nat, id : Nat]
PolRec == [pc : PolLabels, id : Nat, cancelled : BOOLEAN, call : 0..MaxCalls,
           kind : Kinds]
SlotRec == [occupied : BOOLEAN, id : Nat, cancel : BOOLEAN, call : 0..MaxCalls]
JobRec == [id : Nat, call : 0..MaxCalls, phase : {"none", "work", "coarse", "idle"},
           left : 0..MaxSlices]
CanLabels == {"idle", "loadActive", "setFlag", "scan", "setSlot", "raise", "headSlot", "setHead"}
CanRec == [pc : CanLabels, id : Nat, slot : Ring, all : BOOLEAN]

\* The types of the variables: numbers without the bounds of TypeOK.
NumTypes == /\ head \in Nat /\ tail \in Nat /\ nextId \in Nat /\ pending \in Int /\ calls \in 0..MaxCalls
            /\ nextId # 0 /\ heap \in HeapLevels
SubTypes == sub \in [Submitters -> SubRec]
PolTypes == pol \in [Pollers -> PolRec]
SlotTypes == slots \in [Ring -> SlotRec]
ActTypes == active \in JobRec /\ activeId \in Nat /\ activeCancel \in BOOLEAN /\ busy \in BOOLEAN
CanTypes == can \in CanRec
CallTypes == idOf \in [Calls -> Nat] /\ reply \in [0..MaxCalls -> Replies]
Types == NumTypes /\ SubTypes /\ PolTypes /\ SlotTypes /\ ActTypes /\ CanTypes /\ CallTypes

\* The assumptions on the constants, and that a remainder is a slot.
LEMMA Numbers == /\ QueueCap \in Nat \ {0} /\ MaxCalls \in Nat /\ MaxSlices \in Nat
                 /\ \A k \in Int : k % QueueCap \in Ring
  BY InferQueueAssumption DEF Ring

\* A call that was made is one of Calls.
LEMMA MadeCall ==
  ASSUME NEW n \in 0..MaxCalls, NEW k \in 0..n, k # 0
  PROVE  k \in Calls /\ n \in Nat
  BY Numbers DEF Calls

LEMMA FreshCall ==
  ASSUME NEW n \in 0..MaxCalls, n < MaxCalls
  PROVE  n + 1 # 0 /\ n + 1 \in Calls /\ n + 1 > n
  BY Numbers DEF Calls

\* A ticket that passes the checks of a full ring, and two different tickets.
LEMMA TicketFits ==
  ASSUME NEW t \in Nat, NEW h \in Nat, NEW c \in Nat, ~(t < h), ~(t - h >= c)
  PROVE  t >= h /\ t < h + c
  OBVIOUS

LEMMA TicketsApart ==
  ASSUME NEW t \in Nat, NEW u \in Nat, t # u
  PROVE  t < u \/ u < t
  OBVIOUS

\* Two tickets of the ring are less than a lap apart.
LEMMA WithinLap ==
  ASSUME NEW t \in Nat, NEW u \in Nat, NEW h \in Nat, NEW e \in Nat, NEW q \in Nat, NEW b \in Int,
         b <= h, h <= u, t < e, e <= b + q
  PROVE  t < u + q
  OBVIOUS

\* The types hold at the start.
LEMMA InitTypes == Init => Types
<1> SUFFICES ASSUME Init PROVE Types
  OBVIOUS
<1> USE Numbers
<1>1. NumTypes
  BY DEF Init, NumTypes
<1>7. CallTypes
  BY DEF Init, CallTypes, Calls, Replies, Kinds
<1>2. SubTypes
  BY DEF Init, SubTypes, SubRec, SubLabels
<1>3. PolTypes
  BY DEF Init, PolTypes, PolRec, PolLabels, Kinds
<1>4. SlotTypes
  BY DEF Init, SlotTypes, SlotRec, Ring
<1>5. ActTypes
  <2>1. active \in JobRec
    BY DEF Init, JobRec, NoJob
  <2>2. activeId \in Nat /\ activeCancel \in BOOLEAN /\ busy \in BOOLEAN
    BY Zenon DEF Init
  <2> QED BY <2>1, <2>2 DEF ActTypes
<1>6. CanTypes
  BY DEF Init, CanTypes, CanRec, CanLabels, Ring
<1> QED BY <1>1, <1>2, <1>3, <1>4, <1>5, <1>6, <1>7 DEF Types

\* What each step of a submitter writes into its registers.
LEMMA SubMoves ==
  ASSUME Types, NEW s \in Submitters
  PROVE  /\ SubmitCall(s) => sub' = sub \/ SubTo(s, "loadTail", calls + 1, sub[s].t, sub[s].id)
         /\ LoadTail(s) => SubTo(s, "checkFull", sub[s].call, tail, sub[s].id)
         /\ CheckFull(s) => \/ SubTo(s, "idle", 0, 0, 0)
                            \/ SubTo(s, "casTail", sub[s].call, sub[s].t, sub[s].id)
         /\ CasTail(s) => \/ SubTo(s, "takeId", sub[s].call, sub[s].t, sub[s].id)
                          \/ SubTo(s, "loadTail", sub[s].call, sub[s].t, sub[s].id)
         /\ TakeId(s) => SubTo(s, "putPrompt", sub[s].call, sub[s].t, nextId)
         /\ PutPrompt(s) => SubTo(s, "clearCancel", sub[s].call, sub[s].t, sub[s].id)
         /\ ClearCancel(s) => SubTo(s, "putId", sub[s].call, sub[s].t, sub[s].id)
         /\ PutId(s) => SubTo(s, "publish", sub[s].call, sub[s].t, sub[s].id)
         /\ Publish(s) => SubTo(s, "count", sub[s].call, sub[s].t, sub[s].id)
         /\ CountPending(s) => SubTo(s, "idle", 0, 0, 0)
<1>0. SubTypes
  BY DEF Types
<1>1. ASSUME NEW l, Sub(s, l) PROVE SubTo(s, l, sub[s].call, sub[s].t, sub[s].id)
  BY <1>0, <1>1 DEF SubTypes, SubRec, Sub, SubTo
<1>2. ASSUME SubReturn(s) PROVE SubTo(s, "idle", 0, 0, 0)
  BY <1>0, <1>2 DEF SubTypes, SubRec, SubReturn, SubTo
<1>3. SubmitCall(s) => sub' = sub \/ SubTo(s, "loadTail", calls + 1, sub[s].t, sub[s].id)
  BY <1>0 DEF SubTypes, SubRec, SubmitCall, SubTo
<1>4. LoadTail(s) => SubTo(s, "checkFull", sub[s].call, tail, sub[s].id)
  BY <1>0 DEF SubTypes, SubRec, LoadTail, SubTo
<1>5. TakeId(s) => SubTo(s, "putPrompt", sub[s].call, sub[s].t, nextId)
  BY <1>0 DEF SubTypes, SubRec, TakeId, SubTo
<1>6. CheckFull(s) => \/ SubTo(s, "idle", 0, 0, 0)
                      \/ SubTo(s, "casTail", sub[s].call, sub[s].t, sub[s].id)
  BY <1>1, <1>2, Zenon DEF CheckFull
<1>7. CasTail(s) => \/ SubTo(s, "takeId", sub[s].call, sub[s].t, sub[s].id)
                    \/ SubTo(s, "loadTail", sub[s].call, sub[s].t, sub[s].id)
  BY <1>1, Zenon DEF CasTail
<1>8. PutPrompt(s) => SubTo(s, "clearCancel", sub[s].call, sub[s].t, sub[s].id)
  BY <1>1, Zenon DEF PutPrompt
<1>9. ClearCancel(s) => SubTo(s, "putId", sub[s].call, sub[s].t, sub[s].id)
  BY <1>1, Zenon DEF ClearCancel
<1>10. PutId(s) => SubTo(s, "publish", sub[s].call, sub[s].t, sub[s].id)
  BY <1>1, Zenon DEF PutId
<1>11. Publish(s) => SubTo(s, "count", sub[s].call, sub[s].t, sub[s].id)
  BY <1>1, Zenon DEF Publish
<1>12. CountPending(s) => SubTo(s, "idle", 0, 0, 0)
  BY <1>2, Zenon DEF CountPending
<1> QED BY <1>3, <1>4, <1>5, <1>6, <1>7, <1>8, <1>9, <1>10, <1>11, <1>12, Zenon

\* The local state of a poller with another label.
PolGoes(p, l) == PolTo(p, l, pol[p].id, pol[p].cancelled, pol[p].call, pol[p].kind)
PolReset(p, l) == PolTo(p, l, 0, FALSE, 0, "none")

\* What each step of a claim writes into the registers of its poller.
LEMMA PolMoves ==
  ASSUME Types, NEW p \in Pollers
  PROVE  /\ SliceEnter(p) => PolGoes(p, "check")
         /\ SliceCheck(p) => PolGoes(p, "slice") \/ (PolGoes(p, "claim") /\ active = NoJob)
         /\ ClaimHead(p) => (head' = head /\ PolGoes(p, "slice"))
                            \/ (head < tail /\ slots[head % QueueCap].occupied
                                /\ head' = head + 1 /\ PolGoes(p, "swap"))
         /\ SwapOccupied(p) => PolGoes(p, "uncount")
         /\ UncountPending(p) => PolGoes(p, "loadId")
         /\ LoadId(p) => PolTo(p, "loadCancel", slots[Claimed].id, pol[p].cancelled,
                               pol[p].call, pol[p].kind)
         /\ LoadCancel(p) => PolTo(p, "takePrompt", pol[p].id, slots[Claimed].cancel,
                                   pol[p].call, pol[p].kind)
         /\ TakePrompt(p) => PolTo(p, "decide", pol[p].id, pol[p].cancelled,
                                   slots[Claimed].call, pol[p].kind)
         /\ ClaimDecide(p) => \/ (\E k \in {"cancelled", "refused"} : EmitReply(pol[p].call, k))
                                 /\ PolReset(p, "claim")
                              \/ reply' = reply /\ pol[p].call # 0 /\ PolGoes(p, "setId")
         /\ SetActiveId(p) => PolGoes(p, "resetCancel")
         /\ ResetActiveCancel(p) => PolGoes(p, "setActive")
         /\ SetActive(p) => PolReset(p, "slice")
<1>0. PolTypes
  BY DEF Types
<1>1. ASSUME NEW l, Pol(p, l) PROVE PolGoes(p, l)
  BY <1>0, <1>1 DEF PolTypes, PolRec, Pol, PolTo, PolGoes
<1>2. ASSUME NEW l, PolReturn(p, l) PROVE PolReset(p, l)
  BY <1>0, <1>2 DEF PolTypes, PolRec, PolReturn, PolTo, PolReset
<1>3. SliceEnter(p) => PolGoes(p, "check")
  BY <1>1, Zenon DEF SliceEnter
<1>4. SliceCheck(p) => PolGoes(p, "slice") \/ (PolGoes(p, "claim") /\ active = NoJob)
  BY <1>1, Zenon DEF SliceCheck
<1>5. ClaimHead(p) => (head' = head /\ PolGoes(p, "slice"))
                      \/ (head < tail /\ slots[head % QueueCap].occupied
                          /\ head' = head + 1 /\ PolGoes(p, "swap"))
  BY <1>1, Zenon DEF ClaimHead
<1>6. SwapOccupied(p) => PolGoes(p, "uncount")
  BY <1>1, Zenon DEF SwapOccupied
<1>7. UncountPending(p) => PolGoes(p, "loadId")
  BY <1>1, Zenon DEF UncountPending
<1>8. LoadId(p) => PolTo(p, "loadCancel", slots[Claimed].id, pol[p].cancelled,
                         pol[p].call, pol[p].kind)
  BY <1>0 DEF PolTypes, PolRec, LoadId, PolTo
<1>9. LoadCancel(p) => PolTo(p, "takePrompt", pol[p].id, slots[Claimed].cancel,
                             pol[p].call, pol[p].kind)
  BY <1>0 DEF PolTypes, PolRec, LoadCancel, PolTo
<1>10. TakePrompt(p) => PolTo(p, "decide", pol[p].id, pol[p].cancelled,
                              slots[Claimed].call, pol[p].kind)
  BY <1>0 DEF PolTypes, PolRec, TakePrompt, PolTo
<1>11. ClaimDecide(p) => \/ (\E k \in {"cancelled", "refused"} : EmitReply(pol[p].call, k))
                            /\ PolReset(p, "claim")
                         \/ reply' = reply /\ pol[p].call # 0 /\ PolGoes(p, "setId")
  BY <1>1, <1>2, Zenon DEF ClaimDecide
<1>12. SetActiveId(p) => PolGoes(p, "resetCancel")
  BY <1>1, Zenon DEF SetActiveId
<1>13. ResetActiveCancel(p) => PolGoes(p, "setActive")
  BY <1>1, Zenon DEF ResetActiveCancel
<1>14. SetActive(p) => PolReset(p, "slice")
  BY <1>2, Zenon DEF SetActive
<1> QED BY <1>3, <1>4, <1>5, <1>6, <1>7, <1>8, <1>9, <1>10, <1>11, <1>12, <1>13, <1>14, Zenon

\* A slice that has come to the answer of its job.
PolFinish(p) ==
  \E k \in Kinds \ {"none"} : PolTo(p, "reply", pol[p].id, pol[p].cancelled, pol[p].call, k)

\* What each step of a slice writes into the registers of its poller.
LEMMA SliceMoves ==
  ASSUME Types, NEW p \in Pollers
  PROVE  /\ SliceDrop(p) => PolGoes(p, "exit")
         /\ SliceWork(p) => (PolFinish(p) /\ active' = active) \/ PolGoes(p, "exit")
         /\ SliceCoarse(p) => PolFinish(p) \/ PolGoes(p, "generated")
         /\ CoarseGenerated(p) => PolFinish(p)
         /\ FinishReply(p) => PolGoes(p, "clearId")
         /\ FinishClearId(p) => PolGoes(p, "clearFlag")
         /\ FinishClearCancel(p) => PolGoes(p, "exit")
         /\ SliceExit(p) => PolReset(p, "idle")
<1>0. PolTypes
  BY DEF Types
<1>1. ASSUME NEW l, Pol(p, l) PROVE PolGoes(p, l)
  BY <1>0, <1>1 DEF PolTypes, PolRec, Pol, PolTo, PolGoes
<1>2. ASSUME NEW l, PolReturn(p, l) PROVE PolReset(p, l)
  BY <1>0, <1>2 DEF PolTypes, PolRec, PolReturn, PolTo, PolReset
<1>3. ASSUME NEW k, Finish(p, k)
      PROVE  PolTo(p, "reply", pol[p].id, pol[p].cancelled, pol[p].call, k)
  BY <1>0, <1>3 DEF PolTypes, PolRec, Finish, PolTo
<1>4. \A k \in {"cancelled", "refused", "text"} : Finish(p, k) => PolFinish(p)
  BY <1>3, Zenon DEF PolFinish, Kinds
<1>5. SliceDrop(p) => PolGoes(p, "exit")
  BY <1>1, Zenon DEF SliceDrop
<1>6. SliceWork(p) => (PolFinish(p) /\ active' = active) \/ PolGoes(p, "exit")
  BY <1>1, <1>4, Zenon DEF SliceWork
<1>7. SliceCoarse(p) => PolFinish(p) \/ PolGoes(p, "generated")
  BY <1>1, <1>4, Zenon DEF SliceCoarse
<1>8. CoarseGenerated(p) => PolFinish(p)
  BY <1>4, Zenon DEF CoarseGenerated
<1>9. FinishReply(p) => PolGoes(p, "clearId")
  BY <1>1, Zenon DEF FinishReply
<1>10. FinishClearId(p) => PolGoes(p, "clearFlag")
  BY <1>1, Zenon DEF FinishClearId
<1>11. FinishClearCancel(p) => PolGoes(p, "exit")
  BY <1>1, Zenon DEF FinishClearCancel
<1>12. SliceExit(p) => PolReset(p, "idle")
  BY <1>2, Zenon DEF SliceExit
<1> QED BY <1>5, <1>6, <1>7, <1>8, <1>9, <1>10, <1>11, <1>12, Zenon

\* What each step that writes a slot writes into it.
LEMMA SlotMoves ==
  ASSUME Types
  PROVE  /\ \A s \in Submitters :
              LET j == sub[s].t % QueueCap IN
              /\ PutPrompt(s) => SlotTo(j, slots[j].occupied, slots[j].id, slots[j].cancel, sub[s].call)
              /\ ClearCancel(s) => SlotTo(j, slots[j].occupied, slots[j].id, FALSE, slots[j].call)
              /\ PutId(s) => SlotTo(j, slots[j].occupied, sub[s].id, slots[j].cancel, slots[j].call)
              /\ Publish(s) => SlotTo(j, TRUE, slots[j].id, slots[j].cancel, slots[j].call)
         /\ \A p \in Pollers :
              LET j == Claimed IN
              /\ SwapOccupied(p) => SlotTo(j, FALSE, slots[j].id, slots[j].cancel, slots[j].call)
              /\ TakePrompt(p) => SlotTo(j, slots[j].occupied, slots[j].id, slots[j].cancel, 0)
         /\ LET j == can.slot IN
            CancelSetSlot \/ CancelSetHead =>
              SlotTo(j, slots[j].occupied, slots[j].id, TRUE, slots[j].call)
<1>0. SlotTypes
  BY DEF Types
<1>1. ASSUME NEW j \in Ring
      PROVE  /\ \A v : slots' = [slots EXCEPT ![j].call = v] =>
                  SlotTo(j, slots[j].occupied, slots[j].id, slots[j].cancel, v)
             /\ \A v : slots' = [slots EXCEPT ![j].cancel = v] =>
                  SlotTo(j, slots[j].occupied, slots[j].id, v, slots[j].call)
             /\ \A v : slots' = [slots EXCEPT ![j].id = v] =>
                  SlotTo(j, slots[j].occupied, v, slots[j].cancel, slots[j].call)
             /\ \A v : slots' = [slots EXCEPT ![j].occupied = v] =>
                  SlotTo(j, v, slots[j].id, slots[j].cancel, slots[j].call)
  BY <1>0 DEF SlotTypes, SlotRec, SlotTo
<1>2. /\ \A s \in Submitters : sub[s].t % QueueCap \in Ring
      /\ Claimed \in Ring /\ can.slot \in Ring
  <2>1. \A s \in Submitters : sub[s].t \in Int
    BY DEF Types, SubTypes, SubRec
  <2>2. head - 1 \in Int
    BY DEF Types, NumTypes
  <2>3. can.slot \in Ring
    BY DEF Types, CanTypes, CanRec
  <2> QED BY <2>1, <2>2, <2>3, Numbers, Zenon DEF Claimed
<1>3. ASSUME NEW s \in Submitters
      PROVE  LET j == sub[s].t % QueueCap IN
              /\ PutPrompt(s) => SlotTo(j, slots[j].occupied, slots[j].id, slots[j].cancel, sub[s].call)
              /\ ClearCancel(s) => SlotTo(j, slots[j].occupied, slots[j].id, FALSE, slots[j].call)
              /\ PutId(s) => SlotTo(j, slots[j].occupied, sub[s].id, slots[j].cancel, slots[j].call)
              /\ Publish(s) => SlotTo(j, TRUE, slots[j].id, slots[j].cancel, slots[j].call)
  BY <1>1, <1>2, Zenon DEF PutPrompt, ClearCancel, PutId, Publish
<1>4. ASSUME NEW p \in Pollers
      PROVE  LET j == Claimed IN
              /\ SwapOccupied(p) => SlotTo(j, FALSE, slots[j].id, slots[j].cancel, slots[j].call)
              /\ TakePrompt(p) => SlotTo(j, slots[j].occupied, slots[j].id, slots[j].cancel, 0)
  BY <1>1, <1>2, Zenon DEF SwapOccupied, TakePrompt
<1>5. LET j == can.slot IN
      CancelSetSlot \/ CancelSetHead =>
        SlotTo(j, slots[j].occupied, slots[j].id, TRUE, slots[j].call)
  BY <1>1, <1>2, Zenon DEF CancelSetSlot, CancelSetHead
<1> QED BY <1>3, <1>4, <1>5, Zenon

\* Who writes what.
LEMMA Writers ==
  ASSUME [Next]_vars
  PROVE  /\ sub' = sub \/ \E s \in Submitters : SubmitCall(s) \/ SubmitStep(s)
         /\ pol' = pol \/ \E p \in Pollers : PollStep(p)
         /\ can' = can \/ CancelStep
         /\ \/ slots' = slots
            \/ \E s \in Submitters : PutPrompt(s) \/ ClearCancel(s) \/ PutId(s) \/ Publish(s)
            \/ \E p \in Pollers : SwapOccupied(p) \/ TakePrompt(p)
            \/ CancelSetSlot \/ CancelSetHead
<1>1. CASE UNCHANGED vars
  BY <1>1, Zenon DEF vars, queueVars
<1>2. CASE HeapChange
  BY <1>2, Zenon DEF HeapChange, queueVars
<1>3. ASSUME NEW s \in Submitters, SubmitCall(s) \/ SubmitStep(s)
      PROVE  UNCHANGED <<pol, can>> /\ (slots' = slots \/ PutPrompt(s) \/ ClearCancel(s)
                                        \/ PutId(s) \/ Publish(s))
  BY <1>3, Zenon DEF SubmitCall, SubmitStep, LoadTail, CheckFull, CasTail, TakeId, PutPrompt,
     ClearCancel, PutId, Publish, CountPending, queueVars
<1>4. ASSUME NEW p \in Pollers, WatchdogAbort(p)
      PROVE  UNCHANGED <<sub, pol, can, slots>>
  BY <1>4, Zenon DEF WatchdogAbort, queueVars
<1>5. ASSUME NEW p \in Pollers, PollStep(p)
      PROVE  UNCHANGED <<sub, can>> /\ (slots' = slots \/ SwapOccupied(p) \/ TakePrompt(p))
  <2>1. CASE ClaimStep(p)
    BY <2>1, Zenon DEF ClaimStep, ClaimHead, SwapOccupied, UncountPending, LoadId, LoadCancel,
       TakePrompt, ClaimDecide, SetActiveId, ResetActiveCancel, SetActive, queueVars
  <2>2. CASE ~ClaimStep(p)
    BY <1>5, <2>2, Zenon DEF PollStep, SliceEnter, SliceCheck, SliceDrop, SliceWork, SliceCoarse,
       CoarseGenerated, FinishReply, FinishClearId, FinishClearCancel, SliceExit, queueVars
  <2> QED BY <2>1, <2>2
<1>6. CASE CancelStep
  BY <1>6, Zenon DEF CancelStep, CancelCall, CancelLoadActive, CancelSetFlag, CancelScan,
     CancelSetSlot, CancelActiveCall, CancelRaise, CancelHeadSlot, CancelSetHead, queueVars
<1> QED BY <1>1, <1>2, <1>3, <1>4, <1>5, <1>6, Zenon DEF Next

\* Submitters keep their types.
LEMMA StepSubTypes == ASSUME Types, [Next]_vars PROVE SubTypes'
<1> USE DEF SubTypes
<1>0. /\ sub \in [Submitters -> SubRec] /\ tail \in Nat /\ nextId \in Nat /\ calls \in 0..MaxCalls
      /\ MaxCalls \in Nat
  BY Numbers DEF Types, NumTypes
<1>1. ASSUME NEW s \in Submitters, NEW l \in SubLabels, Sub(s, l) PROVE SubTypes'
  BY <1>0, <1>1 DEF Sub, SubRec
<1>2. ASSUME NEW s \in Submitters, SubReturn(s) PROVE SubTypes'
  BY <1>0, <1>2 DEF SubReturn, SubRec, SubLabels
<1>3. ASSUME NEW s \in Submitters, SubmitCall(s) PROVE SubTypes'
  <2>1. calls + 1 \in 0..MaxCalls
    BY <1>0, <1>3 DEF SubmitCall
  <2> QED BY <1>0, <1>3, <2>1 DEF SubmitCall, SubRec, SubLabels, Carrying
<1>4. ASSUME NEW s \in Submitters, LoadTail(s) PROVE SubTypes'
  BY <1>0, <1>4, Zenon DEF LoadTail, SubRec, SubLabels, Carrying
<1>5. ASSUME NEW s \in Submitters, TakeId(s) PROVE SubTypes'
  BY <1>0, <1>5, Zenon DEF TakeId, SubRec, SubLabels, Carrying
<1>6. ASSUME NEW s \in Submitters,
             CheckFull(s) \/ CasTail(s) \/ PutPrompt(s) \/ ClearCancel(s) \/ PutId(s)
             \/ Publish(s) \/ CountPending(s)
      PROVE  SubTypes'
  <2>1. SubReturn(s) \/ \E l \in {"casTail", "takeId", "loadTail", "clearCancel", "putId",
                                  "publish", "count"} : Sub(s, l)
    BY <1>6, Zenon DEF CheckFull, CasTail, PutPrompt, ClearCancel, PutId, Publish, CountPending
  <2>2. {"casTail", "takeId", "loadTail", "clearCancel", "putId", "publish", "count"} \subseteq SubLabels
    BY DEF SubLabels, Carrying, Filling
  <2> QED BY <2>1, <2>2, <1>1, <1>2, Zenon
<1>7. CASE sub' = sub
  BY <1>0, <1>7
<1> QED BY <1>3, <1>4, <1>5, <1>6, <1>7, Writers, Zenon DEF SubmitStep

\* Slots keep their types.
LEMMA StepSlotTypes == ASSUME Types, [Next]_vars PROVE SlotTypes'
<1>0. slots \in [Ring -> SlotRec] /\ sub \in [Submitters -> SubRec]
  BY DEF Types, SlotTypes, SubTypes
<1>1. ASSUME NEW j,
             \/ \E v \in 0..MaxCalls : slots' = [slots EXCEPT ![j].call = v]
             \/ \E v \in BOOLEAN : slots' = [slots EXCEPT ![j].cancel = v]
             \/ \E v \in Nat : slots' = [slots EXCEPT ![j].id = v]
             \/ \E v \in BOOLEAN : slots' = [slots EXCEPT ![j].occupied = v]
      PROVE  SlotTypes'
  BY <1>0, <1>1 DEF SlotTypes, SlotRec
<1>2. ASSUME NEW s \in Submitters, PutPrompt(s) \/ ClearCancel(s) \/ PutId(s) \/ Publish(s)
      PROVE  SlotTypes'
  <2>1. sub[s].call \in 0..MaxCalls /\ sub[s].id \in Nat /\ {TRUE, FALSE} \subseteq BOOLEAN
    BY <1>0 DEF SubRec
  <2> QED BY <1>1, <1>2, <2>1, Zenon DEF PutPrompt, ClearCancel, PutId, Publish
<1>3. ASSUME NEW p \in Pollers, SwapOccupied(p) \/ TakePrompt(p) PROVE SlotTypes'
  <2>1. 0 \in 0..MaxCalls /\ {TRUE, FALSE} \subseteq BOOLEAN
    BY Numbers
  <2> QED BY <1>1, <1>3, <2>1, Zenon DEF SwapOccupied, TakePrompt
<1>4. CASE CancelSetSlot \/ CancelSetHead
  BY <1>1, <1>4, Zenon DEF CancelSetSlot, CancelSetHead
<1>5. CASE slots' = slots
  BY <1>0, <1>5 DEF SlotTypes
<1> QED BY <1>2, <1>3, <1>4, <1>5, Writers, Zenon

\* Pollers keep their types.
LEMMA StepPolTypes == ASSUME Types, [Next]_vars PROVE PolTypes'
<1>0. pol \in [Pollers -> PolRec] /\ slots \in [Ring -> SlotRec] /\ Claimed \in Ring
  BY Numbers DEF Types, PolTypes, SlotTypes, NumTypes, Claimed
<1>1. ASSUME NEW p \in Pollers, NEW l \in PolLabels, Pol(p, l) PROVE PolTypes'
  BY <1>0, <1>1 DEF Pol, PolTypes, PolRec
<1>2. ASSUME NEW p \in Pollers, NEW l \in PolLabels, PolReturn(p, l) PROVE PolTypes'
  <2>1. [pc |-> l, id |-> 0, cancelled |-> FALSE, call |-> 0, kind |-> "none"] \in PolRec
    BY Numbers DEF PolRec, Kinds
  <2> QED BY <1>0, <1>2, <2>1, Zenon DEF PolReturn, PolTypes
<1>3. ASSUME NEW p \in Pollers, NEW k \in Kinds, Finish(p, k) PROVE PolTypes'
  BY <1>0, <1>3, ZenonT(40) DEF Finish, PolTypes, PolRec, PolLabels
<1>4. ASSUME NEW p \in Pollers, LoadId(p) \/ LoadCancel(p) \/ TakePrompt(p) PROVE PolTypes'
  <2>1. /\ slots[Claimed].id \in Nat /\ slots[Claimed].cancel \in BOOLEAN
        /\ slots[Claimed].call \in 0..MaxCalls
    BY <1>0 DEF SlotRec
  <2>2. {"loadCancel", "takePrompt", "decide"} \subseteq PolLabels
    BY DEF PolLabels, Claiming
  <2>3. CASE LoadId(p)
    BY <1>0, <2>1, <2>2, <2>3, ZenonT(40) DEF LoadId, PolTypes, PolRec
  <2>4. CASE LoadCancel(p)
    BY <1>0, <2>1, <2>2, <2>4, ZenonT(40) DEF LoadCancel, PolTypes, PolRec
  <2>5. CASE TakePrompt(p)
    BY <1>0, <2>1, <2>2, <2>5, Zenon DEF TakePrompt, PolTypes, PolRec
  <2> QED BY <1>4, <2>3, <2>4, <2>5
<1>5. ASSUME NEW p \in Pollers, PollStep(p), ~(LoadId(p) \/ LoadCancel(p) \/ TakePrompt(p))
      PROVE  PolTypes'
  <2>1. CASE ClaimStep(p)
    <3>1. (\E l \in {"slice", "swap", "uncount", "loadId", "setId", "resetCancel", "setActive"} :
             Pol(p, l))
          \/ \E l \in {"claim", "slice"} : PolReturn(p, l)
      BY <1>5, <2>1, Zenon DEF ClaimStep, ClaimHead, SwapOccupied, UncountPending, ClaimDecide,
         SetActiveId, ResetActiveCancel, SetActive
    <3>2. {"slice", "swap", "uncount", "loadId", "setId", "resetCancel", "setActive", "claim"}
          \subseteq PolLabels
      BY DEF PolLabels, Claiming, Installing
    <3> QED BY <3>1, <3>2, <1>1, <1>2, Zenon
  <2>2. CASE ~ClaimStep(p)
    <3>1. \/ \E l \in {"check", "claim", "slice", "exit", "generated", "clearId", "clearFlag"} :
               Pol(p, l)
          \/ PolReturn(p, "idle")
          \/ \E k \in {"cancelled", "refused", "text"} : Finish(p, k)
      BY <1>5, <2>2, Zenon DEF PollStep, SliceEnter, SliceCheck, SliceDrop, SliceWork, SliceCoarse,
         CoarseGenerated, FinishReply, FinishClearId, FinishClearCancel, SliceExit
    <3>2. /\ {"check", "claim", "slice", "exit", "generated", "clearId", "clearFlag", "idle"}
             \subseteq PolLabels
          /\ {"cancelled", "refused", "text"} \subseteq Kinds
      BY DEF PolLabels, Claiming, Kinds
    <3> QED BY <3>1, <3>2, <1>1, <1>2, <1>3, Zenon
  <2> QED BY <2>1, <2>2
<1>6. CASE pol' = pol
  BY <1>0, <1>6 DEF PolTypes
<1> QED BY <1>4, <1>5, <1>6, Writers, Zenon

\* The canceller keeps its type.
LEMMA StepCanTypes == ASSUME Types, [Next]_vars PROVE CanTypes'
<1>0. can \in CanRec /\ idOf \in [Calls -> Nat] /\ activeId \in Nat /\ head % QueueCap \in Ring
  <2>1. head % QueueCap \in Ring
    BY Numbers DEF Types, NumTypes
  <2> QED BY <2>1, Zenon DEF Types, CanTypes, CallTypes, ActTypes
<1>1. 0 \in Ring
  BY Numbers DEF Ring
<1>2. ASSUME NEW l \in CanLabels, Can(l) PROVE CanTypes'
  BY <1>0, <1>2 DEF Can, CanTypes, CanRec
<1>3. ASSUME NEW l \in CanLabels, NEW i \in Nat, NEW j \in Ring, NEW a \in BOOLEAN,
             can' = [pc |-> l, id |-> i, slot |-> j, all |-> a]
      PROVE  CanTypes'
  BY <1>3 DEF CanTypes, CanRec
<1>4. CASE CanReturn
  BY <1>1, <1>3, <1>4, Zenon DEF CanReturn, CanLabels
<1>5. CASE CancelCall
  <2>1. PICK c \in Accepted : can' = [pc |-> "loadActive", id |-> idOf[c], slot |-> 0, all |-> FALSE]
    BY <1>5, Zenon DEF CancelCall
  <2>2. idOf[c] \in Nat /\ "loadActive" \in CanLabels
    BY <1>0 DEF Accepted, CanLabels
  <2> QED BY <1>1, <1>3, <2>1, <2>2, Zenon
<1>6. CASE CancelActiveCall
  <2>1. PICK l \in {"raise", "headSlot"} : can' = [pc |-> l, id |-> activeId, slot |-> 0, all |-> TRUE]
    BY <1>6, Zenon DEF CancelActiveCall
  <2>2. l \in CanLabels
    BY DEF CanLabels
  <2> QED BY <1>0, <1>1, <1>3, <2>1, <2>2, Zenon
<1>7. CASE CancelScan
  <2>1. CASE can' = [can EXCEPT !.slot = can.slot + 1] /\ can.slot + 1 < QueueCap
    <3>1. can.slot + 1 \in Ring
      BY <1>0, <2>1, Numbers DEF CanRec, Ring
    <3> QED BY <1>0, <2>1, <3>1 DEF CanTypes, CanRec
  <2>2. CASE Can("setSlot") \/ Can("headSlot") \/ CanReturn
    BY <1>2, <1>4, <2>2 DEF CanLabels
  <2> QED BY <1>7, <2>1, <2>2, Zenon DEF CancelScan
<1>8. CASE CancelHeadSlot
  <2>1. CASE can' = [can EXCEPT !.pc = "setHead", !.slot = head % QueueCap]
    <3>1. "setHead" \in CanLabels
      BY DEF CanLabels
    <3> QED BY <1>0, <2>1, <3>1, Zenon DEF CanTypes, CanRec
  <2> QED BY <1>4, <1>8, <2>1, Zenon DEF CancelHeadSlot
<1>9. CASE CancelLoadActive \/ CancelSetFlag \/ CancelSetSlot \/ CancelRaise \/ CancelSetHead
  <2>1. CanReturn \/ \E l \in {"setFlag", "scan", "headSlot", "loadActive"} : Can(l)
    BY <1>9, Zenon DEF CancelLoadActive, CancelSetFlag, CancelSetSlot, CancelRaise, CancelSetHead
  <2>2. {"setFlag", "scan", "headSlot", "loadActive"} \subseteq CanLabels
    BY DEF CanLabels
  <2> QED BY <1>2, <1>4, <2>1, <2>2, Zenon
<1>10. CASE can' = can
  BY <1>0, <1>10 DEF CanTypes
<1> QED BY <1>5, <1>6, <1>7, <1>8, <1>9, <1>10, Writers, Zenon DEF CancelStep

\* HEAD, TAIL, NEXT_ID, PENDING_COUNT and the heap keep their types.
LEMMA StepNumTypes == ASSUME Types, [Next]_vars PROVE NumTypes'
<1>0. /\ head \in Nat /\ tail \in Nat /\ nextId \in Nat /\ nextId # 0 /\ pending \in Int
      /\ calls \in 0..MaxCalls /\ heap \in HeapLevels /\ MaxCalls \in Nat
  BY Numbers DEF Types, NumTypes
<1>1. CASE UNCHANGED <<head, tail, nextId, pending, calls>> /\ heap' \in HeapLevels
  BY <1>0, <1>1 DEF NumTypes
<1>2. CASE UNCHANGED vars \/ HeapChange \/ CancelStep
  <2>1. UNCHANGED <<head, tail, nextId, pending, calls>> /\ (heap' = heap \/ heap' \in HeapLevels)
    BY <1>2, Zenon DEF vars, queueVars, ghosts, HeapChange, CancelStep, CancelCall,
       CancelLoadActive, CancelSetFlag, CancelScan, CancelSetSlot, CancelActiveCall, CancelRaise,
       CancelHeadSlot, CancelSetHead
  <2> QED BY <1>0, <1>1, <2>1, Zenon
<1>3. ASSUME NEW s \in Submitters, SubmitCall(s) \/ SubmitStep(s) PROVE NumTypes'
  <2>1. CASE SubmitCall(s)
    <3>1. /\ calls < MaxCalls /\ calls' = calls + 1
          /\ UNCHANGED <<head, tail, nextId, pending, heap>>
      BY <2>1, Zenon DEF SubmitCall, queueVars
    <3> QED BY <1>0, <3>1 DEF NumTypes
  <2>2. CASE CasTail(s)
    <3>1. (tail' = tail + 1 \/ tail' = tail) /\ UNCHANGED <<head, nextId, pending, calls, heap>>
      BY <2>2, Zenon DEF CasTail, ghosts
    <3> QED BY <1>0, <3>1 DEF NumTypes
  <2>3. CASE TakeId(s)
    <3>1. nextId' = nextId + 1 /\ UNCHANGED <<head, tail, pending, calls, heap>>
      BY <2>3, Zenon DEF TakeId
    <3> QED BY <1>0, <3>1 DEF NumTypes
  <2>4. CASE CountPending(s)
    <3>1. pending' = pending + 1 /\ UNCHANGED <<head, tail, nextId, calls, heap>>
      BY <2>4, Zenon DEF CountPending, ghosts
    <3> QED BY <1>0, <3>1 DEF NumTypes
  <2>5. CASE LoadTail(s) \/ CheckFull(s) \/ PutPrompt(s) \/ ClearCancel(s) \/ PutId(s) \/ Publish(s)
    <3>1. UNCHANGED <<head, tail, nextId, pending, calls, heap>>
      BY <2>5, Zenon DEF LoadTail, CheckFull, PutPrompt, ClearCancel, PutId, Publish, queueVars, ghosts
    <3> QED BY <1>0, <1>1, <3>1, Zenon
  <2> QED BY <1>3, <2>1, <2>2, <2>3, <2>4, <2>5, Zenon DEF SubmitStep
<1>4. ASSUME NEW p \in Pollers, PollStep(p) \/ WatchdogAbort(p) PROVE NumTypes'
  <2>1. CASE ClaimHead(p)
    <3>1. (head' = head + 1 \/ head' = head) /\ UNCHANGED <<tail, nextId, pending, calls, heap>>
      BY <2>1, Zenon DEF ClaimHead, ghosts
    <3> QED BY <1>0, <3>1 DEF NumTypes
  <2>2. CASE UncountPending(p)
    <3>1. pending' = pending - 1 /\ UNCHANGED <<head, tail, nextId, calls, heap>>
      BY <2>2, Zenon DEF UncountPending, ghosts
    <3> QED BY <1>0, <3>1 DEF NumTypes
  <2>3. CASE ~ClaimHead(p) /\ ~UncountPending(p)
    <3>1. CASE ClaimStep(p)
      <4>1. UNCHANGED <<head, tail, nextId, pending, calls, heap>>
        BY <2>3, <3>1, Zenon DEF ClaimStep, SwapOccupied, LoadId, LoadCancel, TakePrompt, ClaimDecide,
           SetActiveId, ResetActiveCancel, SetActive, queueVars, ghosts
      <4> QED BY <1>0, <1>1, <4>1, Zenon
    <3>2. CASE ~ClaimStep(p)
      <4>1. UNCHANGED <<head, tail, nextId, pending, calls, heap>>
        BY <1>4, <3>2, Zenon DEF PollStep, SliceEnter, SliceCheck, SliceDrop, SliceWork, SliceCoarse,
           CoarseGenerated, FinishReply, FinishClearId, FinishClearCancel, SliceExit, WatchdogAbort,
           queueVars, ghosts
      <4> QED BY <1>0, <1>1, <4>1, Zenon
    <3> QED BY <3>1, <3>2
  <2> QED BY <2>1, <2>2, <2>3
<1> QED BY <1>2, <1>3, <1>4, Zenon DEF Next

\* ACTIVE, ACTIVE_ID, ACTIVE_CANCEL and SLICE_BUSY keep their types.
LEMMA StepActTypes == ASSUME Types, [Next]_vars PROVE ActTypes'
<1>0. active \in JobRec /\ activeId \in Nat /\ activeCancel \in BOOLEAN /\ busy \in BOOLEAN
  BY Zenon DEF Types, ActTypes
<1>1. ASSUME NEW p \in Pollers
      PROVE  pol[p].id \in Nat /\ pol[p].call \in 0..MaxCalls
  BY DEF Types, PolTypes, PolRec
<1>2. 0 \in Nat /\ TRUE \in BOOLEAN /\ FALSE \in BOOLEAN
  OBVIOUS
<1>3. NoJob \in JobRec
  BY Numbers DEF NoJob, JobRec
<1>4. active' \in JobRec
  <2>1. CASE active' = active \/ active' = NoJob
    BY <1>0, <1>3, <2>1, Zenon
  <2>2. ASSUME NEW p \in Pollers, SetActive(p) PROVE active' \in JobRec
    <3>1. PICK ph \in {"work", "coarse"} :
            active' = [id |-> pol[p].id, call |-> pol[p].call, phase |-> ph, left |-> MaxSlices]
      BY <2>2, Zenon DEF SetActive
    <3> QED BY <3>1, <1>1, Numbers DEF JobRec
  <2>3. ASSUME NEW p \in Pollers, SliceWork(p) PROVE active' \in JobRec
    <3>1. \/ active' = active
          \/ active.left > 0 /\ \E ph \in {"work", "coarse"} :
               active' = [active EXCEPT !.left = active.left - 1, !.phase = ph]
      BY <2>3, Zenon DEF SliceWork
    <3>2. active.left > 0 => active.left - 1 \in 0..MaxSlices
      BY <1>0, Numbers DEF JobRec
    <3>3. ASSUME NEW n \in 0..MaxSlices, NEW ph \in {"work", "coarse"},
                 active' = [active EXCEPT !.left = n, !.phase = ph]
          PROVE  active' \in JobRec
      BY <1>0, <3>3, Zenon DEF JobRec
    <3> QED BY <3>1, <3>2, <3>3, <1>0, Zenon
  <2>4. ASSUME NEW p \in Pollers, WatchdogAbort(p) PROVE active' \in JobRec
    <3>1. active' = [active EXCEPT !.phase = "idle"]
      BY <2>4, Zenon DEF WatchdogAbort
    <3> QED BY <3>1, <1>0 DEF JobRec
  <2>5. ASSUME NEW p \in Pollers, PollStep(p) PROVE active' \in JobRec
    <3>1. CASE ClaimStep(p)
      BY <2>1, <2>2, <3>1, Zenon DEF ClaimStep, ClaimHead, SwapOccupied, UncountPending, LoadId,
         LoadCancel, TakePrompt, ClaimDecide, SetActiveId, ResetActiveCancel, activeVars
    <3>2. CASE ~ClaimStep(p)
      BY <2>1, <2>3, <2>5, <3>2, Zenon DEF PollStep, SliceEnter, SliceCheck, SliceDrop, SliceCoarse,
         CoarseGenerated, FinishReply, FinishClearId, FinishClearCancel, SliceExit, activeVars
    <3> QED BY <3>1, <3>2
  <2>6. ASSUME NEW s \in Submitters, SubmitCall(s) \/ SubmitStep(s) PROVE active' \in JobRec
    BY <2>1, <2>6, Zenon DEF SubmitCall, SubmitStep, LoadTail, CheckFull, CasTail, TakeId, PutPrompt,
       ClearCancel, PutId, Publish, CountPending, activeVars
  <2>7. CASE UNCHANGED vars \/ HeapChange \/ CancelStep
    BY <2>1, <2>7, Zenon DEF vars, activeVars, HeapChange, CancelStep, CancelCall,
       CancelLoadActive, CancelSetFlag, CancelScan, CancelSetSlot, CancelActiveCall, CancelRaise,
       CancelHeadSlot, CancelSetHead
  <2> QED BY <2>4, <2>5, <2>6, <2>7, Zenon DEF Next
<1>5. activeId' \in Nat /\ activeCancel' \in BOOLEAN /\ busy' \in BOOLEAN
  <2>1. ASSUME NEW p \in Pollers, PollStep(p) \/ WatchdogAbort(p)
        PROVE  activeId' \in Nat /\ activeCancel' \in BOOLEAN /\ busy' \in BOOLEAN
    <3>1. CASE ClaimStep(p)
      BY <1>0, <1>1, <1>2, <3>1, Zenon DEF ClaimStep, ClaimHead, SwapOccupied, UncountPending, LoadId,
         LoadCancel, TakePrompt, ClaimDecide, SetActiveId, ResetActiveCancel, SetActive, activeVars
    <3>2. CASE ~ClaimStep(p)
      BY <1>0, <1>2, <2>1, <3>2, Zenon DEF PollStep, SliceEnter, SliceCheck, SliceDrop, SliceWork,
         SliceCoarse, CoarseGenerated, FinishReply, FinishClearId, FinishClearCancel, SliceExit,
         WatchdogAbort, activeVars
    <3> QED BY <3>1, <3>2
  <2>2. ASSUME NEW s \in Submitters, SubmitCall(s) \/ SubmitStep(s)
        PROVE  activeId' \in Nat /\ activeCancel' \in BOOLEAN /\ busy' \in BOOLEAN
    BY <1>0, <2>2, Zenon DEF SubmitCall, SubmitStep, LoadTail, CheckFull, CasTail, TakeId, PutPrompt,
       ClearCancel, PutId, Publish, CountPending, activeVars
  <2>3. CASE UNCHANGED vars \/ HeapChange \/ CancelStep
    BY <1>0, <1>2, <2>3, Zenon DEF vars, activeVars, HeapChange, CancelStep, CancelCall,
       CancelLoadActive, CancelSetFlag, CancelScan, CancelSetSlot, CancelActiveCall, CancelRaise,
       CancelHeadSlot, CancelSetHead
  <2> QED BY <2>1, <2>2, <2>3, Zenon DEF Next
<1> QED BY <1>4, <1>5, Zenon DEF ActTypes

\* The ids and the replies keep their types.
LEMMA StepCallTypes == ASSUME Types, [Next]_vars PROVE CallTypes'
<1>0. idOf \in [Calls -> Nat] /\ reply \in [0..MaxCalls -> Replies] /\ nextId \in Nat
  BY DEF Types, CallTypes, NumTypes
<1>1. ASSUME NEW c, NEW k \in Replies, EmitReply(c, k) PROVE reply' \in [0..MaxCalls -> Replies]
  <2>1. "again" \in Replies
    BY DEF Replies
  <2> QED BY <1>0, <1>1, <2>1, Zenon DEF EmitReply
<1>2. {"cancelled", "refused", "stopped"} \subseteq Replies /\ Kinds \subseteq Replies
  BY DEF Replies, Kinds
<1>3. \A p \in Pollers : pol[p].kind \in Kinds
  BY DEF Types, PolTypes, PolRec
<1>4. ASSUME NEW p \in Pollers, PollStep(p) \/ WatchdogAbort(p)
      PROVE  idOf' = idOf /\ reply' \in [0..MaxCalls -> Replies]
  <2>1. CASE ClaimStep(p)
    BY <1>0, <1>1, <1>2, <2>1, Zenon DEF ClaimStep, ClaimHead, SwapOccupied, UncountPending, LoadId,
       LoadCancel, TakePrompt, ClaimDecide, SetActiveId, ResetActiveCancel, SetActive, ghosts
  <2>2. CASE ~ClaimStep(p)
    BY <1>0, <1>1, <1>2, <1>3, <1>4, <2>2, Zenon DEF PollStep, SliceEnter, SliceCheck, SliceDrop,
       SliceWork, SliceCoarse, CoarseGenerated, FinishReply, FinishClearId, FinishClearCancel,
       SliceExit, WatchdogAbort, ghosts
  <2> QED BY <2>1, <2>2
<1>5. ASSUME NEW s \in Submitters, SubmitCall(s) \/ SubmitStep(s)
      PROVE  reply' = reply /\ idOf' \in [Calls -> Nat]
  <2>1. CASE TakeId(s)
    BY <1>0, <2>1, Zenon DEF TakeId
  <2>2. CASE ~TakeId(s)
    BY <1>0, <1>5, <2>2, Zenon DEF SubmitCall, SubmitStep, LoadTail, CheckFull, CasTail, PutPrompt,
       ClearCancel, PutId, Publish, CountPending, ghosts
  <2> QED BY <2>1, <2>2
<1>6. CASE UNCHANGED vars \/ HeapChange \/ CancelStep
  <2>1. UNCHANGED <<idOf, reply>>
    BY <1>6, Zenon DEF vars, ghosts, HeapChange, CancelStep, CancelCall, CancelLoadActive,
       CancelSetFlag, CancelScan, CancelSetSlot, CancelActiveCall, CancelRaise, CancelHeadSlot,
       CancelSetHead
  <2> QED BY <1>0, <2>1, Zenon DEF CallTypes
<1> QED BY <1>0, <1>4, <1>5, <1>6, Zenon DEF Next, CallTypes

\* Every step keeps the types.
LEMMA StepTypes == Types /\ [Next]_vars => Types'
  BY StepSubTypes, StepPolTypes, StepSlotTypes, StepCanTypes, StepNumTypes, StepActTypes,
     StepCallTypes, Zenon DEF Types

-----------------------------------------------------------------------------
(* The jobs. *)

\* Where a poller has the prompt of a job in hand, and where it works on ACTIVE.
Holding == {"decide", "setId", "resetCancel", "setActive"}
Clearing == {"clearId", "clearFlag"}
Running == {"generated", "reply"} \cup Clearing

\* A slice works on a job that runs, and a poller that has no prompt in hand has
\* none left from before.
RunInv ==
  \A p \in Pollers : /\ pol[p].pc \in Running => active.phase \in {"work", "coarse"}
                     /\ pol[p].pc \notin Holding => pol[p].call = 0
                     /\ pol[p].pc = "reply" => pol[p].kind # "none"

\* A step of the owner p.
LEMMA RunStep ==
  ASSUME RunInv, FlightInv, NEW p \in Pollers, NEW l, NEW i, NEW x, NEW c, NEW k,
         PolTo(p, l, i, x, c, k), pol[p].pc # "idle" \/ ~busy,
         l \in Running => active'.phase \in {"work", "coarse"},
         l \notin Holding => c = 0,
         l = "reply" => k # "none"
  PROVE  RunInv'
<1>1. \A q \in Pollers \ {p} : pol[q].pc = "idle" /\ pol'[q] = pol[q]
  BY Zenon DEF FlightInv, Latched, PolTo
<1>2. "idle" \notin Running /\ "idle" \notin Holding /\ "idle" # "reply"
  BY DEF Running, Holding, Clearing
<1>3. \A q \in Pollers \ {p} : pol'[q].call = 0
  BY <1>1, <1>2, Zenon DEF RunInv
<1> QED BY <1>1, <1>2, <1>3, Zenon DEF RunInv, PolTo

\* Every step keeps that.
LEMMA StepRun ==
  ASSUME Types, FlightInv, RunInv, [Next]_vars
  PROVE  RunInv'
<1>0. \A p \in Pollers : pol[p].pc \notin Holding => pol[p].call = 0
  BY Zenon DEF RunInv
<1>1. ASSUME NEW p \in Pollers, ClaimStep(p) PROVE RunInv'
  <2>1. CASE ClaimHead(p)
    <3>1. pol[p].pc = "claim" /\ \E l \in {"slice", "swap"} : PolGoes(p, l)
      BY <2>1, PolMoves, Zenon DEF ClaimHead
    <3> QED BY <3>1, <1>0, RunStep DEF PolGoes, Running, Clearing, Holding
  <2>2. CASE SwapOccupied(p) \/ UncountPending(p)
    <3>1. pol[p].pc \in {"swap", "uncount"} /\ \E l \in {"uncount", "loadId"} : PolGoes(p, l)
      BY <2>2, PolMoves, Zenon DEF SwapOccupied, UncountPending
    <3> QED BY <3>1, <1>0, RunStep DEF PolGoes, Running, Clearing, Holding
  <2>3. CASE LoadId(p) \/ LoadCancel(p)
    <3>1. pol[p].pc \in {"loadId", "loadCancel"}
          /\ \E l \in {"loadCancel", "takePrompt"} : \E i, x : PolTo(p, l, i, x, pol[p].call, pol[p].kind)
      BY <2>3, PolMoves, Zenon DEF LoadId, LoadCancel
    <3> QED BY <3>1, <1>0, RunStep DEF Running, Clearing, Holding
  <2>4. CASE TakePrompt(p)
    <3>1. pol[p].pc = "takePrompt"
          /\ PolTo(p, "decide", pol[p].id, pol[p].cancelled, slots[Claimed].call, pol[p].kind)
      BY <2>4, PolMoves, Zenon DEF TakePrompt
    <3> QED BY <3>1, RunStep DEF Running, Clearing, Holding
  <2>5. CASE ClaimDecide(p)
    <3>1. pol[p].pc = "decide" /\ (PolReset(p, "claim") \/ PolGoes(p, "setId"))
      BY <2>5, PolMoves, Zenon DEF ClaimDecide
    <3> QED BY <3>1, RunStep, Zenon DEF PolGoes, PolReset, Running, Clearing, Holding
  <2>6. CASE SetActiveId(p) \/ ResetActiveCancel(p)
    <3>1. pol[p].pc \in {"setId", "resetCancel"}
          /\ \E l \in {"resetCancel", "setActive"} : PolGoes(p, l)
      BY <2>6, PolMoves, Zenon DEF SetActiveId, ResetActiveCancel
    <3> QED BY <3>1, RunStep DEF PolGoes, Running, Clearing, Holding
  <2>7. CASE SetActive(p)
    <3>1. pol[p].pc = "setActive" /\ PolReset(p, "slice")
      BY <2>7, PolMoves, Zenon DEF SetActive
    <3> QED BY <3>1, RunStep, Zenon DEF PolReset, Running, Clearing, Holding
  <2> QED BY <1>1, <2>1, <2>2, <2>3, <2>4, <2>5, <2>6, <2>7, Zenon DEF ClaimStep
<1>2. ASSUME NEW p \in Pollers, SliceEnter(p) \/ SliceCheck(p) \/ SliceDrop(p) PROVE RunInv'
  <2>1. /\ pol[p].pc \in {"idle", "check", "slice"} /\ (pol[p].pc = "idle" => ~busy)
        /\ \E l \in {"check", "claim", "slice", "exit"} : PolGoes(p, l)
    BY <1>2, PolMoves, SliceMoves, Zenon DEF SliceEnter, SliceCheck, SliceDrop
  <2> QED BY <2>1, <1>0, RunStep DEF PolGoes, Running, Clearing, Holding
<1>3. ASSUME NEW p \in Pollers, SliceWork(p) \/ SliceCoarse(p) PROVE RunInv'
  <2>1. /\ pol[p].pc = "slice" /\ active.phase \in {"work", "coarse"}
        /\ \/ active' = active /\ (PolFinish(p) \/ PolGoes(p, "generated"))
           \/ PolGoes(p, "exit")
    BY <1>3, SliceMoves, Zenon DEF SliceWork, SliceCoarse, activeVars
  <2> QED BY <2>1, <1>0, RunStep DEF PolGoes, PolFinish, Running, Clearing, Holding
<1>4. ASSUME NEW p \in Pollers, CoarseGenerated(p) PROVE RunInv'
  <2>1. pol[p].pc = "generated" /\ active' = active /\ PolFinish(p)
    BY <1>4, SliceMoves, Zenon DEF CoarseGenerated, activeVars
  <2>2. active.phase \in {"work", "coarse"}
    BY <2>1 DEF RunInv, Running
  <2> QED BY <2>1, <2>2, <1>0, RunStep DEF PolFinish, Running, Clearing, Holding
<1>5. ASSUME NEW p \in Pollers, FinishReply(p) \/ FinishClearId(p) PROVE RunInv'
  <2>1. /\ pol[p].pc \in {"reply", "clearId"} /\ active' = active
        /\ \E l \in {"clearId", "clearFlag"} : PolGoes(p, l)
    BY <1>5, SliceMoves, Zenon DEF FinishReply, FinishClearId, activeVars
  <2>2. active.phase \in {"work", "coarse"}
    BY <2>1 DEF RunInv, Running, Clearing
  <2> QED BY <2>1, <2>2, <1>0, RunStep DEF PolGoes, Running, Clearing, Holding
<1>6. ASSUME NEW p \in Pollers, FinishClearCancel(p) \/ SliceExit(p) PROVE RunInv'
  <2>1. pol[p].pc \in {"clearFlag", "exit"} /\ (PolGoes(p, "exit") \/ PolReset(p, "idle"))
    BY <1>6, SliceMoves, Zenon DEF FinishClearCancel, SliceExit
  <2> QED BY <2>1, <1>0, RunStep, Zenon DEF PolGoes, PolReset, Running, Clearing, Holding
<1>7. ASSUME NEW p \in Pollers, WatchdogAbort(p) PROVE RunInv'
  <2>1. pol' = pol /\ \E q \in Pollers : pol[q].pc \in {"check", "slice", "exit"}
    BY <1>7, Zenon DEF WatchdogAbort
  <2>2. \A q \in Pollers : pol[q].pc \notin Running
    BY <2>1 DEF FlightInv, Latched, Running, Clearing
  <2> QED BY <2>1, <2>2, Zenon DEF RunInv
<1>8. ASSUME NEW s \in Submitters, SubmitCall(s) \/ SubmitStep(s) PROVE RunInv'
  <2>1. UNCHANGED <<pol, active>>
    BY <1>8, Zenon DEF SubmitCall, SubmitStep, LoadTail, CheckFull, CasTail, TakeId, PutPrompt,
       ClearCancel, PutId, Publish, CountPending, activeVars
  <2> QED BY <2>1, Zenon DEF RunInv
<1>9. CASE UNCHANGED vars \/ HeapChange \/ CancelStep
  <2>1. UNCHANGED <<pol, active>>
    BY <1>9, Zenon DEF vars, activeVars, HeapChange, CancelStep, CancelCall, CancelLoadActive,
       CancelSetFlag, CancelScan, CancelSetSlot, CancelActiveCall, CancelRaise, CancelHeadSlot,
       CancelSetHead
  <2> QED BY <2>1, Zenon DEF RunInv
<1> QED BY <1>1, <1>2, <1>3, <1>4, <1>5, <1>6, <1>7, <1>8, <1>9, Zenon DEF Next, PollStep

\* The canceller and the heap change nothing but flags; submitters leave the pollers alone.
LEMMA Background ==
  ASSUME UNCHANGED vars \/ HeapChange \/ CancelStep
  PROVE  /\ UNCHANGED <<head, tail, nextId, pending, active, busy, sub, pol, calls, idOf, reply>>
         /\ slots' = slots \/ CancelSetSlot \/ CancelSetHead
  BY Zenon DEF vars, queueVars, activeVars, ghosts, HeapChange, CancelStep, CancelCall,
     CancelLoadActive, CancelSetFlag, CancelScan, CancelSetSlot, CancelActiveCall, CancelRaise,
     CancelHeadSlot, CancelSetHead

\* Submitters leave the pollers, ACTIVE and the replies alone.
LEMMA SubmitFrame ==
  ASSUME NEW s \in Submitters, SubmitCall(s) \/ SubmitStep(s)
  PROVE  UNCHANGED <<head, active, busy, pol, reply>>
  BY Zenon DEF SubmitCall, SubmitStep, LoadTail, CheckFull, CasTail, TakeId, PutPrompt,
     ClearCancel, PutId, Publish, CountPending, queueVars, activeVars, ghosts

-----------------------------------------------------------------------------
(* Where the jobs are. *)

\* The job a submitter has not yet put into its slot, and the active job that
\* has not been answered.
SubJob(s) == IF sub[s].pc \in Carrying THEN sub[s].call ELSE 0
ActJob == IF active.phase \in {"work", "coarse"} /\ \A p \in Pollers : pol[p].pc \notin Clearing
          THEN active.call ELSE 0

\* The places a job can be in, and the job in each (0: none).
ActPlace == <<"active", "active">>
Places == ({"sub"} \X Submitters) \cup ({"slot"} \X Ring) \cup ({"pol"} \X Pollers) \cup {ActPlace}

job == [x \in Places |-> IF x[1] = "sub" THEN SubJob(x[2])
                         ELSE IF x[1] = "slot" THEN slots[x[2]].call
                         ELSE IF x[1] = "pol" THEN pol[x[2]].call ELSE ActJob]

\* The job in each place, before and after a step.
LEMMA JobAt ==
  /\ \A s \in Submitters : <<"sub", s>> \in Places /\ job[<<"sub", s>>] = SubJob(s)
                           /\ job'[<<"sub", s>>] = SubJob(s)'
  /\ \A i \in Ring : <<"slot", i>> \in Places /\ job[<<"slot", i>>] = slots[i].call
                     /\ job'[<<"slot", i>>] = slots'[i].call
  /\ \A p \in Pollers : <<"pol", p>> \in Places /\ job[<<"pol", p>>] = pol[p].call
                        /\ job'[<<"pol", p>>] = pol'[p].call
  /\ ActPlace \in Places /\ job[ActPlace] = ActJob /\ job'[ActPlace] = ActJob'
<1>1. \A s \in Submitters : <<"sub", s>> \in Places /\ job[<<"sub", s>>] = SubJob(s)
                            /\ job'[<<"sub", s>>] = SubJob(s)'
  BY DEF Places, job
<1>2. \A i \in Ring : <<"slot", i>> \in Places /\ job[<<"slot", i>>] = slots[i].call
                      /\ job'[<<"slot", i>>] = slots'[i].call
  BY DEF Places, job
<1>3. \A p \in Pollers : <<"pol", p>> \in Places /\ job[<<"pol", p>>] = pol[p].call
                         /\ job'[<<"pol", p>>] = pol'[p].call
  BY DEF Places, job
<1>4. ActPlace \in Places /\ job[ActPlace] = ActJob /\ job'[ActPlace] = ActJob'
  BY DEF Places, job, ActPlace
<1> QED BY <1>1, <1>2, <1>3, <1>4

\* A step that changes the jobs only in the places X.
Elsewhere(X) == \A z \in Places \ X : job'[z] = job[z]

\* A step changes only the places X when it keeps the registers of the others.
LEMMA Others ==
  ASSUME NEW X,
         \A s \in Submitters : <<"sub", s>> \in X \/ SubJob(s)' = SubJob(s),
         \A i \in Ring : <<"slot", i>> \in X \/ slots'[i].call = slots[i].call,
         \A p \in Pollers : <<"pol", p>> \in X \/ pol'[p].call = pol[p].call,
         ActPlace \in X \/ ActJob' = ActJob
  PROVE  Elsewhere(X)
<1> SUFFICES ASSUME NEW z \in Places \ X PROVE job'[z] = job[z]
  BY DEF Elsewhere
<1>1. \/ \E s \in Submitters : z = <<"sub", s>>
      \/ \E i \in Ring : z = <<"slot", i>>
      \/ \E p \in Pollers : z = <<"pol", p>>
      \/ z = ActPlace
  BY DEF Places
<1> QED BY <1>1, JobAt, ZenonT(40)

\* What a step can do to the jobs: a call begins, a job moves on, is answered or is dropped.
JobKeeps == Elsewhere({}) /\ UNCHANGED <<calls, reply>>
JobRefused == Elsewhere({}) /\ calls' = calls + 1 /\ calls < MaxCalls /\ reply' = reply
JobBegins(x) == /\ job'[x] = calls + 1 /\ job[x] = 0 /\ Elsewhere({x})
                /\ calls' = calls + 1 /\ calls < MaxCalls /\ reply' = reply
JobMoves(x, y) == /\ x # y /\ job'[y] = job[x] /\ job'[x] = 0 /\ Elsewhere({x, y})
                  /\ UNCHANGED <<calls, reply>>
JobReplies(x) == /\ \E k \in Replies \ {"none", "again"} : EmitReply(job[x], k)
                 /\ job'[x] = 0 /\ Elsewhere({x}) /\ calls' = calls
JobDrops(x) == job'[x] = 0 /\ Elsewhere({x}) /\ UNCHANGED <<calls, reply>>

\* ACTIVE keeps its job while nobody starts or ends the clean-up after the reply.
LEMMA ActKept ==
  ASSUME UNCHANGED <<active, pol>> \/
         \E p \in Pollers :
            /\ \A q \in Pollers \ {p} : pol'[q] = pol[q]
            /\ pol[p].pc \in Clearing <=> pol'[p].pc \in Clearing
            /\ active'.call = active.call
            /\ active.phase \in {"work", "coarse"} <=> active'.phase \in {"work", "coarse"}
  PROVE  ActJob' = ActJob
<1>1. CASE UNCHANGED <<active, pol>>
  BY <1>1, Zenon DEF ActJob
<1>2. ASSUME NEW p \in Pollers,
             \A q \in Pollers \ {p} : pol'[q] = pol[q],
             pol[p].pc \in Clearing <=> pol'[p].pc \in Clearing,
             active'.call = active.call,
             active.phase \in {"work", "coarse"} <=> active'.phase \in {"work", "coarse"}
      PROVE  ActJob' = ActJob
  <2>1. (\A q \in Pollers : pol[q].pc \notin Clearing)
        <=> (\A q \in Pollers : pol'[q].pc \notin Clearing)
    BY <1>2, Zenon
  <2> QED BY <1>2, <2>1, Zenon DEF ActJob
<1> QED BY <1>1, <1>2, Zenon

\* Submitters.
LEMMA SubmitJobs ==
  ASSUME Types, NEW s \in Submitters, SubmitCall(s) \/ SubmitStep(s)
  PROVE  \/ JobKeeps \/ JobRefused
         \/ JobBegins(<<"sub", s>>)
         \/ JobMoves(<<"sub", s>>, <<"slot", sub[s].t % QueueCap>>) /\ PutPrompt(s)
         \/ JobDrops(<<"sub", s>>) /\ CheckFull(s)
<1>0. UNCHANGED <<pol, active, reply>> /\ ActJob' = ActJob
  <2>1. UNCHANGED <<pol, active, reply>>
    BY SubmitFrame, Zenon
  <2> QED BY <2>1, ActKept, Zenon
<1>1. ASSUME NEW l, NEW c, NEW t, NEW i, SubTo(s, l, c, t, i),
             \A j \in Ring : slots'[j].call = slots[j].call
      PROVE  Elsewhere({<<"sub", s>>}) /\ job'[<<"sub", s>>] = IF l \in Carrying THEN c ELSE 0
  <2>1. \A r \in Submitters \ {s} : SubJob(r)' = SubJob(r)
    BY <1>1, Zenon DEF SubTo, SubJob
  <2>2. SubJob(s)' = IF l \in Carrying THEN c ELSE 0
    BY <1>1, Zenon DEF SubTo, SubJob
  <2>3. Elsewhere({<<"sub", s>>})
    BY <1>0, <1>1, <2>1, Others, Zenon
  <2> QED BY <2>2, <2>3, JobAt, Zenon
<1>2. ASSUME NEW l, NEW c, NEW t, NEW i, SubTo(s, l, c, t, i), calls' = calls,
             \A j \in Ring : slots'[j].call = slots[j].call,
             SubJob(s) = IF l \in Carrying THEN c ELSE 0
      PROVE  JobKeeps
  BY <1>0, <1>1, <1>2, JobAt, ZenonT(40) DEF JobKeeps, Elsewhere
<1>3. ASSUME sub' = sub, slots' = slots PROVE Elsewhere({})
  <2>1. \A r \in Submitters : SubJob(r)' = SubJob(r)
    BY <1>3, Zenon DEF SubJob
  <2> QED BY <1>0, <1>3, <2>1, Others, Zenon
<1>4. CASE SubmitCall(s)
  <2>1. /\ slots' = slots /\ calls' = calls + 1 /\ calls < MaxCalls /\ sub[s].pc = "idle"
    BY <1>4, Zenon DEF SubmitCall, queueVars
  <2>2. SubJob(s) = 0 /\ "loadTail" \in Carrying
    BY <2>1 DEF SubJob, Carrying
  <2>3. CASE sub' = sub
    BY <1>0, <1>3, <2>1, <2>3, Zenon DEF JobRefused
  <2>4. CASE SubTo(s, "loadTail", calls + 1, sub[s].t, sub[s].id)
    BY <1>0, <1>1, <2>1, <2>2, <2>4, JobAt, Zenon DEF JobBegins
  <2> QED BY <1>4, <2>3, <2>4, SubMoves, Zenon
<1>5. CASE LoadTail(s) \/ CasTail(s) \/ TakeId(s)
  <2>1. slots' = slots /\ calls' = calls /\ sub[s].pc \in Carrying
    BY <1>5, Zenon DEF LoadTail, CasTail, TakeId, queueVars, ghosts, Carrying
  <2>2. \E l \in Carrying : \E t, i : SubTo(s, l, sub[s].call, t, i)
    <3>1. {"checkFull", "takeId", "loadTail", "putPrompt"} \subseteq Carrying
      BY DEF Carrying
    <3> QED BY <1>5, <3>1, SubMoves, Zenon
  <2> QED BY <1>2, <2>1, <2>2, Zenon DEF SubJob
<1>6. CASE CheckFull(s)
  <2>1. slots' = slots /\ calls' = calls /\ sub[s].pc \in Carrying
    BY <1>6, Zenon DEF CheckFull, queueVars, ghosts, Carrying
  <2>2. "casTail" \in Carrying /\ "idle" \notin Carrying
    BY DEF Carrying
  <2>3. CASE SubTo(s, "casTail", sub[s].call, sub[s].t, sub[s].id)
    BY <1>2, <2>1, <2>2, <2>3, Zenon DEF SubJob
  <2>4. CASE SubTo(s, "idle", 0, 0, 0)
    BY <1>0, <1>1, <1>6, <2>1, <2>2, <2>4, Zenon DEF JobDrops
  <2> QED BY <1>6, <2>3, <2>4, SubMoves, Zenon
<1>7. CASE PutPrompt(s)
  <2> DEFINE j == sub[s].t % QueueCap
  <2>1. /\ calls' = calls /\ sub[s].pc \in Carrying /\ "clearCancel" \notin Carrying
    BY <1>7, Zenon DEF PutPrompt, ghosts, Carrying
  <2>2. SubTo(s, "clearCancel", sub[s].call, sub[s].t, sub[s].id)
    BY <1>7, SubMoves, Zenon
  <2>3. SlotTo(j, slots[j].occupied, slots[j].id, slots[j].cancel, sub[s].call)
    BY <1>7, SlotMoves, Zenon
  <2>4. j \in Ring
    BY Numbers DEF Types, SubTypes, SubRec
  <2> HIDE DEF j
  <2>5. \A r \in Submitters \ {s} : SubJob(r)' = SubJob(r)
    BY <2>2, Zenon DEF SubTo, SubJob
  <2>6. SubJob(s)' = 0 /\ SubJob(s) = sub[s].call
    BY <2>1, <2>2, Zenon DEF SubTo, SubJob
  <2>7. slots'[j].call = sub[s].call /\ \A i \in Ring \ {j} : slots'[i].call = slots[i].call
    BY <2>3, Zenon DEF SlotTo
  <2>8. Elsewhere({<<"sub", s>>, <<"slot", j>>})
    BY <1>0, <2>5, <2>7, Others, Zenon
  <2>9. <<"sub", s>> # <<"slot", j>>
    OBVIOUS
  <2>10. JobMoves(<<"sub", s>>, <<"slot", j>>)
    BY <1>0, <2>1, <2>4, <2>6, <2>7, <2>8, <2>9, JobAt, Zenon DEF JobMoves
  <2> QED BY <1>7, <2>10 DEF j
<1>8. CASE ClearCancel(s) \/ PutId(s) \/ Publish(s) \/ CountPending(s)
  <2>1. calls' = calls /\ sub[s].pc \notin Carrying
    BY <1>8 DEF ClearCancel, PutId, Publish, CountPending, ghosts, Carrying
  <2>2. \A i \in Ring : slots'[i].call = slots[i].call
    <3>1. CASE slots' = slots
      BY <3>1, Zenon
    <3>2. CASE ClearCancel(s) \/ PutId(s) \/ Publish(s)
      BY <3>2, SlotMoves, Zenon DEF SlotTo
    <3> QED BY <1>8, <3>1, <3>2, Zenon DEF CountPending
  <2>3. \E l \in {"putId", "publish", "count", "idle"} : \E c, t, i : SubTo(s, l, c, t, i)
    BY <1>8, SubMoves, Zenon
  <2>4. \A l \in {"putId", "publish", "count", "idle"} : l \notin Carrying
    BY DEF Carrying
  <2> QED BY <1>2, <2>1, <2>2, <2>3, <2>4, Zenon DEF SubJob
<1> QED BY <1>4, <1>5, <1>6, <1>7, <1>8, Zenon DEF SubmitStep

\* Pollers and the watchdog leave the submitters and their ids alone.
LEMMA PollFrame ==
  ASSUME NEW p \in Pollers, PollStep(p) \/ WatchdogAbort(p)
  PROVE  UNCHANGED <<tail, nextId, sub, calls, idOf>>
<1>1. CASE ClaimStep(p)
  BY <1>1, Zenon DEF ClaimStep, ClaimHead, SwapOccupied, UncountPending, LoadId, LoadCancel,
     TakePrompt, ClaimDecide, SetActiveId, ResetActiveCancel, SetActive, queueVars, ghosts
<1>2. CASE ~ClaimStep(p)
  BY <1>2, Zenon DEF PollStep, SliceEnter, SliceCheck, SliceDrop, SliceWork, SliceCoarse,
     CoarseGenerated, FinishReply, FinishClearId, FinishClearCancel, SliceExit, WatchdogAbort,
     queueVars, ghosts
<1> QED BY <1>1, <1>2

\* Pollers and the watchdog.
LEMMA PollJobs ==
  ASSUME Types, FlightInv, RunInv, NEW p \in Pollers, PollStep(p) \/ WatchdogAbort(p)
  PROVE  \/ JobKeeps
         \/ JobMoves(<<"slot", Claimed>>, <<"pol", p>>) /\ TakePrompt(p)
         \/ JobMoves(<<"pol", p>>, ActPlace) /\ SetActive(p)
         \/ JobReplies(<<"pol", p>>) \/ JobReplies(ActPlace)
         \/ JobDrops(ActPlace) /\ SliceDrop(p)
<1>0. calls' = calls /\ \A s \in Submitters : SubJob(s)' = SubJob(s)
  BY PollFrame, Zenon DEF SubJob
<1>1. ASSUME NEW l, NEW i, NEW x, NEW c, NEW k, PolTo(p, l, i, x, c, k), c = pol[p].call,
             \A j \in Ring : slots'[j].call = slots[j].call, reply' = reply,
             pol[p].pc \in Clearing <=> l \in Clearing,
             active'.call = active.call,
             active.phase \in {"work", "coarse"} <=> active'.phase \in {"work", "coarse"}
      PROVE  JobKeeps
  <2>1. pol'[p].pc = l /\ \A q \in Pollers \ {p} : pol'[q] = pol[q]
    BY <1>1, Zenon DEF PolTo
  <2>2. ActJob' = ActJob
    BY <1>1, <2>1, ActKept, Zenon
  <2>3. \A q \in Pollers : pol'[q].call = pol[q].call
    BY <1>1, Zenon DEF PolTo
  <2>4. Elsewhere({})
    BY <1>0, <1>1, <2>2, <2>3, Others, Zenon
  <2> QED BY <1>0, <1>1, <2>4, Zenon DEF JobKeeps
<1>2. \A q \in Pollers : pol[q].pc \notin Holding => pol[q].call = 0
  BY Zenon DEF RunInv
<1>3. CASE SliceEnter(p) \/ SliceCheck(p) \/ ClaimHead(p) \/ UncountPending(p) \/ SetActiveId(p)
           \/ ResetActiveCancel(p) \/ SliceCoarse(p) \/ CoarseGenerated(p)
  <2>1. UNCHANGED <<active, slots, reply>>
    BY <1>3, Zenon DEF SliceEnter, SliceCheck, ClaimHead, UncountPending, SetActiveId,
       ResetActiveCancel, SliceCoarse, CoarseGenerated, queueVars, activeVars, ghosts
  <2>2. pol[p].pc \notin Clearing
    BY <1>3 DEF SliceEnter, SliceCheck, ClaimHead, UncountPending, SetActiveId,
       ResetActiveCancel, SliceCoarse, CoarseGenerated, Clearing
  <2>3. \E l \in {"check", "slice", "claim", "swap", "loadId", "resetCancel", "setActive",
                  "generated", "reply"} : \E i, x, k : PolTo(p, l, i, x, pol[p].call, k)
    BY <1>3, PolMoves, SliceMoves, Zenon DEF PolGoes, PolFinish
  <2>4. \A l \in {"check", "slice", "claim", "swap", "loadId", "resetCancel", "setActive",
                  "generated", "reply"} : l \notin Clearing
    BY DEF Clearing
  <2> QED BY <1>1, <2>1, <2>2, <2>3, <2>4, Zenon
<1>4. CASE SwapOccupied(p) \/ LoadId(p) \/ LoadCancel(p)
  <2>1. UNCHANGED <<active, reply>> /\ pol[p].pc \notin Clearing
    BY <1>4 DEF SwapOccupied, LoadId, LoadCancel, activeVars, ghosts, Clearing
  <2>2. \A j \in Ring : slots'[j].call = slots[j].call
    <3>1. CASE slots' = slots
      BY <3>1, Zenon
    <3>2. CASE SwapOccupied(p)
      BY <3>2, SlotMoves, Zenon DEF SlotTo
    <3> QED BY <1>4, <3>1, <3>2, Zenon DEF LoadId, LoadCancel, queueVars
  <2>3. \E l \in {"uncount", "loadCancel", "takePrompt"} : \E i, x, k : PolTo(p, l, i, x, pol[p].call, k)
    BY <1>4, PolMoves, Zenon DEF PolGoes
  <2>4. \A l \in {"uncount", "loadCancel", "takePrompt"} : l \notin Clearing
    BY DEF Clearing
  <2> QED BY <1>1, <2>1, <2>2, <2>3, <2>4, Zenon
<1>5. CASE TakePrompt(p)
  <2> DEFINE j == Claimed
  <2>1. UNCHANGED <<active, reply>> /\ pol[p].pc \notin Clearing /\ "decide" \notin Clearing
    BY <1>5 DEF TakePrompt, activeVars, ghosts, Clearing
  <2>2. PolTo(p, "decide", pol[p].id, pol[p].cancelled, slots[j].call, pol[p].kind)
    BY <1>5, PolMoves, Zenon
  <2>3. SlotTo(j, slots[j].occupied, slots[j].id, slots[j].cancel, 0)
    BY <1>5, SlotMoves, Zenon
  <2>4. j \in Ring
    BY Numbers DEF Types, NumTypes, Claimed
  <2> HIDE DEF j
  <2>5. ActJob' = ActJob
    BY <2>1, <2>2, ActKept, Zenon DEF PolTo
  <2>6. pol'[p].call = slots[j].call /\ \A q \in Pollers \ {p} : pol'[q].call = pol[q].call
    BY <2>2, Zenon DEF PolTo
  <2>7. slots'[j].call = 0 /\ \A i \in Ring \ {j} : slots'[i].call = slots[i].call
    BY <2>3, Zenon DEF SlotTo
  <2>8. Elsewhere({<<"slot", j>>, <<"pol", p>>})
    BY <1>0, <2>5, <2>6, <2>7, Others, Zenon
  <2>9. <<"slot", j>> # <<"pol", p>>
    OBVIOUS
  <2>10. JobMoves(<<"slot", j>>, <<"pol", p>>)
    BY <1>0, <2>1, <2>4, <2>6, <2>7, <2>8, <2>9, JobAt, Zenon DEF JobMoves
  <2> QED BY <1>5, <2>10 DEF j
<1>6. CASE ClaimDecide(p)
  <2>1. UNCHANGED <<active, slots>> /\ pol[p].pc \notin Clearing
        /\ "claim" \notin Clearing /\ "setId" \notin Clearing
    BY <1>6 DEF ClaimDecide, queueVars, activeVars, Clearing
  <2>2. CASE reply' = reply /\ PolGoes(p, "setId")
    BY <1>1, <2>1, <2>2, Zenon DEF PolGoes
  <2>3. CASE (\E k \in {"cancelled", "refused"} : EmitReply(pol[p].call, k)) /\ PolReset(p, "claim")
    <3>1. ActJob' = ActJob
      BY <2>1, <2>3, ActKept, Zenon DEF PolReset, PolTo
    <3>2. pol'[p].call = 0 /\ \A q \in Pollers \ {p} : pol'[q].call = pol[q].call
      BY <2>3, Zenon DEF PolReset, PolTo
    <3>3. Elsewhere({<<"pol", p>>})
      BY <1>0, <2>1, <3>1, <3>2, Others, Zenon
    <3>4. {"cancelled", "refused"} \subseteq Replies \ {"none", "again"}
      BY DEF Replies, Kinds
    <3> QED BY <1>0, <2>3, <3>2, <3>3, <3>4, JobAt, Zenon DEF JobReplies
  <2> QED BY <1>6, <2>2, <2>3, PolMoves, Zenon
<1>7. CASE SetActive(p)
  <2>1. UNCHANGED <<slots, reply>> /\ pol[p].pc = "setActive"
    BY <1>7, Zenon DEF SetActive, queueVars, ghosts
  <2>2. active'.call = pol[p].call /\ active'.phase \in {"work", "coarse"}
    BY <1>7 DEF SetActive
  <2>3. PolReset(p, "slice")
    BY <1>7, PolMoves, Zenon
  <2>4. \A q \in Pollers \ {p} : pol[q].pc = "idle" /\ pol'[q] = pol[q]
    BY <2>1, <2>3 DEF FlightInv, Latched, PolReset, PolTo
  <2>5. \A q \in Pollers : pol'[q].pc \notin Clearing
    BY <2>3, <2>4 DEF PolReset, PolTo, Clearing
  <2>6. ActJob' = pol[p].call
    BY <2>2, <2>5, Zenon DEF ActJob
  <2>7. pol'[p].call = 0 /\ \A q \in Pollers \ {p} : pol'[q].call = pol[q].call
    BY <2>3, <2>4, Zenon DEF PolReset, PolTo
  <2>8. Elsewhere({<<"pol", p>>, ActPlace})
    BY <1>0, <2>1, <2>7, Others, Zenon
  <2>9. <<"pol", p>> # ActPlace
    BY DEF ActPlace
  <2>10. JobMoves(<<"pol", p>>, ActPlace)
    BY <1>0, <2>1, <2>6, <2>7, <2>8, <2>9, JobAt, Zenon DEF JobMoves
  <2> QED BY <1>7, <2>10
<1>8. CASE SliceDrop(p)
  <2>1. UNCHANGED <<slots, reply>> /\ active' = NoJob
    BY <1>8, Zenon DEF SliceDrop, queueVars, ghosts
  <2>2. ActJob' = 0
    BY <2>1 DEF ActJob, NoJob
  <2>3. \A q \in Pollers : pol'[q].call = pol[q].call
    BY <1>8, SliceMoves, Zenon DEF PolGoes, PolTo
  <2>4. Elsewhere({ActPlace})
    BY <1>0, <2>1, <2>3, Others, Zenon
  <2> QED BY <1>0, <1>8, <2>1, <2>2, <2>4, JobAt, Zenon DEF JobDrops
<1>9. CASE SliceWork(p)
  <2>1. UNCHANGED <<slots, reply>> /\ pol[p].pc = "slice" /\ active.phase = "work"
    BY <1>9, Zenon DEF SliceWork, queueVars, ghosts
  <2>2. active'.call = active.call /\ active'.phase \in {"work", "coarse"}
    <3>1. CASE active' = active
      BY <2>1, <3>1
    <3>2. ASSUME NEW ph \in {"work", "coarse"},
                 active' = [active EXCEPT !.left = active.left - 1, !.phase = ph]
          PROVE  active'.call = active.call /\ active'.phase \in {"work", "coarse"}
      BY <3>2 DEF Types, ActTypes, JobRec
    <3> QED BY <1>9, <3>1, <3>2, Zenon DEF SliceWork
  <2>3. \E l \in {"reply", "exit"} : \E k : PolTo(p, l, pol[p].id, pol[p].cancelled, pol[p].call, k)
    BY <1>9, SliceMoves, Zenon DEF PolGoes, PolFinish
  <2>4. {"slice", "reply", "exit"} \cap Clearing = {}
    BY DEF Clearing
  <2>5. pol[p].pc \notin Clearing /\ \A l \in {"reply", "exit"} : l \notin Clearing
    BY <2>1, <2>4
  <2>6. active.phase \in {"work", "coarse"}
    BY <2>1
  <2> QED BY <1>1, <2>1, <2>2, <2>3, <2>5, <2>6, Zenon
<1>10. CASE FinishReply(p)
  <2>1. UNCHANGED <<slots, active>> /\ pol[p].pc = "reply" /\ EmitReply(active.call, pol[p].kind)
    BY <1>10, Zenon DEF FinishReply, queueVars, activeVars
  <2>2. PolGoes(p, "clearId")
    BY <1>10, SliceMoves, Zenon
  <2>3. \A q \in Pollers : pol[q].pc \notin Clearing
    BY <2>1 DEF FlightInv, Latched, Clearing
  <2>4. active.phase \in {"work", "coarse"} /\ pol[p].kind # "none"
    BY <2>1 DEF RunInv, Running
  <2>5. ActJob = active.call
    BY <2>3, <2>4, Zenon DEF ActJob
  <2>6. pol'[p].pc \in Clearing
    BY <2>2 DEF PolGoes, PolTo, Clearing
  <2>7. ActJob' = 0
    BY <2>6, Zenon DEF ActJob
  <2>8. \A q \in Pollers : pol'[q].call = pol[q].call
    BY <2>2, Zenon DEF PolGoes, PolTo
  <2>9. Elsewhere({ActPlace})
    BY <1>0, <2>1, <2>8, Others, Zenon
  <2>10. pol[p].kind \in Replies \ {"none", "again"}
    BY <2>4 DEF Types, PolTypes, PolRec, Kinds, Replies
  <2> QED BY <1>0, <2>1, <2>5, <2>7, <2>9, <2>10, JobAt, Zenon DEF JobReplies
<1>11. CASE FinishClearId(p)
  <2>1. UNCHANGED <<slots, active, reply>> /\ pol[p].pc = "clearId" /\ PolGoes(p, "clearFlag")
    BY <1>11, SliceMoves, Zenon DEF FinishClearId, queueVars, ghosts
  <2>2. "clearId" \in Clearing /\ "clearFlag" \in Clearing
    BY DEF Clearing
  <2> QED BY <1>1, <2>1, <2>2, Zenon DEF PolGoes
<1>12. CASE FinishClearCancel(p)
  <2>1. /\ UNCHANGED <<slots, reply>> /\ active' = NoJob /\ pol[p].pc = "clearFlag"
        /\ PolGoes(p, "exit")
    BY <1>12, SliceMoves, Zenon DEF FinishClearCancel, queueVars, ghosts
  <2>2. ActJob' = 0
    BY <2>1 DEF ActJob, NoJob
  <2>3. ActJob = 0
    BY <2>1 DEF ActJob, Clearing
  <2>4. \A q \in Pollers : pol'[q].call = pol[q].call
    BY <2>1, Zenon DEF PolGoes, PolTo
  <2>5. Elsewhere({})
    BY <1>0, <2>1, <2>2, <2>3, <2>4, Others, Zenon
  <2> QED BY <1>0, <2>1, <2>5, Zenon DEF JobKeeps
<1>13. CASE SliceExit(p)
  <2>1. UNCHANGED <<slots, active, reply>> /\ pol[p].pc = "exit" /\ PolReset(p, "idle")
    BY <1>13, SliceMoves, Zenon DEF SliceExit, queueVars, activeVars, ghosts
  <2>2. "exit" \notin Holding /\ "exit" \notin Clearing /\ "idle" \notin Clearing
    BY DEF Holding, Clearing
  <2>3. pol[p].call = 0
    BY <1>2, <2>1, <2>2, Zenon
  <2> QED BY <1>1, <2>1, <2>2, <2>3, Zenon DEF PolReset
<1>14. CASE WatchdogAbort(p)
  <2>1. /\ UNCHANGED <<slots, pol>> /\ EmitReply(active.call, "stopped")
        /\ active.phase \in {"work", "coarse"} /\ active' = [active EXCEPT !.phase = "idle"]
        /\ \E q \in Pollers : pol[q].pc \in {"check", "slice", "exit"}
    BY <1>14, Zenon DEF WatchdogAbort, queueVars
  <2>2. \A q \in Pollers : pol[q].pc \notin Clearing
    BY <2>1 DEF FlightInv, Latched, Clearing
  <2>3. ActJob = active.call
    BY <2>1, <2>2, Zenon DEF ActJob
  <2>4. active'.phase = "idle"
    BY <2>1 DEF Types, ActTypes, JobRec
  <2>5. ActJob' = 0
    BY <2>4 DEF ActJob
  <2>6. Elsewhere({ActPlace})
    BY <1>0, <2>1, Others, Zenon
  <2>7. "stopped" \in Replies \ {"none", "again"}
    BY DEF Replies
  <2> QED BY <1>0, <2>1, <2>3, <2>5, <2>6, <2>7, JobAt, Zenon DEF JobReplies
<1> QED
  BY <1>3, <1>4, <1>5, <1>6, <1>7, <1>8, <1>9, <1>10, <1>11, <1>12, <1>13, <1>14, Zenon
  DEF PollStep, ClaimStep

\* The canceller and the heap move no job.
LEMMA BackgroundJobs ==
  ASSUME Types, UNCHANGED vars \/ HeapChange \/ CancelStep
  PROVE  JobKeeps
<1>1. /\ UNCHANGED <<active, sub, pol, calls, reply>>
      /\ slots' = slots \/ CancelSetSlot \/ CancelSetHead
  BY Background, Zenon
<1>2. ActJob' = ActJob
  BY <1>1, ActKept, Zenon
<1>3. \A s \in Submitters : SubJob(s)' = SubJob(s)
  BY <1>1, Zenon DEF SubJob
<1>4. \A i \in Ring : slots'[i].call = slots[i].call
  BY <1>1, SlotMoves, Zenon DEF SlotTo
<1>5. Elsewhere({})
  BY <1>1, <1>2, <1>3, <1>4, Others, Zenon
<1> QED BY <1>1, <1>5, Zenon DEF JobKeeps

\* What a step can do to the jobs.
JobStep ==
  \/ JobKeeps \/ JobRefused
  \/ \E x \in Places : JobBegins(x) \/ JobReplies(x) \/ JobDrops(x)
  \/ \E x, y \in Places : JobMoves(x, y)

\* Every step of the queue is one of these.
LEMMA JobEdge ==
  ASSUME Types, FlightInv, RunInv, [Next]_vars
  PROVE  JobStep
<1>1. ASSUME NEW s \in Submitters, SubmitCall(s) \/ SubmitStep(s) PROVE JobStep
  <2>1. sub[s].t % QueueCap \in Ring
    BY Numbers DEF Types, SubTypes, SubRec
  <2> QED BY <1>1, <2>1, SubmitJobs, JobAt, Zenon DEF JobStep
<1>2. ASSUME NEW p \in Pollers, PollStep(p) \/ WatchdogAbort(p) PROVE JobStep
  <2>1. Claimed \in Ring
    BY Numbers DEF Types, NumTypes, Claimed
  <2> QED BY <1>2, <2>1, PollJobs, JobAt, Zenon DEF JobStep
<1>3. CASE UNCHANGED vars \/ HeapChange \/ CancelStep
  BY <1>3, BackgroundJobs, Zenon DEF JobStep
<1> QED BY <1>1, <1>2, <1>3, Zenon DEF Next

\* Every job is in one place, and it has not been answered while it is there.
JobInv ==
  /\ \A x \in Places : job[x] \in 0..calls
  /\ \A x, y \in Places : job[x] = job[y] /\ job[x] # 0 => x = y
  /\ \A x \in Places : job[x] # 0 => reply[job[x]] = "none"
  /\ \A c \in Calls : c > calls => reply[c] = "none"
  /\ AnsweredOnce

\* Each of these keeps every job in one place and unanswered while it is there.
LEMMA StepJobInv ==
  ASSUME Types, JobInv, JobStep
  PROVE  JobInv'
<1>0. calls \in 0..MaxCalls /\ MaxCalls \in Nat /\ reply \in [0..MaxCalls -> Replies] /\ calls \in Nat
  BY Numbers DEF Types, NumTypes, CallTypes
<1>1. /\ \A x \in Places : job[x] \in 0..calls
      /\ \A x, y \in Places : job[x] = job[y] /\ job[x] # 0 => x = y
      /\ \A x \in Places : job[x] # 0 => reply[job[x]] = "none"
      /\ \A c \in Calls : c > calls => reply[c] = "none"
      /\ \A c \in Calls : reply[c] # "again"
  BY Zenon DEF JobInv, AnsweredOnce
<1>2. CASE JobKeeps
  <2>1. \A x \in Places : job'[x] = job[x]
    BY <1>2, Zenon DEF JobKeeps, Elsewhere
  <2>2. UNCHANGED <<calls, reply>>
    BY <1>2, Zenon DEF JobKeeps
  <2> QED BY <1>1, <2>1, <2>2, Zenon DEF JobInv, AnsweredOnce
<1>3. ASSUME NEW x \in Places, JobDrops(x) PROVE JobInv'
  <2>1. job'[x] = 0 /\ \A z \in Places \ {x} : job'[z] = job[z]
    BY <1>3, Zenon DEF JobDrops, Elsewhere
  <2>2. UNCHANGED <<calls, reply>>
    BY <1>3, Zenon DEF JobDrops
  <2>3. 0 \in 0..calls
    BY <1>0
  <2> QED BY <1>1, <2>1, <2>2, <2>3, Zenon DEF JobInv, AnsweredOnce
<1>4. ASSUME NEW x \in Places, NEW y \in Places, JobMoves(x, y) PROVE JobInv'
  <2>1. x # y /\ job'[x] = 0 /\ job'[y] = job[x] /\ \A z \in Places \ {x, y} : job'[z] = job[z]
    BY <1>4, Zenon DEF JobMoves, Elsewhere
  <2>2. UNCHANGED <<calls, reply>>
    BY <1>4, Zenon DEF JobMoves
  <2>3. 0 \in 0..calls
    BY <1>0
  <2>4. \A z, w \in Places : job'[z] = job'[w] /\ job'[z] # 0 => z = w
    BY <1>1, <2>1, ZenonT(40)
  <2>5. \A z \in Places : job'[z] \in 0..calls /\ (job'[z] # 0 => reply[job'[z]] = "none")
    <3> SUFFICES ASSUME NEW z \in Places
                 PROVE  job'[z] \in 0..calls /\ (job'[z] # 0 => reply[job'[z]] = "none")
      BY Zenon
    <3>1. CASE z = x
      BY <2>1, <2>3, <3>1, Zenon
    <3>2. CASE z = y
      BY <1>1, <2>1, <3>2, Zenon
    <3>3. CASE z \notin {x, y}
      BY <1>1, <2>1, <3>3, Zenon
    <3> QED BY <3>1, <3>2, <3>3, Zenon
  <2> QED BY <1>1, <2>2, <2>4, <2>5, Zenon DEF JobInv, AnsweredOnce
<1>5. ASSUME NEW x \in Places, JobReplies(x) PROVE JobInv'
  <2>1. job'[x] = 0 /\ (\A z \in Places \ {x} : job'[z] = job[z]) /\ calls' = calls
    BY <1>5, Zenon DEF JobReplies, Elsewhere
  <2>2. PICK k \in Replies \ {"none", "again"} : EmitReply(job[x], k)
    BY <1>5, Zenon DEF JobReplies
  <2>3. job[x] \in 0..MaxCalls
    BY <1>0, <1>1
  <2>4. /\ \A c \in (0..MaxCalls) \ {job[x]} : reply'[c] = reply[c]
        /\ reply[job[x]] = "none" => reply'[job[x]] = k
    BY <1>0, <2>2, <2>3 DEF EmitReply
  <2>5. \A z \in Places : job'[z] \in 0..calls /\ (job'[z] # 0 => job'[z] = job[z] /\ z # x)
    BY <1>0, <1>1, <2>1
  <2>6. \A z, w \in Places : job'[z] = job'[w] /\ job'[z] # 0 => z = w
    BY <1>1, <2>5, Zenon
  <2>7. \A z \in Places : job'[z] # 0 => reply'[job'[z]] = "none"
    BY <1>0, <1>1, <2>4, <2>5
  <2>8. \A c \in Calls : reply'[c] # "again" /\ (c > calls => reply'[c] = "none")
    <3> SUFFICES ASSUME NEW c \in Calls PROVE reply'[c] # "again" /\ (c > calls => reply'[c] = "none")
      OBVIOUS
    <3>1. c # 0 /\ c \in 0..MaxCalls
      BY <1>0 DEF Calls
    <3>2. CASE c # job[x]
      BY <1>1, <2>4, <3>1, <3>2, Zenon
    <3>3. CASE c = job[x]
      <4>1. ~(c > calls)
        BY <1>0, <1>1, <3>3
      <4> QED BY <1>1, <2>4, <3>1, <3>3, <4>1, Zenon
    <3> QED BY <3>2, <3>3
  <2> QED BY <2>1, <2>5, <2>6, <2>7, <2>8, Zenon DEF JobInv, AnsweredOnce
<1>6. ASSUME NEW x \in Places, JobBegins(x) PROVE JobInv'
  <2>1. /\ job'[x] = calls + 1 /\ (\A z \in Places \ {x} : job'[z] = job[z])
        /\ calls' = calls + 1 /\ calls < MaxCalls /\ reply' = reply
    BY <1>6, Zenon DEF JobBegins, Elsewhere
  <2>2. calls + 1 \in Calls /\ calls + 1 > calls /\ calls + 1 # 0 /\ calls + 1 \in 0..(calls + 1)
    BY <1>0, <2>1 DEF Calls
  <2>3. reply[calls + 1] = "none"
    BY <1>1, <2>2, Zenon
  <2>4. \A z \in Places : job[z] \in 0..(calls + 1) /\ job[z] # calls + 1
    BY <1>0, <1>1
  <2>5. \A c \in Calls : c > calls + 1 => c > calls
    BY <1>0 DEF Calls
  <2>6. \A z \in Places : job'[z] \in 0..(calls + 1)
    BY <2>1, <2>2, <2>4, Zenon
  <2>7. \A z, w \in Places : job'[z] = job'[w] /\ job'[z] # 0 => z = w
    BY <1>1, <2>1, <2>4, Zenon
  <2>8. \A z \in Places : job'[z] # 0 => reply'[job'[z]] = "none"
    BY <1>1, <2>1, <2>3, Zenon
  <2> QED BY <1>1, <2>1, <2>5, <2>6, <2>7, <2>8, Zenon DEF JobInv, AnsweredOnce
<1>7. CASE JobRefused
  <2>1. \A z \in Places : job'[z] = job[z]
    BY <1>7, Zenon DEF JobRefused, Elsewhere
  <2>2. calls' = calls + 1 /\ reply' = reply
    BY <1>7, Zenon DEF JobRefused
  <2>3. \A z \in Places : job[z] \in 0..(calls + 1)
    BY <1>0, <1>1
  <2>4. \A c \in Calls : c > calls + 1 => c > calls
    BY <1>0 DEF Calls
  <2> QED BY <1>1, <2>1, <2>2, <2>3, <2>4, Zenon DEF JobInv, AnsweredOnce
<1> QED BY <1>2, <1>3, <1>4, <1>5, <1>6, <1>7, Zenon DEF JobStep

\* There is no job at the start.
LEMMA InitJobs == Init => RunInv /\ JobInv
<1> SUFFICES ASSUME Init PROVE RunInv /\ JobInv
  OBVIOUS
<1>1. RunInv
  BY DEF Init, RunInv, Running, Clearing, Holding
<1>2. \A x \in Places : job[x] = 0
  <2>1. \A s \in Submitters : SubJob(s) = 0
    BY DEF Init, SubJob
  <2>2. \A i \in Ring : slots[i].call = 0
    BY DEF Init, Ring
  <2>3. \A p \in Pollers : pol[p].call = 0
    BY DEF Init
  <2>4. ActJob = 0
    BY DEF Init, ActJob, NoJob
  <2> SUFFICES ASSUME NEW z \in Places PROVE job[z] = 0
    OBVIOUS
  <2>5. \/ \E s \in Submitters : z = <<"sub", s>>
        \/ \E i \in Ring : z = <<"slot", i>>
        \/ \E p \in Pollers : z = <<"pol", p>>
        \/ z = ActPlace
    BY DEF Places
  <2> QED BY <2>1, <2>2, <2>3, <2>4, <2>5, JobAt, Zenon
<1>3. calls = 0 /\ \A c \in Calls : reply[c] = "none"
  <2>1. calls = 0 /\ reply = [c \in 0..MaxCalls |-> "none"]
    BY Zenon DEF Init
  <2>2. Calls \subseteq 0..MaxCalls
    BY Numbers DEF Calls
  <2> QED BY <2>1, <2>2, Zenon
<1>4. \A x \in Places : job[x] \in 0..calls
  BY <1>2, <1>3
<1>5. AnsweredOnce
  BY <1>3 DEF AnsweredOnce
<1> QED BY <1>1, <1>2, <1>3, <1>4, <1>5, Zenon DEF JobInv

\* The inductive invariant: types, latch and claim, and the places of the jobs.
CortexInv == Types /\ FlightInv /\ RunInv /\ JobInv

\* Every job is in one place at a time, and it has not been answered while it is
\* there, in every reachable state.
THEOREM JobInvariance == Spec => []CortexInv
<1>1. Init => CortexInv
  BY InitTypes, InitFlight, InitJobs, Zenon DEF CortexInv
<1>2. CortexInv /\ [Next]_vars => CortexInv'
  BY StepTypes, StepFlight, StepRun, JobEdge, StepJobInv, Zenon DEF CortexInv
<1> QED BY <1>1, <1>2, PTL DEF Spec

\* No job is answered twice, by whatever mix of claim, slice and watchdog: for any
\* submitters, pollers and slots, even where a slot is overwritten.
THEOREM AnsweredOnceThm == Spec => []AnsweredOnce
<1>1. CortexInv => AnsweredOnce
  BY DEF CortexInv, JobInv
<1> QED BY <1>1, JobInvariance, PTL

\* A reply is not taken back.
LEMMA RepliesStay ==
  ASSUME Types, JobInv, JobStep
  PROVE  \A c \in Calls : reply'[c] = "none" => reply[c] = "none"
<1>0. reply \in [0..MaxCalls -> Replies] /\ Calls \subseteq 0..MaxCalls
  <2>1. Calls \subseteq 0..MaxCalls
    BY Numbers DEF Calls
  <2> QED BY <2>1, Zenon DEF Types, CallTypes
<1>1. CASE reply' = reply
  BY <1>1, Zenon
<1>2. ASSUME NEW x \in Places, JobReplies(x)
      PROVE  \A c \in Calls : reply'[c] = "none" => reply[c] = "none"
  <2>1. PICK k \in Replies \ {"none", "again"} : EmitReply(job[x], k)
    BY <1>2, Zenon DEF JobReplies
  <2> QED BY <1>0, <2>1 DEF EmitReply
<1> QED BY <1>1, <1>2, Zenon DEF JobStep, JobKeeps, JobRefused, JobBegins, JobDrops, JobMoves

-----------------------------------------------------------------------------
(* The ring. *)


\* The slot of a position.
SlotOf(k) == k % QueueCap

\* Two positions less than a lap apart have different slots; a lap later it is the same slot.
LEMMA SlotInjective ==
  ASSUME NEW a \in Nat, NEW b \in Nat, a < b, b < a + QueueCap
  PROVE  SlotOf(a) # SlotOf(b)
<1>1. QueueCap \in Nat /\ QueueCap > 0
  BY Numbers
<1>2. /\ a = QueueCap * (a \div QueueCap) + (a % QueueCap)
      /\ b = QueueCap * (b \div QueueCap) + (b % QueueCap)
      /\ a \div QueueCap \in Int /\ b \div QueueCap \in Int
      /\ a % QueueCap \in Int /\ b % QueueCap \in Int
  BY <1>1
<1> SUFFICES ASSUME a % QueueCap = b % QueueCap PROVE FALSE
  BY DEF SlotOf
<1> DEFINE d == (b \div QueueCap) - (a \div QueueCap)
<1>3. d \in Int
  BY <1>2
<1>4. b - a = QueueCap * d
  <2>1. QueueCap * d = QueueCap * (b \div QueueCap) - QueueCap * (a \div QueueCap)
    BY <1>1, <1>2
  <2> QED BY <1>1, <1>2, <2>1
<1> HIDE DEF d
<1>5. CASE d <= 0
  <2>1. QueueCap * d <= 0
    BY <1>1, <1>3, <1>5
  <2> QED BY <1>4, <2>1
<1>6. CASE d >= 1
  <2>1. QueueCap * d >= QueueCap
    BY <1>1, <1>3, <1>6
  <2> QED BY <1>1, <1>4, <2>1
<1> QED BY <1>3, <1>5, <1>6

\* Positions a lap apart share their slot.
LEMMA SlotWraps ==
  ASSUME NEW a \in Nat
  PROVE  SlotOf(a + QueueCap) = SlotOf(a)
<1> DEFINE b == a + QueueCap
<1>1. QueueCap \in Nat /\ QueueCap > 0 /\ b \in Nat
  BY Numbers
<1>2. /\ a = QueueCap * (a \div QueueCap) + (a % QueueCap)
      /\ b = QueueCap * (b \div QueueCap) + (b % QueueCap)
      /\ a \div QueueCap \in Int /\ b \div QueueCap \in Int
      /\ a % QueueCap \in 0..(QueueCap - 1) /\ b % QueueCap \in 0..(QueueCap - 1)
  BY <1>1
<1> DEFINE d == (b \div QueueCap) - (a \div QueueCap)
<1>3. d \in Int
  BY <1>2
<1>4. QueueCap * d = QueueCap + (a % QueueCap) - (b % QueueCap)
  <2>1. QueueCap * d = QueueCap * (b \div QueueCap) - QueueCap * (a \div QueueCap)
    BY <1>1, <1>2
  <2> QED BY <1>1, <1>2, <2>1
<1> HIDE DEF d
<1>5. CASE d <= 0
  <2>1. QueueCap * d <= 0
    BY <1>1, <1>3, <1>5
  <2> QED BY <1>1, <1>2, <1>4, <2>1
<1>6. CASE d = 1
  <2>1. a % QueueCap = b % QueueCap
    BY <1>1, <1>2, <1>4, <1>6
  <2> QED BY <2>1 DEF SlotOf
<1>7. CASE d >= 2
  <2>1. QueueCap * d >= 2 * QueueCap
    BY <1>1, <1>3, <1>7
  <2> QED BY <1>1, <1>2, <1>4, <2>1
<1> QED BY <1>3, <1>5, <1>6, <1>7

\* The oldest position whose slot is occupied or being filled: a claim has moved
\* HEAD before it empties the slot.
Swapping == \E p \in Pollers : pol[p].pc = "swap"
Base == IF Swapping THEN head - 1 ELSE head

\* The positions that are being filled are distinct positions of the lap, and
\* their slots are not published; a published slot is the slot of a position
\* from Base up to TAIL.
RingInv ==
  /\ Swapping => head >= 1 /\ slots[SlotOf(head - 1)].occupied
  /\ head <= tail /\ tail <= Base + QueueCap
  /\ \A s \in Submitters : sub[s].pc \in Filling =>
        head <= sub[s].t /\ sub[s].t < tail /\ ~slots[SlotOf(sub[s].t)].occupied
  /\ \A r, s \in Submitters :
        sub[r].pc \in Filling /\ sub[s].pc \in Filling /\ sub[r].t = sub[s].t => r = s
  /\ \A s \in Submitters : sub[s].pc = "casTail" => sub[s].t < Base + QueueCap
  /\ \A i \in Ring : slots[i].occupied => \E k \in Nat : Base <= k /\ k < tail /\ i = SlotOf(k)

\* The ring is empty at the start.
LEMMA InitRing == Init => RingInv
<1> SUFFICES ASSUME Init PROVE RingInv
  OBVIOUS
<1>1. \A s \in Submitters : sub[s].pc = "idle"
  BY DEF Init
<1>2. \A i \in Ring : ~slots[i].occupied
  BY DEF Init, Ring
<1>3. ~Swapping /\ head = 0 /\ tail = 0
  BY DEF Init, Swapping
<1>4. Base = 0
  BY <1>3 DEF Base
<1>5. head <= tail /\ tail <= Base + QueueCap
  BY <1>3, <1>4, Numbers
<1> QED BY <1>1, <1>2, <1>3, <1>5 DEF RingInv, Filling

\* A step that moves neither HEAD nor TAIL, publishes and empties nothing, and
\* takes no submitter into the ring.
LEMMA RingKept ==
  ASSUME RingInv, UNCHANGED <<head, tail>>, Swapping' = Swapping,
         \A i \in Ring : slots'[i].occupied = slots[i].occupied,
         \A s \in Submitters : sub[s].t \in Nat,
         head \in Nat,
         \A s \in Submitters : sub'[s].pc \in Filling => sub[s].pc \in Filling /\ sub'[s].t = sub[s].t,
         \A s \in Submitters : sub'[s].pc = "casTail" => sub[s].pc = "casTail" /\ sub'[s].t = sub[s].t
  PROVE  RingInv'
<1>1. Base' = Base
  BY Zenon DEF Base
<1>2. \A s \in Submitters : SlotOf(sub[s].t) \in Ring
  BY Numbers DEF SlotOf
<1>3. SlotOf(head - 1) \in Ring
  BY Numbers DEF SlotOf
<1>4. /\ Swapping' => head' >= 1 /\ slots'[SlotOf(head' - 1)].occupied
      /\ head' <= tail' /\ tail' <= Base' + QueueCap
  BY <1>1, <1>3, Zenon DEF RingInv
<1>5. \A s \in Submitters : sub'[s].pc \in Filling =>
        head' <= sub'[s].t /\ sub'[s].t < tail' /\ ~slots'[SlotOf(sub'[s].t)].occupied
  BY <1>2, ZenonT(40) DEF RingInv
<1>6. \A r, s \in Submitters :
        sub'[r].pc \in Filling /\ sub'[s].pc \in Filling /\ sub'[r].t = sub'[s].t => r = s
  BY ZenonT(40) DEF RingInv
<1>7. \A s \in Submitters : sub'[s].pc = "casTail" => sub'[s].t < Base' + QueueCap
  BY <1>1, ZenonT(40) DEF RingInv
<1>8. \A i \in Ring : slots'[i].occupied =>
        \E k \in Nat : Base' <= k /\ k < tail' /\ i = SlotOf(k)
  BY <1>1, ZenonT(40) DEF RingInv
<1> QED BY <1>4, <1>5, <1>6, <1>7, <1>8, Zenon DEF RingInv, SlotOf

\* Positions are naturals and their slots are slots of the ring.
LEMMA RingTypes ==
  ASSUME Types
  PROVE  /\ head \in Nat /\ tail \in Nat /\ QueueCap \in Nat /\ QueueCap >= 1
         /\ \A s \in Submitters : sub[s].t \in Nat /\ SlotOf(sub[s].t) \in Ring
         /\ \A k \in Int : SlotOf(k) \in Ring
<1>1. head \in Nat /\ tail \in Nat /\ \A s \in Submitters : sub[s].t \in Nat
  BY DEF Types, NumTypes, SubTypes, SubRec
<1>2. QueueCap \in Nat /\ QueueCap >= 1 /\ \A k \in Int : SlotOf(k) \in Ring
  BY Numbers DEF SlotOf
<1> QED BY <1>1, <1>2

\* A submitter that goes on found room, and its slot empty: a claim that has
\* moved HEAD and not yet emptied the slot makes it full.
LEMMA RingCheck ==
  ASSUME Types, RingInv, NEW s \in Submitters, CheckFull(s)
  PROVE  RingInv'
<1>0. head \in Nat /\ tail \in Nat /\ QueueCap \in Nat /\ QueueCap >= 1 /\ sub[s].t \in Nat
  BY RingTypes, Zenon
<1>1. UNCHANGED <<head, tail, slots, pol>>
  BY Zenon DEF CheckFull, queueVars
<1>2. Swapping' = Swapping /\ Base' = Base
  BY <1>1, Zenon DEF Swapping, Base
<1>3. CASE SubTo(s, "idle", 0, 0, 0)
  <2>1. "idle" \notin Filling /\ "idle" # "casTail"
    BY DEF Filling
  <2>2. \A r \in Submitters : sub'[r].pc \in Filling \/ sub'[r].pc = "casTail" => sub'[r] = sub[r]
    BY <1>3, <2>1, Zenon DEF SubTo
  <2> QED BY <1>1, <1>2, <2>2, RingTypes, RingKept, Zenon
<1>4. CASE Sub(s, "casTail") /\ ~(sub[s].t < head \/ sub[s].t - head >= QueueCap
                                  \/ slots[sub[s].t % QueueCap].occupied)
  <2>1. SubTo(s, "casTail", sub[s].call, sub[s].t, sub[s].id)
    BY <1>4 DEF Types, SubTypes, SubRec, Sub, SubTo
  <2>2. sub[s].t >= head /\ sub[s].t < head + QueueCap /\ ~slots[SlotOf(sub[s].t)].occupied
    BY <1>0, <1>4, TicketFits, Zenon DEF SlotOf
  <2>3. sub[s].t < Base + QueueCap
    <3>1. CASE ~Swapping
      BY <2>2, <3>1, Zenon DEF Base
    <3>2. CASE Swapping
      <4>1. head >= 1 /\ slots[SlotOf(head - 1)].occupied /\ head - 1 \in Nat
        <5>1. head >= 1 /\ slots[SlotOf(head - 1)].occupied
          BY <3>2, Zenon DEF RingInv
        <5>2. head - 1 \in Nat
          BY <1>0, <5>1
        <5> QED BY <5>1, <5>2, Zenon
      <4>2. SlotOf((head - 1) + QueueCap) = SlotOf(head - 1)
        BY <4>1, SlotWraps
      <4>3. sub[s].t # (head - 1) + QueueCap
        BY <2>2, <4>1, <4>2, Zenon
      <4>4. sub[s].t < (head - 1) + QueueCap
        BY <1>0, <2>2, <4>3
      <4> QED BY <3>2, <4>4, Zenon DEF Base
    <3> QED BY <3>1, <3>2
  <2>4. \A r \in Submitters : sub'[r].t = sub[r].t /\ (r # s => sub'[r].pc = sub[r].pc)
    BY <2>1, Zenon DEF SubTo
  <2>5. sub'[s].pc = "casTail" /\ "casTail" \notin Filling
    BY <2>1 DEF SubTo, Filling
  <2>6. \A r \in Submitters : sub'[r].pc = "casTail" => sub'[r].t < Base' + QueueCap
    BY <1>2, <2>3, <2>4, Zenon DEF RingInv
  <2>7. \A r \in Submitters : sub'[r].pc \in Filling => sub[r].pc \in Filling
    BY <2>4, <2>5, Zenon
  <2> QED BY <1>1, <1>2, <2>4, <2>6, <2>7, Zenon DEF RingInv, SlotOf
<1> DEFINE full == \/ sub[s].t < head \/ sub[s].t - head >= QueueCap
                   \/ slots[sub[s].t % QueueCap].occupied
<1>5. IF full THEN SubReturn(s) ELSE Sub(s, "casTail")
  BY Zenon DEF CheckFull
<1>6. SubReturn(s) => SubTo(s, "idle", 0, 0, 0)
  BY DEF SubReturn, SubTo, Types, SubTypes
<1> QED BY <1>3, <1>4, <1>5, <1>6, Zenon

\* A submitter takes the position TAIL: its slot is free.
LEMMA RingCas ==
  ASSUME Types, RingInv, NEW s \in Submitters, CasTail(s)
  PROVE  RingInv'
<1>0. head \in Nat /\ tail \in Nat /\ QueueCap \in Nat /\ QueueCap >= 1 /\ sub[s].t \in Nat
  BY RingTypes, Zenon
<1>1. UNCHANGED <<head, slots, pol>> /\ sub[s].pc = "casTail"
  BY Zenon DEF CasTail
<1>2. Swapping' = Swapping /\ Base' = Base
  BY <1>1, Zenon DEF Swapping, Base
<1>3. CASE Sub(s, "loadTail") /\ tail' = tail
  <2>1. SubTo(s, "loadTail", sub[s].call, sub[s].t, sub[s].id)
    BY <1>3 DEF Types, SubTypes, SubRec, Sub, SubTo
  <2>2. "loadTail" \notin Filling /\ "loadTail" # "casTail"
    BY DEF Filling
  <2>3. \A r \in Submitters : sub'[r].pc \in Filling \/ sub'[r].pc = "casTail" => sub'[r] = sub[r]
    BY <2>1, <2>2, Zenon DEF SubTo
  <2> QED BY <1>1, <1>2, <1>3, <2>3, RingTypes, RingKept, Zenon
<1>4. CASE tail = sub[s].t /\ tail' = tail + 1 /\ Sub(s, "takeId")
  <2>1. SubTo(s, "takeId", sub[s].call, sub[s].t, sub[s].id)
    BY <1>4 DEF Types, SubTypes, SubRec, Sub, SubTo
  <2>2. Base \in Int /\ Base <= head /\ (Base >= 0) /\ tail < Base + QueueCap /\ head <= tail
    <3>1. Swapping => head >= 1
      BY Zenon DEF RingInv
    <3>2. tail < Base + QueueCap /\ head <= tail
      BY <1>1, <1>4, Zenon DEF RingInv
    <3> QED BY <1>0, <3>1, <3>2 DEF Base
  <2>3. \A r \in Submitters : sub'[r].t = sub[r].t /\ (r # s => sub'[r].pc = sub[r].pc)
    BY <2>1, Zenon DEF SubTo
  <2>4. sub'[s].pc = "takeId"
    BY <2>1, Zenon DEF SubTo
  <2>5. ~slots[SlotOf(tail)].occupied
    <3> SUFFICES ASSUME slots[SlotOf(tail)].occupied PROVE FALSE
      OBVIOUS
    <3>0. SlotOf(tail) \in Ring
      <4>1. tail \in Int
        BY <1>0
      <4> QED BY <4>1, RingTypes, Zenon
    <3>1. PICK k \in Nat : Base <= k /\ k < tail /\ SlotOf(tail) = SlotOf(k)
      BY <3>0, Zenon DEF RingInv
    <3>2. tail < k + QueueCap
      BY <1>0, <2>2, <3>1
    <3> QED BY <1>0, <3>1, <3>2, SlotInjective
  <2>6. \A r \in Submitters : sub'[r].pc \in Filling =>
          head <= sub[r].t /\ sub[r].t < tail + 1 /\ ~slots[SlotOf(sub[r].t)].occupied
    <3> SUFFICES ASSUME NEW r \in Submitters, sub'[r].pc \in Filling
                 PROVE head <= sub[r].t /\ sub[r].t < tail + 1 /\ ~slots[SlotOf(sub[r].t)].occupied
      OBVIOUS
    <3>1. CASE r = s
      BY <1>0, <1>4, <2>2, <2>5, <3>1
    <3>2. CASE r # s
      <4>1. head <= sub[r].t /\ sub[r].t < tail /\ ~slots[SlotOf(sub[r].t)].occupied
        BY <2>3, <3>2, Zenon DEF RingInv
      <4>2. sub[r].t \in Nat
        BY RingTypes, Zenon
      <4>3. sub[r].t < tail + 1
        BY <1>0, <4>1, <4>2
      <4> QED BY <4>1, <4>3
    <3> QED BY <3>1, <3>2
  <2>7. \A r \in Submitters \ {s} : sub'[r].pc \in Filling => sub[r].t # sub[s].t
    <3>1. \A r \in Submitters \ {s} : sub'[r].pc \in Filling => sub[r].t < tail
      BY <2>3, Zenon DEF RingInv
    <3> QED BY <1>0, <1>4, <3>1
  <2>8. \A q, r \in Submitters :
          sub'[q].pc \in Filling /\ sub'[r].pc \in Filling /\ sub'[q].t = sub'[r].t => q = r
    <3>1. \A q, r \in Submitters :
            sub[q].pc \in Filling /\ sub[r].pc \in Filling /\ sub[q].t = sub[r].t => q = r
      BY Zenon DEF RingInv
    <3> SUFFICES ASSUME NEW q \in Submitters, NEW r \in Submitters, sub'[q].pc \in Filling,
                        sub'[r].pc \in Filling, sub[q].t = sub[r].t, q # r
                 PROVE  FALSE
      BY <2>3, Zenon
    <3>2. CASE q = s
      BY <2>7, <3>2, Zenon
    <3>3. CASE r = s
      BY <2>7, <3>3, Zenon
    <3>4. CASE q # s /\ r # s
      BY <2>3, <3>1, <3>4, Zenon
    <3> QED BY <3>2, <3>3, <3>4, Zenon
  <2>9. \A r \in Submitters : sub'[r].pc = "casTail" => sub'[r].t < Base + QueueCap
    BY <2>3, <2>4, Zenon DEF RingInv
  <2>10. head <= tail + 1 /\ tail + 1 <= Base + QueueCap
    BY <1>0, <2>2
  <2>11. \A i \in Ring : slots[i].occupied =>
           \E k \in Nat : Base <= k /\ k < tail + 1 /\ i = SlotOf(k)
    <3>1. \A k \in Nat : k < tail => k < tail + 1
      BY <1>0
    <3> QED BY <3>1, Zenon DEF RingInv
  <2>12. Swapping => head >= 1 /\ slots[SlotOf(head - 1)].occupied
    BY Zenon DEF RingInv
  <2> QED BY <1>1, <1>2, <1>4, <2>3, <2>6, <2>8, <2>9, <2>10, <2>11, <2>12, Zenon
      DEF RingInv, SlotOf
<1> QED BY <1>3, <1>4, Zenon DEF CasTail

\* A submitter publishes its slot.
LEMMA RingPublish ==
  ASSUME Types, RingInv, NEW s \in Submitters, Publish(s)
  PROVE  RingInv'
<1> DEFINE t == sub[s].t
<1>0. /\ head \in Nat /\ tail \in Nat /\ QueueCap \in Nat /\ QueueCap >= 1 /\ t \in Nat
      /\ SlotOf(t) \in Ring
  BY RingTypes, Zenon
<1>1. UNCHANGED <<head, tail, pol>> /\ sub[s].pc \in Filling
  BY Zenon DEF Publish, Filling
<1>2. Swapping' = Swapping /\ Base' = Base
  BY <1>1, Zenon DEF Swapping, Base
<1>3. SubTo(s, "count", sub[s].call, sub[s].t, sub[s].id)
  BY SubMoves, Zenon
<1>4. SlotTo(SlotOf(t), TRUE, slots[SlotOf(t)].id, slots[SlotOf(t)].cancel, slots[SlotOf(t)].call)
  BY SlotMoves, Zenon DEF SlotOf
<1>5. slots'[SlotOf(t)].occupied /\ \A i \in Ring \ {SlotOf(t)} : slots'[i] = slots[i]
  BY <1>4, Zenon DEF SlotTo
<1>6. "count" \notin Filling /\ "count" # "casTail"
  BY DEF Filling
<1>7. \A r \in Submitters : sub'[r].t = sub[r].t /\ (r # s => sub'[r].pc = sub[r].pc)
  BY <1>3, Zenon DEF SubTo
<1>8. sub'[s].pc = "count"
  BY <1>3, Zenon DEF SubTo
<1>9. head <= t /\ t < tail
  BY <1>1, Zenon DEF RingInv
<1>10. Base <= t
  <2>1. Base <= head /\ Base \in Int
    BY <1>0 DEF Base
  <2> QED BY <1>0, <1>9, <2>1
<1>11. ASSUME NEW r \in Submitters, sub'[r].pc \in Filling
       PROVE  /\ r # s /\ sub[r].pc \in Filling /\ head <= sub[r].t /\ sub[r].t < tail
              /\ ~slots'[SlotOf(sub[r].t)].occupied
  <2>1. r # s /\ sub[r].pc \in Filling
    BY <1>6, <1>7, <1>8, <1>11, Zenon
  <2>2. head <= sub[r].t /\ sub[r].t < tail /\ ~slots[SlotOf(sub[r].t)].occupied /\ sub[r].t # t
    BY <1>1, <2>1, Zenon DEF RingInv
  <2>3. sub[r].t \in Nat /\ SlotOf(sub[r].t) \in Ring
    BY RingTypes, Zenon
  <2>4. tail <= Base + QueueCap /\ Base <= head /\ Base \in Int
    <3>1. tail <= Base + QueueCap
      BY Zenon DEF RingInv
    <3> QED BY <1>0, <3>1 DEF Base
  <2>5. SlotOf(sub[r].t) # SlotOf(t)
    <3>1. CASE sub[r].t < t
      <4>1. t < sub[r].t + QueueCap
        BY <1>0, <1>9, <2>2, <2>3, <2>4, WithinLap, Zenon
      <4> QED BY <1>0, <2>3, <3>1, <4>1, SlotInjective
    <3>2. CASE t < sub[r].t
      <4>1. sub[r].t < t + QueueCap
        BY <1>0, <1>9, <2>2, <2>3, <2>4, WithinLap, Zenon
      <4> QED BY <1>0, <2>3, <3>2, <4>1, SlotInjective
    <3> QED BY <1>0, <2>2, <2>3, <3>1, <3>2, TicketsApart, Zenon
  <2> QED BY <1>5, <2>1, <2>2, <2>3, <2>5, Zenon
<1>12. \A q, r \in Submitters :
         sub'[q].pc \in Filling /\ sub'[r].pc \in Filling /\ sub'[q].t = sub'[r].t => q = r
  BY <1>7, <1>11, Zenon DEF RingInv
<1>13. \A r \in Submitters : sub'[r].pc = "casTail" => sub'[r].t < Base + QueueCap
  BY <1>6, <1>7, <1>8, Zenon DEF RingInv
<1>14. \A i \in Ring : slots'[i].occupied => \E k \in Nat : Base <= k /\ k < tail /\ i = SlotOf(k)
  BY <1>0, <1>5, <1>9, <1>10, Zenon DEF RingInv
<1>15. Swapping => head >= 1 /\ slots'[SlotOf(head - 1)].occupied
  <2>1. SlotOf(head - 1) \in Ring
    BY <1>0, RingTypes
  <2> QED BY <1>5, <2>1, Zenon DEF RingInv
<1>16. head <= tail /\ tail <= Base + QueueCap
  BY Zenon DEF RingInv
<1>17. \A r \in Submitters : sub'[r].pc \in Filling =>
         head' <= sub'[r].t /\ sub'[r].t < tail' /\ ~slots'[SlotOf(sub'[r].t)].occupied
  BY <1>1, <1>7, <1>11, Zenon
<1> QED BY <1>1, <1>2, <1>12, <1>13, <1>14, <1>15, <1>16, <1>17, Zenon DEF RingInv, SlotOf

\* A claim moves HEAD over a published slot.
LEMMA RingClaim ==
  ASSUME Types, FlightInv, RingInv, NEW p \in Pollers, ClaimHead(p), head' = head + 1,
         PolGoes(p, "swap"), head < tail, slots[head % QueueCap].occupied
  PROVE  RingInv'
<1>0. head \in Nat /\ tail \in Nat /\ QueueCap \in Nat /\ QueueCap >= 1
  BY RingTypes, Zenon
<1>1. UNCHANGED <<tail, slots, sub>> /\ pol[p].pc = "claim"
  BY Zenon DEF ClaimHead
<1>2. ~Swapping /\ Base = head
  BY <1>1 DEF FlightInv, Latched, Swapping, Base
<1>3. Swapping'
  BY Zenon DEF PolGoes, PolTo, Swapping
<1>4. Base' = head /\ head' - 1 = head
  BY <1>0, <1>3 DEF Base
<1>5. ASSUME NEW s \in Submitters, sub[s].pc \in Filling PROVE head' <= sub[s].t
  <2>1. head <= sub[s].t /\ ~slots[SlotOf(sub[s].t)].occupied
    BY <1>5, Zenon DEF RingInv
  <2>2. sub[s].t # head
    BY <2>1, Zenon DEF SlotOf
  <2>3. sub[s].t \in Nat
    BY RingTypes, Zenon
  <2> QED BY <1>0, <2>1, <2>2, <2>3
<1>6. head' <= tail
  BY <1>0
<1>7. slots'[SlotOf(head' - 1)].occupied
  BY <1>1, <1>4, Zenon DEF SlotOf
<1>8. head' >= 1
  BY <1>0
<1>9. tail <= Base' + QueueCap
  BY <1>2, <1>4, Zenon DEF RingInv
<1>10. \A s \in Submitters : sub[s].pc \in Filling =>
         head' <= sub[s].t /\ sub[s].t < tail /\ ~slots[SlotOf(sub[s].t)].occupied
  BY <1>5, Zenon DEF RingInv
<1>11. /\ \A r, s \in Submitters :
            sub[r].pc \in Filling /\ sub[s].pc \in Filling /\ sub[r].t = sub[s].t => r = s
       /\ \A s \in Submitters : sub[s].pc = "casTail" => sub[s].t < Base' + QueueCap
       /\ \A i \in Ring : slots[i].occupied =>
            \E k \in Nat : Base' <= k /\ k < tail /\ i = SlotOf(k)
  BY <1>2, <1>4, Zenon DEF RingInv
<1> QED BY <1>1, <1>6, <1>7, <1>8, <1>9, <1>10, <1>11, Zenon DEF RingInv, SlotOf

\* The claim empties its slot.
LEMMA RingSwap ==
  ASSUME Types, FlightInv, RingInv, NEW p \in Pollers, SwapOccupied(p)
  PROVE  RingInv'
<1> DEFINE j == SlotOf(head - 1)
<1>0. head \in Nat /\ tail \in Nat /\ QueueCap \in Nat /\ QueueCap >= 1 /\ j \in Ring
  <2>1. head \in Nat /\ tail \in Nat /\ QueueCap \in Nat /\ QueueCap >= 1
    BY RingTypes, Zenon
  <2> QED BY <2>1, RingTypes
<1>1. UNCHANGED <<head, tail, sub>> /\ pol[p].pc = "swap"
  BY Zenon DEF SwapOccupied
<1>2. Swapping /\ Base = head - 1
  BY <1>1, Zenon DEF Swapping, Base
<1>3. PolGoes(p, "uncount")
  BY PolMoves, Zenon
<1>4. ~Swapping'
  <2>1. \A q \in Pollers \ {p} : pol[q].pc = "idle"
    BY <1>1 DEF FlightInv, Latched
  <2> QED BY <1>3, <2>1 DEF PolGoes, PolTo, Swapping
<1>5. Base' = head
  BY <1>1, <1>4, Zenon DEF Base
<1>6. SlotTo(j, FALSE, slots[j].id, slots[j].cancel, slots[j].call)
  BY SlotMoves, Zenon DEF SlotOf, Claimed
<1> HIDE DEF j
<1>7. ~slots'[j].occupied /\ \A i \in Ring \ {j} : slots'[i] = slots[i]
  BY <1>6, Zenon DEF SlotTo
<1>8. head >= 1 /\ tail <= (head - 1) + QueueCap
  BY <1>2, Zenon DEF RingInv
<1>9. head <= tail /\ tail <= head + QueueCap
  <2>1. head <= tail
    BY Zenon DEF RingInv
  <2> QED BY <1>0, <1>8, <2>1
<1>10. ASSUME NEW i \in Ring, slots'[i].occupied
       PROVE  \E k \in Nat : head <= k /\ k < tail /\ i = SlotOf(k)
  <2>1. i # j /\ slots[i].occupied
    BY <1>7, <1>10, Zenon
  <2>2. PICK k \in Nat : head - 1 <= k /\ k < tail /\ i = SlotOf(k)
    BY <1>2, <2>1, Zenon DEF RingInv
  <2>3. k # head - 1
    BY <2>1, <2>2, Zenon DEF j
  <2>4. head <= k
    BY <1>0, <2>2, <2>3
  <2> QED BY <2>2, <2>4
<1>11. \A s \in Submitters : sub[s].pc = "casTail" => sub[s].t < head + QueueCap
  <2>1. \A s \in Submitters : sub[s].pc = "casTail" => sub[s].t < (head - 1) + QueueCap
    BY <1>2, Zenon DEF RingInv
  <2>2. \A s \in Submitters : sub[s].t \in Nat
    BY RingTypes, Zenon
  <2> QED BY <1>0, <2>1, <2>2
<1>12. \A s \in Submitters : sub[s].pc \in Filling =>
         head <= sub[s].t /\ sub[s].t < tail /\ ~slots'[SlotOf(sub[s].t)].occupied
  <2>1. \A s \in Submitters : SlotOf(sub[s].t) \in Ring
    BY RingTypes, Zenon
  <2> QED BY <1>7, <2>1, Zenon DEF RingInv
<1>13. \A r, s \in Submitters :
         sub[r].pc \in Filling /\ sub[s].pc \in Filling /\ sub[r].t = sub[s].t => r = s
  BY Zenon DEF RingInv
<1> QED BY <1>1, <1>4, <1>5, <1>9, <1>10, <1>11, <1>12, <1>13, Zenon DEF RingInv, SlotOf

\* What the steps that are not about the ring leave alone.
SameOccupied == \A i \in Ring : slots'[i].occupied = slots[i].occupied
SameAt(l) == \A p \in Pollers : pol'[p].pc = l <=> pol[p].pc = l
SameCount == \A s \in Submitters : sub'[s].pc = "count" <=> sub[s].pc = "count"

\* The steps of a submitter that neither fill nor publish.
LEMMA SubmitRest ==
  ASSUME Types, NEW s \in Submitters, SubmitCall(s) \/ SubmitStep(s)
  PROVE  /\ UNCHANGED <<head, pol>>
         /\ Publish(s) \/ SameOccupied
         /\ \/ CheckFull(s) \/ CasTail(s) \/ Publish(s)
            \/ /\ tail' = tail
               /\ \A r \in Submitters :
                    /\ sub'[r].pc \in Filling => sub[r].pc \in Filling /\ sub'[r].t = sub[r].t
                    /\ sub'[r].pc = "casTail" => sub[r].pc = "casTail" /\ sub'[r].t = sub[r].t
         /\ Publish(s) \/ CountPending(s) \/ (pending' = pending /\ SameCount)
<1>1. UNCHANGED <<head, pol>>
  BY SubmitFrame, Zenon
<1>2. Publish(s) \/ SameOccupied
  <2>1. CASE slots' = slots
    BY <2>1, Zenon DEF SameOccupied
  <2>2. CASE PutPrompt(s) \/ ClearCancel(s) \/ PutId(s)
    BY <2>2, SlotMoves, Zenon DEF SlotTo, SameOccupied
  <2> QED BY <2>1, <2>2, Zenon DEF SubmitCall, SubmitStep, LoadTail, CheckFull, CasTail, TakeId,
             CountPending, queueVars
<1>3. ASSUME NEW l, NEW c, NEW t, NEW i, SubTo(s, l, c, t, i), l # "casTail",
             l \notin Filling \/ (sub[s].pc \in Filling /\ t = sub[s].t)
      PROVE  \A r \in Submitters :
               /\ sub'[r].pc \in Filling => sub[r].pc \in Filling /\ sub'[r].t = sub[r].t
               /\ sub'[r].pc = "casTail" => sub[r].pc = "casTail" /\ sub'[r].t = sub[r].t
  BY <1>3, Zenon DEF SubTo
<1>4. \/ CheckFull(s) \/ CasTail(s) \/ Publish(s)
      \/ /\ tail' = tail
         /\ \A r \in Submitters :
              /\ sub'[r].pc \in Filling => sub[r].pc \in Filling /\ sub'[r].t = sub[r].t
              /\ sub'[r].pc = "casTail" => sub[r].pc = "casTail" /\ sub'[r].t = sub[r].t
  <2>1. CASE SubmitCall(s) \/ LoadTail(s) \/ CountPending(s)
    <3>1. tail' = tail
      BY <2>1, Zenon DEF SubmitCall, LoadTail, CountPending, queueVars
    <3>2. sub' = sub \/ \E l \in {"loadTail", "checkFull", "idle"} : \E c, t, i : SubTo(s, l, c, t, i)
      BY <2>1, SubMoves, Zenon
    <3>3. \A l \in {"loadTail", "checkFull", "idle"} : l \notin Filling /\ l # "casTail"
      BY DEF Filling
    <3> QED BY <1>3, <3>1, <3>2, <3>3, Zenon
  <2>2. CASE TakeId(s) \/ PutPrompt(s) \/ ClearCancel(s) \/ PutId(s)
    <3>1. tail' = tail /\ sub[s].pc \in Filling
      BY <2>2, Zenon DEF TakeId, PutPrompt, ClearCancel, PutId, Filling
    <3>2. \E l \in {"putPrompt", "clearCancel", "putId", "publish"} : \E c, i : SubTo(s, l, c, sub[s].t, i)
      BY <2>2, SubMoves, Zenon
    <3>3. \A l \in {"putPrompt", "clearCancel", "putId", "publish"} : l # "casTail"
      OBVIOUS
    <3> QED BY <1>3, <3>1, <3>2, <3>3, Zenon
  <2> QED BY <2>1, <2>2, Zenon DEF SubmitStep
<1>5. Publish(s) \/ CountPending(s) \/ (pending' = pending /\ SameCount)
  <2>1. CASE ~(Publish(s) \/ CountPending(s))
    <3>1. pending' = pending
      BY <2>1, Zenon DEF SubmitCall, SubmitStep, LoadTail, CheckFull, CasTail, TakeId, PutPrompt,
         ClearCancel, PutId, queueVars
    <3>2. sub[s].pc # "count"
      BY <2>1, Zenon DEF SubmitCall, SubmitStep, LoadTail, CheckFull, CasTail, TakeId, PutPrompt,
         ClearCancel, PutId
    <3>3. sub' = sub \/ \E l \in {"loadTail", "checkFull", "idle", "casTail", "takeId", "putPrompt",
                                 "clearCancel", "putId", "publish"} : \E c, t, i : SubTo(s, l, c, t, i)
      BY <2>1, SubMoves, Zenon DEF SubmitStep
    <3>4. \A l \in {"loadTail", "checkFull", "idle", "casTail", "takeId", "putPrompt",
                    "clearCancel", "putId", "publish"} : l # "count"
      OBVIOUS
    <3>5. SameCount
      BY <3>2, <3>3, <3>4, Zenon DEF SubTo, SameCount
    <3> QED BY <3>1, <3>5
  <2> QED BY <2>1
<1> QED BY <1>1, <1>2, <1>4, <1>5, Zenon

\* The steps of a poller that neither claim nor empty a slot.
LEMMA PollRest ==
  ASSUME Types, NEW p \in Pollers, PollStep(p) \/ WatchdogAbort(p)
  PROVE  /\ UNCHANGED <<tail, sub>>
         /\ SwapOccupied(p) \/ SameOccupied
         /\ \/ SwapOccupied(p)
            \/ ClaimHead(p) /\ head' = head + 1 /\ PolGoes(p, "swap") /\ head < tail
               /\ slots[head % QueueCap].occupied
            \/ head' = head /\ SameAt("swap")
         /\ SwapOccupied(p) \/ UncountPending(p) \/ (pending' = pending /\ SameAt("uncount"))
<1>1. UNCHANGED <<tail, sub>>
  BY PollFrame, Zenon
<1>2. SwapOccupied(p) \/ SameOccupied
  <2>1. CASE slots' = slots
    BY <2>1, Zenon DEF SameOccupied
  <2>2. CASE TakePrompt(p)
    BY <2>2, SlotMoves, Zenon DEF SlotTo, SameOccupied
  <2>3. CASE ClaimStep(p)
    BY <2>1, <2>2, <2>3, Zenon DEF ClaimStep, ClaimHead, UncountPending, LoadId, LoadCancel,
       ClaimDecide, SetActiveId, ResetActiveCancel, SetActive, queueVars
  <2>4. CASE ~ClaimStep(p)
    BY <2>1, <2>4, Zenon DEF PollStep, SliceEnter, SliceCheck, SliceDrop, SliceWork, SliceCoarse,
       CoarseGenerated, FinishReply, FinishClearId, FinishClearCancel, SliceExit, WatchdogAbort, queueVars
  <2> QED BY <2>3, <2>4
<1>3. ASSUME NEW l, NEW i, NEW x, NEW c, NEW k, PolTo(p, l, i, x, c, k), NEW m,
             l # m, pol[p].pc # m
      PROVE  SameAt(m)
  BY <1>3, Zenon DEF PolTo, SameAt
<1>4. CASE ClaimHead(p)
  <2>1. pending' = pending /\ pol[p].pc = "claim"
    BY <1>4, Zenon DEF ClaimHead
  <2>2. \E l \in {"slice", "swap"} : PolGoes(p, l)
    BY <1>4, PolMoves, Zenon
  <2>3. \A l \in {"slice", "swap"} : l # "uncount" /\ "claim" # "uncount"
    OBVIOUS
  <2>4. SameAt("uncount")
    BY <1>3, <2>1, <2>2, <2>3, Zenon DEF PolGoes
  <2>5. CASE head' = head /\ PolGoes(p, "slice")
    <3>1. "slice" # "swap" /\ "claim" # "swap"
      OBVIOUS
    <3>2. SameAt("swap")
      BY <1>3, <2>1, <2>5, <3>1, Zenon DEF PolGoes
    <3> QED BY <1>1, <1>2, <2>1, <2>4, <2>5, <3>2, Zenon
  <2>6. CASE head < tail /\ slots[head % QueueCap].occupied /\ head' = head + 1 /\ PolGoes(p, "swap")
    BY <1>1, <1>2, <1>4, <2>1, <2>4, <2>6, Zenon
  <2> QED BY <1>4, <2>5, <2>6, PolMoves, Zenon
<1>5. CASE UncountPending(p)
  <2>1. head' = head /\ pol[p].pc = "uncount" /\ PolGoes(p, "loadId")
    BY <1>5, PolMoves, Zenon DEF UncountPending
  <2>2. "loadId" # "swap" /\ "uncount" # "swap"
    OBVIOUS
  <2>3. SameAt("swap")
    BY <1>3, <2>1, <2>2, Zenon DEF PolGoes
  <2> QED BY <1>1, <1>2, <1>5, <2>1, <2>3, Zenon
<1>6. CASE ~ClaimHead(p) /\ ~UncountPending(p) /\ ~SwapOccupied(p)
  <2> DEFINE L == {"idle", "check", "claim", "slice", "loadId", "loadCancel", "takePrompt", "decide", "setId",
                   "resetCancel", "setActive", "generated", "reply", "clearId", "clearFlag", "exit"}
  <2>1. UNCHANGED <<head, pending>> /\ pol[p].pc \in L
    <3>1. CASE ClaimStep(p)
      BY <1>6, <3>1, Zenon DEF ClaimStep, LoadId, LoadCancel, TakePrompt, ClaimDecide, SetActiveId,
         ResetActiveCancel, SetActive, queueVars
    <3>2. CASE ~ClaimStep(p)
      BY <3>2, Zenon DEF PollStep, SliceEnter, SliceCheck, SliceDrop, SliceWork, SliceCoarse,
         CoarseGenerated, FinishReply, FinishClearId, FinishClearCancel, SliceExit, WatchdogAbort, queueVars
    <3> QED BY <3>1, <3>2
  <2>2. pol' = pol \/ \E l \in L : \E i, x, c, k : PolTo(p, l, i, x, c, k)
    <3>1. CASE ClaimStep(p)
      BY <1>6, <3>1, PolMoves, Zenon DEF ClaimStep, PolGoes, PolReset
    <3>2. CASE ~ClaimStep(p)
      BY <3>2, PolMoves, SliceMoves, Zenon DEF PollStep, PolGoes, PolReset, PolFinish, WatchdogAbort
    <3> QED BY <3>1, <3>2
  <2>3. \A l \in L : l # "swap" /\ l # "uncount"
    OBVIOUS
  <2> HIDE DEF L
  <2>4. SameAt("swap") /\ SameAt("uncount")
    <3>1. CASE pol' = pol
      BY <3>1, Zenon DEF SameAt
    <3>2. CASE pol' # pol
      BY <1>3, <2>1, <2>2, <2>3, <3>2, Zenon
    <3> QED BY <3>1, <3>2
  <2> QED BY <1>1, <1>2, <2>1, <2>4, Zenon
<1>7. CASE SwapOccupied(p)
  BY <1>1, <1>7, Zenon
<1> QED BY <1>4, <1>5, <1>6, <1>7, Zenon

\* Every step keeps the ring.
LEMMA StepRing ==
  ASSUME Types, FlightInv, RingInv, [Next]_vars
  PROVE  RingInv'
<1>1. ASSUME UNCHANGED <<head, tail>>, SameAt("swap"), SameOccupied,
             \A r \in Submitters :
                /\ sub'[r].pc \in Filling => sub[r].pc \in Filling /\ sub'[r].t = sub[r].t
                /\ sub'[r].pc = "casTail" => sub[r].pc = "casTail" /\ sub'[r].t = sub[r].t
      PROVE  RingInv'
  <2>1. Swapping' = Swapping
    BY <1>1, Zenon DEF SameAt, Swapping
  <2> QED BY <1>1, <2>1, RingTypes, RingKept, Zenon DEF SameOccupied
<1>2. ASSUME NEW s \in Submitters, SubmitCall(s) \/ SubmitStep(s) PROVE RingInv'
  <2>1. CASE CheckFull(s) \/ CasTail(s) \/ Publish(s)
    BY <2>1, RingCheck, RingCas, RingPublish, Zenon
  <2>2. CASE ~(CheckFull(s) \/ CasTail(s) \/ Publish(s))
    <3>1. SameAt("swap")
      BY <1>2, SubmitRest, Zenon DEF SameAt
    <3> QED BY <1>1, <1>2, <2>2, <3>1, SubmitRest, Zenon
  <2> QED BY <2>1, <2>2
<1>3. ASSUME NEW p \in Pollers, PollStep(p) \/ WatchdogAbort(p) PROVE RingInv'
  <2>1. CASE SwapOccupied(p)
    BY <2>1, RingSwap, Zenon
  <2>2. CASE ~SwapOccupied(p) /\ head' = head /\ SameAt("swap")
    BY <1>1, <1>3, <2>2, PollRest, Zenon
  <2> QED BY <1>3, <2>1, <2>2, PollRest, RingClaim, Zenon
<1>4. CASE UNCHANGED vars \/ HeapChange \/ CancelStep
  <2>1. UNCHANGED <<head, tail, sub, pol>> /\ (slots' = slots \/ CancelSetSlot \/ CancelSetHead)
    BY <1>4, Background, Zenon
  <2>2. SameOccupied
    BY <2>1, SlotMoves, Zenon DEF SlotTo, SameOccupied
  <2> QED BY <1>1, <2>1, <2>2, Zenon DEF SameAt
<1> QED BY <1>2, <1>3, <1>4, Zenon DEF Next

-----------------------------------------------------------------------------
(* The window. *)

\* Until it has taken the prompt a claim keeps its position; the submitters that
\* have no position yet, that have one and have not filled the slot, and that have.
ClaimSlot == {"swap", "uncount", "loadId", "loadCancel", "takePrompt"}
Emptying == \E p \in Pollers : pol[p].pc \in ClaimSlot
Low == IF Emptying THEN head - 1 ELSE head
Window(k) == k \in Nat /\ Low <= k /\ k < tail
Early == {"takeId", "putPrompt"}
Late == {"clearCancel", "putId", "publish"}
Unnamed == {"loadTail", "checkFull", "casTail", "takeId"}
NamedSub == {"putPrompt"} \cup Late
Filled(k) == \A s \in Submitters : sub[s].pc \in Filling => sub[s].t # k

\* There is room at TAIL for whoever is about to take the position.
Room == \A s \in Submitters : sub[s].pc = "casTail" => tail < Low + QueueCap

\* The window, from the position a claim has not emptied to TAIL, is one lap.
KeptWindow == (Emptying => head >= 1) /\ tail <= Low + QueueCap

\* A slot holds an accepted call only at a position of the window, and every
\* position of the window has its call in the slot or with the submitter.
KeptCalls ==
  /\ \A i \in Ring : slots[i].call # 0 =>
        idOf[slots[i].call] # 0 /\ \E k \in Nat : Window(k) /\ i = SlotOf(k)
  /\ \A k \in Nat : Window(k) => slots[SlotOf(k)].call # 0
                                 \/ \E s \in Submitters : sub[s].pc \in Early /\ sub[s].t = k

\* A slot that has been filled holds the id of the call it holds.
KeptIds == \A k \in Nat : Window(k) /\ Filled(k) => slots[SlotOf(k)].id = idOf[slots[SlotOf(k)].call]

\* The slot of a submitter is empty before it has put the prompt and holds its
\* call afterwards; its call has an id once the id is drawn.
KeptSub(s) ==
  /\ sub[s].pc \in Early => slots[SlotOf(sub[s].t)].call = 0
  /\ sub[s].pc \in Late => slots[SlotOf(sub[s].t)].call = sub[s].call
  /\ sub[s].pc \in NamedSub => sub[s].id = idOf[sub[s].call] /\ sub[s].id # 0
  /\ sub[s].pc = "publish" => slots[SlotOf(sub[s].t)].id = sub[s].id
  /\ sub[s].pc \in Unnamed => idOf[sub[s].call] = 0
  /\ sub[s].pc \in Unnamed \cup NamedSub => sub[s].call # 0

\* A claim has the id of the slot, and then the call that has this id.
KeptPol(p) ==
  /\ pol[p].pc \in {"loadCancel", "takePrompt"} => pol[p].id = slots[Claimed].id
  /\ pol[p].pc = "decide" => pol[p].call # 0 /\ pol[p].id = idOf[pol[p].call]

\* Each slot keeps the job of its position until the claim has taken it.
KeptInv ==
  /\ KeptWindow /\ KeptCalls /\ KeptIds
  /\ \A s \in Submitters : KeptSub(s)
  /\ \A p \in Pollers : KeptPol(p)
  /\ \A c \in Calls : c > calls => idOf[c] = 0

\* Positions of the window have different slots.
LEMMA WindowSlots ==
  ASSUME Types, KeptWindow, NEW k, NEW m, Window(k), Window(m), k # m
  PROVE  SlotOf(k) # SlotOf(m)
<1>1. head \in Nat /\ tail \in Nat /\ QueueCap \in Nat /\ k \in Nat /\ m \in Nat
  BY RingTypes, Zenon DEF Window
<1>2. Low \in Int /\ tail <= Low + QueueCap
  BY <1>1 DEF KeptWindow, Low
<1>3. Low <= k /\ k < tail /\ Low <= m /\ m < tail
  BY Zenon DEF Window
<1>4. CASE k < m
  <2>1. m < k + QueueCap
    BY <1>1, <1>2, <1>3
  <2> QED BY <1>1, <1>4, <2>1, SlotInjective
<1>5. CASE m < k
  <2>1. k < m + QueueCap
    BY <1>1, <1>2, <1>3
  <2> QED BY <1>1, <1>5, <2>1, SlotInjective
<1> QED BY <1>1, <1>4, <1>5

\* How the sets of labels lie.
LEMMA LabelSets ==
  /\ Early \subseteq Filling /\ Late \subseteq Filling /\ "publish" \in Late /\ "takeId" \in Early
  /\ Filling \subseteq Unnamed \cup NamedSub /\ Early \cap Late = {}
  /\ NamedSub \subseteq Filling /\ Filling = Early \cup Late
  /\ "idle" \notin Filling /\ "count" \notin Filling
  /\ {"loadTail", "checkFull", "casTail"} \cap Filling = {}
  /\ {"loadTail", "checkFull", "casTail"} \subseteq Unnamed
  /\ "idle" \notin Unnamed \cup NamedSub /\ "count" \notin Unnamed \cup NamedSub
  /\ {"clearCancel", "putId"} \subseteq Late /\ Late \subseteq NamedSub
  /\ Unnamed \cap NamedSub = {}
  BY DEF Early, Late, Filling, Unnamed, NamedSub

\* A submitter whose slot and whose id a step leaves alone.
LEMMA KeptSubSame ==
  ASSUME NEW r \in Submitters, KeptSub(r), sub'[r] = sub[r],
         sub[r].pc \in Filling => /\ slots'[SlotOf(sub[r].t)].call = slots[SlotOf(sub[r].t)].call
                                  /\ slots'[SlotOf(sub[r].t)].id = slots[SlotOf(sub[r].t)].id,
         sub[r].pc \in Unnamed \cup NamedSub => idOf'[sub[r].call] = idOf[sub[r].call]
  PROVE  KeptSub(r)'
<1>1. sub[r].pc \in Early => sub[r].pc \in Filling
  BY LabelSets, Zenon
<1>2. sub[r].pc \in Late => sub[r].pc \in Filling
  BY LabelSets, Zenon
<1>3. sub[r].pc = "publish" => sub[r].pc \in Filling
  BY DEF Filling
<1> QED BY <1>1, <1>2, <1>3, Zenon DEF KeptSub, SlotOf

\* A step of a submitter that the window does not see.
KeepSub(s) ==
  \/ sub'[s] = sub[s]
  \/ sub'[s].pc = "idle" /\ sub[s].pc \notin Filling
  \/ /\ sub[s].pc \notin Filling /\ sub'[s].pc \in {"loadTail", "checkFull", "casTail"}
     /\ sub'[s].call # 0 /\ idOf[sub'[s].call] = 0
  \/ /\ sub[s].pc = "clearCancel" /\ sub'[s].pc = "putId"
     /\ sub'[s].call = sub[s].call /\ sub'[s].t = sub[s].t /\ sub'[s].id = sub[s].id

\* A step that leaves the call and the id of slot i.
SameSlot(i) == slots'[i].call = slots[i].call /\ slots'[i].id = slots[i].id

\* A step of a poller that the window does not see.
KeepPol(p) ==
  /\ pol'[p].pc \in {"loadCancel", "takePrompt"} => pol'[p].id = slots[Claimed].id /\ head' = head
  /\ pol'[p].pc = "decide" => pol'[p] = pol[p]

\* Steps that leave the slots, and those of their positions, keep the invariant.
LEMMA KeptKept ==
  ASSUME Types, KeptInv, UNCHANGED <<tail, idOf>>, Low' = Low, KeptWindow',
         \A c \in Calls : c > calls' => c > calls,
         \A i \in Ring : SameSlot(i), \A s \in Submitters : KeepSub(s), \A p \in Pollers : KeepPol(p)
  PROVE  KeptInv'
<1>0. (\A s \in Submitters : SlotOf(sub[s].t) \in Ring) /\ (\A k \in Nat : SlotOf(k) \in Ring)
      /\ Claimed \in Ring
  <2>1. head - 1 \in Int /\ \A k \in Nat : k \in Int
    BY RingTypes
  <2> QED BY <2>1, RingTypes, Zenon DEF Claimed, SlotOf
<1>1. \A k \in Nat : Window(k)' <=> Window(k)
  BY Zenon DEF Window
<1>2. ASSUME NEW s \in Submitters
      PROVE  /\ sub'[s].pc \in Filling <=> sub[s].pc \in Filling
             /\ sub'[s].pc \in Filling => sub'[s].t = sub[s].t
             /\ sub[s].pc \in Early => sub'[s] = sub[s]
  <2>1. KeepSub(s)
    BY Zenon
  <2>2. /\ Early \subseteq Filling /\ "idle" \notin Filling
        /\ {"loadTail", "checkFull", "casTail"} \cap Filling = {}
        /\ {"clearCancel", "putId"} \subseteq Filling /\ "clearCancel" \notin Early
    BY LabelSets, Zenon
  <2>3. sub'[s].pc \in {"loadTail", "checkFull", "casTail"} => sub'[s].pc \notin Filling
    BY <2>2, Zenon
  <2> QED BY <2>1, <2>2, <2>3, ZenonT(40) DEF KeepSub
<1>3. \A k \in Nat : Filled(k)' => Filled(k)
  BY <1>2, Zenon DEF Filled
<1>4. ASSUME NEW s \in Submitters PROVE KeptSub(s)'
  <2>0. KeptSub(s) /\ KeepSub(s) /\ SameSlot(SlotOf(sub[s].t))
    BY <1>0, Zenon DEF KeptInv
  <2>1. CASE sub'[s] = sub[s]
    BY <2>0, <2>1, KeptSubSame, Zenon DEF SameSlot
  <2>2. CASE sub'[s].pc = "idle"
    BY <2>2 DEF KeptSub, Early, Late, NamedSub, Unnamed
  <2>3. CASE /\ sub'[s].pc \in {"loadTail", "checkFull", "casTail"}
             /\ sub'[s].call # 0 /\ idOf[sub'[s].call] = 0
    <3>1. sub'[s].pc \notin Early \cup Late \cup NamedSub /\ sub'[s].pc # "publish"
      BY <2>3 DEF Early, Late, NamedSub
    <3> QED BY <2>3, <3>1 DEF KeptSub
  <2>4. CASE /\ sub[s].pc = "clearCancel" /\ sub'[s].pc = "putId"
             /\ sub'[s].call = sub[s].call /\ sub'[s].t = sub[s].t /\ sub'[s].id = sub[s].id
    <3>1. /\ sub[s].pc \in Late /\ sub[s].pc \in NamedSub
          /\ sub'[s].pc \notin Early \cup Unnamed /\ sub'[s].pc # "publish"
      BY <2>4 DEF Early, Late, NamedSub, Unnamed
    <3>2. slots'[SlotOf(sub[s].t)].call = sub[s].call
      BY <2>0, <3>1, Zenon DEF KeptSub, SameSlot
    <3>3. sub[s].id = idOf[sub[s].call] /\ sub[s].id # 0 /\ sub[s].call # 0
      BY <2>0, <3>1 DEF KeptSub
    <3> QED BY <2>4, <3>1, <3>2, <3>3 DEF KeptSub, SlotOf
  <2> QED BY <2>0, <2>1, <2>2, <2>3, <2>4, Zenon DEF KeepSub
<1>5. ASSUME NEW p \in Pollers PROVE KeptPol(p)'
  <2>0. KeptPol(p) /\ KeepPol(p) /\ SameSlot(Claimed)
    BY <1>0, Zenon DEF KeptInv
  <2>1. pol'[p].pc \in {"loadCancel", "takePrompt"} => pol'[p].id = slots'[Claimed'].id
    BY <2>0, Zenon DEF KeptPol, KeepPol, SameSlot, Claimed
  <2>2. pol'[p].pc = "decide" => pol'[p].call # 0 /\ pol'[p].id = idOf'[pol'[p].call]
    BY <2>0, Zenon DEF KeptPol, KeepPol
  <2> QED BY <2>1, <2>2, Zenon DEF KeptPol
<1>6. KeptCalls'
  <2>1. KeptCalls
    BY Zenon DEF KeptInv
  <2>2. ASSUME NEW i \in Ring, slots'[i].call # 0
        PROVE  idOf'[slots'[i].call] # 0 /\ \E k \in Nat : Window(k)' /\ i = SlotOf(k)
    BY <1>1, <2>1, <2>2, Zenon DEF KeptCalls, SameSlot
  <2>3. ASSUME NEW k \in Nat, Window(k)'
        PROVE  slots'[SlotOf(k)].call # 0 \/ \E s \in Submitters : sub'[s].pc \in Early /\ sub'[s].t = k
    <3>1. Window(k) /\ SlotOf(k) \in Ring
      BY <1>0, <1>1, <2>3, Zenon
    <3>2. slots'[SlotOf(k)].call = slots[SlotOf(k)].call
      BY <3>1, Zenon DEF SameSlot
    <3>3. \A s \in Submitters : sub[s].pc \in Early => sub'[s] = sub[s]
      BY <1>2, Zenon
    <3> QED BY <2>1, <3>1, <3>2, <3>3, Zenon DEF KeptCalls
  <2> QED BY <2>2, <2>3, Zenon DEF KeptCalls, SlotOf
<1>7. KeptIds'
  <2>1. ASSUME NEW k \in Nat, Window(k)', Filled(k)'
        PROVE  slots'[SlotOf(k)].id = idOf'[slots'[SlotOf(k)].call]
    BY <1>0, <1>1, <1>3, <2>1, Zenon DEF KeptInv, KeptIds, SameSlot
  <2> QED BY <2>1, Zenon DEF KeptIds, SlotOf
<1>8. \A c \in Calls : c > calls' => idOf'[c] = 0
  BY Zenon DEF KeptInv
<1> QED BY <1>4, <1>5, <1>6, <1>7, <1>8, Zenon DEF KeptInv

\* The positions being filled are in the window, one slot each.
LEMMA FillingWindow ==
  ASSUME Types, RingInv, KeptInv, NEW s \in Submitters, sub[s].pc \in Filling
  PROVE  /\ Window(sub[s].t) /\ head <= sub[s].t /\ SlotOf(sub[s].t) \in Ring
         /\ \A k : Window(k) /\ k # sub[s].t => SlotOf(k) # SlotOf(sub[s].t) /\ SlotOf(k) \in Ring
         /\ \A r \in Submitters \ {s} : sub[r].pc \in Filling => SlotOf(sub[r].t) # SlotOf(sub[s].t)
<1>0. ASSUME NEW r \in Submitters, sub[r].pc \in Filling PROVE Window(sub[r].t) /\ head <= sub[r].t
  <2>1. head <= sub[r].t /\ sub[r].t < tail
    BY <1>0, Zenon DEF RingInv
  <2>2. head \in Nat /\ sub[r].t \in Nat
    BY RingTypes, Zenon
  <2>3. Low <= head /\ Low \in Int
    BY <2>2 DEF Low
  <2> QED BY <2>1, <2>2, <2>3 DEF Window
<1>1. SlotOf(sub[s].t) \in Ring /\ \A k \in Nat : SlotOf(k) \in Ring
  BY RingTypes
<1>2. \A k : Window(k) /\ k # sub[s].t => SlotOf(k) # SlotOf(sub[s].t) /\ SlotOf(k) \in Ring
  <2> SUFFICES ASSUME NEW k, Window(k), k # sub[s].t
               PROVE  SlotOf(k) # SlotOf(sub[s].t) /\ SlotOf(k) \in Ring
    BY Zenon
  <2>1. KeptWindow /\ Window(sub[s].t)
    BY <1>0, Zenon DEF KeptInv
  <2>2. SlotOf(k) # SlotOf(sub[s].t)
    BY <2>1, WindowSlots, Zenon
  <2> QED BY <1>1, <2>2, Zenon DEF Window
<1>3. ASSUME NEW r \in Submitters \ {s}, sub[r].pc \in Filling PROVE SlotOf(sub[r].t) # SlotOf(sub[s].t)
  <2>1. sub[r].t # sub[s].t
    BY <1>3, Zenon DEF RingInv
  <2> QED BY <1>0, <1>2, <1>3, <2>1, Zenon
<1> QED BY <1>0, <1>1, <1>2, <1>3, Zenon

\* CasTail: the new position's slot is empty.
LEMMA KeptCas ==
  ASSUME Types, JobInv, RingInv, KeptInv, Room,
         NEW s \in Submitters, CasTail(s), tail = sub[s].t, tail' = tail + 1, Sub(s, "takeId")
  PROVE  KeptInv'
<1>0. tail \in Nat /\ QueueCap \in Nat /\ Low \in Int /\ tail < Low + QueueCap /\ SlotOf(tail) \in Ring
  <2>1. tail < Low + QueueCap
    BY Zenon DEF Room, CasTail
  <2>2. head \in Nat /\ tail \in Nat /\ QueueCap \in Nat /\ SlotOf(tail) \in Ring
    BY RingTypes
  <2> QED BY <2>1, <2>2 DEF Low
<1>1. UNCHANGED <<head, slots, pol, idOf, calls>> /\ sub[s].pc = "casTail"
  BY Zenon DEF CasTail, ghosts
<1>2. Emptying' = Emptying /\ Low' = Low /\ Claimed' = Claimed
  BY <1>1, Zenon DEF Emptying, Low, Claimed
<1>3. SubTo(s, "takeId", sub[s].call, sub[s].t, sub[s].id)
  BY DEF Types, SubTypes, SubRec, Sub, SubTo
<1>4. KeptWindow'
  <2>1. tail' <= Low + QueueCap
    BY <1>0
  <2> QED BY <1>1, <1>2, <2>1, Zenon DEF KeptInv, KeptWindow
<1>5. \A k \in Nat : /\ Window(k)' => Window(k) \/ k = tail
                     /\ Window(k) => Window(k)'
  BY <1>0, <1>2 DEF Window
<1>6. slots[SlotOf(tail)].call = 0
  <2> SUFFICES ASSUME slots[SlotOf(tail)].call # 0 PROVE FALSE
    OBVIOUS
  <2>1. PICK k \in Nat : Window(k) /\ SlotOf(tail) = SlotOf(k)
    BY <1>0, Zenon DEF KeptInv, KeptCalls
  <2>2. k < tail /\ tail < k + QueueCap
    BY <1>0, <2>1 DEF Window
  <2> QED BY <1>0, <2>1, <2>2, SlotInjective
<1>7. ASSUME NEW r \in Submitters PROVE KeptSub(r)'
  <2>0. KeptSub(r)
    BY Zenon DEF KeptInv
  <2>1. CASE r # s
    <3>1. sub'[r] = sub[r]
      BY <1>3, <2>1, Zenon DEF SubTo
    <3> QED BY <1>1, <2>0, <3>1, KeptSubSame, Zenon
  <2>2. CASE r = s
    <3>1. sub'[s].pc = "takeId" /\ sub'[s].t = tail /\ sub'[s].call = sub[s].call
      BY <1>3, Zenon DEF SubTo
    <3>2. "takeId" \notin Late \cup NamedSub /\ "takeId" # "publish" /\ sub[s].pc \in Unnamed
      BY <1>1 DEF Late, NamedSub, Unnamed
    <3> QED BY <1>1, <1>6, <2>0, <2>2, <3>1, <3>2 DEF KeptSub, SlotOf
  <2> QED BY <2>1, <2>2
<1>8. \A p \in Pollers : KeptPol(p)'
  BY <1>1, <1>2, Zenon DEF KeptInv, KeptPol
<1>9. sub'[s].pc \in Early /\ sub'[s].pc \in Filling /\ sub'[s].t = tail
      /\ \A r \in Submitters \ {s} : sub'[r] = sub[r]
  BY <1>3 DEF SubTo, Early, Filling
<1>10. sub[s].pc \notin Early /\ sub[s].pc \notin Filling
  BY <1>1 DEF Early, Filling
<1>11. KeptCalls'
  <2>1. ASSUME NEW i \in Ring, slots'[i].call # 0
        PROVE  idOf'[slots'[i].call] # 0 /\ \E k \in Nat : Window(k)' /\ i = SlotOf(k)
    BY <1>1, <1>5, <2>1, Zenon DEF KeptInv, KeptCalls
  <2>2. ASSUME NEW k \in Nat, Window(k)'
        PROVE  slots'[SlotOf(k)].call # 0 \/ \E r \in Submitters : sub'[r].pc \in Early /\ sub'[r].t = k
    <3>1. CASE k = tail
      BY <1>9, <3>1, Zenon
    <3>2. CASE Window(k)
      <4>1. slots[SlotOf(k)].call # 0 \/ \E r \in Submitters : sub[r].pc \in Early /\ sub[r].t = k
        BY <3>2, Zenon DEF KeptInv, KeptCalls
      <4> QED BY <1>1, <1>9, <1>10, <4>1, Zenon
    <3> QED BY <1>5, <2>2, <3>1, <3>2, Zenon
  <2> QED BY <2>1, <2>2, Zenon DEF KeptCalls, SlotOf
<1>12. KeptIds'
  <2>1. ASSUME NEW k \in Nat, Window(k)', Filled(k)'
        PROVE  slots'[SlotOf(k)].id = idOf'[slots'[SlotOf(k)].call]
    <3>1. k # tail
      BY <1>9, <2>1, Zenon DEF Filled
    <3>2. Window(k)
      BY <1>5, <2>1, <3>1, Zenon
    <3>3. Filled(k)
      BY <1>9, <1>10, <2>1, Zenon DEF Filled
    <3> QED BY <1>1, <3>2, <3>3, Zenon DEF KeptInv, KeptIds
  <2> QED BY <2>1, Zenon DEF KeptIds, SlotOf
<1>13. \A c \in Calls : c > calls' => idOf'[c] = 0
  BY <1>1, Zenon DEF KeptInv
<1> QED BY <1>4, <1>7, <1>8, <1>11, <1>12, <1>13, Zenon DEF KeptInv

\* The call gets its id.
LEMMA KeptTakeId ==
  ASSUME Types, JobInv, RingInv, KeptInv, NEW s \in Submitters, TakeId(s)
  PROVE  KeptInv'
<1> DEFINE c == sub[s].call
<1>0. c \in Calls /\ c \in 0..calls /\ calls \in Nat /\ nextId # 0 /\ calls \in 0..MaxCalls
      /\ job[<<"sub", s>>] = c /\ <<"sub", s>> \in Places
  <2>1. sub[s].pc \in Carrying /\ sub[s].pc \in Unnamed
    BY DEF TakeId, Carrying, Unnamed
  <2>2. c # 0
    BY <2>1 DEF KeptInv, KeptSub
  <2>3. job[<<"sub", s>>] = c /\ <<"sub", s>> \in Places
    BY <2>1, JobAt, Zenon DEF SubJob
  <2>4. c \in 0..calls
    BY <2>3, Zenon DEF JobInv
  <2>5. calls \in 0..MaxCalls /\ MaxCalls \in Nat /\ nextId # 0
    BY Numbers, Zenon DEF Types, NumTypes
  <2>6. c \in Calls /\ calls \in Nat
    BY <2>2, <2>4, <2>5, MadeCall, Zenon
  <2> QED BY <2>3, <2>4, <2>5, <2>6, Zenon
<1>1. UNCHANGED <<head, tail, slots, pol, calls>> /\ sub[s].pc = "takeId"
  BY Zenon DEF TakeId
<1>2. idOf'[c] = nextId /\ \A d \in Calls \ {c} : idOf'[d] = idOf[d]
  BY <1>0 DEF TakeId, Types, CallTypes
<1>3. SubTo(s, "putPrompt", c, sub[s].t, nextId)
  BY SubMoves, Zenon
<1> HIDE DEF c
<1>4. Emptying' = Emptying /\ Low' = Low /\ Claimed' = Claimed /\ KeptWindow'
  BY <1>1, Zenon DEF Emptying, Low, Claimed, KeptInv, KeptWindow
<1>5. ASSUME NEW x \in Places, job[x] # 0, x # <<"sub", s>> PROVE idOf'[job[x]] = idOf[job[x]]
  <2>1. job[x] # c
    BY <1>0, <1>5, Zenon DEF JobInv
  <2>2. job[x] \in 0..calls
    BY Zenon DEF JobInv
  <2>3. job[x] \in Calls
    BY <1>0, <1>5, <2>2, MadeCall, Zenon
  <2> QED BY <1>2, <2>1, <2>3, Zenon
<1>6. ASSUME NEW i \in Ring, slots[i].call # 0 PROVE idOf'[slots[i].call] = idOf[slots[i].call]
  <2>1. <<"slot", i>> # <<"sub", s>>
    OBVIOUS
  <2>2. <<"slot", i>> \in Places /\ job[<<"slot", i>>] = slots[i].call
    BY JobAt, Zenon
  <2> QED BY <1>5, <1>6, <2>1, <2>2, Zenon
<1>7. ASSUME NEW r \in Submitters PROVE KeptSub(r)'
  <2>0. KeptSub(r)
    BY Zenon DEF KeptInv
  <2>1. CASE r # s
    <3>1. sub'[r] = sub[r]
      BY <1>3, <2>1, Zenon DEF SubTo
    <3>2. ASSUME sub[r].pc \in Unnamed PROVE idOf'[sub[r].call] = idOf[sub[r].call]
      <4>1. sub[r].pc \in Carrying /\ sub[r].call # 0
        BY <2>0, <3>2 DEF Unnamed, Carrying, KeptSub
      <4>2. job[<<"sub", r>>] = sub[r].call /\ <<"sub", r>> \in Places
        BY <4>1, JobAt, Zenon DEF SubJob
      <4>3. <<"sub", r>> # <<"sub", s>>
        BY <2>1
      <4> QED BY <1>5, <4>1, <4>2, <4>3, Zenon
    <3>3. ASSUME sub[r].pc \in NamedSub PROVE idOf'[sub[r].call] = idOf[sub[r].call]
      <4>1. sub[r].call # 0 /\ idOf[sub[r].call] # 0
        BY <2>0, <3>3 DEF KeptSub
      <4>2. idOf[c] = 0
        BY <1>1 DEF KeptInv, KeptSub, Unnamed, c
      <4>3. sub[r].call \in Calls
        BY <4>1 DEF Types, SubTypes, SubRec, Calls
      <4> QED BY <1>2, <4>1, <4>2, <4>3, Zenon
    <3> QED BY <1>1, <2>0, <3>1, <3>2, <3>3, KeptSubSame, Zenon
  <2>2. CASE r = s
    <3>1. sub'[s].pc = "putPrompt" /\ sub'[s].t = sub[s].t /\ sub'[s].call = c /\ sub'[s].id = nextId
      BY <1>3, Zenon DEF SubTo
    <3>2. /\ "putPrompt" \notin Late \cup Unnamed /\ "putPrompt" # "publish" /\ sub[s].pc \in Early
          /\ c # 0
      <4>1. "putPrompt" \notin Late /\ "putPrompt" \notin Unnamed /\ "putPrompt" # "publish"
        BY Zenon DEF Late, Unnamed
      <4>2. sub[s].pc \in Early
        BY <1>1, Zenon DEF Early
      <4>3. \A d \in Calls : d # 0
        BY DEF Calls
      <4> QED BY <1>0, <4>1, <4>2, <4>3, Zenon
    <3>3. slots'[SlotOf(sub'[s].t)].call = 0
      BY <1>1, <2>0, <2>2, <3>1, <3>2, Zenon DEF KeptSub
    <3> QED BY <1>0, <1>2, <2>2, <3>1, <3>2, <3>3 DEF KeptSub, SlotOf
  <2> QED BY <2>1, <2>2
<1>8. ASSUME NEW p \in Pollers PROVE KeptPol(p)'
  <2>1. KeptPol(p)
    BY Zenon DEF KeptInv
  <2>2. <<"pol", p>> # <<"sub", s>>
    OBVIOUS
  <2>3. pol[p].call # 0 => idOf'[pol[p].call] = idOf[pol[p].call]
    BY <1>5, <2>2, JobAt, Zenon
  <2> QED BY <1>1, <1>4, <2>1, <2>3, Zenon DEF KeptPol
<1>9. /\ \A k \in Nat : Window(k)' <=> Window(k)
      /\ \A r \in Submitters : sub[r].pc \in Early => sub'[r].pc \in Early
      /\ \A r \in Submitters : sub'[r].pc \in Filling <=> sub[r].pc \in Filling
      /\ \A r \in Submitters : sub'[r].t = sub[r].t
  <2>1. \A k \in Nat : Window(k)' <=> Window(k)
    BY <1>1, <1>4, Zenon DEF Window
  <2>2. "putPrompt" \in Early /\ "putPrompt" \in Filling /\ sub[s].pc \in Filling
    BY <1>1 DEF Early, Filling
  <2> QED BY <1>3, <2>1, <2>2, Zenon DEF SubTo
<1>10. KeptCalls'
  <2>1. ASSUME NEW i \in Ring, slots'[i].call # 0
        PROVE  idOf'[slots'[i].call] # 0 /\ \E k \in Nat : Window(k)' /\ i = SlotOf(k)
    BY <1>1, <1>6, <1>9, <2>1, Zenon DEF KeptInv, KeptCalls
  <2>2. ASSUME NEW k \in Nat, Window(k)'
        PROVE  slots'[SlotOf(k)].call # 0 \/ \E r \in Submitters : sub'[r].pc \in Early /\ sub'[r].t = k
    <3>1. slots[SlotOf(k)].call # 0 \/ \E r \in Submitters : sub[r].pc \in Early /\ sub[r].t = k
      BY <1>9, <2>2, Zenon DEF KeptInv, KeptCalls
    <3> QED BY <1>1, <1>9, <3>1, Zenon
  <2> QED BY <2>1, <2>2, Zenon DEF KeptCalls, SlotOf
<1>11. KeptIds'
  <2>1. ASSUME NEW k \in Nat, Window(k)', Filled(k)'
        PROVE  slots'[SlotOf(k)].id = idOf'[slots'[SlotOf(k)].call]
    <3>1. Window(k) /\ Filled(k)
      BY <1>9, <2>1, Zenon DEF Filled
    <3>2. slots[SlotOf(k)].call # 0
      BY <3>1, LabelSets, Zenon DEF KeptInv, KeptCalls, Filled
    <3>3. SlotOf(k) \in Ring
      BY RingTypes
    <3> QED BY <1>1, <1>6, <3>1, <3>2, <3>3, Zenon DEF KeptInv, KeptIds
  <2> QED BY <2>1, Zenon DEF KeptIds, SlotOf
<1>12. \A d \in Calls : d > calls' => idOf'[d] = 0
  <2>1. ~(c > calls)
    <3>1. \A n \in Nat : \A x \in 0..n : ~(x > n)
      OBVIOUS
    <3> QED BY <1>0, <3>1, Zenon
  <2> QED BY <1>1, <1>2, <2>1, Zenon DEF KeptInv
<1> QED BY <1>4, <1>7, <1>8, <1>10, <1>11, <1>12, Zenon DEF KeptInv

\* A claim under way has its position in the window, before those being filled.
LEMMA ClaimWindow ==
  ASSUME Types, RingInv, KeptInv, NEW p \in Pollers, pol[p].pc \in ClaimSlot
  PROVE  /\ Window(head - 1) /\ Low = head - 1 /\ Claimed = SlotOf(head - 1)
         /\ \A s \in Submitters : sub[s].pc \in Filling => sub[s].t # head - 1
         /\ \A k : Window(k) /\ k # head - 1 => SlotOf(k) # Claimed
<1>0. head \in Nat /\ tail \in Nat
  BY RingTypes, Zenon
<1>1. Emptying /\ Low = head - 1 /\ Claimed = SlotOf(head - 1)
  BY Zenon DEF Emptying, Low, Claimed, SlotOf
<1>2. head >= 1 /\ head <= tail
  BY <1>1, Zenon DEF KeptInv, KeptWindow, RingInv
<1>3. Window(head - 1)
  BY <1>0, <1>1, <1>2 DEF Window
<1>4. ASSUME NEW s \in Submitters, sub[s].pc \in Filling PROVE sub[s].t # head - 1
  <2>1. head <= sub[s].t
    BY <1>4, Zenon DEF RingInv
  <2> QED BY <1>0, <2>1
<1>5. ASSUME NEW k, Window(k), k # head - 1 PROVE SlotOf(k) # Claimed
  BY <1>1, <1>3, <1>5, WindowSlots, Zenon DEF KeptInv
<1> QED BY <1>1, <1>3, <1>4, <1>5, Zenon

\* A submitter writes into its own slot.
LEMMA KeptFill ==
  ASSUME Types, RingInv, KeptInv, NEW s \in Submitters, NEW j, j = SlotOf(sub[s].t),
         sub[s].pc \in Filling, UNCHANGED <<head, tail, pol, idOf, calls>>,
         sub'[s].t = sub[s].t, \A r \in Submitters \ {s} : sub'[r] = sub[r],
         \A i \in Ring \ {j} : slots'[i] = slots[i],
         KeptSub(s)',
         slots'[j].call # 0 => idOf[slots'[j].call] # 0,
         slots'[j].call # 0 \/ sub'[s].pc \in Early,
         sub'[s].pc \in Filling \/ slots'[j].id = idOf[slots'[j].call]
  PROVE  KeptInv'
<1>0. /\ Window(sub[s].t) /\ sub[s].t \in Nat /\ j \in Ring
      /\ \A k : Window(k) /\ k # sub[s].t => SlotOf(k) # j /\ SlotOf(k) \in Ring
      /\ \A r \in Submitters \ {s} : sub[r].pc \in Filling => SlotOf(sub[r].t) # j
  BY FillingWindow, Zenon DEF Window
<1>1. Emptying' = Emptying /\ Low' = Low /\ Claimed' = Claimed /\ KeptWindow'
  BY Zenon DEF Emptying, Low, Claimed, KeptInv, KeptWindow
<1>2. \A k \in Nat : Window(k)' <=> Window(k)
  BY <1>1, Zenon DEF Window
<1>3. ASSUME NEW r \in Submitters PROVE KeptSub(r)'
  <2>1. CASE r # s
    <3>1. KeptSub(r) /\ sub'[r] = sub[r]
      BY <2>1, Zenon DEF KeptInv
    <3>2. SlotOf(sub[r].t) \in Ring
      BY RingTypes, Zenon
    <3>3. sub[r].pc \in Filling => slots'[SlotOf(sub[r].t)] = slots[SlotOf(sub[r].t)]
      BY <1>0, <2>1, <3>2, Zenon
    <3> QED BY <3>1, <3>3, KeptSubSame, Zenon
  <2> QED BY <2>1
<1>4. ASSUME NEW p \in Pollers PROVE KeptPol(p)'
  <2>1. KeptPol(p)
    BY Zenon DEF KeptInv
  <2>2. ASSUME pol[p].pc \in {"loadCancel", "takePrompt"} PROVE slots'[Claimed] = slots[Claimed]
    <3>1. pol[p].pc \in ClaimSlot
      BY <2>2 DEF ClaimSlot
    <3>2. Claimed # j /\ Claimed \in Ring
      BY <1>0, <3>1, ClaimWindow, Zenon
    <3> QED BY <3>2, Zenon
  <2> QED BY <1>1, <2>1, <2>2, Zenon DEF KeptPol
<1>5. KeptCalls'
  <2>1. ASSUME NEW i \in Ring, slots'[i].call # 0
        PROVE  idOf'[slots'[i].call] # 0 /\ \E k \in Nat : Window(k)' /\ i = SlotOf(k)
    <3>1. CASE i = j
      BY <1>0, <1>2, <2>1, <3>1, Zenon
    <3>2. CASE i # j
      BY <1>2, <2>1, <3>2, ZenonT(40) DEF KeptInv, KeptCalls
    <3> QED BY <3>1, <3>2
  <2>2. ASSUME NEW k \in Nat, Window(k)'
        PROVE  slots'[SlotOf(k)].call # 0 \/ \E r \in Submitters : sub'[r].pc \in Early /\ sub'[r].t = k
    <3>1. CASE k = sub[s].t
      BY <3>1, Zenon
    <3>2. CASE k # sub[s].t
      <4>1. slots'[SlotOf(k)] = slots[SlotOf(k)]
        BY <1>0, <1>2, <2>2, <3>2, Zenon
      <4>2. slots[SlotOf(k)].call # 0 \/ \E r \in Submitters : sub[r].pc \in Early /\ sub[r].t = k
        BY <1>2, <2>2, Zenon DEF KeptInv, KeptCalls
      <4> QED BY <3>2, <4>1, <4>2, Zenon
    <3> QED BY <3>1, <3>2
  <2> QED BY <2>1, <2>2, Zenon DEF KeptCalls, SlotOf
<1>6. KeptIds'
  <2>1. ASSUME NEW k \in Nat, Window(k)', Filled(k)'
        PROVE  slots'[SlotOf(k)].id = idOf'[slots'[SlotOf(k)].call]
    <3>1. CASE k = sub[s].t
      <4>1. sub'[s].pc \notin Filling
        BY <2>1, <3>1, Zenon DEF Filled
      <4> QED BY <3>1, <4>1, Zenon
    <3>2. CASE k # sub[s].t
      <4>1. slots'[SlotOf(k)] = slots[SlotOf(k)]
        BY <1>0, <1>2, <2>1, <3>2, Zenon
      <4>2. Filled(k) /\ Window(k)
        BY <1>2, <2>1, <3>2, Zenon DEF Filled
      <4> QED BY <4>1, <4>2, Zenon DEF KeptInv, KeptIds
    <3> QED BY <3>1, <3>2
  <2> QED BY <2>1, Zenon DEF KeptIds, SlotOf
<1>7. \A c \in Calls : c > calls' => idOf'[c] = 0
  BY Zenon DEF KeptInv
<1> QED BY <1>1, <1>3, <1>4, <1>5, <1>6, <1>7, Zenon DEF KeptInv

\* Filling a slot: the prompt, the id, and the publication.
LEMMA KeptPut ==
  ASSUME Types, RingInv, KeptInv, NEW s \in Submitters, PutPrompt(s) \/ PutId(s) \/ Publish(s)
  PROVE  KeptInv'
<1> DEFINE j == SlotOf(sub[s].t)
<1>0. KeptSub(s)
  BY Zenon DEF KeptInv
<1>1. CASE PutPrompt(s)
  <2>1. /\ UNCHANGED <<head, tail, pol, idOf, calls>> /\ sub[s].pc = "putPrompt"
    BY <1>1, Zenon DEF PutPrompt, ghosts
  <2>2. SubTo(s, "clearCancel", sub[s].call, sub[s].t, sub[s].id)
    BY <1>1, SubMoves, Zenon
  <2>3. SlotTo(j, slots[j].occupied, slots[j].id, slots[j].cancel, sub[s].call)
    BY <1>1, SlotMoves, Zenon DEF SlotOf
  <2>4. /\ sub[s].pc \in Filling /\ sub[s].pc \in NamedSub /\ "clearCancel" \in Filling
        /\ "clearCancel" \notin Early \cup Unnamed /\ "clearCancel" # "publish"
    BY <2>1 DEF Filling, NamedSub, Early, Unnamed
  <2>5. sub[s].id = idOf[sub[s].call] /\ sub[s].id # 0 /\ sub[s].call # 0
    BY <1>0, <2>4 DEF KeptSub
  <2> HIDE DEF j
  <2>6. /\ sub'[s].pc = "clearCancel" /\ sub'[s].call = sub[s].call /\ sub'[s].t = sub[s].t
        /\ sub'[s].id = sub[s].id /\ \A r \in Submitters \ {s} : sub'[r] = sub[r]
    BY <2>2, Zenon DEF SubTo
  <2>7. slots'[j].call = sub[s].call /\ \A i \in Ring \ {j} : slots'[i] = slots[i]
    BY <2>3, Zenon DEF SlotTo
  <2>8. KeptSub(s)'
    BY <2>1, <2>4, <2>5, <2>6, <2>7 DEF KeptSub, SlotOf, j
  <2>9. j = SlotOf(sub[s].t)
    BY DEF j
  <2> QED BY <2>1, <2>4, <2>5, <2>6, <2>7, <2>8, <2>9, KeptFill, Zenon
<1>2. CASE PutId(s)
  <2>1. /\ UNCHANGED <<head, tail, pol, idOf, calls>> /\ sub[s].pc = "putId"
    BY <1>2, Zenon DEF PutId, ghosts
  <2>2. SubTo(s, "publish", sub[s].call, sub[s].t, sub[s].id)
    BY <1>2, SubMoves, Zenon
  <2>3. SlotTo(j, slots[j].occupied, sub[s].id, slots[j].cancel, slots[j].call)
    BY <1>2, SlotMoves, Zenon DEF SlotOf
  <2>4. /\ sub[s].pc \in Filling /\ sub[s].pc \in NamedSub /\ sub[s].pc \in Late /\ "publish" \in Filling
        /\ "publish" \notin Early \cup Unnamed
    BY <2>1 DEF Filling, NamedSub, Early, Unnamed, Late
  <2>5. /\ sub[s].id = idOf[sub[s].call] /\ sub[s].id # 0 /\ sub[s].call # 0
        /\ slots[j].call = sub[s].call
    BY <1>0, <2>4 DEF KeptSub
  <2> HIDE DEF j
  <2>6. /\ sub'[s].pc = "publish" /\ sub'[s].call = sub[s].call /\ sub'[s].t = sub[s].t
        /\ sub'[s].id = sub[s].id /\ \A r \in Submitters \ {s} : sub'[r] = sub[r]
    BY <2>2, Zenon DEF SubTo
  <2>7. slots'[j].call = sub[s].call /\ slots'[j].id = sub[s].id /\ \A i \in Ring \ {j} : slots'[i] = slots[i]
    BY <2>3, <2>5, Zenon DEF SlotTo
  <2>8. KeptSub(s)'
    BY <2>1, <2>4, <2>5, <2>6, <2>7 DEF KeptSub, SlotOf, j
  <2>9. j = SlotOf(sub[s].t)
    BY DEF j
  <2> QED BY <2>1, <2>4, <2>5, <2>6, <2>7, <2>8, <2>9, KeptFill, ZenonT(40)
<1>3. CASE Publish(s)
  <2>1. /\ UNCHANGED <<head, tail, pol, idOf, calls>> /\ sub[s].pc = "publish"
    BY <1>3, Zenon DEF Publish, ghosts
  <2>2. SubTo(s, "count", sub[s].call, sub[s].t, sub[s].id)
    BY <1>3, SubMoves, Zenon
  <2>3. SlotTo(j, TRUE, slots[j].id, slots[j].cancel, slots[j].call)
    BY <1>3, SlotMoves, Zenon DEF SlotOf
  <2>4. sub[s].pc \in Filling /\ sub[s].pc \in NamedSub /\ sub[s].pc \in Late
    BY <2>1 DEF Filling, NamedSub, Late
  <2>5. /\ sub[s].id = idOf[sub[s].call] /\ sub[s].id # 0 /\ sub[s].call # 0
        /\ slots[j].call = sub[s].call /\ slots[j].id = sub[s].id
    BY <1>0, <2>1, <2>4 DEF KeptSub
  <2> HIDE DEF j
  <2>6. sub'[s].pc = "count" /\ sub'[s].t = sub[s].t /\ \A r \in Submitters \ {s} : sub'[r] = sub[r]
    BY <2>2, Zenon DEF SubTo
  <2>7. slots'[j].call = sub[s].call /\ slots'[j].id = sub[s].id /\ \A i \in Ring \ {j} : slots'[i] = slots[i]
    BY <2>3, <2>5, Zenon DEF SlotTo
  <2>8. KeptSub(s)'
    BY <2>6 DEF KeptSub, Early, Late, Unnamed, NamedSub
  <2>9. j = SlotOf(sub[s].t)
    BY DEF j
  <2> QED BY <2>1, <2>4, <2>5, <2>6, <2>7, <2>8, <2>9, KeptFill, ZenonT(40)
<1> QED BY <1>1, <1>2, <1>3

\* The claim takes the prompt: it is the one of the id it has read.
LEMMA KeptTake ==
  ASSUME Types, FlightInv, RingInv, KeptInv, NEW p \in Pollers, TakePrompt(p)
  PROVE  KeptInv'
<1> DEFINE j == Claimed
<1>1. UNCHANGED <<head, tail, sub, idOf, calls>> /\ pol[p].pc = "takePrompt"
  BY Zenon DEF TakePrompt, ghosts
<1>2. PolTo(p, "decide", pol[p].id, pol[p].cancelled, slots[j].call, pol[p].kind)
  BY PolMoves, Zenon
<1>3. SlotTo(j, slots[j].occupied, slots[j].id, slots[j].cancel, 0)
  BY SlotMoves, Zenon
<1>4. /\ Window(head - 1) /\ Low = head - 1 /\ j = SlotOf(head - 1)
      /\ \A s \in Submitters : sub[s].pc \in Filling => sub[s].t # head - 1
      /\ \A k : Window(k) /\ k # head - 1 => SlotOf(k) # j
  <2>1. pol[p].pc \in ClaimSlot
    BY <1>1 DEF ClaimSlot
  <2> QED BY <2>1, ClaimWindow, Zenon
<1>5. j \in Ring /\ head \in Nat /\ tail \in Nat /\ QueueCap \in Nat
  BY RingTypes DEF Claimed, SlotOf
<1> HIDE DEF j
<1>6. slots'[j].call = 0 /\ \A i \in Ring \ {j} : slots'[i] = slots[i]
  BY <1>3, Zenon DEF SlotTo
<1>7. /\ pol'[p].pc = "decide" /\ pol'[p].id = pol[p].id /\ pol'[p].call = slots[j].call
      /\ \A q \in Pollers \ {p} : pol'[q] = pol[q] /\ pol[q].pc = "idle"
  <2>1. \A q \in Pollers \ {p} : pol[q].pc = "idle"
    BY <1>1 DEF FlightInv, Latched
  <2> QED BY <1>2, <2>1, Zenon DEF PolTo
<1>8. ~Emptying' /\ Low' = head
  <2>1. ~Emptying'
    BY <1>7 DEF Emptying, ClaimSlot
  <2> QED BY <1>1, <2>1, Zenon DEF Low
<1>9. KeptWindow'
  <2>1. tail <= Low + QueueCap
    BY Zenon DEF KeptInv, KeptWindow
  <2>2. tail' = tail /\ Low = head - 1 /\ Low' = head
    BY <1>1, <1>4, <1>8, Zenon
  <2>3. tail <= (head - 1) + QueueCap
    BY <2>1, <2>2, Zenon
  <2>4. tail <= head + QueueCap
    BY <1>5, <2>3
  <2>5. tail' <= Low' + QueueCap
    BY <2>2, <2>4, Zenon
  <2> QED BY <1>8, <2>5, Zenon DEF KeptWindow
<1>10. \A k \in Nat : Window(k)' <=> Window(k) /\ k # head - 1
  BY <1>1, <1>4, <1>5, <1>8 DEF Window
<1>11. \A k \in Nat : Window(k)' => slots'[SlotOf(k)] = slots[SlotOf(k)]
  <2>1. \A k \in Nat : SlotOf(k) \in Ring
    BY RingTypes
  <2> SUFFICES ASSUME NEW k \in Nat, Window(k)' PROVE slots'[SlotOf(k)] = slots[SlotOf(k)]
    BY Zenon
  <2>2. Window(k) /\ k # head - 1
    BY <1>10, Zenon
  <2>3. SlotOf(k) # j
    BY <1>4, <2>2, Zenon
  <2> QED BY <1>6, <2>1, <2>3, Zenon
<1>12. ASSUME NEW r \in Submitters PROVE KeptSub(r)'
  <2>1. KeptSub(r) /\ sub'[r] = sub[r] /\ SlotOf(sub[r].t) \in Ring /\ sub[r].t \in Nat
    BY <1>1, RingTypes, Zenon DEF KeptInv
  <2>2. sub[r].pc \in Filling => slots'[SlotOf(sub[r].t)] = slots[SlotOf(sub[r].t)]
    <3>1. sub[r].pc \in Filling => Window(sub[r].t) /\ sub[r].t # head - 1
      BY <1>4, FillingWindow, Zenon
    <3> QED BY <1>10, <1>11, <2>1, <3>1, Zenon
  <2> QED BY <1>1, <2>1, <2>2, KeptSubSame, Zenon
<1>13. slots[j].call # 0 /\ pol[p].id = idOf[slots[j].call]
  <2>1. head - 1 \in Nat /\ Filled(head - 1)
    BY <1>4, Zenon DEF Window, Filled
  <2>2. slots[j].call # 0
    BY <1>4, <2>1, LabelSets, Zenon DEF KeptInv, KeptCalls, Filled
  <2>3. slots[j].id = idOf[slots[j].call]
    BY <1>4, <2>1, Zenon DEF KeptInv, KeptIds
  <2>4. pol[p].id = slots[j].id
    BY <1>1, Zenon DEF KeptInv, KeptPol, j
  <2> QED BY <2>2, <2>3, <2>4, Zenon
<1>14. ASSUME NEW q \in Pollers PROVE KeptPol(q)'
  <2>1. CASE q = p
    BY <1>1, <1>7, <1>13, <2>1 DEF KeptPol
  <2>2. CASE q # p
    BY <1>7, <2>2 DEF KeptPol
  <2> QED BY <2>1, <2>2
<1>15. KeptCalls'
  <2>1. ASSUME NEW i \in Ring, slots'[i].call # 0
        PROVE  idOf'[slots'[i].call] # 0 /\ \E k \in Nat : Window(k)' /\ i = SlotOf(k)
    <3>1. i # j /\ slots'[i] = slots[i]
      BY <1>6, <2>1, Zenon
    <3>2. PICK k \in Nat : Window(k) /\ i = SlotOf(k)
      BY <2>1, <3>1, Zenon DEF KeptInv, KeptCalls
    <3>3. k # head - 1
      BY <1>4, <3>1, <3>2, Zenon
    <3> QED BY <1>1, <1>10, <2>1, <3>1, <3>2, <3>3, Zenon DEF KeptInv, KeptCalls
  <2>2. ASSUME NEW k \in Nat, Window(k)'
        PROVE  slots'[SlotOf(k)].call # 0 \/ \E r \in Submitters : sub'[r].pc \in Early /\ sub'[r].t = k
    <3>1. slots[SlotOf(k)].call # 0 \/ \E r \in Submitters : sub[r].pc \in Early /\ sub[r].t = k
      BY <1>10, <2>2, Zenon DEF KeptInv, KeptCalls
    <3> QED BY <1>1, <1>11, <2>2, <3>1, Zenon
  <2> QED BY <2>1, <2>2, Zenon DEF KeptCalls, SlotOf
<1>16. KeptIds'
  <2>1. ASSUME NEW k \in Nat, Window(k)', Filled(k)'
        PROVE  slots'[SlotOf(k)].id = idOf'[slots'[SlotOf(k)].call]
    <3>1. Filled(k) /\ Window(k)
      BY <1>1, <1>10, <2>1, Zenon DEF Filled
    <3> QED BY <1>1, <1>11, <2>1, <3>1, Zenon DEF KeptInv, KeptIds
  <2> QED BY <2>1, Zenon DEF KeptIds, SlotOf
<1>17. \A c \in Calls : c > calls' => idOf'[c] = 0
  BY <1>1, Zenon DEF KeptInv
<1> QED BY <1>9, <1>12, <1>14, <1>15, <1>16, <1>17, Zenon DEF KeptInv

\* Every step of a submitter keeps each slot to its position.
LEMMA KeptSubmit ==
  ASSUME Types, JobInv, RingInv, KeptInv, Room,
         NEW s \in Submitters, SubmitCall(s) \/ SubmitStep(s)
  PROVE  KeptInv'
<1>0. UNCHANGED <<head, pol>> /\ KeptSub(s)
  BY SubmitFrame, Zenon DEF KeptInv
<1>1. Emptying' = Emptying /\ Low' = Low
  BY <1>0, Zenon DEF Emptying, Low
<1>2. \A p \in Pollers : KeepPol(p)
  BY <1>0, Zenon DEF KeptInv, KeptPol, KeepPol
<1>3. ASSUME UNCHANGED <<tail, idOf>>, \A c \in Calls : c > calls' => c > calls,
             \A i \in Ring : SameSlot(i), \A r \in Submitters : KeepSub(r)
      PROVE  KeptInv'
  <2>1. KeptWindow'
    BY <1>0, <1>1, <1>3, Zenon DEF KeptInv, KeptWindow
  <2> QED BY <1>1, <1>2, <1>3, <2>1, KeptKept, Zenon
<1>4. slots' = slots => \A i \in Ring : SameSlot(i)
  BY Zenon DEF SameSlot
<1>5. ASSUME NEW l, NEW c, NEW t, NEW i, SubTo(s, l, c, t, i),
             \/ l = "idle" /\ sub[s].pc \notin Filling
             \/ /\ sub[s].pc \notin Filling /\ l \in {"loadTail", "checkFull", "casTail"}
                /\ c # 0 /\ idOf[c] = 0
             \/ /\ sub[s].pc = "clearCancel" /\ l = "putId"
                /\ c = sub[s].call /\ t = sub[s].t /\ i = sub[s].id
      PROVE  \A r \in Submitters : KeepSub(r)
  BY <1>5, Zenon DEF SubTo, KeepSub
<1>6. CASE SubmitCall(s)
  <2>1. UNCHANGED <<tail, slots, idOf>> /\ sub[s].pc = "idle" /\ calls < MaxCalls /\ calls' = calls + 1
    BY <1>6, Zenon DEF SubmitCall, queueVars
  <2>2. calls + 1 # 0 /\ calls + 1 \in Calls /\ calls + 1 > calls
    BY <2>1, FreshCall, Zenon DEF Types, NumTypes
  <2>3. idOf[calls + 1] = 0
    BY <2>2, Zenon DEF KeptInv
  <2>4. \A c \in Calls : c > calls' => c > calls
    BY <2>1 DEF Types, NumTypes, Calls
  <2>5. sub[s].pc \notin Filling
    BY <2>1 DEF Filling
  <2>6. sub' = sub \/ SubTo(s, "loadTail", calls + 1, sub[s].t, sub[s].id)
    BY <1>6, SubMoves, Zenon
  <2>7. \A r \in Submitters : KeepSub(r)
    <3>1. CASE sub' = sub
      BY <3>1, Zenon DEF KeepSub
    <3>2. CASE SubTo(s, "loadTail", calls + 1, sub[s].t, sub[s].id)
      BY <1>5, <2>2, <2>3, <2>5, <3>2, Zenon
    <3> QED BY <2>6, <3>1, <3>2
  <2> QED BY <1>3, <1>4, <2>1, <2>4, <2>7, Zenon
<1>7. CASE LoadTail(s) \/ CheckFull(s)
  <2>1. UNCHANGED <<tail, slots, idOf, calls>> /\ sub[s].pc \in {"loadTail", "checkFull"}
    BY <1>7, Zenon DEF LoadTail, CheckFull, queueVars, ghosts
  <2>2. sub[s].pc \notin Filling /\ sub[s].pc \in Unnamed
    BY <2>1 DEF Filling, Unnamed
  <2>3. sub[s].call # 0 /\ idOf[sub[s].call] = 0
    BY <1>0, <2>2 DEF KeptSub
  <2>4. SubTo(s, "idle", 0, 0, 0)
        \/ \E l \in {"checkFull", "casTail"} : \E t, i : SubTo(s, l, sub[s].call, t, i)
    BY <1>7, SubMoves, Zenon
  <2>5. \A r \in Submitters : KeepSub(r)
    BY <1>5, <2>2, <2>3, <2>4, Zenon
  <2> QED BY <1>3, <1>4, <2>1, <2>5, Zenon
<1>8. CASE CasTail(s)
  <2>1. UNCHANGED <<slots, idOf, calls>> /\ sub[s].pc = "casTail"
    BY <1>8, Zenon DEF CasTail, ghosts
  <2>2. CASE tail = sub[s].t /\ tail' = tail + 1 /\ Sub(s, "takeId")
    BY <1>8, <2>2, KeptCas, Zenon
  <2>3. CASE Sub(s, "loadTail") /\ tail' = tail
    <3>1. sub[s].pc \notin Filling /\ sub[s].pc \in Unnamed
      BY <2>1 DEF Filling, Unnamed
    <3>2. sub[s].call # 0 /\ idOf[sub[s].call] = 0
      BY <1>0, <3>1 DEF KeptSub
    <3>3. SubTo(s, "loadTail", sub[s].call, sub[s].t, sub[s].id)
      BY <2>3 DEF Types, SubTypes, SubRec, Sub, SubTo
    <3>4. \A r \in Submitters : KeepSub(r)
      BY <1>5, <3>1, <3>2, <3>3, Zenon
    <3> QED BY <1>3, <1>4, <2>1, <2>3, <3>4, Zenon
  <2> QED BY <1>8, <2>2, <2>3, Zenon DEF CasTail
<1>9. CASE ClearCancel(s)
  <2>1. UNCHANGED <<tail, idOf, calls>> /\ sub[s].pc = "clearCancel"
    BY <1>9, Zenon DEF ClearCancel, ghosts
  <2>2. SubTo(s, "putId", sub[s].call, sub[s].t, sub[s].id)
    BY <1>9, SubMoves, Zenon
  <2>3. \A r \in Submitters : KeepSub(r)
    BY <1>5, <2>1, <2>2, Zenon
  <2>4. \A i \in Ring : SameSlot(i)
    BY <1>9, SlotMoves, ZenonT(40) DEF SlotTo, SameSlot
  <2> QED BY <1>3, <2>1, <2>3, <2>4, Zenon
<1>10. CASE CountPending(s)
  <2>1. UNCHANGED <<tail, slots, idOf, calls>> /\ sub[s].pc = "count"
    BY <1>10, Zenon DEF CountPending, ghosts
  <2>2. SubTo(s, "idle", 0, 0, 0) /\ "count" \notin Filling
    BY <1>10, SubMoves, LabelSets, Zenon
  <2>3. \A r \in Submitters : KeepSub(r)
    BY <1>5, <2>1, <2>2, Zenon
  <2> QED BY <1>3, <1>4, <2>1, <2>3, Zenon
<1>11. CASE TakeId(s) \/ PutPrompt(s) \/ PutId(s) \/ Publish(s)
  BY <1>11, KeptTakeId, KeptPut, Zenon
<1> QED BY <1>6, <1>7, <1>8, <1>9, <1>10, <1>11, Zenon DEF SubmitStep

\* Every step of a poller keeps each slot to its position.
LEMMA KeptPoll ==
  ASSUME Types, FlightInv, RingInv, KeptInv, NEW p \in Pollers, PollStep(p) \/ WatchdogAbort(p)
  PROVE  KeptInv'
<1>0. UNCHANGED <<tail, sub, calls, idOf>> /\ KeptPol(p)
  BY PollFrame, Zenon DEF KeptInv
<1>1. ASSUME Low' = Low, KeptWindow', \A i \in Ring : SameSlot(i), \A q \in Pollers : KeepPol(q)
      PROVE  KeptInv'
  <2>1. \A s \in Submitters : KeepSub(s)
    BY <1>0, Zenon DEF KeepSub
  <2> QED BY <1>0, <1>1, <2>1, KeptKept, Zenon
<1>2. ASSUME NEW l, NEW i, NEW x, NEW c, NEW k, PolTo(p, l, i, x, c, k), head' = head,
             l \in ClaimSlot <=> pol[p].pc \in ClaimSlot, \A j \in Ring : SameSlot(j),
             l \in {"loadCancel", "takePrompt"} => i = slots[Claimed].id, l # "decide"
      PROVE  KeptInv'
  <2>1. pol'[p].pc = l /\ pol'[p].id = i /\ \A q \in Pollers \ {p} : pol'[q] = pol[q]
    BY <1>2, Zenon DEF PolTo
  <2>2. Emptying' <=> Emptying
    BY <1>2, <2>1, Zenon DEF Emptying
  <2>3. Low' = Low
    BY <1>2, <2>2, Zenon DEF Low
  <2>4. KeptWindow'
    BY <1>0, <1>2, <2>2, <2>3, Zenon DEF KeptInv, KeptWindow
  <2>5. \A q \in Pollers : KeepPol(q)
    BY <1>2, <2>1, Zenon DEF KeptInv, KeptPol, KeepPol
  <2> QED BY <1>1, <1>2, <2>3, <2>4, <2>5, Zenon
<1>3. slots' = slots => \A i \in Ring : SameSlot(i)
  BY Zenon DEF SameSlot
<1>4. CASE ClaimHead(p)
  <2>1. slots' = slots /\ pol[p].pc = "claim"
    BY <1>4, Zenon DEF ClaimHead
  <2>2. CASE head' = head /\ PolGoes(p, "slice")
    <3>1. "slice" \notin ClaimSlot /\ pol[p].pc \notin ClaimSlot /\ "slice" \notin {"loadCancel", "takePrompt"}
          /\ "slice" # "decide"
      BY <2>1 DEF ClaimSlot
    <3> QED BY <1>2, <1>3, <2>1, <2>2, <3>1, Zenon DEF PolGoes
  <2>3. CASE head' = head + 1 /\ PolGoes(p, "swap")
    <3>0. head \in Nat
      BY RingTypes, Zenon
    <3>1. pol'[p].pc = "swap" /\ \A q \in Pollers \ {p} : pol'[q] = pol[q] /\ pol[q].pc = "idle"
      <4>1. \A q \in Pollers \ {p} : pol[q].pc = "idle"
        BY <2>1 DEF FlightInv, Latched
      <4> QED BY <2>3, <4>1, Zenon DEF PolGoes, PolTo
    <3>2. ~Emptying /\ Emptying'
      BY <2>1, <3>1 DEF Emptying, ClaimSlot
    <3>3. Low' = Low /\ head' >= 1
      BY <2>3, <3>0, <3>2 DEF Low
    <3>4. KeptWindow'
      BY <1>0, <3>3, Zenon DEF KeptInv, KeptWindow
    <3>5. \A q \in Pollers : KeepPol(q)
      BY <3>1 DEF KeepPol
    <3> QED BY <1>1, <1>3, <2>1, <3>3, <3>4, <3>5, Zenon
  <2> QED BY <1>4, <2>2, <2>3, PolMoves, Zenon
<1>5. CASE SwapOccupied(p) \/ UncountPending(p)
  <2>1. head' = head /\ pol[p].pc \in {"swap", "uncount"}
    BY <1>5, Zenon DEF SwapOccupied, UncountPending
  <2>2. PICK l \in {"uncount", "loadId"} : PolGoes(p, l)
    BY <1>5, PolMoves, Zenon
  <2>3. l \in ClaimSlot /\ pol[p].pc \in ClaimSlot /\ l \notin {"loadCancel", "takePrompt"} /\ l # "decide"
    BY <2>1 DEF ClaimSlot
  <2>4. \A i \in Ring : SameSlot(i)
    <3>1. CASE SwapOccupied(p)
      BY <3>1, SlotMoves, Zenon DEF SlotTo, SameSlot
    <3>2. CASE UncountPending(p)
      BY <1>3, <3>2, Zenon DEF UncountPending
    <3> QED BY <1>5, <3>1, <3>2
  <2> QED BY <1>2, <2>1, <2>2, <2>3, <2>4, Zenon DEF PolGoes
<1>6. CASE LoadId(p) \/ LoadCancel(p)
  <2>1. UNCHANGED <<head, slots>> /\ pol[p].pc \in {"loadId", "loadCancel"}
    BY <1>6, Zenon DEF LoadId, LoadCancel, queueVars
  <2>2. \E l \in {"loadCancel", "takePrompt"} : \E x, c, k : PolTo(p, l, slots[Claimed].id, x, c, k)
    <3>1. CASE LoadId(p)
      BY <3>1, PolMoves, Zenon
    <3>2. CASE LoadCancel(p)
      <4>1. pol[p].id = slots[Claimed].id
        BY <1>0, <3>2, Zenon DEF LoadCancel, KeptPol
      <4> QED BY <3>2, <4>1, PolMoves, Zenon
    <3> QED BY <1>6, <3>1, <3>2
  <2>3. /\ \A l \in {"loadCancel", "takePrompt"} : l \in ClaimSlot /\ l # "decide"
        /\ pol[p].pc \in ClaimSlot
    BY <2>1 DEF ClaimSlot
  <2> QED BY <1>2, <1>3, <2>1, <2>2, <2>3, Zenon
<1>7. CASE ~(ClaimHead(p) \/ SwapOccupied(p) \/ UncountPending(p) \/ LoadId(p) \/ LoadCancel(p) \/ TakePrompt(p))
  <2> DEFINE L == {"idle", "check", "claim", "slice", "setId", "resetCancel", "setActive", "generated",
                   "reply", "clearId", "clearFlag", "exit"}
  <2>1. UNCHANGED <<head, slots>> /\ pol[p].pc \in L \cup {"decide"}
    <3>1. CASE ClaimStep(p)
      BY <1>7, <3>1, Zenon DEF ClaimStep, ClaimDecide, SetActiveId, ResetActiveCancel, SetActive, queueVars
    <3>2. CASE ~ClaimStep(p)
      BY <3>2, Zenon DEF PollStep, SliceEnter, SliceCheck, SliceDrop, SliceWork, SliceCoarse,
         CoarseGenerated, FinishReply, FinishClearId, FinishClearCancel, SliceExit, WatchdogAbort, queueVars
    <3> QED BY <3>1, <3>2
  <2>2. pol' = pol \/ \E l \in L : \E i, x, c, k : PolTo(p, l, i, x, c, k)
    <3>1. CASE ClaimStep(p)
      BY <1>7, <3>1, PolMoves, Zenon DEF ClaimStep, PolGoes, PolReset
    <3>2. CASE ~ClaimStep(p)
      BY <3>2, PolMoves, SliceMoves, Zenon DEF PollStep, PolGoes, PolReset, PolFinish, WatchdogAbort
    <3> QED BY <3>1, <3>2
  <2>3. /\ \A l \in L : l \notin ClaimSlot /\ l # "decide" /\ l \notin {"loadCancel", "takePrompt"}
        /\ pol[p].pc \notin ClaimSlot
    BY <2>1 DEF ClaimSlot
  <2> HIDE DEF L
  <2>4. CASE pol' = pol
    <3>1. Emptying' = Emptying /\ Low' = Low
      BY <2>1, <2>4, Zenon DEF Emptying, Low
    <3>2. KeptWindow'
      BY <1>0, <2>1, <3>1, Zenon DEF KeptInv, KeptWindow
    <3>3. \A q \in Pollers : KeepPol(q)
      BY <2>1, <2>4, Zenon DEF KeptInv, KeptPol, KeepPol
    <3> QED BY <1>1, <1>3, <2>1, <3>1, <3>2, <3>3, Zenon
  <2>5. CASE pol' # pol
    BY <1>2, <1>3, <2>1, <2>2, <2>3, <2>5, Zenon
  <2> QED BY <2>4, <2>5
<1>8. CASE TakePrompt(p)
  BY <1>8, KeptTake, Zenon
<1> QED BY <1>4, <1>5, <1>6, <1>7, <1>8, Zenon

\* Every step keeps each slot to its position, while there is room at TAIL.
LEMMA StepKept ==
  ASSUME Types, FlightInv, JobInv, RingInv, KeptInv, Room, [Next]_vars
  PROVE  KeptInv'
<1>1. CASE UNCHANGED vars \/ HeapChange \/ CancelStep
  <2>1. /\ UNCHANGED <<head, tail, sub, pol, calls, idOf>>
        /\ slots' = slots \/ CancelSetSlot \/ CancelSetHead
    BY <1>1, Background, Zenon
  <2>2. \A i \in Ring : SameSlot(i)
    BY <2>1, SlotMoves, Zenon DEF SlotTo, SameSlot
  <2>3. Emptying' = Emptying /\ Low' = Low
    BY <2>1, Zenon DEF Emptying, Low
  <2>4. KeptWindow'
    BY <2>1, <2>3, Zenon DEF KeptInv, KeptWindow
  <2>5. \A q \in Pollers : KeepPol(q)
    BY <2>1, Zenon DEF KeptInv, KeptPol, KeepPol
  <2>6. \A s \in Submitters : KeepSub(s)
    BY <2>1, Zenon DEF KeepSub
  <2> QED BY <2>1, <2>2, <2>3, <2>4, <2>5, <2>6, KeptKept, Zenon
<1> QED BY <1>1, KeptSubmit, KeptPoll, Zenon DEF Next

-----------------------------------------------------------------------------
(* No job is lost. *)

\* An accepted call that has not been answered is in a place.
LostInv == \A c \in Calls : idOf[c] # 0 /\ reply[c] = "none" => \E x \in Places : job[x] = c

\* Where an unanswered job goes: it stays, or moves to a place that was empty.
LEMMA JobStays ==
  ASSUME Types, JobInv, NEW c \in Calls, reply'[c] = "none", NEW x \in Places, job[x] = c,
         \/ JobKeeps \/ JobRefused
         \/ \E y \in Places : JobBegins(y) \/ JobReplies(y) \/ (JobDrops(y) /\ job[y] # c)
         \/ \E y, z \in Places : JobMoves(y, z) /\ job[z] = 0
  PROVE  \E w \in Places : job'[w] = c
<1>0. c # 0 /\ c \in 0..MaxCalls
  BY Numbers DEF Calls
<1>1. CASE JobKeeps \/ JobRefused
  BY <1>1, Zenon DEF JobKeeps, JobRefused, Elsewhere
<1>2. ASSUME NEW y \in Places, JobBegins(y) PROVE job'[x] = c
  BY <1>0, <1>2, Zenon DEF JobBegins, Elsewhere
<1>3. ASSUME NEW y \in Places, JobReplies(y) PROVE job'[x] = c
  <2>1. CASE x # y
    BY <1>3, <2>1, Zenon DEF JobReplies, Elsewhere
  <2>2. CASE x = y
    <3>1. PICK k \in Replies \ {"none", "again"} : EmitReply(c, k)
      BY <1>3, <2>2, Zenon DEF JobReplies
    <3>2. reply \in [0..MaxCalls -> Replies]
      BY Zenon DEF Types, CallTypes
    <3>3. reply'[c] # "none"
      BY <1>0, <3>1, <3>2 DEF EmitReply
    <3> QED BY <3>3
  <2> QED BY <2>1, <2>2
<1>4. ASSUME NEW y \in Places, JobDrops(y), job[y] # c PROVE job'[x] = c
  BY <1>4, Zenon DEF JobDrops, Elsewhere
<1>5. ASSUME NEW y \in Places, NEW z \in Places, JobMoves(y, z), job[z] = 0
      PROVE  job'[x] = c \/ job'[z] = c
  BY <1>0, <1>5, Zenon DEF JobMoves, Elsewhere
<1> QED BY <1>1, <1>2, <1>3, <1>4, <1>5, Zenon

\* A submitter loses no accepted job: it drops a call only before it has an id.
LEMMA SubmitLost ==
  ASSUME Types, JobInv, KeptInv, LostInv, NEW s \in Submitters, SubmitCall(s) \/ SubmitStep(s)
  PROVE  LostInv'
<1> SUFFICES ASSUME NEW c \in Calls, idOf'[c] # 0, reply'[c] = "none"
             PROVE  \E w \in Places : job'[w] = c
  BY Zenon DEF LostInv
<1>0. reply' = reply /\ KeptSub(s)
  BY SubmitFrame, Zenon DEF KeptInv
<1>1. CASE TakeId(s) /\ c = sub[s].call
  <2>1. SubTo(s, "putPrompt", sub[s].call, sub[s].t, nextId)
    BY <1>1, SubMoves, Zenon
  <2>2. "putPrompt" \in Carrying
    BY DEF Carrying
  <2>3. SubJob(s)' = c
    BY <1>1, <2>1, <2>2, Zenon DEF SubTo, SubJob
  <2> QED BY <2>3, JobAt, Zenon
<1>2. CASE ~(TakeId(s) /\ c = sub[s].call)
  <2>1. idOf[c] # 0
    <3>1. CASE TakeId(s)
      <4>1. idOf' = [idOf EXCEPT ![sub[s].call] = nextId] /\ c # sub[s].call
        BY <1>2, <3>1, Zenon DEF TakeId
      <4>2. idOf \in [Calls -> Nat]
        BY Zenon DEF Types, CallTypes
      <4> QED BY <4>1, <4>2, Zenon
    <3>2. CASE ~TakeId(s)
      <4>1. idOf' = idOf
        BY <3>2, Zenon DEF SubmitCall, SubmitStep, LoadTail, CheckFull, CasTail, PutPrompt,
           ClearCancel, PutId, Publish, CountPending, ghosts
      <4> QED BY <4>1
    <3> QED BY <3>1, <3>2
  <2>2. PICK x \in Places : job[x] = c
    BY <1>0, <2>1, Zenon DEF LostInv
  <2>3. <<"sub", s>> \in Places /\ sub[s].t % QueueCap \in Ring
    <3>1. sub[s].t % QueueCap \in Ring
      BY Numbers DEF Types, SubTypes, SubRec
    <3> QED BY <3>1, JobAt, Zenon
  <2>4. CheckFull(s) => job[<<"sub", s>>] # c
    <3>1. CheckFull(s) => sub[s].pc \in Carrying /\ sub[s].pc \in Unnamed
      BY DEF CheckFull, Carrying, Unnamed
    <3>2. CheckFull(s) => idOf[SubJob(s)] = 0
      BY <1>0, <3>1, Zenon DEF SubJob, KeptSub
    <3> QED BY <2>1, <3>2, JobAt, Zenon
  <2>5. PutPrompt(s) => job[<<"slot", sub[s].t % QueueCap>>] = 0
    <3>1. PutPrompt(s) => sub[s].pc \in Early
      BY DEF PutPrompt, Early
    <3> QED BY <1>0, <2>3, <3>1, JobAt, Zenon DEF KeptSub, SlotOf
  <2>6. <<"slot", sub[s].t % QueueCap>> \in Places
    BY <2>3, JobAt, Zenon
  <2> QED BY <2>2, <2>3, <2>4, <2>5, <2>6, SubmitJobs, JobStays, Zenon
<1> QED BY <1>1, <1>2

\* A poller loses no job unless the heap is critical: what it empties it takes,
\* and what it drops was answered.
LEMMA PollLost ==
  ASSUME Types, FlightInv, RunInv, JobInv, KeptInv, LostInv, "critical" \notin HeapLevels,
         NEW p \in Pollers, PollStep(p) \/ WatchdogAbort(p)
  PROVE  LostInv'
<1> SUFFICES ASSUME NEW c \in Calls, idOf'[c] # 0, reply'[c] = "none"
             PROVE  \E w \in Places : job'[w] = c
  BY Zenon DEF LostInv
<1>1. idOf[c] # 0
  BY PollFrame, Zenon
<1>2. JobStep /\ Claimed \in Ring
  <2>1. Claimed \in Ring
    BY Numbers DEF Types, NumTypes, Claimed
  <2>2. [Next]_vars
    BY Zenon DEF Next
  <2> QED BY <2>1, <2>2, JobEdge
<1>3. reply[c] = "none"
  BY <1>2, RepliesStay, Zenon
<1>4. PICK x \in Places : job[x] = c
  BY <1>1, <1>3, Zenon DEF LostInv
<1>5. <<"slot", Claimed>> \in Places /\ <<"pol", p>> \in Places /\ ActPlace \in Places
  BY <1>2, JobAt, Zenon
<1>6. TakePrompt(p) => job[<<"pol", p>>] = 0
  <2>1. TakePrompt(p) => pol[p].pc \notin Holding
    BY DEF TakePrompt, Holding
  <2> QED BY <2>1, JobAt, Zenon DEF RunInv
<1>7. active = NoJob \/ active.phase = "idle" => ActJob = 0
  <2>1. active = NoJob => active.phase = "none"
    BY DEF NoJob
  <2>2. "none" \notin {"work", "coarse"} /\ "idle" \notin {"work", "coarse"}
    BY Zenon
  <2> QED BY <2>1, <2>2, Zenon DEF ActJob
<1>8. SetActive(p) => job[ActPlace] = 0
  <2>1. SetActive(p) => pol[p].pc \in Installing
    BY DEF SetActive, Installing
  <2>2. SetActive(p) => active = NoJob
    BY <2>1, Zenon DEF FlightInv, ClaimInv
  <2> QED BY <1>7, <2>2, JobAt, Zenon
<1>9. SliceDrop(p) => job[ActPlace] # c
  <2>1. heap # "critical"
    BY Zenon DEF Types, NumTypes
  <2>2. SliceDrop(p) => ActJob = 0
    BY <1>7, <2>1, Zenon DEF SliceDrop
  <2>3. c # 0
    BY Numbers DEF Calls
  <2> QED BY <2>2, <2>3, JobAt, Zenon
<1> QED BY <1>4, <1>5, <1>6, <1>8, <1>9, PollJobs, JobStays, Zenon

\* No step loses an accepted job.
LEMMA StepLost ==
  ASSUME Types, FlightInv, RunInv, JobInv, KeptInv, LostInv, "critical" \notin HeapLevels, [Next]_vars
  PROVE  LostInv'
<1>1. CASE UNCHANGED vars \/ HeapChange \/ CancelStep
  <2>1. UNCHANGED <<idOf, reply>>
    BY <1>1, Background, Zenon
  <2>2. JobKeeps
    BY <1>1, BackgroundJobs, Zenon
  <2> QED BY <2>1, <2>2, Zenon DEF LostInv, JobKeeps, Elsewhere
<1> QED BY <1>1, SubmitLost, PollLost, Zenon DEF Next

\* The slots are empty and no call is accepted at the start.
LEMMA InitKept == Init => KeptInv /\ LostInv
<1> SUFFICES ASSUME Init PROVE KeptInv /\ LostInv
  OBVIOUS
<1>1. /\ head = 0 /\ tail = 0 /\ calls = 0
      /\ \A c \in Calls : idOf[c] = 0
      /\ \A s \in Submitters : sub[s].pc = "idle" /\ sub[s].call = 0
      /\ \A p \in Pollers : pol[p].pc = "idle"
      /\ \A i \in Ring : slots[i].call = 0
  BY DEF Init, Ring
<1>2. /\ "idle" \notin ClaimSlot /\ "idle" \notin Early /\ "idle" \notin Late
      /\ "idle" \notin Unnamed /\ "idle" \notin NamedSub
  BY DEF ClaimSlot, Early, Late, Unnamed, NamedSub
<1>3. ~Emptying /\ Low = 0
  BY <1>1, <1>2, Zenon DEF Emptying, Low
<1>4. \A k \in Nat : ~Window(k)
  <2>1. \A k \in Nat : ~(k < 0)
    OBVIOUS
  <2> QED BY <1>1, <1>3, <2>1, Zenon DEF Window
<1>5. KeptWindow
  BY <1>1, <1>3, Numbers DEF KeptWindow
<1>6. KeptCalls /\ KeptIds
  BY <1>1, <1>4, Zenon DEF KeptCalls, KeptIds
<1>7. \A s \in Submitters : KeptSub(s)
  <2>1. "idle" # "publish" /\ \A s \in Submitters : sub[s].pc \notin Unnamed \cup NamedSub
    BY <1>1, <1>2
  <2> QED BY <1>1, <1>2, <2>1, Zenon DEF KeptSub
<1>8. \A p \in Pollers : KeptPol(p)
  BY <1>1 DEF KeptPol
<1>9. KeptInv
  BY <1>1, <1>5, <1>6, <1>7, <1>8, Zenon DEF KeptInv
<1>10. LostInv
  BY <1>1, Zenon DEF LostInv
<1> QED BY <1>9, <1>10

\* A job that is in a place is somewhere in the sense of JobNotLost.
LEMMA LostCovers == ASSUME LostInv, Types, FlightInv PROVE JobNotLost
<1> SUFFICES ASSUME NEW c \in Calls, idOf[c] # 0, reply[c] = "none" PROVE Somewhere(c)
  BY Zenon DEF JobNotLost, Accepted
<1>1. PICK x \in Places : job[x] = c
  BY Zenon DEF LostInv
<1>2. c # 0
  BY Numbers DEF Calls
<1>3. \/ \E s \in Submitters : x = <<"sub", s>>
      \/ \E i \in Ring : x = <<"slot", i>>
      \/ \E p \in Pollers : x = <<"pol", p>>
      \/ x = ActPlace
  BY DEF Places
<1>4. DOMAIN slots = Ring
  BY DEF Types, SlotTypes
<1> QED BY <1>1, <1>2, <1>3, <1>4, JobAt, Zenon DEF Somewhere, SubJob, ActJob

=============================================================================
