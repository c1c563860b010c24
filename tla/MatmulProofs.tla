--------------------------- MODULE MatmulProofs ----------------------------
(***************************************************************************)
(* SMP_MM_BUSY keeps the dispatches of matrix products apart, and every    *)
(* register keeps its type: for any set of processors, any ring size and   *)
(* any number of products, and whatever jobs of others the ring holds or   *)
(* loses.  Then the inductive invariant of the barrier of the parallel     *)
(* products (the ring and the count of its jobs, the published context,    *)
(* the tiles), and what the barrier guarantees.                            *)
(***************************************************************************)
EXTENDS ParallelMatmul, FiniteSetTheorems, TLAPS

\* Where only the core that holds SMP_MM_BUSY can be.
DispatchLabels ==
  {"zeroClaimed", "publishCtx", "clearHead", "clearTail", "resetEpoch", "resetDone",
   "resetPending", "enq", "own", "wait", "nullOk", "nullTimeout", "free", "leak",
   "release"}

\* Where it can be too, like others: in enqueue_impl and in a worker.
SharedLabels == {"enqHead", "enqWrite", "enqPublish", "wClaim", "wWrite"}

\* Core c, at label l and with product n, is a dispatcher or it is not.
Consistent(l, n) ==
  /\ l \in DispatchLabels => n # 0
  /\ n # 0 => l \in DispatchLabels \cup SharedLabels

BusyInv ==
  /\ pc \in [Cores -> Labels]
  /\ mine \in [Cores -> Nat]
  /\ busy \in BOOLEAN
  /\ \A c \in Cores : Consistent(pc[c], mine[c])
  /\ \A c \in Cores : mine[c] # 0 => busy
  /\ busy => \E c \in Cores : mine[c] # 0
  /\ DispatchExclusive

\* A core that only moves, to a label that fits its product, keeps BusyInv.
LEMMA MoveKeeps ==
  ASSUME BusyInv, NEW c \in Cores, NEW l \in Labels, Goto(c, l),
         UNCHANGED <<mine, busy>>, Consistent(l, mine[c])
  PROVE  BusyInv'
  BY DEF BusyInv, Goto, DispatchExclusive, Consistent

\* Nobody dispatches at the start.
LEMMA InitBusy == Init => BusyInv
<1> SUFFICES ASSUME Init PROVE BusyInv
  OBVIOUS
<1>1. pc = [c \in Cores |-> "idle"] /\ mine = [c \in Cores |-> 0] /\ busy = FALSE
  BY DEF Init, ApInit
<1>2. \A c \in Cores : Consistent(pc[c], mine[c])
  BY <1>1 DEF Consistent, DispatchLabels
<1> QED BY <1>1, <1>2, Zenon DEF BusyInv, DispatchExclusive, Labels

\* Every step of dispatchers, workers and the idle loop keeps it.
LEMMA StepBusy == BusyInv /\ [Next]_vars => BusyInv'
<1> SUFFICES ASSUME BusyInv, [Next]_vars PROVE BusyInv'
  OBVIOUS
<1> USE DEF Consistent, DispatchLabels, SharedLabels, Labels
<1>1. ASSUME NEW c \in Cores, NEW k \in Kinds, DispatchStart(c, k) PROVE BusyInv'
  <2>1. PICK n \in Products : mine' = [mine EXCEPT ![c] = n]
    BY <1>1, Zenon DEF DispatchStart
  <2>2. n \in Nat /\ n # 0 /\ busy' = TRUE
    BY <1>1, MatmulAssumption DEF DispatchStart, Products
  <2>3. pc' = [pc EXCEPT ![c] = "zeroClaimed"]
    BY <1>1, Zenon DEF DispatchStart, Goto
  <2>4. \A d \in Cores : mine[d] = 0
    BY <1>1, Zenon DEF DispatchStart, BusyInv
  <2> QED BY <2>1, <2>2, <2>3, <2>4 DEF BusyInv, DispatchExclusive
<1>2. ASSUME NEW c \in Cores, Release(c) PROVE BusyInv'
  <2>1. mine' = [mine EXCEPT ![c] = 0] /\ busy' = FALSE /\ pc' = [pc EXCEPT ![c] = "idle"]
    BY <1>2 DEF Release, Goto
  <2>2. \A d \in Cores \ {c} : mine[d] = 0
    BY <1>2, Zenon DEF Release, BusyInv, DispatchExclusive
  <2> QED BY <2>1, <2>2, Zenon DEF BusyInv, DispatchExclusive
<1>3. ASSUME NEW c \in Cores, DispatchStep(c), ~Release(c) PROVE BusyInv'
  <2>1. UNCHANGED <<mine, busy>>
    BY <1>3, Zenon DEF DispatchStep, ZeroClaimed, PublishCtx, ResetQueue, EnqueueBarrier, OwnShare,
                BarrierOpens, BarrierTimeout, UnpublishCtx, EndCtx, mmVars
  <2>2. pc[c] \in DispatchLabels
    BY <1>3, Zenon DEF DispatchStep, ZeroClaimed, PublishCtx, ResetQueue, EnqueueBarrier, OwnShare,
                BarrierOpens, BarrierTimeout, UnpublishCtx, EndCtx, ClearHead, ClearTail,
                ResetEpoch, ResetDone, ResetPending
  <2>3. mine[c] # 0
    BY <2>2, Zenon DEF BusyInv
  <2>4. \E l \in DispatchLabels \cup SharedLabels : Goto(c, l)
    BY <1>3, Zenon DEF DispatchStep, ZeroClaimed, PublishCtx, ResetQueue, EnqueueBarrier, OwnShare,
                BarrierOpens, BarrierTimeout, UnpublishCtx, EndCtx, ClearHead, ClearTail,
                ResetEpoch, ResetDone, ResetPending, EnqLoadTail
  <2> QED BY <2>1, <2>3, <2>4, MoveKeeps
<1>4. ASSUME NEW c \in Cores, Enqueue(c) PROVE BusyInv'
  <2>1. UNCHANGED <<mine, busy>>
    BY <1>4 DEF Enqueue, mmVars
  <2>2. Goto(c, "enqWrite") \/ Goto(c, "enqPublish") \/ Goto(c, Resume(c))
    BY <1>4, Zenon DEF Enqueue, EnqAccept, EnqWrite, EnqRefuse, EnqPublish, Return
  <2> QED BY <2>1, <2>2, MoveKeeps DEF Resume
<1>5. ASSUME NEW c \in Cores, WorkerStep(c) PROVE BusyInv'
  <2>1. UNCHANGED <<mine, busy>>
    BY <1>5, Zenon DEF WorkerStep, WorkerLoadCtx, WorkerClaim, WorkerWrite, RunCommon
  <2>2. CASE RunCommon(c)
    <3>1. Goto(c, "credit") /\ mine[c] = 0
      BY <2>2 DEF RunCommon, BusyInv
    <3> QED BY <2>1, <3>1, MoveKeeps
  <2>3. CASE ~RunCommon(c)
    <3>1. Goto(c, "wClaim") \/ Goto(c, "wWrite") \/ Goto(c, WorkerReturn(c))
      BY <1>5, <2>3 DEF WorkerStep, WorkerLoadCtx, WorkerClaim, WorkerWrite
    <3> QED BY <2>1, <3>1, MoveKeeps DEF WorkerReturn
  <2> QED BY <2>2, <2>3
<1>6. ASSUME NEW c \in Cores, TryDequeue(c) \/ JobDone(c) PROVE BusyInv'
  <2>1. UNCHANGED <<mine, busy>>
    BY <1>6 DEF TryDequeue, JobDone, mmVars
  <2>2. pc[c] \in {"idle", "deqTail", "deqCas", "deqRead", "credit", "creditAdd"}
    BY <1>6, Zenon DEF TryDequeue, JobDone, DeqLoadHead, DeqLoadTail, DeqCas, DeqRead,
                JobDoneCheck, JobDoneAdd
  <2>3. mine[c] = 0
    BY <2>2 DEF BusyInv
  <2>4. \E l \in {"idle", "deqTail", "deqCas", "deqRead", "run", "creditAdd"} : Goto(c, l)
    BY <1>6, Zenon DEF TryDequeue, JobDone, DeqLoadHead, DeqLoadTail, DeqCas, DeqRead,
                JobDoneCheck, JobDoneAdd, Return
  <2> QED BY <2>1, <2>3, <2>4, MoveKeeps
<1>7. CASE SubmitCommon
  <2>1. BSP \in Cores /\ Goto(BSP, "enqHead") /\ UNCHANGED <<mine, busy>>
    BY <1>7 DEF SubmitCommon, EnqLoadTail, mmVars, Cores
  <2>2. mine[BSP] = 0
    BY <1>7, <2>1 DEF SubmitCommon, BusyInv
  <2> QED BY <2>1, <2>2, MoveKeeps
<1>8. CASE UNCHANGED vars
  BY <1>8 DEF vars, mmVars, apVars, BusyInv, DispatchExclusive
<1> QED
  BY <1>1, <1>2, <1>3, <1>4, <1>5, <1>6, <1>7, <1>8 DEF Next

\* SMP_MM_BUSY is set exactly while one core dispatches.
THEOREM BusyInvariance == Spec => []BusyInv
  BY InitBusy, StepBusy, PTL DEF Spec

\* Two dispatches never overlap.
THEOREM DispatchExclusiveThm == Spec => []DispatchExclusive
<1>1. BusyInv => DispatchExclusive
  BY DEF BusyInv
<1> QED BY <1>1, BusyInvariance, PTL

-----------------------------------------------------------------------------
(* The types, and what the registers of a core hold. *)

N == Cardinality(APs)

Jobs == [f : Kinds \cup {"none", "common"}, epoch : Nat, counts : BOOLEAN]
Enqueueing == {"enqHead", "enqWrite", "enqPublish"}
Working == {"wClaim", "wWrite"}
Taken == {"deqRead", "run", "wClaim", "wWrite", "credit", "creditAdd"}

RingTypes ==
  /\ head \in Nat /\ tail \in Nat
  /\ slots \in [0..(MaxJobs - 1) -> Jobs]
  /\ pending \in Nat /\ done \in Nat /\ epoch \in Nat

CoreTypes ==
  /\ pc \in [Cores -> Labels]
  /\ h \in [Cores -> Nat] /\ t \in [Cores -> Nat]
  /\ job \in [Cores -> Jobs]
  /\ cx \in [Cores -> 0..MaxWork] /\ tile \in [Cores -> Nat]
  /\ mine \in [Cores -> 0..MaxWork] /\ left \in [Cores -> 0..N]

Contexts == [st : {"none", "live", "freed", "leaked"}, kind : Kinds \cup {"none"}]

MatTypes ==
  /\ busy \in BOOLEAN
  /\ ctxPtr \in [Kinds -> 0..MaxWork]
  /\ claimed \in [Kinds -> Nat]
  /\ ctx \in [Products -> Contexts]
  /\ written \in [Products -> SUBSET (0..(Tiles - 1))]
  /\ accepted \in Nat

Types == RingTypes /\ CoreTypes /\ MatTypes

\* What the registers of a core hold at each place: a core that enqueues without
\* dispatching is the BSP with the mesh tick, a worker has a context and a tile, a
\* core that works for others is an AP.
Local(c) ==
  /\ mine[c] # 0 => MyKind(c) \in Kinds
  /\ pc[c] \in Enqueueing /\ mine[c] = 0 => c = BSP /\ job[c].f = "common" /\ ~job[c].counts
  /\ pc[c] \in Enqueueing /\ mine[c] # 0 => job[c].f # "common"
  /\ pc[c] \in Working => cx[c] # 0 /\ WorkerKind(c) \in Kinds
  /\ pc[c] = "wWrite" => tile[c] < Tiles
  /\ mine[c] = 0 /\ pc[c] \notin Enqueueing \cup {"idle"} => c \in APs

TypeInv == Types /\ \A c \in Cores : Local(c)

-----------------------------------------------------------------------------
(* The steps of a core. *)

Act(c) ==
  \/ \E k \in Kinds : DispatchStart(c, k)
  \/ DispatchStep(c) \/ Enqueue(c) \/ WorkerStep(c) \/ TryDequeue(c) \/ JobDone(c)
  \/ c = BSP /\ SubmitCommon

\* Every step is the step of one core.
LEMMA NextIsAct == Next => \E c \in Cores : Act(c)
  BY DEF Next, Act, Cores

\* The bounds are numbers.
LEMMA Bounds == Tiles \in Nat /\ MaxWork \in Nat /\ MaxJobs \in Nat \ {0} /\ N \in Nat
  BY ApWorkAssumption, MatmulAssumption DEF N

\* The registers of a core.
Regs(d) == <<pc[d], h[d], t[d], job[d], cx[d], tile[d], mine[d], left[d]>>

\* A step of c leaves the registers of the other cores alone.
LEMMA Frame ==
  ASSUME Types, NEW c \in Cores, Act(c), NEW d \in Cores \ {c}
  PROVE  Regs(d)' = Regs(d)
<1> USE DEF Types, CoreTypes, Goto, Return, mmVars, Regs
<1>1. CASE \E k \in Kinds : DispatchStart(c, k)
  BY <1>1 DEF DispatchStart
<1>2. CASE DispatchStep(c)
  <2>1. CASE ZeroClaimed(c) \/ PublishCtx(c) \/ OwnShare(c) \/ BarrierOpens(c)
             \/ BarrierTimeout(c) \/ UnpublishCtx(c) \/ EndCtx(c) \/ Release(c)
    BY <2>1, Zenon DEF ZeroClaimed, PublishCtx, OwnShare, BarrierOpens, BarrierTimeout, UnpublishCtx,
                EndCtx, Release
  <2>2. CASE ResetQueue(c) \/ EnqueueBarrier(c)
    BY <2>2 DEF ResetQueue, EnqueueBarrier, ClearHead, ClearTail, ResetEpoch, ResetDone,
                ResetPending, EnqLoadTail
  <2> QED BY <1>2, <2>1, <2>2 DEF DispatchStep
<1>3. CASE Enqueue(c)
  BY <1>3, Zenon DEF Enqueue, EnqAccept, EnqWrite, EnqRefuse, EnqPublish
<1>4. CASE WorkerStep(c)
  BY <1>4 DEF WorkerStep, WorkerLoadCtx, WorkerClaim, WorkerWrite, RunCommon
<1>5. CASE TryDequeue(c)
  BY <1>5, Zenon DEF TryDequeue, DeqLoadHead, DeqLoadTail, DeqCas, DeqRead
<1>6. CASE JobDone(c)
  BY <1>6, Zenon DEF JobDone, JobDoneCheck, JobDoneAdd
<1>7. CASE c = BSP /\ SubmitCommon
  BY <1>7 DEF SubmitCommon, EnqLoadTail
<1> QED BY <1>1, <1>2, <1>3, <1>4, <1>5, <1>6, <1>7, Zenon DEF Act

\* The product of a dispatcher has a number.
LEMMA MineProduct ==
  ASSUME Types, NEW c \in Cores, mine[c] # 0
  PROVE  mine[c] \in Products
<1>1. mine[c] \in 0..MaxWork
  BY DEF Types, CoreTypes
<1> QED BY <1>1, Bounds DEF Products

\* The kind of a product under dispatch does not change.
LEMMA KindKept ==
  ASSUME TypeInv, BusyInv, NEW c \in Cores, Act(c), NEW d \in Cores, mine[d] # 0
  PROVE  ctx'[mine[d]].kind = ctx[mine[d]].kind
<1>1. mine[d] \in Products
  BY MineProduct DEF TypeInv
<1>2. CASE ctx' = ctx
  BY <1>2
<1>3. CASE EndCtx(c)
  BY <1>1, <1>3 DEF EndCtx, TypeInv, Types, MatTypes, Contexts
<1>4. CASE \E k \in Kinds : DispatchStart(c, k)
  BY <1>4 DEF DispatchStart, BusyInv
<1>5. ctx' = ctx \/ EndCtx(c) \/ \E k \in Kinds : DispatchStart(c, k)
  BY Zenon DEF Act, DispatchStep, Enqueue, WorkerStep, TryDequeue, JobDone, SubmitCommon,
         ZeroClaimed, PublishCtx, OwnShare, BarrierOpens, BarrierTimeout, UnpublishCtx, Release,
         ResetQueue, EnqueueBarrier, WorkerLoadCtx, WorkerClaim, WorkerWrite, RunCommon, mmVars
<1> QED BY <1>2, <1>3, <1>4, <1>5

\* A slot number.
LEMMA SlotIndex == ASSUME NEW n \in Nat PROVE n % MaxJobs \in 0..(MaxJobs - 1)
  BY Bounds

\* A fresh context is live.
LEMMA LiveContext == ASSUME NEW k, NEW x, x = [st |-> "live", kind |-> k] PROVE x.st = "live"
  OBVIOUS

\* Every step keeps the types of ring and barrier.
LEMMA StepRingTypes ==
  ASSUME Types, NEW c \in Cores, Act(c)
  PROVE  RingTypes'
<1> USE DEF queueVars, barrierVars
<1>0. RingTypes /\ h[c] \in Nat /\ t[c] \in Nat /\ job[c] \in Jobs /\ Cardinality(APs) \in Nat
  BY Bounds DEF Types, CoreTypes, N
<1>1. CASE UNCHANGED <<queueVars, barrierVars>>
  BY <1>0, <1>1 DEF RingTypes
<1>2. CASE ResetQueue(c)
  <2>1. 0 \in Nat /\ epoch + 1 \in Nat
    BY <1>0 DEF RingTypes
  <2> QED BY <1>0, <1>2, <2>1, Zenon DEF ResetQueue, ClearHead, ClearTail, ResetEpoch, ResetDone, ResetPending,
                                         RingTypes
<1>3. CASE Enqueue(c)
  <2>1. CASE EnqAccept(c) \/ EnqRefuse(c, Resume(c))
    BY <1>0, <1>1, <2>1, Zenon DEF EnqAccept, EnqRefuse
  <2>2. CASE EnqWrite(c)
    <3>1. slots' \in [0..(MaxJobs - 1) -> Jobs]
      BY <1>0, <2>2, SlotIndex DEF EnqWrite, RingTypes
    <3> QED BY <1>0, <2>2, <3>1, Zenon DEF EnqWrite, RingTypes
  <2>3. CASE EnqPublish(c, Resume(c))
    <3>1. t[c] + 1 \in Nat
      BY <1>0
    <3> QED BY <1>0, <2>3, <3>1, Zenon DEF EnqPublish, RingTypes
  <2> QED BY <1>3, <2>1, <2>2, <2>3, Zenon DEF Enqueue
<1>4. CASE TryDequeue(c)
  <2>1. CASE DeqLoadHead(c) \/ DeqLoadTail(c) \/ DeqRead(c)
    BY <1>0, <1>1, <2>1, Zenon DEF DeqLoadHead, DeqLoadTail, DeqRead
  <2>2. CASE DeqCas(c)
    <3>1. h[c] + 1 \in Nat
      BY <1>0
    <3> QED BY <1>0, <2>2, <3>1, Zenon DEF DeqCas, RingTypes
  <2> QED BY <1>4, <2>1, <2>2, Zenon DEF TryDequeue
<1>5. CASE JobDone(c)
  BY <1>0, <1>5 DEF JobDone, JobDoneCheck, JobDoneAdd, RingTypes
<1> QED
  BY Zenon, <1>1, <1>2, <1>3, <1>4, <1>5
     DEF Act, DispatchStart, DispatchStep, ZeroClaimed, PublishCtx, EnqueueBarrier, OwnShare,
         BarrierOpens, BarrierTimeout, UnpublishCtx, EndCtx, Release, WorkerStep, WorkerLoadCtx,
         WorkerClaim, WorkerWrite, RunCommon, SubmitCommon, EnqLoadTail

\* The mixed reads of a slot have the type of a job.
LEMMA ReadTyped ==
  ASSUME Types, NEW c \in Cores, DeqRead(c)
  PROVE  job' \in [Cores -> Jobs]
<1> DEFINE i == h[c] % MaxJobs
<1>1. i \in 0..(MaxJobs - 1)
  BY SlotIndex, Zenon DEF Types, CoreTypes
<1>2. slots[i] \in Jobs /\ job \in [Cores -> Jobs]
  BY <1>1 DEF Types, RingTypes, CoreTypes
<1>3. Visible(i) \subseteq Jobs
  BY <1>2 DEF Visible
<1>4. PICK a, b, d \in Visible(i) :
         job' = [job EXCEPT ![c] = [f |-> a.f, epoch |-> b.epoch, counts |-> d.counts]]
  BY Zenon DEF DeqRead
<1>5. a \in Jobs /\ b \in Jobs /\ d \in Jobs
  BY <1>3
<1>6. [f |-> a.f, epoch |-> b.epoch, counts |-> d.counts] \in Jobs
  BY <1>5 DEF Jobs
<1> QED BY <1>2, <1>4, <1>6

\* Every step keeps the types of the registers.
LEMMA StepCoreTypes ==
  ASSUME TypeInv, BusyInv, NEW c \in Cores, Act(c), BusyInv'
  PROVE  CoreTypes'
<1> USE DEF mmVars, Return
<1>0. CoreTypes /\ RingTypes /\ MatTypes /\ Local(c)
  BY DEF TypeInv, Types
<1>1. pc' \in [Cores -> Labels]
  BY DEF BusyInv
<1>2. h' \in [Cores -> Nat]
  <2>1. h' = h \/ h' = [h EXCEPT ![c] = head] \/ h' = [h EXCEPT ![c] = 0]
    BY Zenon DEF Act, DispatchStart, DispatchStep, ZeroClaimed, PublishCtx, ResetQueue, EnqueueBarrier,
           OwnShare, BarrierOpens, BarrierTimeout, UnpublishCtx, EndCtx, Release, WorkerStep,
           WorkerLoadCtx, WorkerClaim, WorkerWrite, RunCommon, SubmitCommon, EnqLoadTail, Enqueue,
           EnqAccept, EnqWrite, EnqRefuse, EnqPublish, TryDequeue, DeqLoadHead, DeqLoadTail, DeqCas,
           DeqRead, JobDone, JobDoneCheck, JobDoneAdd, ClearHead, ClearTail, ResetEpoch, ResetDone,
           ResetPending
  <2>2. h \in [Cores -> Nat] /\ head \in Nat
    BY <1>0 DEF CoreTypes, RingTypes
  <2> QED BY <2>1, <2>2
<1>3. t' \in [Cores -> Nat]
  <2>1. t' = t \/ t' = [t EXCEPT ![c] = tail] \/ t' = [t EXCEPT ![c] = 0]
    BY Zenon DEF Act, DispatchStart, DispatchStep, ZeroClaimed, PublishCtx, ResetQueue, EnqueueBarrier,
           OwnShare, BarrierOpens, BarrierTimeout, UnpublishCtx, EndCtx, Release, WorkerStep,
           WorkerLoadCtx, WorkerClaim, WorkerWrite, RunCommon, SubmitCommon, EnqLoadTail, Enqueue,
           EnqAccept, EnqWrite, EnqRefuse, EnqPublish, TryDequeue, DeqLoadHead, DeqLoadTail, DeqCas,
           DeqRead, JobDone, JobDoneCheck, JobDoneAdd, ClearHead, ClearTail, ResetEpoch, ResetDone,
           ResetPending
  <2>2. t \in [Cores -> Nat] /\ tail \in Nat
    BY <1>0 DEF CoreTypes, RingTypes
  <2> QED BY <2>1, <2>2
<1>4. job' \in [Cores -> Jobs]
  <2>1. CASE EnqueueBarrier(c)
    <3>1. MyKind(c) \in Kinds
      BY <1>0, <2>1, Zenon DEF EnqueueBarrier, Local, BusyInv, Consistent, DispatchLabels
    <3>2. [f |-> MyKind(c), epoch |-> 0, counts |-> TRUE] \in Jobs
      BY <3>1 DEF Jobs
    <3> QED BY <1>0, <2>1, <3>2 DEF EnqueueBarrier, EnqLoadTail, CoreTypes
  <2>2. CASE c = BSP /\ SubmitCommon
    <3>1. [f |-> "common", epoch |-> 0, counts |-> FALSE] \in Jobs
      BY DEF Jobs
    <3> QED BY <1>0, <2>2, <3>1 DEF SubmitCommon, EnqLoadTail, CoreTypes
  <2>3. CASE EnqAccept(c)
    <3>1. job[c] \in Jobs /\ epoch \in Nat
      BY <1>0 DEF CoreTypes, RingTypes
    <3>2. [job[c] EXCEPT !.epoch = epoch] \in Jobs
      BY <3>1 DEF Jobs
    <3>3. job' = [job EXCEPT ![c] = [job[c] EXCEPT !.epoch = epoch]]
      BY <2>3 DEF EnqAccept
    <3> QED BY <1>0, <3>2, <3>3 DEF CoreTypes
  <2>4. CASE DeqRead(c)
    BY <2>4, ReadTyped DEF TypeInv
  <2>5. CASE job' = job \/ job' = [job EXCEPT ![c] = NoJob]
    <3>1. NoJob \in Jobs
      BY DEF NoJob, Jobs
    <3> QED BY <1>0, <2>5, <3>1 DEF CoreTypes
  <2> QED
    BY Zenon, <2>1, <2>2, <2>3, <2>4, <2>5
       DEF Act, DispatchStart, DispatchStep, ZeroClaimed, PublishCtx, ResetQueue,
           OwnShare, BarrierOpens, BarrierTimeout, UnpublishCtx, EndCtx, Release, WorkerStep,
           WorkerLoadCtx, WorkerClaim, WorkerWrite, RunCommon, Enqueue,
           EnqWrite, EnqRefuse, EnqPublish, TryDequeue, DeqLoadHead, DeqLoadTail, DeqCas,
           JobDone, JobDoneCheck, JobDoneAdd, ClearHead, ClearTail, ResetEpoch, ResetDone,
           ResetPending
<1>5. cx' \in [Cores -> 0..MaxWork] /\ tile' \in [Cores -> Nat]
  <2>1. CASE WorkerLoadCtx(c)
    <3>1. WorkerKind(c) \in Kinds
      BY <1>0, <2>1, Zenon DEF WorkerLoadCtx, WorkerKind, Local, BusyInv, Consistent, DispatchLabels
    <3> QED BY <1>0, <2>1, <3>1 DEF WorkerLoadCtx, CoreTypes, MatTypes
  <2>2. CASE WorkerClaim(c)
    <3>1. WorkerKind(c) \in Kinds /\ MaxWork \in Nat
      BY <1>0, <2>2, Bounds DEF WorkerClaim, Local, Working
    <3> QED BY <1>0, <2>2, <3>1 DEF WorkerClaim, CoreTypes, MatTypes
  <2>3. CASE UNCHANGED <<cx, tile>>
    BY <1>0, <2>3, Zenon DEF CoreTypes
  <2> QED
    BY Zenon, <2>1, <2>2, <2>3
       DEF Act, DispatchStart, DispatchStep, ZeroClaimed, PublishCtx, ResetQueue, EnqueueBarrier,
           OwnShare, BarrierOpens, BarrierTimeout, UnpublishCtx, EndCtx, Release, WorkerStep,
           WorkerWrite, RunCommon, SubmitCommon, Enqueue, TryDequeue, JobDone
<1>6. mine' \in [Cores -> 0..MaxWork] /\ left' \in [Cores -> 0..N]
  <2>1. CASE \E k \in Kinds : DispatchStart(c, k)
    <3>1. PICK n \in Products : mine' = [mine EXCEPT ![c] = n]
      BY <2>1, Zenon DEF DispatchStart
    <3>2. n \in 0..MaxWork /\ N \in 0..N /\ left' = [left EXCEPT ![c] = N]
      BY <2>1, Bounds DEF Products, DispatchStart, N
    <3> QED BY <1>0, <3>1, <3>2, Zenon DEF CoreTypes
  <2>2. CASE EnqueueBarrier(c)
    <3>1. left[c] \in 0..N /\ left[c] > 0 /\ N \in Nat
      BY <1>0, <2>2, Bounds, Zenon DEF EnqueueBarrier, CoreTypes
    <3> QED BY <1>0, <2>2, <3>1 DEF EnqueueBarrier, CoreTypes
  <2>3. CASE Release(c)
    BY <1>0, <2>3, Bounds DEF Release, CoreTypes
  <2>4. CASE UNCHANGED <<mine, left>>
    BY <1>0, <2>4, Zenon DEF CoreTypes
  <2> QED
    BY Zenon, <2>1, <2>2, <2>3, <2>4
       DEF Act, DispatchStep, ZeroClaimed, PublishCtx, ResetQueue,
           OwnShare, BarrierOpens, BarrierTimeout, UnpublishCtx, EndCtx, WorkerStep,
           WorkerLoadCtx, WorkerClaim, WorkerWrite, RunCommon, SubmitCommon, Enqueue, TryDequeue,
           JobDone
<1> QED BY <1>1, <1>2, <1>3, <1>4, <1>5, <1>6, Zenon DEF CoreTypes

\* Every step keeps the types of contexts, results and the tile counters.
LEMMA StepMatTypes ==
  ASSUME TypeInv, BusyInv, NEW c \in Cores, Act(c), BusyInv'
  PROVE  MatTypes'
<1> USE DEF mmVars
<1>0. CoreTypes /\ RingTypes /\ MatTypes /\ Local(c) /\ Tiles \in Nat /\ MaxWork \in Nat
  BY Bounds DEF TypeInv, Types
<1>1. CASE UNCHANGED <<busy, ctxPtr, claimed, ctx, written, accepted>>
  BY <1>0, <1>1 DEF MatTypes
<1>2. ASSUME NEW k \in Kinds, DispatchStart(c, k) PROVE MatTypes'
  BY <1>0, <1>2 DEF DispatchStart, MatTypes, Contexts
<1>3. CASE ZeroClaimed(c) \/ PublishCtx(c) \/ UnpublishCtx(c)
  <2>1. mine[c] \in 0..MaxWork /\ 0 \in 0..MaxWork
    BY <1>0 DEF CoreTypes
  <2>2. UNCHANGED <<busy, ctx, written, accepted>> /\ claimed \in [Kinds -> Nat] /\ ctxPtr \in [Kinds -> 0..MaxWork]
    BY <1>0, <1>3, Zenon DEF ZeroClaimed, PublishCtx, UnpublishCtx, MatTypes
  <2>3. /\ claimed' = claimed \/ claimed' = [claimed EXCEPT ![MyKind(c)] = 0]
        /\ \/ ctxPtr' = ctxPtr
           \/ ctxPtr' = [ctxPtr EXCEPT ![MyKind(c)] = mine[c]]
           \/ ctxPtr' = [ctxPtr EXCEPT ![MyKind(c)] = 0]
    BY <1>3, Zenon DEF ZeroClaimed, PublishCtx, UnpublishCtx
  <2>4. claimed' \in [Kinds -> Nat]
    BY <2>2, <2>3
  <2>5. ctxPtr' \in [Kinds -> 0..MaxWork]
    BY <2>1, <2>2, <2>3
  <2> QED BY <1>0, <2>2, <2>4, <2>5, Zenon DEF MatTypes
<1>4. CASE EndCtx(c)
  <2>1. mine[c] \in Products
    BY <1>4, MineProduct DEF EndCtx, BusyInv, Consistent, DispatchLabels, TypeInv
  <2>2. ctx[mine[c]] \in Contexts /\ ctx \in [Products -> Contexts]
    BY <1>0, <2>1 DEF MatTypes
  <2>3. ctx' \in [Products -> Contexts]
    BY <1>4, <2>1, <2>2, Zenon DEF EndCtx, Contexts
  <2> QED BY <1>0, <1>4, <2>3, Zenon DEF EndCtx, MatTypes
<1>5. CASE Release(c)
  BY <1>0, <1>5, Zenon DEF Release, MatTypes
<1>6. CASE Enqueue(c)
  BY <1>0, <1>6 DEF Enqueue, MatTypes
<1>7. CASE WorkerClaim(c)
  <2>1. WorkerKind(c) \in Kinds
    BY <1>0, <1>7, Zenon DEF WorkerClaim, Local, Working
  <2> QED BY <1>0, <1>7, <2>1 DEF WorkerClaim, MatTypes
<1>8. CASE WorkerWrite(c)
  <2>1. cx[c] \in 0..MaxWork /\ cx[c] # 0 /\ tile[c] \in Nat /\ tile[c] < Tiles
    BY <1>0, <1>8, Zenon DEF WorkerWrite, Local, Working, CoreTypes
  <2>2. cx[c] \in Products /\ tile[c] \in 0..(Tiles - 1)
    BY <1>0, <2>1 DEF Products
  <2> QED BY <1>0, <1>8, <2>2, Zenon DEF WorkerWrite, MatTypes
<1> QED
  BY Zenon, <1>1, <1>2, <1>3, <1>4, <1>5, <1>6, <1>7, <1>8
     DEF Act, DispatchStep, ResetQueue, EnqueueBarrier, OwnShare, BarrierOpens, BarrierTimeout,
         WorkerStep, WorkerLoadCtx, RunCommon, SubmitCommon, TryDequeue, JobDone

\* A step of one core does not change what the registers of the others mean.
LEMMA OthersLocal ==
  ASSUME TypeInv, BusyInv, NEW c \in Cores, Act(c), NEW d \in Cores \ {c}
  PROVE  /\ Regs(d)' = Regs(d)
         /\ mine[d] # 0 => MyKind(d)' = MyKind(d)
         /\ pc[d] \in Working => WorkerKind(d)' = WorkerKind(d)
         /\ Local(d)'
<1>1. Local(d)
  BY DEF TypeInv
<1>2. /\ pc'[d] = pc[d] /\ h'[d] = h[d] /\ t'[d] = t[d] /\ job'[d] = job[d] /\ cx'[d] = cx[d]
      /\ tile'[d] = tile[d] /\ mine'[d] = mine[d] /\ left'[d] = left[d]
  BY Frame, Zenon DEF TypeInv, Regs
<1>3. mine[d] # 0 => ctx'[mine[d]].kind = ctx[mine[d]].kind
  BY KindKept
<1>4. mine[d] # 0 => MyKind(d)' = MyKind(d)
  BY <1>2, <1>3 DEF MyKind
<1>5. WorkerKind(d)' = WorkerKind(d)
  BY <1>2, <1>4, Zenon DEF WorkerKind
<1> QED BY <1>1, <1>2, <1>4, <1>5, Zenon DEF Local, Regs

\* Nor does a step of a dispatcher change the kind of its product.
LEMMA MineKept ==
  ASSUME TypeInv, BusyInv, NEW c \in Cores, Act(c), mine'[c] = mine[c]
  PROVE  /\ mine[c] # 0 => MyKind(c)' = MyKind(c)
         /\ job'[c] = job[c] => WorkerKind(c)' = WorkerKind(c)
<1>1. mine[c] # 0 => ctx'[mine[c]].kind = ctx[mine[c]].kind
  BY KindKept
<1> QED BY <1>1 DEF MyKind, WorkerKind

\* Every step leaves the core that takes it with registers that fit its place.
LEMMA ActorLocal ==
  ASSUME TypeInv, BusyInv, NEW c \in Cores, Act(c), BusyInv'
  PROVE  Local(c)'
<1> USE DEF mmVars, Return, Goto
<1>0. CoreTypes /\ RingTypes /\ MatTypes /\ Local(c)
  BY DEF TypeInv, Types
<1>1. CASE \E k \in Kinds : DispatchStart(c, k)
  <2>1. PICK k \in Kinds, n \in Products : /\ ctx' = [ctx EXCEPT ![n] = [st |-> "live", kind |-> k]]
                                           /\ mine' = [mine EXCEPT ![c] = n]
    BY <1>1, Zenon DEF DispatchStart
  <2>2. mine'[c] = n /\ MyKind(c)' = k
    BY <1>0, <2>1 DEF CoreTypes, MatTypes, MyKind
  <2>3. pc'[c] = "zeroClaimed"
    BY <1>0, <1>1 DEF DispatchStart, CoreTypes
  <2>4. n # 0
    BY Bounds DEF Products
  <2> QED BY <2>2, <2>3, <2>4 DEF Local, Enqueueing, Working
<1>2. CASE Release(c)
  <2>1. mine'[c] = 0 /\ pc'[c] = "idle"
    BY <1>0, <1>2 DEF Release, CoreTypes
  <2> QED BY <2>1 DEF Local, Enqueueing, Working
<1>3. CASE mine' = mine /\ mine[c] # 0 /\ pc'[c] \notin Enqueueing \cup Working
  <2>1. MyKind(c)' = MyKind(c)
    BY <1>3, MineKept
  <2> QED BY <1>0, <1>3, <2>1 DEF Local, Enqueueing, Working
<1>4. CASE DispatchStep(c) /\ ~Release(c) /\ ~EnqueueBarrier(c)
  <2>1. mine' = mine /\ pc'[c] \notin Enqueueing \cup Working
    BY Zenon, <1>0, <1>4
       DEF DispatchStep, ZeroClaimed, PublishCtx, ResetQueue, OwnShare, BarrierOpens, BarrierTimeout,
           UnpublishCtx, EndCtx, ClearHead, ClearTail, ResetEpoch, ResetDone, ResetPending,
           CoreTypes, Enqueueing, Working
  <2>2. pc[c] \in DispatchLabels
    BY Zenon, <1>4
       DEF DispatchStep, ZeroClaimed, PublishCtx, ResetQueue, OwnShare, BarrierOpens, BarrierTimeout,
           UnpublishCtx, EndCtx, ClearHead, ClearTail, ResetEpoch, ResetDone, ResetPending,
           DispatchLabels
  <2>3. mine[c] # 0
    BY <2>2 DEF BusyInv, Consistent
  <2> QED BY <1>3, <2>1, <2>3
<1>5. CASE EnqueueBarrier(c)
  <2>1. mine[c] # 0 /\ mine'[c] = mine[c] /\ pc'[c] = "enqHead" /\ job'[c].f = MyKind(c)
    BY <1>0, <1>5, Zenon DEF EnqueueBarrier, EnqLoadTail, BusyInv, Consistent, DispatchLabels, CoreTypes
  <2>2. MyKind(c)' = MyKind(c) /\ MyKind(c) \in Kinds
    BY <1>0, <2>1, MineKept DEF Local
  <2> QED BY <2>1, <2>2, ApWorkAssumption, Zenon DEF Local, Working
<1>6. CASE Enqueue(c)
  <2>1. mine'[c] = mine[c] /\ pc[c] \in Enqueueing
    BY <1>6, Zenon DEF Enqueue, EnqAccept, EnqWrite, EnqRefuse, EnqPublish, Enqueueing
  <2>2. mine[c] # 0 => MyKind(c)' = MyKind(c)
    BY <2>1, MineKept
  <2>3. CASE EnqAccept(c) \/ EnqWrite(c)
    <3>1. pc'[c] \in Enqueueing
      BY <1>0, <2>3 DEF EnqAccept, EnqWrite, CoreTypes, Enqueueing
    <3>2. job[c] \in Jobs
      BY <1>0 DEF CoreTypes
    <3>3. job'[c].f = job[c].f /\ job'[c].counts = job[c].counts
      BY <1>0, <2>3, <3>2 DEF EnqAccept, EnqWrite, CoreTypes, Jobs
    <3> QED BY <1>0, <2>1, <2>2, <3>1, <3>3 DEF Local, Working, Enqueueing
  <2>4. CASE EnqRefuse(c, Resume(c)) \/ EnqPublish(c, Resume(c))
    <3>1. pc'[c] = Resume(c)
      BY <1>0, <2>4, Zenon DEF EnqRefuse, EnqPublish, CoreTypes
    <3> QED BY <1>0, <2>1, <2>2, <3>1, Zenon DEF Local, Working, Enqueueing, Resume
  <2> QED BY <1>6, <2>3, <2>4, Zenon DEF Enqueue
<1>7. CASE c = BSP /\ SubmitCommon
  <2>1. mine[c] = 0 /\ mine' = mine
    BY <1>7 DEF SubmitCommon, BusyInv, Consistent, DispatchLabels, SharedLabels
  <2>2. pc'[c] = "enqHead" /\ job'[c].f = "common" /\ ~job'[c].counts
    BY <1>0, <1>7 DEF SubmitCommon, EnqLoadTail, CoreTypes
  <2> QED BY <1>7, <2>1, <2>2 DEF Local, Working, Enqueueing
<1>8. CASE WorkerStep(c)
  <2>1. mine' = mine /\ job' = job
    BY <1>8, Zenon DEF WorkerStep, WorkerLoadCtx, WorkerClaim, WorkerWrite, RunCommon
  <2>2. WorkerKind(c)' = WorkerKind(c) /\ (mine[c] # 0 => MyKind(c)' = MyKind(c))
    BY <2>1, MineKept
  <2>3. mine[c] = 0 => c \in APs
    BY <1>0, <1>8, Zenon DEF WorkerStep, WorkerLoadCtx, WorkerClaim, WorkerWrite, RunCommon, Local,
                      Enqueueing, BusyInv, Consistent, DispatchLabels
  <2>4. CASE WorkerLoadCtx(c)
    <3>1. WorkerKind(c) \in Kinds
      BY <1>0, <2>4, Zenon DEF WorkerLoadCtx, WorkerKind, Local, BusyInv, Consistent, DispatchLabels
    <3>2. cx'[c] = ctxPtr[WorkerKind(c)]
          /\ pc'[c] = IF ctxPtr[WorkerKind(c)] = 0 THEN WorkerReturn(c) ELSE "wClaim"
      BY <1>0, <2>4 DEF WorkerLoadCtx, CoreTypes
    <3> QED BY <1>0, <2>1, <2>2, <2>3, <3>1, <3>2, Zenon DEF Local, WorkerReturn, Working, Enqueueing
  <2>5. CASE WorkerClaim(c)
    <3>1. WorkerKind(c) \in Kinds /\ cx[c] # 0
      BY <1>0, <2>5, Zenon DEF WorkerClaim, Local, Working
    <3>2. \/ pc'[c] = "wWrite" /\ cx'[c] = cx[c] /\ tile'[c] < Tiles
          \/ pc'[c] = WorkerReturn(c)
      BY <1>0, <2>5 DEF WorkerClaim, CoreTypes
    <3>3. CASE pc'[c] = WorkerReturn(c)
      BY <1>0, <2>1, <2>2, <2>3, <3>3, Zenon DEF Local, WorkerReturn, Working, Enqueueing
    <3>4. CASE pc'[c] = "wWrite" /\ cx'[c] = cx[c] /\ tile'[c] < Tiles
      BY <1>0, <2>1, <2>2, <2>3, <3>1, <3>4, Zenon DEF Local, Working, Enqueueing
    <3> QED BY <3>2, <3>3, <3>4
  <2>6. CASE WorkerWrite(c)
    <3>1. pc'[c] = "wClaim" /\ cx'[c] = cx[c]
      BY <1>0, <2>6 DEF WorkerWrite, CoreTypes
    <3>2. WorkerKind(c) \in Kinds /\ cx[c] # 0
      BY <1>0, <2>6 DEF WorkerWrite, Local, Working
    <3> QED BY <1>0, <2>1, <2>2, <2>3, <3>1, <3>2, Zenon DEF Local, Working, Enqueueing
  <2>7. CASE RunCommon(c)
    <3>1. pc'[c] = "credit"
      BY <1>0, <2>7 DEF RunCommon, CoreTypes
    <3> QED BY <1>0, <2>1, <2>2, <2>3, <3>1, Zenon DEF Local, Working, Enqueueing
  <2> QED BY <1>8, <2>4, <2>5, <2>6, <2>7 DEF WorkerStep
<1>9. CASE TryDequeue(c) \/ JobDone(c)
  <2>1. mine' = mine
    BY <1>9 DEF TryDequeue, JobDone
  <2>2. pc[c] \in {"idle", "deqTail", "deqCas", "deqRead", "credit", "creditAdd"}
    BY <1>9, Zenon DEF TryDequeue, JobDone, DeqLoadHead, DeqLoadTail, DeqCas, DeqRead,
                JobDoneCheck, JobDoneAdd
  <2>3. mine[c] = 0
    BY <2>2 DEF BusyInv, Consistent, DispatchLabels, SharedLabels
  <2>4. pc'[c] \in {"idle", "deqTail", "deqCas", "deqRead", "run", "creditAdd"}
    BY <1>0, <1>9, Zenon DEF TryDequeue, JobDone, DeqLoadHead, DeqLoadTail, DeqCas, DeqRead,
                JobDoneCheck, JobDoneAdd, CoreTypes
  <2>5. c \in APs
    BY <1>0, <1>9, <2>2, <2>3, Zenon DEF Local, Enqueueing, TryDequeue, JobDone, DeqLoadHead, DeqLoadTail,
                DeqCas, DeqRead, JobDoneCheck, JobDoneAdd
  <2> QED BY <2>1, <2>3, <2>4, <2>5 DEF Local, Working, Enqueueing
<1> QED BY <1>1, <1>2, <1>4, <1>5, <1>6, <1>7, <1>8, <1>9, Zenon DEF Act, DispatchStep

\* Types and registers at the start.
LEMMA InitType == Init => TypeInv
<1> SUFFICES ASSUME Init PROVE TypeInv
  OBVIOUS
<1>0. NoJob \in Jobs /\ Tiles \in Nat /\ MaxWork \in Nat /\ N \in Nat
  BY Bounds DEF NoJob, Jobs
<1>1. RingTypes
  BY <1>0 DEF Init, ApInit, RingTypes
<1>2. CoreTypes
  BY <1>0 DEF Init, ApInit, CoreTypes, Labels
<1>3. MatTypes
  <2>1. [st |-> "none", kind |-> "none"] \in Contexts
    BY DEF Contexts
  <2>2. ctx \in [Products -> Contexts] /\ written \in [Products -> SUBSET (0..(Tiles - 1))]
    BY <2>1 DEF Init
  <2>3. ctxPtr \in [Kinds -> 0..MaxWork] /\ claimed \in [Kinds -> Nat]
    BY <1>0 DEF Init
  <2> QED BY <2>2, <2>3, Zenon DEF Init, MatTypes
<1>4. \A c \in Cores : Local(c)
  BY DEF Init, ApInit, Local, Enqueueing, Working
<1> QED BY <1>1, <1>2, <1>3, <1>4 DEF TypeInv, Types

TypeBusy == TypeInv /\ BusyInv

\* Types and registers in every step.
LEMMA ActType ==
  ASSUME TypeBusy, NEW c \in Cores, Act(c), BusyInv'
  PROVE  TypeInv'
<1> USE DEF TypeBusy
<1>1. Types'
  BY StepRingTypes, StepCoreTypes, StepMatTypes DEF TypeInv, Types
<1>2. \A d \in Cores : Local(d)'
  BY OthersLocal, ActorLocal
<1> QED BY <1>1, <1>2 DEF TypeInv

\* Every step keeps types and SMP_MM_BUSY's invariant.
LEMMA StepType == TypeBusy /\ [Next]_vars => TypeBusy'
<1> SUFFICES ASSUME TypeBusy, [Next]_vars PROVE TypeBusy'
  OBVIOUS
<1>1. BusyInv'
  BY StepBusy DEF TypeBusy
<1>2. CASE Next
  BY <1>1, <1>2, NextIsAct, ActType DEF TypeBusy
<1>3. CASE UNCHANGED vars
  <2>1. Types'
    BY <1>3, Zenon DEF vars, apVars, mmVars, TypeBusy, TypeInv, Types, RingTypes, CoreTypes, MatTypes
  <2>2. \A c \in Cores : Local(c)'
    BY <1>3, Zenon DEF vars, apVars, mmVars, TypeBusy, TypeInv, Local, MyKind, WorkerKind
  <2> QED BY <1>1, <2>1, <2>2 DEF TypeBusy, TypeInv
<1> QED BY <1>2, <1>3

\* The types hold in every reachable state.
THEOREM TypeCorrect == Spec => []TypeOK
<1>1. TypeInv => TypeOK
  BY DEF TypeInv, Types, RingTypes, CoreTypes, MatTypes, Contexts, TypeOK, N
<1> QED BY <1>1, InitType, InitBusy, StepType, PTL DEF Spec, TypeBusy

-----------------------------------------------------------------------------
(* The barrier. *)

\* No mesh tick has written to the ring.
Sole ==
  /\ accepted = 0
  /\ ~(pc[BSP] \in {"enqWrite", "enqPublish"} /\ job[BSP].f = "common")

\* The cores between the claim of a job and the end of its job_done.
InFlight == {c \in Cores : mine[c] = 0 /\ pc[c] \in Taken}

\* The jobs in flight can be counted, and the count goes up and down by one: what
\* the lemmas below need of finite sets.
FlightCounted ==
  Cardinality(InFlight) \in Nat /\ (Cardinality(InFlight) = 0 <=> InFlight = {})
FlightMoves(c) ==
  /\ c \in InFlight /\ InFlight' = InFlight \ {c} => Cardinality(InFlight') = Cardinality(InFlight) - 1
  /\ c \notin InFlight /\ InFlight' = InFlight \cup {c}
       => Cardinality(InFlight') = Cardinality(InFlight) + 1

\* The ring is empty, nobody works, and nobody can claim a slot any more.
Drained ==
  /\ InFlight = {} /\ head >= tail
  /\ \A c \in Cores : pc[c] = "deqCas" => h[c] # head

\* Where a dispatch has not cleared the ring yet or is past the barrier.
Quiet ==
  {"zeroClaimed", "publishCtx", "clearHead", "nullOk", "nullTimeout", "free", "leak", "release"}
Counting == {"enq", "own", "wait"} \cup SharedLabels

\* HEAD counts the jobs claimed since clear_queue, and there are at most as many
\* as APs; every claimed job is still in flight or has credited DONE at most once.
RingInv ==
  /\ head <= N /\ tail <= N
  /\ \A c \in Cores : pc[c] = "deqCas" => h[c] < N
  /\ (\A d \in Cores : mine[d] # 0 => pc[d] \in Quiet) => Drained
  /\ \A d \in Cores : mine[d] # 0 =>
       /\ pc[d] \in {"resetEpoch", "resetDone", "resetPending", "enq"} => tail + left[d] <= N
       /\ pc[d] \in Enqueueing => t[d] = tail /\ tail + 1 + left[d] <= N
       /\ pc[d] \notin Quiet => Cardinality(InFlight) <= head
       /\ pc[d] \in Counting \cup {"resetPending"} => done + Cardinality(InFlight) <= head
       /\ pc[d] \in Counting => pending = N

\* The context pointer is the dispatcher's, from its publication to its removal;
\* the context lives until the dispatcher ends it; whoever works, works on it.
Unpublished == {"zeroClaimed", "publishCtx", "free", "leak", "release"}
CtxInv ==
  /\ \A k \in Kinds : ctxPtr[k] # 0 =>
       \E d \in Cores : mine[d] = ctxPtr[k] /\ MyKind(d) = k /\ pc[d] \notin Unpublished
  /\ \A d \in Cores : mine[d] # 0 /\ pc[d] \notin Unpublished => ctxPtr[MyKind(d)] = mine[d]
  /\ \A d \in Cores : mine[d] # 0 /\ pc[d] # "release" => ctx[mine[d]].st = "live"
  /\ \A c \in Cores : pc[c] \in Working =>
       \E d \in Cores : mine[d] # 0 /\ cx[c] = mine[d] /\ WorkerKind(c) = MyKind(d)

\* A tile that has been claimed is computed or being computed; a dispatcher that
\* waits has seen the counter at its end; a returned product is complete.
TileInv ==
  /\ \A n \in Products : ctx[n].st = "freed" => 0..(Tiles - 1) \subseteq written[n]
  /\ \A d \in Cores : mine[d] # 0 /\ pc[d] \notin {"zeroClaimed", "release"} =>
       \A i \in 0..(Tiles - 1) : i < claimed[MyKind(d)] =>
         \/ i \in written[mine[d]]
         \/ \E c \in Cores : pc[c] = "wWrite" /\ cx[c] = mine[d] /\ tile[c] = i
  /\ \A d \in Cores : mine[d] # 0 /\ pc[d] \in {"wait", "nullOk", "free"} =>
       claimed[MyKind(d)] >= Tiles

MatmulInv == TypeInv /\ BusyInv /\ (Sole => RingInv /\ CtxInv /\ TileInv)

-----------------------------------------------------------------------------
(* The ring and the barrier. *)

\* A mesh tick that has written to the ring is never forgotten.
LEMMA SoleBefore ==
  ASSUME TypeBusy, NEW c \in Cores, Act(c), Sole'
  PROVE  Sole
<1> SUFFICES ASSUME ~Sole PROVE FALSE
  BY Zenon
<1> USE DEF TypeBusy, mmVars, Goto, Return
<1>0. /\ BSP \in Cores /\ accepted \in Nat /\ CoreTypes /\ Local(BSP) /\ job[BSP] \in Jobs
      /\ TypeInv /\ Types
  BY Zenon DEF TypeInv, Types, MatTypes, CoreTypes, Cores
<1>1. accepted' \in Nat /\ accepted' >= accepted
  <2>1. CASE Enqueue(c)
    BY <1>0, <2>1 DEF Enqueue
  <2>2. CASE accepted' = accepted
    BY <1>0, <2>2
  <2> QED
    BY Zenon, <2>1, <2>2
       DEF Act, DispatchStart, DispatchStep, ZeroClaimed, PublishCtx, ResetQueue, EnqueueBarrier,
           OwnShare, BarrierOpens, BarrierTimeout, UnpublishCtx, EndCtx, Release, WorkerStep,
           WorkerLoadCtx, WorkerClaim, WorkerWrite, RunCommon, SubmitCommon, TryDequeue, JobDone
<1>2. accepted = 0 /\ pc[BSP] \in {"enqWrite", "enqPublish"} /\ job[BSP].f = "common"
  BY <1>0, <1>1 DEF Sole
<1>3. c = BSP
  BY <1>0, <1>2, Frame DEF Regs, Sole
<1>4. mine[c] = 0
  BY <1>0, <1>2, <1>3, Zenon DEF Local, Enqueueing
<1>5. Enqueue(c)
  BY Zenon, <1>2, <1>3, <1>4
     DEF Act, DispatchStart, DispatchStep, ZeroClaimed, PublishCtx, ResetQueue, EnqueueBarrier,
           OwnShare, BarrierOpens, BarrierTimeout, UnpublishCtx, EndCtx, Release, WorkerStep,
           WorkerLoadCtx, WorkerClaim, WorkerWrite, RunCommon, SubmitCommon, ClearHead, ClearTail,
           ResetEpoch, ResetDone, ResetPending, TryDequeue, DeqLoadHead, DeqLoadTail, DeqCas,
           DeqRead, JobDone, JobDoneCheck, JobDoneAdd
<1>6. ~job[c].counts
  BY <1>0, <1>2, <1>3, <1>4, Zenon DEF Local, Enqueueing
<1>7. CASE EnqWrite(c)
  BY <1>0, <1>2, <1>3, <1>7 DEF EnqWrite, Sole, CoreTypes
<1>8. CASE EnqPublish(c, Resume(c)) /\ accepted' = accepted + (IF job[c].counts THEN 0 ELSE 1)
  BY <1>2, <1>6, <1>8 DEF Sole
<1> QED BY <1>2, <1>3, <1>5, <1>7, <1>8, Zenon DEF Enqueue, EnqAccept, EnqRefuse

\* The registers of the others, one by one.
LEMMA OthersKept ==
  ASSUME TypeBusy, NEW c \in Cores, Act(c), NEW d \in Cores \ {c}
  PROVE  /\ pc'[d] = pc[d] /\ h'[d] = h[d] /\ t'[d] = t[d] /\ job'[d] = job[d]
         /\ cx'[d] = cx[d] /\ tile'[d] = tile[d] /\ mine'[d] = mine[d] /\ left'[d] = left[d]
  BY OthersLocal, Zenon DEF TypeBusy, Regs

\* A job that ends leaves the flight and credits DONE at most once; one that is
\* claimed enters the flight and moves HEAD.
LEMMA ArrivalEnds ==
  ASSUME NEW a \in Nat, NEW b \in Nat, NEW k \in Nat, NEW e \in {a, a + 1}
  PROVE  /\ b <= k => b - 1 <= k
         /\ a + b <= k => e + (b - 1) <= k
  OBVIOUS

LEMMA ShareMoves ==
  ASSUME NEW a \in Nat, NEW b \in Nat, NEW m \in Nat, a + b <= m
  PROVE  a + 1 + (b - 1) <= m
  OBVIOUS

LEMMA ClaimBegins ==
  ASSUME NEW a \in Nat, NEW b \in Nat, NEW k \in Nat
  PROVE  /\ b <= k => b + 1 <= k + 1
         /\ a + b <= k => a + (b + 1) <= k + 1
  OBVIOUS

\* A step of a core that does not dispatch: it takes a job, is done with one, or
\* neither.
LEMMA RingOther ==
  ASSUME TypeBusy, TypeInv', FlightCounted, RingInv, NEW c \in Cores, FlightMoves(c), Act(c),
         mine[c] = 0, mine'[c] = 0,
         UNCHANGED <<pending, tail>>,
         \/ /\ UNCHANGED <<head, done>> /\ (c \in InFlight' <=> c \in InFlight)
            /\ pc'[c] = "deqCas" => h'[c] < tail
         \/ /\ UNCHANGED head /\ done' \in {done, done + 1}
            /\ c \in InFlight /\ pc'[c] = "idle"
         \/ /\ pc[c] = "deqCas" /\ head = h[c] /\ head' = head + 1 /\ UNCHANGED done
            /\ pc'[c] = "deqRead"
  PROVE  RingInv'
<1> DEFINE Keeps == /\ UNCHANGED <<head, done>> /\ (c \in InFlight' <=> c \in InFlight)
                    /\ pc'[c] = "deqCas" => h'[c] < tail
           Ends  == /\ UNCHANGED head /\ done' \in {done, done + 1}
                    /\ c \in InFlight /\ pc'[c] = "idle"
           Takes == /\ pc[c] = "deqCas" /\ head = h[c] /\ head' = head + 1 /\ UNCHANGED done
                    /\ pc'[c] = "deqRead"
<1>0. /\ head \in Nat /\ tail \in Nat /\ done \in Nat /\ N \in Nat
      /\ Cardinality(InFlight) \in Nat
  BY Bounds, Zenon DEF FlightCounted, TypeBusy, TypeInv, Types, RingTypes
<1>1. \A d \in Cores \ {c} : /\ pc'[d] = pc[d] /\ h'[d] = h[d] /\ t'[d] = t[d]
                             /\ mine'[d] = mine[d] /\ left'[d] = left[d]
  BY OthersKept, Zenon
<1>2. \A d \in Cores \ {c} : d \in InFlight' <=> d \in InFlight
  BY <1>1, Zenon DEF InFlight
<1>3. InFlight \subseteq Cores /\ InFlight' \subseteq Cores
  BY Zenon DEF InFlight
<1>4. Keeps \/ Ends \/ Takes
  BY Zenon
<1>5. Keeps => InFlight' = InFlight
  <2> SUFFICES ASSUME Keeps PROVE InFlight' = InFlight
    BY Zenon
  <2>1. \A d \in Cores : d \in InFlight' <=> d \in InFlight
    BY <1>2, Zenon
  <2> QED BY <1>3, <2>1, Zenon
<1>6. Ends => InFlight' = InFlight \ {c}
  BY <1>2, <1>3, Zenon DEF InFlight, Taken
<1>7. Takes => c \notin InFlight /\ InFlight' = InFlight \cup {c}
  BY <1>2, <1>3 DEF InFlight, Taken
<1> DEFINE n == Cardinality(InFlight)
           m == Cardinality(InFlight')
<1>8. /\ Keeps => m = n
      /\ Ends => m = n - 1
      /\ Takes => m = n + 1
  BY <1>5, <1>6, <1>7, Zenon DEF FlightMoves
<1> HIDE DEF n, m
<1>9. n \in Nat
  BY <1>0 DEF n
<1>10. head' <= N /\ tail' <= N
  BY <1>0, <1>4 DEF RingInv
<1>11. \A d \in Cores : pc'[d] = "deqCas" => h'[d] < N
  <2>1. Keeps => (pc'[c] = "deqCas" => h'[c] < N)
    <3>1. h'[c] \in Nat
      BY DEF TypeInv, Types, CoreTypes
    <3>2. tail <= N
      BY Zenon DEF RingInv
    <3>3. h'[c] < tail => h'[c] < N
      BY <1>0, <3>1, <3>2
    <3> QED BY <3>3, Zenon
  <2> QED BY <1>1, <1>4, <2>1, Zenon DEF RingInv
<1>12. (\A d \in Cores : mine'[d] # 0 => pc'[d] \in Quiet) => Drained'
  <2> SUFFICES ASSUME \A d \in Cores : mine'[d] # 0 => pc'[d] \in Quiet PROVE Drained'
    BY Zenon
  <2>1. \A d \in Cores : mine[d] # 0 => pc[d] \in Quiet
    BY <1>1, Zenon
  <2>2. Drained
    BY <2>1, Zenon DEF RingInv
  <2>3. Keeps
    BY <1>4, <2>2, Zenon DEF Drained
  <2>4. InFlight' = {} /\ head' = head /\ tail' = tail /\ head >= tail
    BY <1>5, <2>2, <2>3, Zenon DEF Drained
  <2>5. \A d \in Cores \ {c} : pc'[d] = "deqCas" => h'[d] # head'
    BY <1>1, <2>2, <2>4, Zenon DEF Drained
  <2>6. pc'[c] = "deqCas" => h'[c] # head'
    <3>1. pc'[c] = "deqCas" => h'[c] < tail /\ h'[c] \in Nat
      BY <2>3, Zenon DEF TypeInv, Types, CoreTypes
    <3>2. h'[c] \in Nat /\ h'[c] < tail => h'[c] # head
      BY <1>0, <2>4
    <3> QED BY <2>4, <3>1, <3>2, Zenon
  <2> QED BY <2>4, <2>5, <2>6, Zenon DEF Drained
<1>13. ASSUME NEW d \in Cores, mine'[d] # 0
       PROVE  /\ d # c /\ pc'[d] = pc[d] /\ mine[d] # 0 /\ left'[d] = left[d] /\ t'[d] = t[d]
              /\ pc[d] \notin Quiet => m <= head'
              /\ pc[d] \in Counting \cup {"resetPending"} => done' + m <= head'
  <2>1. d # c /\ pc'[d] = pc[d] /\ mine[d] # 0 /\ left'[d] = left[d] /\ t'[d] = t[d]
    BY <1>1, <1>13, Zenon
  <2>2. pc[d] \notin Quiet => n <= head
    BY <2>1, Zenon DEF RingInv, n
  <2>3. pc[d] \in Counting \cup {"resetPending"} => done + n <= head
    BY <2>1, Zenon DEF RingInv, n
  <2>4. CASE Keeps
    BY <1>8, <2>1, <2>2, <2>3, <2>4, Zenon
  <2>5. CASE Ends
    <3>1. m = n - 1 /\ head' = head /\ done' \in {done, done + 1}
      BY <1>8, <2>5, Zenon
    <3>2. n <= head => m <= head'
      BY <1>0, <1>9, <3>1, ArrivalEnds, Zenon
    <3>3. done + n <= head => done' + m <= head'
      BY <1>0, <1>9, <3>1, ArrivalEnds, Zenon
    <3> QED BY <2>1, <2>2, <2>3, <3>2, <3>3, Zenon
  <2>6. CASE Takes
    <3>1. m = n + 1 /\ head' = head + 1 /\ done' = done
      BY <1>8, <2>6, Zenon
    <3>2. n <= head => m <= head'
      BY <1>0, <1>9, <3>1, ClaimBegins, Zenon
    <3>3. done + n <= head => done' + m <= head'
      BY <1>0, <1>9, <3>1, ClaimBegins, Zenon
    <3> QED BY <2>1, <2>2, <2>3, <3>2, <3>3, Zenon
  <2> QED BY <1>4, <2>4, <2>5, <2>6, Zenon
<1>14. ASSUME NEW d \in Cores, mine'[d] # 0
       PROVE  /\ pc'[d] \in {"resetEpoch", "resetDone", "resetPending", "enq"} => tail' + left'[d] <= N
              /\ pc'[d] \in Enqueueing => t'[d] = tail' /\ tail' + 1 + left'[d] <= N
              /\ pc'[d] \notin Quiet => m <= head'
              /\ pc'[d] \in Counting \cup {"resetPending"} => done' + m <= head'
              /\ pc'[d] \in Counting => pending' = N
  BY <1>13, <1>14, Zenon DEF RingInv
<1> QED BY <1>10, <1>11, <1>12, <1>14, Zenon DEF RingInv, m

\* The actions of a core that does not dispatch.
LEMMA IdleActs ==
  ASSUME TypeBusy, NEW c \in Cores, Act(c), mine[c] = 0
  PROVE  \/ \E k \in Kinds : DispatchStart(c, k)
         \/ Enqueue(c) \/ WorkerStep(c) \/ TryDequeue(c) \/ JobDone(c) \/ (c = BSP /\ SubmitCommon)
<1>1. pc[c] \notin DispatchLabels
  BY Zenon DEF TypeBusy, BusyInv, Consistent
<1>2. ~DispatchStep(c)
  BY <1>1, Zenon DEF DispatchStep, ZeroClaimed, PublishCtx, ResetQueue, EnqueueBarrier, OwnShare,
              BarrierOpens, BarrierTimeout, UnpublishCtx, EndCtx, Release, ClearHead, ClearTail,
              ResetEpoch, ResetDone, ResetPending, DispatchLabels
<1> QED BY <1>2, Zenon DEF Act

\* The actions of the dispatcher.
LEMMA DispatcherActs ==
  ASSUME TypeBusy, NEW c \in Cores, Act(c), mine[c] # 0
  PROVE  DispatchStep(c) \/ Enqueue(c) \/ WorkerLoadCtx(c) \/ WorkerClaim(c) \/ WorkerWrite(c)
<1>1. pc[c] \in DispatchLabels \cup SharedLabels
  BY Zenon DEF TypeBusy, BusyInv, Consistent
<1>2. pc[c] \notin {"idle", "deqTail", "deqCas", "deqRead", "run", "credit", "creditAdd"}
  BY <1>1, Zenon DEF DispatchLabels, SharedLabels
<1> QED BY <1>2, Zenon DEF Act, DispatchStart, WorkerStep, RunCommon, SubmitCommon, TryDequeue, DeqLoadHead,
              DeqLoadTail, DeqCas, DeqRead, JobDone, JobDoneCheck, JobDoneAdd

\* While no mesh tick writes to the ring, a core that does not dispatch does not
\* move TAIL, and HEAD only by claiming the job that is next.
LEMMA RingIdle ==
  ASSUME TypeBusy, TypeInv', FlightCounted, RingInv, Sole, Sole', NEW c \in Cores, FlightMoves(c),
         Act(c), mine[c] = 0, mine'[c] = 0
  PROVE  RingInv'
<1> DEFINE Keeps == /\ UNCHANGED <<head, done>> /\ (c \in InFlight' <=> c \in InFlight)
                    /\ pc'[c] = "deqCas" => h'[c] < tail
           Ends  == /\ UNCHANGED head /\ done' \in {done, done + 1}
                    /\ c \in InFlight /\ pc'[c] = "idle"
           Takes == /\ pc[c] = "deqCas" /\ head = h[c] /\ head' = head + 1 /\ UNCHANGED done
                    /\ pc'[c] = "deqRead"
<1> SUFFICES UNCHANGED <<pending, tail>> /\ (Keeps \/ Ends \/ Takes)
  BY RingOther, Zenon
<1> USE DEF mmVars, Goto, Return, queueVars, barrierVars
<1>0. CoreTypes /\ Local(c) /\ c \in Cores
  BY Zenon DEF TypeBusy, TypeInv, Types
<1>1. CASE \E k \in Kinds : DispatchStart(c, k)
  <2>1. PICK n \in Products : mine' = [mine EXCEPT ![c] = n]
    BY <1>1, Zenon DEF DispatchStart
  <2>2. mine'[c] = n
    BY <1>0, <2>1, Zenon DEF CoreTypes
  <2>3. n # 0
    BY Bounds DEF Products
  <2> QED BY <2>2, <2>3, Zenon
<1>2. CASE Enqueue(c)
  <2>1. pc[c] \in Enqueueing
    BY <1>2, Zenon DEF Enqueue, EnqAccept, EnqWrite, EnqRefuse, EnqPublish, Enqueueing
  <2>2. c = BSP /\ job[c].f = "common" /\ job[c] \in Jobs
    BY <1>0, <2>1, Zenon DEF Local, CoreTypes
  <2>3. pc[c] = "enqHead"
    BY <2>1, <2>2, Zenon DEF Sole, Enqueueing
  <2>4. ~EnqAccept(c)
    <3> SUFFICES ASSUME EnqAccept(c) PROVE FALSE
      BY Zenon
    <3>1. pc'[c] = "enqWrite" /\ job'[c].f = "common"
      BY <1>0, <2>2, Zenon DEF EnqAccept, CoreTypes, Jobs
    <3> QED BY <2>2, <3>1, Zenon DEF Sole
  <2>5. EnqRefuse(c, Resume(c))
    BY <1>2, <2>3, <2>4, Zenon DEF Enqueue, EnqWrite, EnqPublish
  <2>6. pc'[c] = "idle"
    BY <1>0, <2>5, Zenon DEF EnqRefuse, Resume, CoreTypes
  <2> QED BY <2>3, <2>5, <2>6, Zenon DEF EnqRefuse, InFlight, Taken
<1>3. CASE WorkerStep(c)
  <2>1. pc[c] \in {"run", "wClaim", "wWrite"}
    <3>1. pc[c] # "own"
      BY Zenon DEF TypeBusy, BusyInv, Consistent, DispatchLabels
    <3> QED BY <1>3, <3>1, Zenon DEF WorkerStep, WorkerLoadCtx, WorkerClaim, WorkerWrite, RunCommon
  <2>2. pc'[c] \in {"wClaim", "wWrite", "credit"}
    BY <1>0, <1>3, Zenon DEF WorkerStep, WorkerLoadCtx, WorkerClaim, WorkerWrite, RunCommon, CoreTypes,
                      WorkerReturn
  <2>3. UNCHANGED <<head, tail, done, pending>>
    BY <1>3, Zenon DEF WorkerStep, WorkerLoadCtx, WorkerClaim, WorkerWrite, RunCommon
  <2> QED BY <2>1, <2>2, <2>3, Zenon DEF InFlight, Taken
<1>4. CASE TryDequeue(c)
  <2>1. UNCHANGED <<tail, pending, done>>
    BY <1>4, Zenon DEF TryDequeue, DeqLoadHead, DeqLoadTail, DeqCas, DeqRead
  <2>2. CASE DeqLoadHead(c) \/ DeqLoadTail(c)
    <3>1. pc[c] \in {"idle", "deqTail"} /\ pc'[c] \in {"idle", "deqTail", "deqCas"} /\ UNCHANGED head
      BY <1>0, <2>2, Zenon DEF DeqLoadHead, DeqLoadTail, CoreTypes
    <3>2. pc'[c] = "deqCas" => h'[c] < tail
      BY <1>0, <2>2, Zenon DEF DeqLoadHead, DeqLoadTail, CoreTypes
    <3> QED BY <2>1, <3>1, <3>2, Zenon DEF InFlight, Taken
  <2>3. CASE DeqCas(c)
    <3>1. Takes \/ (UNCHANGED head /\ pc[c] = "deqCas" /\ pc'[c] = "idle")
      BY <1>0, <2>1, <2>3, Zenon DEF DeqCas, CoreTypes
    <3> QED BY <2>1, <3>1, Zenon DEF InFlight, Taken
  <2>4. CASE DeqRead(c)
    <3>1. pc[c] = "deqRead" /\ pc'[c] = "run" /\ UNCHANGED head
      BY <1>0, <2>4, Zenon DEF DeqRead, CoreTypes
    <3> QED BY <2>1, <3>1, Zenon DEF InFlight, Taken
  <2> QED BY <1>4, <2>2, <2>3, <2>4, Zenon DEF TryDequeue
<1>5. CASE JobDone(c)
  <2>1. /\ pc[c] \in {"credit", "creditAdd"} /\ pc'[c] \in {"creditAdd", "idle"}
        /\ UNCHANGED <<head, tail, pending>>
    BY <1>0, <1>5, Zenon DEF JobDone, JobDoneCheck, JobDoneAdd, CoreTypes
  <2>2. done' = done \/ (done' = done + 1 /\ pc'[c] = "idle")
    BY <1>0, <1>5, Zenon DEF JobDone, JobDoneCheck, JobDoneAdd, CoreTypes
  <2>3. c \in InFlight /\ (pc'[c] = "creditAdd" => c \in InFlight')
    BY <2>1 DEF InFlight, Taken
  <2> QED BY <2>1, <2>2, <2>3, Zenon
<1>6. CASE c = BSP /\ SubmitCommon
  <2>1. pc[c] = "idle" /\ pc'[c] = "enqHead"
    BY <1>0, <1>6, Zenon DEF SubmitCommon, EnqLoadTail, CoreTypes
  <2> QED BY <1>6, <2>1, Zenon DEF SubmitCommon, EnqLoadTail, InFlight, Taken
<1> QED BY <1>1, <1>2, <1>3, <1>4, <1>5, <1>6, IdleActs, Zenon

\* A step of the dispatcher leaves the jobs in flight and the claims of others
\* alone.
LEMMA DispatcherFrame ==
  ASSUME TypeBusy, NEW c \in Cores, Act(c), mine[c] # 0, mine'[c] = mine[c]
  PROVE  /\ InFlight' = InFlight
         /\ \A d \in Cores \ {c} : mine[d] = 0 /\ mine'[d] = 0
         /\ \A d \in Cores : pc'[d] = "deqCas" => d # c /\ pc[d] = "deqCas" /\ h'[d] = h[d]
<1>1. \A d \in Cores \ {c} : /\ pc'[d] = pc[d] /\ h'[d] = h[d] /\ mine'[d] = mine[d]
  BY OthersKept, Zenon
<1>2. \A d \in Cores \ {c} : mine[d] = 0
  BY Zenon DEF TypeBusy, BusyInv, DispatchExclusive
<1>3. pc'[c] # "deqCas"
  <2>1. DispatchStep(c) \/ Enqueue(c) \/ WorkerLoadCtx(c) \/ WorkerClaim(c) \/ WorkerWrite(c)
    BY DispatcherActs, Zenon
  <2> QED
    BY <2>1, Zenon DEF TypeBusy, TypeInv, Types, CoreTypes, DispatchStep, ZeroClaimed, PublishCtx, ResetQueue,
           EnqueueBarrier, OwnShare, BarrierOpens, BarrierTimeout, UnpublishCtx, EndCtx, Release,
           ClearHead, ClearTail, ResetEpoch, ResetDone, ResetPending, EnqLoadTail, Enqueue, EnqAccept,
           EnqWrite, EnqRefuse, EnqPublish, Resume, WorkerLoadCtx, WorkerClaim, WorkerWrite,
           WorkerReturn, Goto, Return
<1> QED BY <1>1, <1>2, <1>3, Zenon DEF InFlight

\* What is left to show of a step of the dispatcher.
LEMMA RingMine ==
  ASSUME TypeBusy, RingInv, NEW c \in Cores, Act(c), mine[c] # 0, mine'[c] = mine[c],
         head' <= N, tail' <= N, pc'[c] \in Quiet => Drained',
         pc'[c] \in {"resetEpoch", "resetDone", "resetPending", "enq"} => tail' + left'[c] <= N,
         pc'[c] \in Enqueueing => t'[c] = tail' /\ tail' + 1 + left'[c] <= N,
         pc'[c] \notin Quiet => Cardinality(InFlight) <= head',
         pc'[c] \in Counting \cup {"resetPending"} => done' + Cardinality(InFlight) <= head',
         pc'[c] \in Counting => pending' = N
  PROVE  RingInv'
<1>1. /\ InFlight' = InFlight
      /\ \A d \in Cores \ {c} : mine[d] = 0 /\ mine'[d] = 0
      /\ \A d \in Cores : pc'[d] = "deqCas" => d # c /\ pc[d] = "deqCas" /\ h'[d] = h[d]
  BY DispatcherFrame, Zenon
<1>2. \A d \in Cores : pc'[d] = "deqCas" => h'[d] < N
  BY <1>1, Zenon DEF RingInv
<1>3. \A d \in Cores : mine'[d] # 0 => d = c
  BY <1>1, Zenon
<1>4. (\A d \in Cores : mine'[d] # 0 => pc'[d] \in Quiet) => Drained'
  BY Zenon
<1> QED BY <1>1, <1>2, <1>3, <1>4 DEF RingInv

\* Past the barrier nothing changes in the ring.
LEMMA DrainedKept ==
  ASSUME TypeBusy, NEW c \in Cores, Act(c), mine[c] # 0, mine'[c] = mine[c], Drained,
         UNCHANGED <<head, tail>>
  PROVE  Drained'
  BY DispatcherFrame, Zenon DEF Drained

\* The numbers of the ring, and what the dispatcher knows of them.
LEMMA RingNumbers ==
  ASSUME TypeBusy, FlightCounted, RingInv, NEW c \in Cores, mine[c] # 0
  PROVE  /\ head \in Nat /\ tail \in Nat /\ done \in Nat /\ pending \in Nat /\ N \in Nat
         /\ left[c] \in Nat /\ left[c] <= N /\ Cardinality(InFlight) \in Nat
         /\ head <= N /\ tail <= N
         /\ pc[c] \in Quiet => Drained
<1>1. left[c] \in 0..N
  BY Zenon DEF TypeBusy, TypeInv, Types, CoreTypes
<1>2. pc[c] \in Quiet => Drained
  BY Zenon DEF TypeBusy, BusyInv, DispatchExclusive, RingInv
<1>3. head \in Nat /\ tail \in Nat /\ done \in Nat /\ pending \in Nat
  BY Zenon DEF TypeBusy, TypeInv, Types, RingTypes
<1>4. head <= N /\ tail <= N /\ Cardinality(InFlight) \in Nat /\ N \in Nat
  BY Bounds, Zenon DEF RingInv, FlightCounted
<1>5. left[c] \in Nat /\ left[c] <= N
  BY <1>1, <1>4
<1> QED BY <1>2, <1>3, <1>4, <1>5, Zenon

\* The barrier opens only when no job is in flight and none can be claimed: DONE
\* has reached the number of APs, and every claimed job counts in HEAD.
LEMMA OpensDrained ==
  ASSUME TypeBusy, FlightCounted, RingInv, NEW c \in Cores, mine[c] # 0, pc[c] = "wait", done >= pending
  PROVE  Drained
<1>1. /\ head \in Nat /\ tail \in Nat /\ done \in Nat /\ pending \in Nat /\ N \in Nat
      /\ Cardinality(InFlight) \in Nat /\ head <= N /\ tail <= N
  BY RingNumbers, Zenon
<1>2. pending = N /\ done + Cardinality(InFlight) <= head
  BY Zenon DEF RingInv, Counting
<1>3. head = N /\ Cardinality(InFlight) = 0
  BY <1>1, <1>2
<1>4. InFlight = {}
  BY <1>3, Zenon DEF FlightCounted
<1>5. \A d \in Cores : pc[d] = "deqCas" => h[d] # head
  <2> SUFFICES ASSUME NEW d \in Cores, pc[d] = "deqCas" PROVE h[d] # head
    BY Zenon
  <2>1. h[d] < N /\ h[d] \in Nat
    BY Zenon DEF RingInv, TypeBusy, TypeInv, Types, CoreTypes
  <2> QED BY <1>1, <1>3, <2>1
<1> QED BY <1>1, <1>3, <1>4, <1>5, Zenon DEF Drained

\* When nobody will come, nobody works.
LEMMA NobodyDrained ==
  ASSUME TypeBusy, NEW c \in Cores, mine[c] # 0, NobodyWillCome(c)
  PROVE  Drained
<1>1. \A d \in Cores : mine[d] = 0 /\ pc[d] \notin Enqueueing \cup {"idle"} => d \in APs \ {c}
  BY Zenon DEF TypeBusy, TypeInv, Local
<1>2. InFlight = {}
  BY <1>1, Zenon DEF InFlight, Taken, Enqueueing, NobodyWillCome
<1>3. \A d \in Cores : pc[d] # "deqCas"
  <2>1. \A d \in Cores : pc[d] = "deqCas" => mine[d] = 0
    BY DEF TypeBusy, BusyInv, Consistent, DispatchLabels, SharedLabels
  <2> QED BY <1>1, <2>1, Zenon DEF Enqueueing, NobodyWillCome
<1> QED BY <1>2, <1>3, Zenon DEF NobodyWillCome, Drained

\* clear_queue and reset_barrier leave the ring empty and the count at zero, and
\* the enqueue_barrier calls fill it with at most one job per AP.
LEMMA RingReset ==
  ASSUME TypeBusy, FlightCounted, RingInv, NEW c \in Cores, Act(c), mine[c] # 0, ResetQueue(c) \/ EnqueueBarrier(c)
  PROVE  RingInv'
<1> USE DEF mmVars, Goto, queueVars, barrierVars
<1> DEFINE n == Cardinality(InFlight)
<1>0. /\ head \in Nat /\ tail \in Nat /\ done \in Nat /\ N \in Nat /\ left[c] \in Nat /\ left[c] <= N
      /\ n \in Nat /\ head <= N /\ tail <= N /\ (pc[c] \in Quiet => Drained)
  BY RingNumbers, Zenon
<1>1. CoreTypes /\ mine'[c] = mine[c]
  BY Zenon DEF ResetQueue, EnqueueBarrier, TypeBusy, TypeInv, Types
<1>2. /\ pc[c] \in {"resetEpoch", "resetDone", "resetPending", "enq"} => tail + left[c] <= N
      /\ pc[c] \notin Quiet => n <= head
      /\ pc[c] \in Counting \cup {"resetPending"} => done + n <= head
      /\ pc[c] \in Counting => pending = N
  BY Zenon DEF RingInv
<1> HIDE DEF n
<1>3. CASE ClearHead(c) /\ UNCHANGED mmVars
  <2>1. pc'[c] = "clearTail" /\ head' = 0 /\ tail' = tail
    BY <1>1, <1>3, Zenon DEF ClearHead, CoreTypes
  <2>2. n = 0
    BY <1>0, <1>3, Zenon DEF FlightCounted, ClearHead, Quiet, Drained, n
  <2>3. /\ "clearTail" \notin Quiet /\ "clearTail" \notin Counting \cup {"resetPending"}
        /\ "clearTail" \notin Enqueueing /\ "clearTail" \notin Counting
        /\ "clearTail" \notin {"resetEpoch", "resetDone", "resetPending", "enq"}
    BY Zenon DEF Quiet, Counting, Enqueueing, SharedLabels
  <2>4. head' <= N /\ tail' <= N /\ Cardinality(InFlight) <= head'
    BY <1>0, <2>1, <2>2 DEF n
  <2> QED BY <1>1, <2>1, <2>3, <2>4, RingMine, Zenon
<1>4. CASE ClearTail(c) /\ UNCHANGED mmVars
  <2>1. pc'[c] = "resetEpoch" /\ head' = head /\ tail' = 0 /\ left'[c] = left[c]
    BY <1>1, <1>4, Zenon DEF ClearTail, CoreTypes
  <2>2. n <= head /\ 0 + left[c] <= N
    <3>1. pc[c] = "clearTail" /\ "clearTail" \notin Quiet
      BY <1>4, Zenon DEF ClearTail, Quiet
    <3>2. n <= head
      BY <1>2, <3>1, Zenon
    <3> QED BY <1>0, <3>2
  <2>3. head' <= N /\ tail' <= N /\ tail' + left'[c] <= N
    BY <1>0, <2>1, <2>2
  <2> QED BY <1>1, <2>1, <2>2, <2>3, RingMine, Zenon DEF n, Quiet, Counting, Enqueueing, SharedLabels
<1>5. CASE ResetEpoch(c) /\ UNCHANGED mmVars
  <2>1. pc[c] = "resetEpoch" /\ pc'[c] = "resetDone" /\ head' = head /\ tail' = tail /\ left'[c] = left[c]
    BY <1>1, <1>5, Zenon DEF ResetEpoch, CoreTypes
  <2>2. n <= head /\ tail + left[c] <= N
    BY <1>2, <2>1, Zenon DEF Quiet
  <2> QED BY <1>0, <1>1, <2>1, <2>2, RingMine, Zenon DEF n, Quiet, Counting, Enqueueing, SharedLabels
<1>6. CASE ResetDone(c) /\ UNCHANGED mmVars
  <2>1. /\ pc[c] = "resetDone" /\ pc'[c] = "resetPending" /\ head' = head /\ tail' = tail
        /\ left'[c] = left[c] /\ done' = 0
    BY <1>1, <1>6, Zenon DEF ResetDone, CoreTypes
  <2>2. n <= head /\ 0 + n <= head /\ tail + left[c] <= N
    <3>1. n <= head /\ tail + left[c] <= N
      BY <1>2, <2>1, Zenon DEF Quiet
    <3>2. 0 + n = n
      BY <1>0
    <3> QED BY <3>1, <3>2, Zenon
  <2> QED BY <1>0, <1>1, <2>1, <2>2, RingMine, Zenon DEF n, Quiet, Counting, Enqueueing, SharedLabels
<1>7. CASE ResetPending(c, N, "enq") /\ UNCHANGED mmVars
  <2>1. /\ pc[c] = "resetPending" /\ pc'[c] = "enq" /\ head' = head /\ tail' = tail
        /\ left'[c] = left[c] /\ done' = done /\ pending' = N
    BY <1>1, <1>7, Zenon DEF ResetPending, CoreTypes
  <2>2. n <= head /\ done + n <= head /\ tail + left[c] <= N
    BY <1>2, <2>1, Zenon DEF Quiet
  <2> QED BY <1>0, <1>1, <2>1, <2>2, RingMine DEF n, Quiet, Counting, Enqueueing, SharedLabels
<1>8. CASE EnqueueBarrier(c)
  <2>1. /\ pc[c] = "enq" /\ pc'[c] = "enqHead" /\ head' = head /\ tail' = tail /\ done' = done
        /\ pending' = pending /\ t'[c] = tail /\ left'[c] = left[c] - 1
    BY <1>1, <1>8, Zenon DEF EnqueueBarrier, EnqLoadTail, CoreTypes
  <2>2. n <= head /\ done + n <= head /\ tail + left[c] <= N /\ pending = N
    BY <1>2, <2>1, Zenon DEF Quiet, Counting
  <2>3. tail + 1 + left'[c] <= N
    BY <1>0, <2>1, <2>2, ShareMoves, Zenon
  <2> QED BY <1>0, <1>1, <2>1, <2>2, <2>3, RingMine, Zenon DEF n, Quiet, Counting, Enqueueing, SharedLabels
<1> QED BY <1>3, <1>4, <1>5, <1>6, <1>7, <1>8, Zenon DEF ResetQueue, N

\* The dispatcher's own enqueues and its share of the work.
LEMMA RingEnqueue ==
  ASSUME TypeBusy, FlightCounted, RingInv, NEW c \in Cores, Act(c), mine[c] # 0,
         Enqueue(c) \/ OwnShare(c) \/ WorkerLoadCtx(c) \/ WorkerClaim(c) \/ WorkerWrite(c)
  PROVE  RingInv'
<1> USE DEF mmVars, Goto, Return, queueVars, barrierVars
<1> DEFINE n == Cardinality(InFlight)
<1>0. /\ head \in Nat /\ tail \in Nat /\ done \in Nat /\ N \in Nat /\ left[c] \in Nat
      /\ n \in Nat /\ head <= N /\ tail <= N
  BY RingNumbers, Zenon
<1>1. CoreTypes /\ mine'[c] = mine[c] /\ left'[c] = left[c] /\ Resume(c) = "enq"
      /\ WorkerReturn(c) = "wait"
  BY Zenon DEF Enqueue, OwnShare, WorkerLoadCtx, WorkerClaim, WorkerWrite, TypeBusy, TypeInv, Types, Resume,
         WorkerReturn
<1>2. pc[c] \in Counting /\ pc[c] \notin Quiet
  <2>1. pc[c] \in DispatchLabels \cup SharedLabels
    BY Zenon DEF TypeBusy, BusyInv, Consistent
  <2> QED BY <2>1, Zenon DEF Enqueue, EnqAccept, EnqWrite, EnqRefuse, EnqPublish, OwnShare, WorkerLoadCtx,
                      WorkerClaim, WorkerWrite, Counting, SharedLabels, DispatchLabels, Quiet
<1>3. /\ pc[c] \in Enqueueing => t[c] = tail /\ tail + 1 + left[c] <= N
      /\ n <= head /\ done + n <= head /\ pending = N
  BY <1>2, Zenon DEF RingInv
<1> HIDE DEF n
<1>4. UNCHANGED <<head, done, pending>>
  BY Zenon DEF Enqueue, EnqAccept, EnqWrite, EnqRefuse, EnqPublish, OwnShare, WorkerLoadCtx, WorkerClaim,
         WorkerWrite
<1>5. CASE OwnShare(c) \/ WorkerLoadCtx(c) \/ WorkerClaim(c) \/ WorkerWrite(c)
  <2>1. pc'[c] \in {"own", "wait", "wClaim", "wWrite"} /\ tail' = tail
    BY <1>1, <1>5, Zenon DEF OwnShare, WorkerLoadCtx, WorkerClaim, WorkerWrite, CoreTypes
  <2>2. pc'[c] \in Counting /\ pc'[c] \notin Quiet \cup Enqueueing
        /\ pc'[c] \notin {"resetEpoch", "resetDone", "resetPending", "enq"}
    BY <2>1, Zenon DEF Counting, SharedLabels, Quiet, Enqueueing
  <2> QED BY <1>0, <1>1, <1>3, <1>4, <2>1, <2>2, RingMine, Zenon DEF n
<1>6. CASE Enqueue(c)
  <2>1. pc[c] \in Enqueueing
    BY <1>6, Zenon DEF Enqueue, EnqAccept, EnqWrite, EnqRefuse, EnqPublish, Enqueueing
  <2>2. CASE EnqAccept(c) \/ EnqWrite(c)
    <3>1. pc'[c] \in {"enqWrite", "enqPublish"} /\ tail' = tail /\ t'[c] = t[c]
      BY <1>1, <2>2, Zenon DEF EnqAccept, EnqWrite, CoreTypes
    <3>2. pc'[c] \in Counting /\ pc'[c] \in Enqueueing /\ pc'[c] \notin Quiet
          /\ pc'[c] \notin {"resetEpoch", "resetDone", "resetPending", "enq"}
      BY <3>1, Zenon DEF Counting, SharedLabels, Quiet, Enqueueing
    <3> QED BY <1>0, <1>1, <1>3, <1>4, <2>1, <3>1, <3>2, RingMine, Zenon DEF n
  <2>3. CASE EnqRefuse(c, Resume(c)) \/ EnqPublish(c, Resume(c))
    <3>1. pc'[c] = "enq" /\ tail' \in {tail, tail + 1}
      BY <1>1, <1>3, <2>1, <2>3, Zenon DEF EnqRefuse, EnqPublish, CoreTypes
    <3>2. tail' + left[c] <= N /\ tail' <= N
      <4>1. tail + 1 + left[c] <= N
        BY <1>3, <2>1, Zenon
      <4> QED BY <1>0, <3>1, <4>1
    <3>3. pc'[c] \in Counting /\ pc'[c] \notin Quiet \cup Enqueueing
      BY <3>1, Zenon DEF Counting, SharedLabels, Quiet, Enqueueing
    <3> QED BY <1>0, <1>1, <1>3, <1>4, <3>1, <3>2, <3>3, RingMine, Zenon DEF n
  <2> QED BY <1>6, <2>2, <2>3, Zenon DEF Enqueue
<1> QED BY <1>5, <1>6, Zenon

\* The barrier, and what follows it.
LEMMA RingBarrier ==
  ASSUME PatientAps, TypeBusy, FlightCounted, RingInv, NEW c \in Cores, Act(c), mine[c] # 0,
         \/ ZeroClaimed(c) \/ PublishCtx(c) \/ BarrierOpens(c) \/ BarrierTimeout(c)
         \/ UnpublishCtx(c) \/ EndCtx(c)
  PROVE  RingInv'
<1> USE DEF mmVars, Goto, queueVars, barrierVars
<1>1. CoreTypes /\ mine'[c] = mine[c] /\ UNCHANGED <<head, tail>>
  BY Zenon DEF ZeroClaimed, PublishCtx, BarrierOpens, BarrierTimeout, UnpublishCtx, EndCtx, TypeBusy,
         TypeInv, Types
<1>2. head <= N /\ tail <= N /\ (pc[c] \in Quiet => Drained)
  BY RingNumbers, Zenon
<1>3. Drained
  <2>1. CASE BarrierOpens(c)
    BY <2>1, OpensDrained, Zenon DEF BarrierOpens
  <2>2. CASE BarrierTimeout(c)
    BY <2>2, NobodyDrained, Zenon DEF BarrierTimeout
  <2>3. CASE ZeroClaimed(c) \/ PublishCtx(c) \/ UnpublishCtx(c) \/ EndCtx(c)
    BY <1>2, <2>3, Zenon DEF ZeroClaimed, PublishCtx, UnpublishCtx, EndCtx, Quiet
  <2> QED BY <2>1, <2>2, <2>3
<1>4. Drained'
  BY <1>1, <1>3, DrainedKept, Zenon
<1>5. pc'[c] \in Quiet
  BY <1>1, Zenon DEF ZeroClaimed, PublishCtx, BarrierOpens, BarrierTimeout, UnpublishCtx, EndCtx, CoreTypes,
              Quiet
<1>6. /\ pc'[c] \notin Counting \cup {"resetPending"} /\ pc'[c] \notin Enqueueing
      /\ pc'[c] \notin {"resetEpoch", "resetDone", "resetPending", "enq"}
  BY <1>5, Zenon DEF Quiet, Counting, SharedLabels, Enqueueing
<1> QED BY <1>1, <1>2, <1>4, <1>5, <1>6, RingMine, Zenon

\* A dispatch begins and ends with the ring drained.
LEMMA RingEdge ==
  ASSUME TypeBusy, RingInv, NEW c \in Cores, Act(c),
         (\E k \in Kinds : DispatchStart(c, k)) \/ Release(c)
  PROVE  RingInv'
<1> USE DEF Goto, queueVars, barrierVars
<1>1. CoreTypes /\ UNCHANGED <<head, tail>>
  BY Zenon DEF DispatchStart, Release, TypeBusy, TypeInv, Types
<1>2. pc[c] \in {"idle", "release"} /\ pc'[c] \in {"zeroClaimed", "idle"}
  BY <1>1, Zenon DEF DispatchStart, Release, CoreTypes
<1>3. \A d \in Cores \ {c} : mine[d] = 0
  BY Zenon DEF DispatchStart, Release, TypeBusy, BusyInv, DispatchExclusive, Consistent, DispatchLabels
<1>4. mine[c] # 0 => pc[c] = "release"
  BY <1>2, Zenon DEF TypeBusy, BusyInv, Consistent, DispatchLabels, SharedLabels
<1>5. Drained
  BY <1>3, <1>4, Zenon DEF RingInv, Quiet
<1>6. \A d \in Cores \ {c} : pc'[d] = pc[d] /\ h'[d] = h[d] /\ mine'[d] = 0
  BY <1>3, OthersKept, Zenon
<1>7. InFlight' = InFlight
  BY <1>2, <1>3, <1>6, Zenon DEF InFlight, Taken
<1>8. \A d \in Cores : pc'[d] = "deqCas" => pc[d] = "deqCas" /\ h'[d] = h[d]
  BY <1>2, <1>6, Zenon
<1>9. Drained' /\ head' <= N /\ tail' <= N /\ (\A d \in Cores : pc'[d] = "deqCas" => h'[d] < N)
  BY <1>1, <1>5, <1>7, <1>8, Zenon DEF Drained, RingInv
<1>10. \A d \in Cores : mine'[d] # 0 => pc'[d] = "zeroClaimed"
  <2>1. mine'[c] # 0 => pc'[c] = "zeroClaimed"
    BY <1>1, Zenon DEF DispatchStart, Release, CoreTypes
  <2> QED BY <1>6, <2>1, Zenon
<1> QED BY <1>9, <1>10, Zenon DEF RingInv, Quiet, Enqueueing, Counting, SharedLabels

\* Every step keeps the ring, the count and the barrier in agreement.
LEMMA StepRing ==
  ASSUME PatientAps, TypeBusy, TypeInv', FlightCounted, RingInv, Sole, Sole', NEW c \in Cores,
         FlightMoves(c), Act(c)
  PROVE  RingInv'
<1>1. CASE (\E k \in Kinds : DispatchStart(c, k)) \/ Release(c)
  BY <1>1, RingEdge, Zenon
<1>2. CASE mine[c] = 0 /\ ~(\E k \in Kinds : DispatchStart(c, k))
  <2>1. Enqueue(c) \/ WorkerStep(c) \/ TryDequeue(c) \/ JobDone(c) \/ (c = BSP /\ SubmitCommon)
    BY <1>2, IdleActs, Zenon
  <2>2. mine' = mine
    BY <2>1, Zenon DEF Enqueue, WorkerStep, WorkerLoadCtx, WorkerClaim, WorkerWrite, RunCommon, TryDequeue,
                JobDone, SubmitCommon, mmVars
  <2> QED BY <1>2, <2>2, RingIdle, Zenon
<1>3. CASE mine[c] # 0 /\ ~Release(c)
  BY <1>3, DispatcherActs, RingReset, RingEnqueue, RingBarrier, Zenon DEF DispatchStep
<1> QED BY <1>1, <1>2, <1>3

\* At the start the ring is empty.
LEMMA InitRing == Init => RingInv
<1> SUFFICES ASSUME Init PROVE RingInv
  BY Zenon
<1>1. /\ head = 0 /\ tail = 0 /\ mine = [c \in Cores |-> 0] /\ pc = [c \in Cores |-> "idle"]
  BY Zenon DEF Init, ApInit
<1>2. Drained
  BY <1>1 DEF Drained, InFlight, Taken
<1> QED BY <1>1, <1>2, Bounds DEF RingInv

-----------------------------------------------------------------------------
(* The context and the tiles. *)

\* Outside the barrier nobody works on a product.
LEMMA NobodyWorks ==
  ASSUME TypeBusy, RingInv, \A d \in Cores : mine[d] # 0 => pc[d] \in Quiet
  PROVE  \A d \in Cores : pc[d] \notin Working
<1>1. InFlight = {}
  BY Zenon DEF RingInv, Drained
<1> QED BY <1>1, Zenon DEF InFlight, Taken, Working, Quiet

\* There is one dispatcher.
LEMMA OneDispatcher ==
  ASSUME TypeBusy, NEW c \in Cores, mine[c] # 0
  PROVE  \A d \in Cores : mine[d] # 0 => d = c
  BY DEF TypeBusy, BusyInv, DispatchExclusive

\* What MyKind and WorkerKind become.
LEMMA KindsKept ==
  ASSUME TypeBusy, NEW c \in Cores, Act(c), mine'[c] = mine[c], NEW d \in Cores
  PROVE  /\ mine'[d] = mine[d]
         /\ mine[d] # 0 => MyKind(d)' = MyKind(d)
         /\ d # c /\ pc[d] \in Working => WorkerKind(d)' = WorkerKind(d)
         /\ job'[c] = job[c] => WorkerKind(c)' = WorkerKind(c)
  BY OthersLocal, MineKept, OthersKept DEF TypeBusy

\* A step that neither publishes, removes, builds nor ends a context.
LEMMA CtxKept ==
  ASSUME TypeBusy, CtxInv, NEW c \in Cores, Act(c), UNCHANGED <<ctxPtr, ctx>>, mine'[c] = mine[c],
         mine[c] # 0 => (pc'[c] \in Unpublished <=> pc[c] \in Unpublished),
         mine[c] # 0 => pc[c] # "release",
         pc'[c] \in Working => \/ WorkerLoadCtx(c)
                               \/ pc[c] \in Working /\ cx'[c] = cx[c] /\ job'[c] = job[c]
  PROVE  CtxInv'
<1>1. \A d \in Cores : /\ mine'[d] = mine[d]
                       /\ mine[d] # 0 => MyKind(d)' = MyKind(d)
                       /\ d # c => pc'[d] = pc[d] /\ cx'[d] = cx[d]
                       /\ d # c /\ pc[d] \in Working => WorkerKind(d)' = WorkerKind(d)
  <2> SUFFICES ASSUME NEW d \in Cores
               PROVE  /\ mine'[d] = mine[d]
                      /\ mine[d] # 0 => MyKind(d)' = MyKind(d)
                      /\ d # c => pc'[d] = pc[d] /\ cx'[d] = cx[d]
                      /\ d # c /\ pc[d] \in Working => WorkerKind(d)' = WorkerKind(d)
    BY Zenon
  <2>1. d # c => pc'[d] = pc[d] /\ cx'[d] = cx[d]
    BY OthersKept, Zenon
  <2> QED BY <2>1, KindsKept, Zenon
<1>2. \A d \in Cores : mine[d] # 0 => (pc'[d] \in Unpublished <=> pc[d] \in Unpublished)
  BY <1>1, Zenon
<1>3. \A k \in Kinds : ctxPtr'[k] # 0 =>
         \E d \in Cores : mine'[d] = ctxPtr'[k] /\ MyKind(d)' = k /\ pc'[d] \notin Unpublished
  <2> SUFFICES ASSUME NEW k \in Kinds, ctxPtr[k] # 0
               PROVE  \E d \in Cores : mine'[d] = ctxPtr[k] /\ MyKind(d)' = k /\ pc'[d] \notin Unpublished
    BY Zenon
  <2>1. PICK d \in Cores : mine[d] = ctxPtr[k] /\ MyKind(d) = k /\ pc[d] \notin Unpublished
    BY Zenon DEF CtxInv
  <2>2. mine'[d] = ctxPtr[k] /\ MyKind(d)' = k /\ pc'[d] \notin Unpublished
    BY <1>1, <1>2, <2>1, Zenon
  <2> QED BY <2>2, Zenon
<1>4. \A d \in Cores : mine'[d] # 0 /\ pc'[d] \notin Unpublished => ctxPtr'[MyKind(d)'] = mine'[d]
  <2> SUFFICES ASSUME NEW d \in Cores, mine'[d] # 0, pc'[d] \notin Unpublished
               PROVE  ctxPtr'[MyKind(d)'] = mine'[d]
    BY Zenon
  <2>1. mine'[d] = mine[d] /\ mine[d] # 0 /\ MyKind(d)' = MyKind(d) /\ pc[d] \notin Unpublished
    BY <1>1, <1>2, Zenon
  <2>2. ctxPtr[MyKind(d)] = mine[d]
    BY <2>1, Zenon DEF CtxInv
  <2> QED BY <2>1, <2>2, Zenon
<1>5. \A d \in Cores : mine'[d] # 0 /\ pc'[d] # "release" => ctx'[mine'[d]].st = "live"
  <2> SUFFICES ASSUME NEW d \in Cores, mine'[d] # 0, pc'[d] # "release" PROVE ctx'[mine'[d]].st = "live"
    BY Zenon
  <2>1. mine'[d] = mine[d] /\ mine[d] # 0 /\ pc[d] # "release"
    BY <1>1, Zenon
  <2>2. ctx[mine[d]].st = "live"
    BY <2>1, Zenon DEF CtxInv
  <2> QED BY <2>1, <2>2, Zenon
<1>6. \A e \in Cores : pc'[e] \in Working =>
         \E d \in Cores : mine'[d] # 0 /\ cx'[e] = mine'[d] /\ WorkerKind(e)' = MyKind(d)'
  <2> SUFFICES ASSUME NEW e \in Cores, pc'[e] \in Working
               PROVE  \E d \in Cores : mine'[d] # 0 /\ cx'[e] = mine'[d] /\ WorkerKind(e)' = MyKind(d)'
    BY Zenon
  <2>1. CASE e # c
    <3>1. pc[e] \in Working /\ cx'[e] = cx[e] /\ WorkerKind(e)' = WorkerKind(e)
      BY <1>1, <2>1, Zenon
    <3>2. PICK d \in Cores : mine[d] # 0 /\ cx[e] = mine[d] /\ WorkerKind(e) = MyKind(d)
      BY <3>1, Zenon DEF CtxInv
    <3>3. mine'[d] = mine[d] /\ MyKind(d)' = MyKind(d)
      BY <1>1, <3>2, Zenon
    <3> QED BY <3>1, <3>2, <3>3, Zenon
  <2>2. CASE e = c /\ pc[c] \in Working /\ cx'[c] = cx[c] /\ job'[c] = job[c]
    <3>1. WorkerKind(c)' = WorkerKind(c)
      BY <2>2, KindsKept, Zenon
    <3>2. PICK d \in Cores : mine[d] # 0 /\ cx[c] = mine[d] /\ WorkerKind(c) = MyKind(d)
      BY <2>2, Zenon DEF CtxInv
    <3>3. mine'[d] = mine[d] /\ MyKind(d)' = MyKind(d)
      BY <1>1, <3>2, Zenon
    <3> QED BY <2>2, <3>1, <3>2, <3>3, Zenon
  <2>3. CASE e = c /\ WorkerLoadCtx(c)
    <3> DEFINE k == WorkerKind(c)
    <3>1. job' = job /\ cx'[c] = ctxPtr[k] /\ (ctxPtr[k] = 0 => pc'[c] = WorkerReturn(c))
      BY <2>3, Zenon DEF WorkerLoadCtx, Goto, TypeBusy, TypeInv, Types, CoreTypes
    <3>2. k \in Kinds
      BY <2>3, Zenon DEF WorkerLoadCtx, WorkerKind, TypeBusy, TypeInv, Local, BusyInv, Consistent, DispatchLabels
    <3>3. ctxPtr[k] # 0
      BY <2>3, <3>1, Zenon DEF WorkerReturn, Working
    <3>4. PICK d \in Cores : mine[d] = ctxPtr[k] /\ MyKind(d) = k
      BY <3>2, <3>3, Zenon DEF CtxInv
    <3>5. WorkerKind(c)' = k
      BY <3>1, KindsKept, Zenon
    <3> QED BY <1>1, <2>3, <3>1, <3>3, <3>4, <3>5
  <2> QED BY <2>1, <2>2, <2>3, Zenon
<1> QED BY <1>3, <1>4, <1>5, <1>6, Zenon DEF CtxInv

\* The dispatcher publishes its context, removes it, and ends it.
LEMMA CtxMine ==
  ASSUME TypeBusy, RingInv, CtxInv, NEW c \in Cores, Act(c),
         PublishCtx(c) \/ UnpublishCtx(c) \/ EndCtx(c)
  PROVE  CtxInv'
<1> USE DEF Goto
<1>0. CoreTypes /\ MatTypes /\ mine[c] # 0 /\ mine' = mine
  BY Zenon DEF PublishCtx, UnpublishCtx, EndCtx, TypeBusy, TypeInv, Types, BusyInv, Consistent, DispatchLabels
<1>1. \A d \in Cores : mine[d] # 0 => d = c
  BY <1>0, OneDispatcher, Zenon
<1>2. MyKind(c)' = MyKind(c) /\ MyKind(c) \in Kinds /\ mine[c] \in Products
  BY <1>0, KindsKept, MineProduct, Zenon DEF TypeBusy, TypeInv, Local
<1>3. \A d \in Cores : pc[d] \notin Working
  BY <1>1, NobodyWorks, Zenon DEF PublishCtx, UnpublishCtx, EndCtx, Quiet
<1>4. \A d \in Cores : pc'[d] \notin Working
  BY <1>0, <1>3, Zenon DEF PublishCtx, UnpublishCtx, EndCtx, CoreTypes, Working
<1>5. CASE PublishCtx(c)
  <2>1. pc[c] = "publishCtx" /\ pc'[c] = "clearHead" /\ ctx' = ctx
        /\ ctxPtr' = [ctxPtr EXCEPT ![MyKind(c)] = mine[c]]
    BY <1>0, <1>5, Zenon DEF PublishCtx, CoreTypes
  <2>2. \A k \in Kinds : ctxPtr[k] = 0
    BY <1>0, <1>1, <2>1 DEF CtxInv, Unpublished, MatTypes
  <2>3. ctxPtr'[MyKind(c)] = mine[c] /\ \A k \in Kinds : ctxPtr'[k] # 0 => k = MyKind(c)
    BY <1>0, <1>2, <2>1, <2>2, Zenon DEF MatTypes
  <2>4. pc'[c] \notin Unpublished /\ pc[c] # "release"
    BY <2>1, Zenon DEF Unpublished
  <2>5. \A k \in Kinds : ctxPtr'[k] # 0 =>
           \E d \in Cores : mine'[d] = ctxPtr'[k] /\ MyKind(d)' = k /\ pc'[d] \notin Unpublished
    BY <1>0, <1>2, <2>3, <2>4, Zenon
  <2>6. \A d \in Cores : mine'[d] # 0 /\ pc'[d] \notin Unpublished => ctxPtr'[MyKind(d)'] = mine'[d]
    BY <1>0, <1>1, <1>2, <2>3, Zenon
  <2>7. \A d \in Cores : mine'[d] # 0 /\ pc'[d] # "release" => ctx'[mine'[d]].st = "live"
    BY <1>0, <1>1, <2>1, <2>4, Zenon DEF CtxInv
  <2> QED BY <1>4, <2>5, <2>6, <2>7, Zenon DEF CtxInv
<1>6. CASE UnpublishCtx(c)
  <2>1. pc[c] \in {"nullOk", "nullTimeout"} /\ pc'[c] \in {"free", "leak"} /\ ctx' = ctx
        /\ ctxPtr' = [ctxPtr EXCEPT ![MyKind(c)] = 0]
    BY <1>0, <1>6 DEF UnpublishCtx, CoreTypes
  <2>2. \A k \in Kinds : ctxPtr[k] # 0 => k = MyKind(c)
    BY <1>0, <1>1, <2>1, Zenon DEF CtxInv, MatTypes
  <2>3. \A k \in Kinds : ctxPtr'[k] = 0
    BY <1>0, <2>1, <2>2, Zenon DEF MatTypes
  <2> QED BY <1>0, <1>1, <1>2, <1>4, <2>1, <2>3, Zenon DEF CtxInv, Unpublished
<1>7. CASE EndCtx(c)
  <2>1. pc[c] \in {"free", "leak"} /\ pc'[c] = "release" /\ ctxPtr' = ctxPtr
    BY <1>0, <1>7, Zenon DEF EndCtx, CoreTypes
  <2>2. \A k \in Kinds : ctxPtr[k] = 0
    BY <1>0, <1>1, <2>1 DEF CtxInv, Unpublished, MatTypes
  <2> QED BY <1>0, <1>1, <1>4, <2>1, <2>2, Zenon DEF CtxInv, Unpublished
<1> QED BY <1>5, <1>6, <1>7, Zenon

\* A dispatch begins and ends with no context published.
LEMMA CtxEdge ==
  ASSUME TypeBusy, RingInv, CtxInv, NEW c \in Cores, Act(c),
         (\E k \in Kinds : DispatchStart(c, k)) \/ Release(c)
  PROVE  CtxInv'
<1> USE DEF Goto
<1>0. CoreTypes /\ MatTypes /\ ctxPtr' = ctxPtr /\ (mine[c] # 0 => pc[c] = "release")
  BY Zenon DEF DispatchStart, Release, TypeBusy, TypeInv, Types, BusyInv, Consistent, DispatchLabels,
         SharedLabels
<1>1. \A d \in Cores \ {c} : mine[d] = 0 /\ mine'[d] = 0
  <2>1. \A d \in Cores \ {c} : mine[d] = 0
    BY Zenon DEF DispatchStart, Release, TypeBusy, BusyInv, DispatchExclusive, Consistent, DispatchLabels
  <2> QED BY <2>1, OthersKept
<1>2. \A k \in Kinds : ctxPtr[k] = 0
  BY <1>0, <1>1 DEF CtxInv, Unpublished, MatTypes
<1>3. \A d \in Cores : pc[d] \notin Working
  BY <1>0, <1>1, NobodyWorks, Zenon DEF Quiet
<1>4. \A d \in Cores : pc'[d] \notin Working
  BY <1>0, <1>3, Zenon DEF DispatchStart, Release, CoreTypes, Working
<1>5. CASE Release(c)
  <2>1. mine'[c] = 0
    BY <1>0, <1>5, Zenon DEF Release, CoreTypes
  <2> QED BY <1>0, <1>1, <1>2, <1>4, <2>1, Zenon DEF CtxInv
<1>6. CASE \E k \in Kinds : DispatchStart(c, k)
  <2>1. PICK k \in Kinds, n \in Products : /\ ctx' = [ctx EXCEPT ![n] = [st |-> "live", kind |-> k]]
                                           /\ mine' = [mine EXCEPT ![c] = n]
    BY <1>6, Zenon DEF DispatchStart
  <2>2. pc'[c] = "zeroClaimed" /\ mine'[c] = n /\ ctx'[n].st = "live"
    <3>1. pc' = [pc EXCEPT ![c] = "zeroClaimed"]
      BY <1>6, Zenon DEF DispatchStart
    <3>2. pc'[c] = "zeroClaimed" /\ mine'[c] = n
      BY <1>0, <2>1, <3>1, Zenon DEF CoreTypes
    <3>3. ctx'[n] = [st |-> "live", kind |-> k]
      BY <1>0, <2>1, Zenon DEF MatTypes
    <3>4. ctx'[n].st = "live"
      BY <3>3, LiveContext, Zenon
    <3> QED BY <3>2, <3>4, Zenon
  <2> QED BY <1>0, <1>1, <1>2, <1>4, <2>2, Zenon DEF CtxInv, Unpublished
<1> QED BY <1>5, <1>6

\* Every step keeps the pointer, the contexts and the workers in agreement.
LEMMA StepCtx ==
  ASSUME TypeBusy, RingInv, CtxInv, NEW c \in Cores, Act(c)
  PROVE  CtxInv'
<1> USE DEF mmVars, Goto, Return
<1>0. CoreTypes
  BY Zenon DEF TypeBusy, TypeInv, Types
<1>1. CASE PublishCtx(c) \/ UnpublishCtx(c) \/ EndCtx(c)
  BY <1>1, CtxMine, Zenon
<1>2. CASE (\E k \in Kinds : DispatchStart(c, k)) \/ Release(c)
  BY <1>2, CtxEdge, Zenon
<1>3. CASE ZeroClaimed(c) \/ ResetQueue(c) \/ EnqueueBarrier(c) \/ OwnShare(c) \/ BarrierOpens(c)
           \/ BarrierTimeout(c)
  <2>1. /\ pc[c] \in {"zeroClaimed", "clearHead", "clearTail", "resetEpoch", "resetDone", "resetPending",
                      "enq", "wait"}
        /\ UNCHANGED <<ctxPtr, ctx, mine>>
    BY <1>3, Zenon DEF ZeroClaimed, ResetQueue, ClearHead, ClearTail, ResetEpoch, ResetDone, ResetPending,
                EnqueueBarrier, OwnShare, BarrierOpens, BarrierTimeout
  <2>2. /\ pc'[c] \in {"publishCtx", "clearTail", "resetEpoch", "resetDone", "resetPending", "enq",
                       "enqHead", "own", "nullOk", "nullTimeout"}
        /\ pc'[c] = "publishCtx" <=> pc[c] = "zeroClaimed"
    BY <1>0, <1>3, Zenon DEF ZeroClaimed, ResetQueue, ClearHead, ClearTail, ResetEpoch, ResetDone, ResetPending,
                EnqueueBarrier, EnqLoadTail, OwnShare, BarrierOpens, BarrierTimeout, CoreTypes
  <2>3. pc'[c] \in Unpublished <=> pc[c] \in Unpublished
    BY <2>1, <2>2, Zenon DEF Unpublished
  <2> QED BY <2>1, <2>2, <2>3, CtxKept, Zenon DEF Working
<1>4. CASE Enqueue(c) \/ TryDequeue(c) \/ JobDone(c) \/ RunCommon(c) \/ (c = BSP /\ SubmitCommon)
  <2>1. /\ pc[c] \in Enqueueing \cup {"idle", "deqTail", "deqCas", "deqRead", "run", "credit", "creditAdd"}
        /\ UNCHANGED <<ctxPtr, ctx, mine>>
    BY <1>4, Zenon DEF Enqueue, EnqAccept, EnqWrite, EnqRefuse, EnqPublish, TryDequeue, DeqLoadHead, DeqLoadTail,
                DeqCas, DeqRead, JobDone, JobDoneCheck, JobDoneAdd, RunCommon, SubmitCommon, EnqLoadTail,
                Enqueueing
  <2>2. pc'[c] \in Enqueueing \cup {"enq", "idle", "deqTail", "deqCas", "deqRead", "run", "credit", "creditAdd"}
    BY <1>0, <1>4, Zenon DEF Enqueue, EnqAccept, EnqWrite, EnqRefuse, EnqPublish, TryDequeue, DeqLoadHead,
                DeqLoadTail, DeqCas, DeqRead, JobDone, JobDoneCheck, JobDoneAdd, RunCommon, SubmitCommon,
                EnqLoadTail, Enqueueing, Resume, CoreTypes
  <2> QED BY <2>1, <2>2, CtxKept, Zenon DEF Working, Unpublished, Enqueueing
<1>5. CASE WorkerLoadCtx(c) \/ WorkerClaim(c) \/ WorkerWrite(c)
  <2>1. pc[c] \in {"own", "run", "wClaim", "wWrite"} /\ UNCHANGED <<ctxPtr, ctx, mine, job>>
    BY <1>5, Zenon DEF WorkerLoadCtx, WorkerClaim, WorkerWrite
  <2>2. pc'[c] \in {"wClaim", "wWrite", "wait", "credit"}
    BY <1>0, <1>5, Zenon DEF WorkerLoadCtx, WorkerClaim, WorkerWrite, WorkerReturn, CoreTypes
  <2>3. pc'[c] \in Working => WorkerLoadCtx(c) \/ (pc[c] \in Working /\ cx'[c] = cx[c])
    BY <1>0, <1>5, Zenon DEF WorkerClaim, WorkerWrite, WorkerReturn, CoreTypes, Working
  <2> QED BY <2>1, <2>2, <2>3, CtxKept, Zenon DEF Unpublished
<1> QED BY <1>1, <1>2, <1>3, <1>4, <1>5, Zenon DEF Act, DispatchStep, WorkerStep

\* At the start nothing is published.
LEMMA InitCtx == Init => CtxInv
  BY DEF Init, ApInit, CtxInv, Working

\* A step that touches no tile.
LEMMA TileKept ==
  ASSUME TypeBusy, TileInv, NEW c \in Cores, Act(c), UNCHANGED <<ctx, claimed, written>>,
         mine'[c] = mine[c], pc[c] # "wWrite",
         mine[c] # 0 => pc[c] \notin {"zeroClaimed", "release"},
         mine[c] # 0 /\ pc'[c] \in {"wait", "nullOk", "free"} => claimed[MyKind(c)] >= Tiles
  PROVE  TileInv'
<1>1. \A d \in Cores : /\ mine'[d] = mine[d]
                       /\ mine[d] # 0 => MyKind(d)' = MyKind(d)
                       /\ d # c => pc'[d] = pc[d] /\ cx'[d] = cx[d] /\ tile'[d] = tile[d]
  <2> SUFFICES ASSUME NEW d \in Cores
               PROVE  /\ mine'[d] = mine[d]
                      /\ mine[d] # 0 => MyKind(d)' = MyKind(d)
                      /\ d # c => pc'[d] = pc[d] /\ cx'[d] = cx[d] /\ tile'[d] = tile[d]
    BY Zenon
  <2>1. d # c => pc'[d] = pc[d] /\ cx'[d] = cx[d] /\ tile'[d] = tile[d]
    BY OthersKept, Zenon
  <2> QED BY <2>1, KindsKept, Zenon
<1>2. \A d \in Cores : mine'[d] # 0 /\ pc'[d] \notin {"zeroClaimed", "release"} =>
         /\ mine[d] # 0 /\ pc[d] \notin {"zeroClaimed", "release"}
         /\ MyKind(d)' = MyKind(d)
  BY <1>1, Zenon
<1>3. \A d \in Cores, i \in 0..(Tiles - 1) :
         (\E e \in Cores : pc[e] = "wWrite" /\ cx[e] = mine[d] /\ tile[e] = i)
         => \E e \in Cores : pc'[e] = "wWrite" /\ cx'[e] = mine'[d] /\ tile'[e] = i
  BY <1>1
<1>4. ASSUME NEW d \in Cores, mine'[d] # 0, pc'[d] \notin {"zeroClaimed", "release"},
             NEW i \in 0..(Tiles - 1), i < claimed'[MyKind(d)']
      PROVE  \/ i \in written'[mine'[d]]
             \/ \E e \in Cores : pc'[e] = "wWrite" /\ cx'[e] = mine'[d] /\ tile'[e] = i
  <2>1. /\ mine'[d] = mine[d] /\ mine[d] # 0 /\ pc[d] \notin {"zeroClaimed", "release"}
        /\ i < claimed[MyKind(d)]
    BY <1>1, <1>2, <1>4, Zenon
  <2>2. \/ i \in written[mine[d]]
        \/ \E e \in Cores : pc[e] = "wWrite" /\ cx[e] = mine[d] /\ tile[e] = i
    BY <2>1, Zenon DEF TileInv
  <2> QED BY <1>3, <2>1, <2>2, Zenon
<1>5. \A d \in Cores : mine'[d] # 0 /\ pc'[d] \in {"wait", "nullOk", "free"} =>
        claimed'[MyKind(d)'] >= Tiles
  <2> SUFFICES ASSUME NEW d \in Cores, mine'[d] # 0, pc'[d] \in {"wait", "nullOk", "free"}
               PROVE  claimed'[MyKind(d)'] >= Tiles
    BY Zenon
  <2>1. mine[d] # 0 /\ MyKind(d)' = MyKind(d)
    BY <1>1, Zenon
  <2>2. CASE d = c
    BY <2>1, <2>2, Zenon
  <2>3. CASE d # c
    <3>1. pc[d] \in {"wait", "nullOk", "free"}
      BY <1>1, <2>3, Zenon
    <3>2. claimed[MyKind(d)] >= Tiles
      BY <2>1, <3>1, Zenon DEF TileInv
    <3> QED BY <2>1, <3>2, Zenon
  <2> QED BY <2>2, <2>3
<1> QED BY <1>4, <1>5, Zenon DEF TileInv

\* A worker takes the next tile: nobody else has it, and the counter passes it.
LEMMA TileClaim ==
  ASSUME TypeBusy, CtxInv, TileInv, NEW c \in Cores, Act(c), WorkerClaim(c)
  PROVE  TileInv'
<1> DEFINE k == WorkerKind(c)
<1>0. CoreTypes /\ MatTypes /\ Tiles \in Nat /\ pc[c] = "wClaim"
  BY Bounds, Zenon DEF TypeBusy, TypeInv, Types, WorkerClaim
<1>1. PICK x \in Cores : mine[x] # 0 /\ cx[c] = mine[x] /\ k = MyKind(x)
  BY <1>0, Zenon DEF CtxInv, Working
<1>2. k \in Kinds /\ claimed[k] \in Nat
  BY <1>0, <1>1, Zenon DEF TypeBusy, TypeInv, Local, MatTypes
<1>3. \A d \in Cores : mine[d] # 0 => d = x
  BY <1>1, OneDispatcher, Zenon
<1>4. UNCHANGED <<mine, ctx, written>> /\ claimed' = [claimed EXCEPT ![k] = @ + 1]
  BY Zenon DEF WorkerClaim
<1>5. claimed'[k] = claimed[k] + 1
  BY <1>0, <1>2, <1>4, Zenon DEF MatTypes
<1>6. \A d \in Cores \ {c} : pc'[d] = pc[d] /\ cx'[d] = cx[d] /\ tile'[d] = tile[d]
  BY OthersKept, Zenon
<1>7. MyKind(x)' = k
  BY <1>1, <1>4, KindsKept, Zenon
<1>8. \/ claimed[k] < Tiles /\ tile'[c] = claimed[k] /\ pc'[c] = "wWrite" /\ cx'[c] = cx[c]
      \/ claimed[k] >= Tiles /\ pc'[c] \in {"wait", "credit"}
  BY <1>0, Zenon DEF WorkerClaim, Goto, CoreTypes, WorkerReturn
<1>9. ASSUME pc'[x] \notin {"zeroClaimed", "release"},
             NEW i \in 0..(Tiles - 1), i < claimed'[k]
      PROVE  \/ i \in written'[mine'[x]]
             \/ \E e \in Cores : pc'[e] = "wWrite" /\ cx'[e] = mine'[x] /\ tile'[e] = i
  <2>1. pc[x] \notin {"zeroClaimed", "release"}
    BY <1>0, <1>6, <1>9
  <2>2. CASE i < claimed[k]
    <3>1. \/ i \in written[mine[x]]
          \/ \E e \in Cores : pc[e] = "wWrite" /\ cx[e] = mine[x] /\ tile[e] = i
      BY <1>1, <2>1, <2>2, Zenon DEF TileInv
    <3> QED BY <1>0, <1>4, <1>6, <3>1
  <2>3. CASE i = claimed[k]
    <3>1. claimed[k] < Tiles
      BY <1>0, <1>2, <2>3
    <3>2. ~(claimed[k] >= Tiles)
      BY <1>0, <1>2, <3>1
    <3> QED BY <1>1, <1>4, <1>8, <2>3, <3>2, Zenon
  <2>4. i < claimed[k] \/ i = claimed[k]
    BY <1>0, <1>2, <1>5, <1>9
  <2> QED BY <2>2, <2>3, <2>4, Zenon
<1>10. pc'[x] \in {"wait", "nullOk", "free"} => claimed'[k] >= Tiles
  <2>1. CASE x = c
    <3>1. pc'[x] \in {"wait", "nullOk", "free"} => claimed[k] >= Tiles
      BY <1>8, <2>1, Zenon
    <3> QED BY <1>0, <1>2, <1>5, <3>1
  <2>2. CASE x # c
    <3>1. pc'[x] \in {"wait", "nullOk", "free"} => claimed[k] >= Tiles
      BY <1>1, <1>6, <2>2, Zenon DEF TileInv
    <3> QED BY <1>0, <1>2, <1>5, <3>1
  <2> QED BY <2>1, <2>2
<1>11. \A d \in Cores : mine'[d] # 0 => d = x /\ MyKind(d)' = k
  BY <1>3, <1>4, <1>7, Zenon
<1>12. \A d \in Cores : mine'[d] # 0 /\ pc'[d] \notin {"zeroClaimed", "release"} =>
         \A i \in 0..(Tiles - 1) : i < claimed'[MyKind(d)'] =>
           \/ i \in written'[mine'[d]]
           \/ \E e \in Cores : pc'[e] = "wWrite" /\ cx'[e] = mine'[d] /\ tile'[e] = i
  <2> SUFFICES ASSUME NEW d \in Cores, mine'[d] # 0, pc'[d] \notin {"zeroClaimed", "release"},
                      NEW i \in 0..(Tiles - 1), i < claimed'[MyKind(d)']
               PROVE  \/ i \in written'[mine'[d]]
                      \/ \E e \in Cores : pc'[e] = "wWrite" /\ cx'[e] = mine'[d] /\ tile'[e] = i
    BY Zenon
  <2>1. d = x /\ i < claimed'[k]
    BY <1>11, Zenon
  <2> QED BY <2>1, <1>9, Zenon
<1>13. \A d \in Cores : mine'[d] # 0 /\ pc'[d] \in {"wait", "nullOk", "free"} =>
         claimed'[MyKind(d)'] >= Tiles
  BY <1>10, <1>11, Zenon
<1> QED BY <1>4, <1>12, <1>13, Zenon DEF TileInv

\* A worker computes the tile it has taken.
LEMMA TileWrite ==
  ASSUME TypeBusy, TileInv, NEW c \in Cores, Act(c), WorkerWrite(c)
  PROVE  TileInv'
<1>0. CoreTypes /\ MatTypes /\ pc[c] = "wWrite" /\ pc'[c] = "wClaim"
  BY Zenon DEF TypeBusy, TypeInv, Types, WorkerWrite, Goto, CoreTypes
<1>1. UNCHANGED <<mine, ctx, claimed, cx, tile>>
  BY Zenon DEF WorkerWrite
<1>2. cx[c] \in Products
  BY <1>0, Bounds DEF TypeBusy, TypeInv, Local, CoreTypes, Products, Working
<1>3. /\ \A n \in Products : written[n] \subseteq written'[n]
      /\ tile[c] \in written'[cx[c]]
  BY <1>0, <1>2, Zenon DEF WorkerWrite, MatTypes
<1>4. \A d \in Cores : /\ mine[d] # 0 => MyKind(d)' = MyKind(d) /\ mine[d] \in Products
                       /\ d # c => pc'[d] = pc[d]
  BY <1>1, KindsKept, OthersKept, MineProduct DEF TypeBusy, TypeInv
<1>5. \A n \in Products : ctx'[n].st = "freed" => 0..(Tiles - 1) \subseteq written'[n]
  BY <1>1, <1>3, Zenon DEF TileInv
<1>6. ASSUME NEW d \in Cores, mine'[d] # 0, pc'[d] \notin {"zeroClaimed", "release"},
             NEW i \in 0..(Tiles - 1), i < claimed'[MyKind(d)']
      PROVE  \/ i \in written'[mine'[d]]
             \/ \E e \in Cores : pc'[e] = "wWrite" /\ cx'[e] = mine'[d] /\ tile'[e] = i
  <2>1. mine[d] # 0 /\ pc[d] \notin {"zeroClaimed", "release"} /\ i < claimed[MyKind(d)]
    BY <1>0, <1>1, <1>4, <1>6
  <2>2. \/ i \in written[mine[d]]
        \/ \E e \in Cores : pc[e] = "wWrite" /\ cx[e] = mine[d] /\ tile[e] = i
    BY <2>1 DEF TileInv
  <2>3. CASE i \in written[mine[d]]
    BY <1>1, <1>3, <1>4, <2>1, <2>3, Zenon
  <2>4. ASSUME NEW e \in Cores, pc[e] = "wWrite" /\ cx[e] = mine[d] /\ tile[e] = i
        PROVE  \/ i \in written'[mine'[d]]
               \/ pc'[e] = "wWrite" /\ cx'[e] = mine'[d] /\ tile'[e] = i
    BY <1>1, <1>3, <1>4, <2>4, Zenon
  <2> QED BY <2>2, <2>3, <2>4, Zenon
<1>7. \A d \in Cores : mine'[d] # 0 /\ pc'[d] \in {"wait", "nullOk", "free"} =>
        claimed'[MyKind(d)'] >= Tiles
  BY <1>0, <1>1, <1>4, Zenon DEF TileInv
<1> QED BY <1>5, <1>6, <1>7, Zenon DEF TileInv

\* A product begins with no tile claimed.
LEMMA TileZero ==
  ASSUME TypeBusy, TileInv, NEW c \in Cores, Act(c), ZeroClaimed(c)
  PROVE  TileInv'
<1>0. CoreTypes /\ MatTypes /\ mine[c] # 0 /\ UNCHANGED <<mine, ctx, written>>
  BY Zenon DEF ZeroClaimed, TypeBusy, TypeInv, Types, BusyInv, Consistent, DispatchLabels
<1>1. \A d \in Cores : mine'[d] # 0 => d = c
  BY <1>0, OneDispatcher, Zenon
<1>2. MyKind(c)' = MyKind(c) /\ MyKind(c) \in Kinds
  BY <1>0, KindsKept, Zenon DEF TypeBusy, TypeInv, Local
<1>3. claimed'[MyKind(c)] = 0 /\ pc'[c] = "publishCtx"
  BY <1>0, <1>2 DEF ZeroClaimed, Goto, CoreTypes, MatTypes
<1>4. \A i \in 0..(Tiles - 1) : ~(i < 0)
  OBVIOUS
<1> QED BY <1>0, <1>1, <1>2, <1>3, <1>4, Zenon DEF TileInv

\* A product that is returned is complete: the counter is at its end and nobody
\* has a tile in hand.
LEMMA TileEnd ==
  ASSUME TypeBusy, RingInv, TileInv, NEW c \in Cores, Act(c), EndCtx(c)
  PROVE  TileInv'
<1>0. CoreTypes /\ MatTypes /\ mine[c] # 0 /\ UNCHANGED <<mine, claimed, written>>
  BY Zenon DEF EndCtx, TypeBusy, TypeInv, Types, BusyInv, Consistent, DispatchLabels
<1>1. \A d \in Cores : mine[d] # 0 => d = c
  BY <1>0, OneDispatcher
<1>2. \A d \in Cores : pc[d] # "wWrite"
  BY <1>1, NobodyWorks, Zenon DEF EndCtx, Quiet, Working
<1>3. mine[c] \in Products /\ MyKind(c) \in Kinds /\ Tiles \in Nat
  BY <1>0, MineProduct, Bounds, Zenon DEF TypeBusy, TypeInv, Local
<1>4. claimed[MyKind(c)] \in Nat
  BY <1>0, <1>3, Zenon DEF MatTypes
<1>5. pc[c] = "free" => 0..(Tiles - 1) \subseteq written[mine[c]]
  <2> SUFFICES ASSUME pc[c] = "free", NEW i \in 0..(Tiles - 1) PROVE i \in written[mine[c]]
    BY Zenon
  <2>1. claimed[MyKind(c)] >= Tiles
    BY <1>0, Zenon DEF TileInv
  <2>2. i < claimed[MyKind(c)]
    BY <1>3, <1>4, <2>1
  <2> QED BY <1>0, <1>2, <2>2 DEF TileInv
<1>6. /\ \A n \in Products \ {mine[c]} : ctx'[n].st = ctx[n].st
      /\ pc[c] # "free" => ctx'[mine[c]].st # "freed"
  BY <1>0, <1>3, Zenon DEF EndCtx, MatTypes, Contexts
<1>7. \A n \in Products : ctx'[n].st = "freed" => 0..(Tiles - 1) \subseteq written'[n]
  BY <1>0, <1>5, <1>6, Zenon DEF TileInv
<1>8. pc'[c] = "release"
  BY <1>0, Zenon DEF EndCtx, Goto, CoreTypes
<1> QED BY <1>0, <1>1, <1>7, <1>8, Zenon DEF TileInv

\* A new product has no tiles yet, and a dispatch that ends has none to claim.
LEMMA TileEdge ==
  ASSUME TypeBusy, TileInv, NEW c \in Cores, Act(c),
         (\E k \in Kinds : DispatchStart(c, k)) \/ Release(c)
  PROVE  TileInv'
<1>0. CoreTypes /\ MatTypes /\ written' = written
  BY Zenon DEF DispatchStart, Release, TypeBusy, TypeInv, Types
<1>1. \A d \in Cores \ {c} : mine'[d] = 0
  <2>1. \A d \in Cores \ {c} : mine[d] = 0
    BY Zenon DEF DispatchStart, Release, TypeBusy, BusyInv, DispatchExclusive, Consistent, DispatchLabels
  <2> QED BY <2>1, OthersKept, Zenon
<1>2. mine'[c] # 0 => pc'[c] = "zeroClaimed"
  BY <1>0, Zenon DEF DispatchStart, Release, Goto, CoreTypes
<1>3. \A n \in Products : ctx'[n].st = "freed" => ctx[n].st = "freed"
  <2>1. CASE Release(c)
    BY <2>1, Zenon DEF Release
  <2>2. CASE \E k \in Kinds : DispatchStart(c, k)
    <3>1. PICK k \in Kinds, n \in Products : ctx' = [ctx EXCEPT ![n] = [st |-> "live", kind |-> k]]
      BY <2>2, Zenon DEF DispatchStart
    <3> QED BY <1>0, <3>1 DEF MatTypes
  <2> QED BY <2>1, <2>2
<1> QED BY <1>0, <1>1, <1>2, <1>3, Zenon DEF TileInv

\* Every step keeps the account of the tiles.
LEMMA StepTile ==
  ASSUME TypeBusy, RingInv, CtxInv, TileInv, NEW c \in Cores, Act(c)
  PROVE  TileInv'
<1> USE DEF mmVars, Goto, Return
<1>0. CoreTypes
  BY Zenon DEF TypeBusy, TypeInv, Types
<1>1. CASE ZeroClaimed(c) \/ EndCtx(c) \/ (\E k \in Kinds : DispatchStart(c, k)) \/ Release(c)
           \/ WorkerClaim(c) \/ WorkerWrite(c)
  BY <1>1, TileZero, TileEnd, TileEdge, TileClaim, TileWrite, Zenon
<1>2. CASE PublishCtx(c) \/ ResetQueue(c) \/ EnqueueBarrier(c) \/ OwnShare(c) \/ BarrierOpens(c)
           \/ BarrierTimeout(c) \/ UnpublishCtx(c)
  <2>1. /\ pc[c] \in {"publishCtx", "clearHead", "clearTail", "resetEpoch", "resetDone", "resetPending",
                      "enq", "wait", "nullOk", "nullTimeout"}
        /\ UNCHANGED <<ctx, claimed, written, mine>>
    BY <1>2, Zenon DEF PublishCtx, ResetQueue, ClearHead, ClearTail, ResetEpoch, ResetDone, ResetPending,
                EnqueueBarrier, OwnShare, BarrierOpens, BarrierTimeout, UnpublishCtx
  <2>2. /\ pc'[c] = "nullOk" => pc[c] = "wait"
        /\ pc'[c] = "free" => pc[c] = "nullOk"
        /\ pc'[c] # "wait"
    BY <1>0, <1>2, Zenon DEF PublishCtx, ResetQueue, ClearHead, ClearTail, ResetEpoch, ResetDone, ResetPending,
                EnqueueBarrier, EnqLoadTail, OwnShare, BarrierOpens, BarrierTimeout, UnpublishCtx,
                CoreTypes
  <2>3. mine[c] # 0 /\ pc'[c] \in {"wait", "nullOk", "free"} => claimed[MyKind(c)] >= Tiles
    BY <2>2, Zenon DEF TileInv
  <2> QED BY <2>1, <2>3, TileKept, Zenon
<1>3. CASE Enqueue(c) \/ TryDequeue(c) \/ JobDone(c) \/ RunCommon(c) \/ (c = BSP /\ SubmitCommon)
  <2>1. /\ pc[c] \in Enqueueing \cup {"idle", "deqTail", "deqCas", "deqRead", "run", "credit", "creditAdd"}
        /\ UNCHANGED <<ctx, claimed, written, mine>>
    BY <1>3, Zenon DEF Enqueue, EnqAccept, EnqWrite, EnqRefuse, EnqPublish, TryDequeue, DeqLoadHead, DeqLoadTail,
                DeqCas, DeqRead, JobDone, JobDoneCheck, JobDoneAdd, RunCommon, SubmitCommon, EnqLoadTail,
                Enqueueing
  <2>2. pc'[c] \notin {"wait", "nullOk", "free"}
    BY <1>0, <1>3, Zenon DEF Enqueue, EnqAccept, EnqWrite, EnqRefuse, EnqPublish, TryDequeue, DeqLoadHead,
                DeqLoadTail, DeqCas, DeqRead, JobDone, JobDoneCheck, JobDoneAdd, RunCommon, SubmitCommon,
                EnqLoadTail, Resume, CoreTypes
  <2> QED BY <2>1, <2>2, TileKept, Zenon DEF Enqueueing
<1>4. CASE WorkerLoadCtx(c)
  <2>1. pc[c] \in {"own", "run"} /\ UNCHANGED <<ctx, claimed, written, mine>>
    BY <1>4, Zenon DEF WorkerLoadCtx
  <2>2. mine[c] # 0 => pc[c] = "own" /\ ctxPtr[MyKind(c)] = mine[c]
    <3>1. mine[c] # 0 => pc[c] = "own"
      BY <2>1, Zenon DEF TypeBusy, BusyInv, Consistent, DispatchLabels, SharedLabels
    <3> QED BY <3>1, Zenon DEF CtxInv, Unpublished
  <2>3. mine[c] # 0 => pc'[c] = "wClaim"
    BY <1>0, <1>4, <2>2, Zenon DEF WorkerLoadCtx, WorkerKind, CoreTypes
  <2> QED BY <2>1, <2>3, TileKept, Zenon
<1> QED BY <1>1, <1>2, <1>3, <1>4, Zenon DEF Act, DispatchStep, WorkerStep

\* At the start there are no products.
LEMMA InitTile == Init => TileInv
<1> SUFFICES ASSUME Init PROVE TileInv
  OBVIOUS
<1>1. \A d \in Cores : mine[d] = 0
  BY Zenon DEF Init
<1>2. \A n \in Products : ctx[n].st = "none"
  BY DEF Init
<1> QED BY <1>1, <1>2, Zenon DEF TileInv

-----------------------------------------------------------------------------
(* What it guarantees. *)

\* Only APs have jobs in flight.
LEMMA InFlightFinite ==
  ASSUME TypeInv
  PROVE  IsFiniteSet(InFlight) /\ FlightCounted
<1>1. InFlight \subseteq APs
  BY DEF InFlight, TypeInv, Local, Taken, Enqueueing
<1>2. IsFiniteSet(InFlight)
  BY <1>1, FS_Subset, ApWorkAssumption
<1> QED BY <1>2, FS_CardinalityType, FS_EmptySet DEF FlightCounted

\* A core more or less in flight changes the count by one.
LEMMA InFlightMoves ==
  ASSUME TypeInv, NEW c \in Cores
  PROVE  FlightMoves(c)
<1>1. IsFiniteSet(InFlight)
  BY InFlightFinite
<1> QED BY <1>1, FS_AddElement, FS_RemoveElement DEF FlightMoves

\* While the deadline only passes when nobody will come, the whole invariant holds.
THEOREM MatmulInvariance == PatientAps => (Spec => []MatmulInv)
<1> SUFFICES ASSUME PatientAps PROVE Spec => []MatmulInv
  BY Zenon
<1>1. Init => MatmulInv
  BY InitType, InitBusy, InitRing, InitCtx, InitTile DEF MatmulInv
<1>2. MatmulInv /\ [Next]_vars => MatmulInv'
  <2> SUFFICES ASSUME MatmulInv, [Next]_vars PROVE MatmulInv'
    BY Zenon
  <2>1. TypeBusy /\ TypeBusy'
    BY StepType, Zenon DEF MatmulInv, TypeBusy
  <2>2. CASE Next
    <3>1. PICK c \in Cores : Act(c)
      BY <2>2, NextIsAct, Zenon
    <3>2. Sole' => Sole
      BY <2>1, <3>1, SoleBefore, Zenon
    <3>3. FlightCounted /\ FlightMoves(c)
      BY <2>1, InFlightFinite, InFlightMoves DEF TypeBusy
    <3>4. Sole' => RingInv'
      BY <2>1, <3>1, <3>2, <3>3, StepRing, Zenon DEF MatmulInv, TypeBusy
    <3>5. Sole' => CtxInv' /\ TileInv'
      BY <2>1, <3>1, <3>2, StepCtx, StepTile DEF MatmulInv
    <3> QED BY <2>1, <3>4, <3>5, Zenon DEF MatmulInv, TypeBusy
  <2>3. CASE UNCHANGED vars
    <3>1. Sole' => Sole
      BY <2>3, Zenon DEF vars, apVars, mmVars, Sole
    <3>2. RingInv => RingInv'
      BY <2>3, Zenon DEF vars, apVars, mmVars, RingInv, Drained, InFlight
    <3>3. CtxInv => CtxInv'
      <4>1. UNCHANGED <<ctxPtr, ctx, mine, pc, cx, job>>
        BY <2>3, Zenon DEF vars, apVars, mmVars
      <4>2. \A d \in Cores : MyKind(d)' = MyKind(d) /\ WorkerKind(d)' = WorkerKind(d)
        BY <4>1, Zenon DEF MyKind, WorkerKind
      <4> SUFFICES ASSUME CtxInv PROVE CtxInv'
        OBVIOUS
      <4>3. /\ \A k \in Kinds : ctxPtr'[k] # 0 =>
                 \E d \in Cores : mine'[d] = ctxPtr'[k] /\ MyKind(d)' = k /\ pc'[d] \notin Unpublished
            /\ \A d \in Cores : mine'[d] # 0 /\ pc'[d] \notin Unpublished =>
                 ctxPtr'[MyKind(d)'] = mine'[d]
        <5>1. ASSUME NEW k \in Kinds, ctxPtr'[k] # 0
              PROVE  \E d \in Cores : mine'[d] = ctxPtr'[k] /\ MyKind(d)' = k /\ pc'[d] \notin Unpublished
          <6>1. PICK d \in Cores : mine[d] = ctxPtr[k] /\ MyKind(d) = k /\ pc[d] \notin Unpublished
            BY <4>1, <5>1, Zenon DEF CtxInv
          <6> QED BY <4>1, <4>2, <6>1, Zenon
        <5>2. ASSUME NEW d \in Cores, mine'[d] # 0, pc'[d] \notin Unpublished
              PROVE  ctxPtr'[MyKind(d)'] = mine'[d]
          <6>1. ctxPtr[MyKind(d)] = mine[d]
            BY <4>1, <5>2, Zenon DEF CtxInv
          <6> QED BY <4>1, <4>2, <6>1, Zenon
        <5> QED BY <5>1, <5>2, Zenon
      <4>4. \A d \in Cores : mine'[d] # 0 /\ pc'[d] # "release" => ctx'[mine'[d]].st = "live"
        BY <4>1, Zenon DEF CtxInv
      <4>5. \A c \in Cores : pc'[c] \in Working =>
              \E d \in Cores : mine'[d] # 0 /\ cx'[c] = mine'[d] /\ WorkerKind(c)' = MyKind(d)'
        <5> SUFFICES ASSUME NEW c \in Cores, pc'[c] \in Working
                     PROVE  \E d \in Cores : /\ mine'[d] # 0 /\ cx'[c] = mine'[d]
                                             /\ WorkerKind(c)' = MyKind(d)'
          BY Zenon
        <5>1. PICK d \in Cores : mine[d] # 0 /\ cx[c] = mine[d] /\ WorkerKind(c) = MyKind(d)
          BY <4>1, Zenon DEF CtxInv
        <5>2. mine'[d] # 0 /\ cx'[c] = mine'[d] /\ WorkerKind(c)' = MyKind(d)'
          BY <4>1, <4>2, <5>1, Zenon
        <5> QED BY <5>2, Zenon
      <4> QED BY <4>3, <4>4, <4>5, Zenon DEF CtxInv
    <3>4. TileInv => TileInv'
      <4>1. UNCHANGED <<ctx, written, claimed, mine, pc, cx, tile, job>>
        BY <2>3, Zenon DEF vars, apVars, mmVars
      <4>2. \A d \in Cores : MyKind(d)' = MyKind(d)
        BY <4>1, Zenon DEF MyKind
      <4> SUFFICES ASSUME TileInv PROVE TileInv'
        OBVIOUS
      <4>3. \A n \in Products : ctx'[n].st = "freed" => 0..(Tiles - 1) \subseteq written'[n]
        BY <4>1, Zenon DEF TileInv
      <4>4. ASSUME NEW d \in Cores, mine'[d] # 0, pc'[d] \notin {"zeroClaimed", "release"},
                   NEW i \in 0..(Tiles - 1), i < claimed'[MyKind(d)']
            PROVE  \/ i \in written'[mine'[d]]
                   \/ \E c \in Cores : pc'[c] = "wWrite" /\ cx'[c] = mine'[d] /\ tile'[c] = i
        <5>1. mine[d] # 0 /\ pc[d] \notin {"zeroClaimed", "release"} /\ i < claimed[MyKind(d)]
          BY <4>1, <4>2, <4>4, Zenon
        <5>2. \/ i \in written[mine[d]]
              \/ \E c \in Cores : pc[c] = "wWrite" /\ cx[c] = mine[d] /\ tile[c] = i
          BY <5>1, Zenon DEF TileInv
        <5> QED BY <4>1, <5>2, Zenon
      <4>5. \A d \in Cores : mine'[d] # 0 /\ pc'[d] \in {"wait", "nullOk", "free"} =>
              claimed'[MyKind(d)'] >= Tiles
        BY <4>1, <4>2, Zenon DEF TileInv
      <4> QED BY <4>3, <4>4, <4>5, Zenon DEF TileInv
    <3> QED BY <2>1, <3>1, <3>2, <3>3, <3>4 DEF MatmulInv, TypeBusy
  <2> QED BY <2>2, <2>3, Zenon
<1> QED BY <1>1, <1>2, PTL DEF Spec

\* No worker dereferences a context whose box the dispatcher has dropped.
THEOREM NoUseAfterFreeThm == PatientAps => (Spec => []NoUseAfterFree)
<1>1. MatmulInv => NoUseAfterFree
  <2> SUFFICES ASSUME MatmulInv, RingSole, NEW c \in Cores, pc[c] \in Working
               PROVE  ctx[cx[c]].st # "freed"
    BY Zenon DEF NoUseAfterFree, Working
  <2>1. TypeBusy /\ RingInv /\ CtxInv
    BY Zenon DEF MatmulInv, TypeBusy, RingSole, Sole, Cores
  <2>2. PICK d \in Cores : mine[d] # 0 /\ cx[c] = mine[d]
    BY <2>1, Zenon DEF CtxInv
  <2>3. pc[d] # "release"
    BY <2>1, <2>2, OneDispatcher, NobodyWorks, Zenon DEF Quiet
  <2> QED BY <2>1, <2>2, <2>3, Zenon DEF CtxInv
<1> QED BY <1>1, MatmulInvariance, PTL

\* A product that is returned has all its tiles.
THEOREM ResultCompleteThm == PatientAps => (Spec => []ResultComplete)
<1>1. MatmulInv => ResultComplete
  <2> SUFFICES ASSUME MatmulInv, RingSole, NEW n \in Products, ctx[n].st = "freed"
               PROVE  written[n] = 0..(Tiles - 1)
    BY Zenon DEF ResultComplete
  <2>1. MatTypes /\ TileInv
    BY Zenon DEF MatmulInv, TypeInv, Types, RingSole, Sole, Cores
  <2> QED BY <2>1, Zenon DEF MatTypes, TileInv
<1> QED BY <1>1, MatmulInvariance, PTL

=============================================================================
