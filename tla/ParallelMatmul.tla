--------------------------- MODULE ParallelMatmul ---------------------------
(***************************************************************************)
(* A matrix product spread over the cores (cortex, parallel_matmul.rs),    *)
(* composed with the job ring and the barrier of ApWork.  The dispatcher   *)
(* publishes a context, clears the ring, resets the barrier, enqueues one  *)
(* worker per AP, works itself and waits with a deadline; workers claim    *)
(* tiles from a shared counter.  When the barrier opens the context is     *)
(* freed; when the deadline passes it is leaked.  parallel_matmul (rows)   *)
(* and parallel_ternary_matmul (columns) differ only in which context      *)
(* pointer and which tile counter they use: the set Kinds.                 *)
(*                                                                         *)
(* A core that finds SMP_MM_BUSY taken computes alone and touches nothing  *)
(* of this state.  The dispatcher may be the BSP or an AP running an       *)
(* inference slice; the BSP also submits the mesh tick job of hermes.      *)
(***************************************************************************)
EXTENDS ApWork

CONSTANTS Dispatchers,   \* cores that start products
          Tiles,         \* tiles per product
          MaxWork,       \* bound on the work submitted (see Weight)
          PatientAps     \* TRUE: the 5 s deadline only passes when nobody will come

ASSUME MatmulAssumption ==
  /\ Dispatchers \subseteq Cores
  /\ {Tiles, MaxWork} \subseteq Nat
  /\ PatientAps \in BOOLEAN

VARIABLES busy,      \* SMP_MM_BUSY
          ctxPtr,    \* CTX / T_CTX: a product number, 0 when null
          claimed,   \* ROWS_CLAIMED / COLS_CLAIMED, in tiles
          ctx,       \* every context ever built: its kind and its state
          written,   \* the tiles of each result that have been computed
          cx, tile,  \* the context and the tile a worker holds
          mine,      \* the product a core dispatches, 0 when none
          left,      \* enqueue_barrier calls the dispatcher has still to make
          accepted   \* mesh tick jobs for which enqueue returned true

mmVars == <<busy, ctxPtr, claimed, ctx, written, cx, tile, mine, left, accepted>>
vars == <<apVars, mmVars>>

Products == 1..MaxWork

\* The number the next product gets: the least one not used.
Fresh(n) == ctx[n].st = "none" /\ \A m \in 1..(n - 1) : ctx[m].st # "none"

\* The bound counts a product of the second kind, or a mesh tick, for two.
Weight(k) == IF k = "rows" THEN 1 ELSE 2
Work ==
  LET Counted(k) == Cardinality({n \in Products : ctx[n].kind = k})
  IN  Counted("rows") + 2 * (Counted("cols") + accepted
                               + (IF job[BSP].f = "common" THEN 1 ELSE 0))

Init ==
  /\ ApInit
  /\ busy = FALSE
  /\ ctxPtr = [k \in Kinds |-> 0]
  /\ claimed = [k \in Kinds |-> 0]
  /\ ctx = [n \in Products |-> [st |-> "none", kind |-> "none"]]
  /\ written = [n \in Products |-> {}]
  /\ cx = [c \in Cores |-> 0]
  /\ tile = [c \in Cores |-> 0]
  /\ mine = [c \in Cores |-> 0]
  /\ left = [c \in Cores |-> 0]
  /\ accepted = 0

-----------------------------------------------------------------------------
(* Mutated forms used to show that the properties depend on the code. *)

\* The tile counter is left where the previous product put it.
ZeroClaimedMissing(c) ==
  /\ pc[c] = "zeroClaimed"
  /\ Goto(c, "publishCtx")
  /\ UNCHANGED <<queueVars, barrierVars, h, t, job, mmVars>>

\* One arrival less than the dispatcher enqueued is enough.
BarrierOpensEarly(c) ==
  /\ pc[c] = "wait" /\ done + 1 >= pending
  /\ Goto(c, "nullOk")
  /\ UNCHANGED <<queueVars, barrierVars, h, t, job, mmVars>>

\* The wait has no deadline.
BarrierTimeoutNever(c) == FALSE /\ UNCHANGED vars

\* A worker takes one tile too many.
WorkerClaimPastEnd(c) ==
  /\ pc[c] = "wClaim"
  /\ LET k == IF mine[c] # 0 THEN ctx[mine[c]].kind ELSE job[c].f IN
       /\ claimed[k] <= Tiles
       /\ claimed' = [claimed EXCEPT ![k] = @ + 1]
       /\ tile' = [tile EXCEPT ![c] = claimed[k]]
  /\ Goto(c, "wWrite")
  /\ UNCHANGED <<queueVars, barrierVars, h, t, job, busy, ctxPtr, cx, ctx, written, mine, left, accepted>>

\* The dispatch does not ask for SMP_MM_BUSY.
DispatchStartUnguarded(c, k) ==
  /\ c \in Dispatchers /\ pc[c] = "idle" /\ Work + Weight(k) <= MaxWork
  /\ \E n \in Products :
       /\ Fresh(n)
       /\ ctx' = [ctx EXCEPT ![n] = [st |-> "live", kind |-> k]]
       /\ mine' = [mine EXCEPT ![c] = n]
  /\ left' = [left EXCEPT ![c] = Cardinality(APs)]
  /\ Goto(c, "zeroClaimed")
  /\ UNCHANGED <<queueVars, barrierVars, h, t, job, busy, ctxPtr, claimed, written, cx, tile, accepted>>

-----------------------------------------------------------------------------
(* The dispatcher *)

\* try_acquire succeeds and the context is built.
DispatchStart(c, k) ==
  /\ c \in Dispatchers /\ pc[c] = "idle" /\ ~busy /\ Work + Weight(k) <= MaxWork
  /\ busy' = TRUE
  /\ \E n \in Products :
       /\ Fresh(n)
       /\ ctx' = [ctx EXCEPT ![n] = [st |-> "live", kind |-> k]]
       /\ mine' = [mine EXCEPT ![c] = n]
  /\ left' = [left EXCEPT ![c] = Cardinality(APs)]
  /\ Goto(c, "zeroClaimed")
  /\ UNCHANGED <<queueVars, barrierVars, h, t, job, ctxPtr, claimed, written, cx, tile, accepted>>

MyKind(c) == ctx[mine[c]].kind

ZeroClaimed(c) ==
  /\ pc[c] = "zeroClaimed"
  /\ claimed' = [claimed EXCEPT ![MyKind(c)] = 0]
  /\ Goto(c, "publishCtx")
  /\ UNCHANGED <<queueVars, barrierVars, h, t, job, busy, ctxPtr, ctx, written, cx, tile, mine, left, accepted>>

PublishCtx(c) ==
  /\ pc[c] = "publishCtx"
  /\ ctxPtr' = [ctxPtr EXCEPT ![MyKind(c)] = mine[c]]
  /\ Goto(c, "clearHead")
  /\ UNCHANGED <<queueVars, barrierVars, h, t, job, busy, claimed, ctx, written, cx, tile, mine, left, accepted>>

ResetQueue(c) ==
  /\ \/ ClearHead(c) \/ ClearTail(c) \/ ResetEpoch(c) \/ ResetDone(c)
     \/ ResetPending(c, Cardinality(APs), "enq")
  /\ UNCHANGED mmVars

\* The next enqueue_barrier call, or none left: the dispatcher's own share.
EnqueueBarrier(c) ==
  /\ pc[c] = "enq" /\ left[c] > 0
  /\ left' = [left EXCEPT ![c] = @ - 1]
  /\ EnqLoadTail(c, [f |-> MyKind(c), epoch |-> 0, counts |-> TRUE])
  /\ UNCHANGED <<busy, ctxPtr, claimed, ctx, written, cx, tile, mine, accepted>>

OwnShare(c) ==
  /\ pc[c] = "enq" /\ left[c] = 0
  /\ Goto(c, "own")
  /\ UNCHANGED <<queueVars, barrierVars, h, t, job, mmVars>>

\* Where a core resumes after enqueue returns.
Resume(c) == IF mine[c] # 0 THEN "enq" ELSE "idle"

Enqueue(c) ==
  \/ EnqAccept(c) /\ UNCHANGED mmVars
  \/ EnqWrite(c) /\ UNCHANGED mmVars
  \/ EnqRefuse(c, Resume(c)) /\ UNCHANGED mmVars
  \/ /\ EnqPublish(c, Resume(c))
     /\ accepted' = accepted + (IF job[c].counts THEN 0 ELSE 1)
     /\ UNCHANGED <<busy, ctxPtr, claimed, ctx, written, cx, tile, mine, left>>

\* wait_barrier_timeout
BarrierOpens(c) ==
  /\ pc[c] = "wait" /\ done >= pending
  /\ Goto(c, "nullOk")
  /\ UNCHANGED <<queueVars, barrierVars, h, t, job, mmVars>>

\* Waiting longer cannot help: every other AP is idle and the ring is empty.
NobodyWillCome(c) ==
  /\ head >= tail
  /\ \A a \in APs \ {c} : pc[a] = "idle" \/ (pc[a] = "deqTail" /\ h[a] >= tail)

BarrierTimeout(c) ==
  /\ pc[c] = "wait" /\ done < pending
  /\ PatientAps => NobodyWillCome(c)
  /\ Goto(c, "nullTimeout")
  /\ UNCHANGED <<queueVars, barrierVars, h, t, job, mmVars>>

\* CTX.store(null)
UnpublishCtx(c) ==
  /\ pc[c] \in {"nullOk", "nullTimeout"}
  /\ ctxPtr' = [ctxPtr EXCEPT ![MyKind(c)] = 0]
  /\ Goto(c, IF pc[c] = "nullOk" THEN "free" ELSE "leak")
  /\ UNCHANGED <<queueVars, barrierVars, h, t, job, busy, claimed, ctx, written, cx, tile, mine, left, accepted>>

\* The box is dropped and the result handed out, or both are leaked.
EndCtx(c) ==
  /\ pc[c] \in {"free", "leak"}
  /\ ctx' = [ctx EXCEPT ![mine[c]].st = IF pc[c] = "free" THEN "freed" ELSE "leaked"]
  /\ Goto(c, "release")
  /\ UNCHANGED <<queueVars, barrierVars, h, t, job, busy, ctxPtr, claimed, written, cx, tile, mine, left, accepted>>

\* Drop of SmpMmGuard.
Release(c) ==
  /\ pc[c] = "release"
  /\ busy' = FALSE
  /\ mine' = [mine EXCEPT ![c] = 0]
  /\ Goto(c, "idle")
  /\ UNCHANGED <<queueVars, barrierVars, h, t, job, ctxPtr, claimed, ctx, written, cx, tile, left, accepted>>

-----------------------------------------------------------------------------
(* matmul_worker / ternary_worker, run by an AP or by the dispatcher itself *)

WorkerKind(c) == IF mine[c] # 0 THEN MyKind(c) ELSE job[c].f
WorkerReturn(c) == IF mine[c] # 0 THEN "wait" ELSE "credit"

WorkerLoadCtx(c) ==
  /\ pc[c] = "own" \/ (pc[c] = "run" /\ job[c].f \in Kinds)
  /\ cx' = [cx EXCEPT ![c] = ctxPtr[WorkerKind(c)]]
  /\ Goto(c, IF ctxPtr[WorkerKind(c)] = 0 THEN WorkerReturn(c) ELSE "wClaim")
  /\ UNCHANGED <<queueVars, barrierVars, h, t, job, busy, ctxPtr, claimed, ctx, written, tile, mine, left, accepted>>

WorkerClaim(c) ==
  /\ pc[c] = "wClaim"
  /\ LET k == WorkerKind(c) IN
       /\ claimed' = [claimed EXCEPT ![k] = @ + 1]
       /\ \/ /\ claimed[k] < Tiles
             /\ tile' = [tile EXCEPT ![c] = claimed[k]]
             /\ Goto(c, "wWrite")
             /\ UNCHANGED cx
          \/ /\ claimed[k] >= Tiles
             /\ tile' = [tile EXCEPT ![c] = 0]
             /\ cx' = [cx EXCEPT ![c] = 0]
             /\ Goto(c, WorkerReturn(c))
  /\ UNCHANGED <<queueVars, barrierVars, h, t, job, busy, ctxPtr, ctx, written, mine, left, accepted>>

WorkerWrite(c) ==
  /\ pc[c] = "wWrite"
  /\ written' = [written EXCEPT ![cx[c]] = @ \cup {tile[c]}]
  /\ Goto(c, "wClaim")
  /\ UNCHANGED <<queueVars, barrierVars, h, t, job, busy, ctxPtr, claimed, ctx, cx, tile, mine, left, accepted>>

-----------------------------------------------------------------------------
(* The mesh tick job, and the idle loop *)

SubmitCommon ==
  /\ pc[BSP] = "idle" /\ Work + 2 <= MaxWork
  /\ EnqLoadTail(BSP, [f |-> "common", epoch |-> 0, counts |-> FALSE])
  /\ UNCHANGED mmVars

RunCommon(c) ==
  /\ pc[c] = "run" /\ job[c].f = "common"
  /\ Goto(c, "credit")
  /\ UNCHANGED <<queueVars, barrierVars, h, t, job, busy, ctxPtr, claimed, ctx, written, cx, tile, mine, left, accepted>>

TryDequeue(c) ==
  /\ DeqLoadHead(c) \/ DeqLoadTail(c) \/ DeqCas(c) \/ DeqRead(c)
  /\ UNCHANGED mmVars

JobDone(c) ==
  /\ JobDoneCheck(c) \/ JobDoneAdd(c)
  /\ UNCHANGED mmVars

-----------------------------------------------------------------------------
DispatchStep(c) ==
  \/ ZeroClaimed(c) \/ PublishCtx(c) \/ ResetQueue(c) \/ EnqueueBarrier(c)
  \/ OwnShare(c) \/ BarrierOpens(c) \/ BarrierTimeout(c)
  \/ UnpublishCtx(c) \/ EndCtx(c) \/ Release(c)

WorkerStep(c) == WorkerLoadCtx(c) \/ WorkerClaim(c) \/ WorkerWrite(c) \/ RunCommon(c)

Next ==
  \/ SubmitCommon
  \/ \E c \in Cores :
        \/ \E k \in Kinds : DispatchStart(c, k)
        \/ DispatchStep(c) \/ Enqueue(c) \/ WorkerStep(c)
        \/ TryDequeue(c) \/ JobDone(c)

Spec == Init /\ [][Next]_vars

\* Every core keeps executing: an operation that has begun is finished, and an
\* AP keeps going round its idle loop.  Nobody is obliged to submit or dispatch.
FairSpec ==
  /\ Spec
  /\ \A c \in Cores : WF_vars(DispatchStep(c) \/ Enqueue(c) \/ WorkerStep(c)
                              \/ TryDequeue(c) \/ JobDone(c))

-----------------------------------------------------------------------------
Labels ==
  {"idle", "deqTail", "deqCas", "deqRead", "run", "credit", "creditAdd",
   "enqHead", "enqWrite", "enqPublish", "zeroClaimed", "publishCtx", "clearHead",
   "clearTail", "resetEpoch", "resetDone", "resetPending", "enq", "own", "wClaim",
   "wWrite", "wait", "nullOk", "nullTimeout", "free", "leak", "release"}

\* The types; the label set is where a core can be in the dispatch, the worker
\* and the ring's operations.
TypeOK ==
  /\ {head, tail, pending, done, epoch, accepted} \subseteq Nat
  /\ pc \in [Cores -> Labels]
  /\ h \in [Cores -> Nat] /\ t \in [Cores -> Nat]
  /\ busy \in BOOLEAN
  /\ ctxPtr \in [Kinds -> 0..MaxWork]
  /\ \A n \in Products : ctx[n].st \in {"none", "live", "freed", "leaked"}
  /\ written \in [Products -> SUBSET (0..(Tiles - 1))]
  /\ cx \in [Cores -> 0..MaxWork]
  /\ mine \in [Cores -> 0..MaxWork]
  /\ left \in [Cores -> 0..Cardinality(APs)]

\* Only the dispatchers have used the ring: enqueue_impl is written for one
\* producer at a time, and a mesh tick of the BSP is a second one.
RingSole == accepted = 0 /\ \A c \in Cores : job[c].f # "common"

\* No worker dereferences a context whose box the dispatcher has dropped: the
\* barrier opens only after every worker that can still touch it has returned
\* (ap_work.rs: the epoch exists so that no late job_done lets the next
\* dispatch drop its ctx under a live worker).
NoUseAfterFree == RingSole =>
  \A c \in Cores : pc[c] \in {"wClaim", "wWrite"} => ctx[cx[c]].st # "freed"

\* A product that is returned has all its tiles: no tile claimed by a worker is
\* still uncomputed when the barrier opens and the result is handed out.
ResultComplete == RingSole =>
  \A n \in Products : ctx[n].st = "freed" => written[n] = 0..(Tiles - 1)

\* Two dispatches never overlap (SMP_MM_BUSY), so the context pointer, the tile
\* counter and the barrier belong to one product at a time.
DispatchExclusive == \A c, d \in Cores : mine[c] # 0 /\ mine[d] # 0 => c = d

\* Every dispatch comes back, with a result or without one, and gives
\* SMP_MM_BUSY back: whatever a mesh tick does to the ring, and even when the
\* only idle AP is the dispatcher.
DispatchReturns == busy ~> ~busy

=============================================================================
