----------------------------- MODULE InferQueue -----------------------------
(***************************************************************************)
(* The inference queue (cortex, infer_queue.rs).  Submitters put a prompt  *)
(* and its reply topic into a ring of slots; the core that owns the        *)
(* SLICE_BUSY latch claims the oldest job and then runs it one slice at a  *)
(* time until finish_job publishes the reply; anybody may cancel.  Every   *)
(* access to a shared atomic or to a slot's mutex is a step.  A slice runs *)
(* under the ACTIVE lock: the model's part of it is what it reads and      *)
(* writes of this state, and that it may yield, finish or fail.            *)
(*                                                                         *)
(* A submit call stands for its prompt and its topic; topic 0 is the       *)
(* default topic a claim falls back to when the slot is empty.  HEAD is    *)
(* only moved by the owner of the latch, so its compare-exchange and the   *)
(* occupied swap after it succeed.  The boot proof job is a submit call.   *)
(***************************************************************************)
EXTENDS Integers, FiniteSets

CONSTANTS Submitters, Pollers,
          QueueCap,      \* QUEUE_CAP
          HeapLevels,    \* headroom levels that occur: "ok", "low", "critical"
          MaxCalls,      \* bound: submit calls
          MaxOpen,       \* bound: calls accepted and not answered when one more begins
          CancelOps,     \* which of "cancel" and "cancel_active" are called
          MaxSlices      \* bound: slices a job yields before it finishes

ASSUME InferQueueAssumption ==
  /\ QueueCap \in Nat \ {0}
  /\ {MaxCalls, MaxOpen, MaxSlices} \subseteq Nat
  /\ HeapLevels \subseteq {"ok", "low", "critical"}
  /\ CancelOps \subseteq {"cancel", "cancel_active"}

VARIABLES head, tail, nextId, pending,     \* HEAD, TAIL, NEXT_ID, PENDING_COUNT
          slots,                           \* the QueueSlots
          active, activeId, activeCancel,  \* ACTIVE, ACTIVE_ID, ACTIVE_CANCEL
          busy,                            \* SLICE_BUSY
          heap,                            \* the heap's headroom
          sub,                             \* each submitter: pc, call, t, id
          pol,                             \* each poller: pc, id, cancelled, call, kind
          can,                             \* the canceller: pc, id, slot, all
          calls,                           \* submit calls begun
          idOf,                            \* the id each accepted call got
          reply                            \* the reply published to each call's topic

queueVars == <<head, tail, nextId, pending, slots>>
activeVars == <<active, activeId, activeCancel>>
ghosts == <<calls, idOf, reply>>
vars == <<queueVars, activeVars, busy, heap, sub, pol, can, ghosts>>

Calls == 1..MaxCalls
NoJob == [id |-> 0, call |-> 0, phase |-> "none", left |-> 0]

Init ==
  /\ head = 0 /\ tail = 0 /\ nextId = 1 /\ pending = 0
  /\ slots = [i \in 0..(QueueCap - 1) |-> [occupied |-> FALSE, id |-> 0, cancel |-> FALSE, call |-> 0]]
  /\ active = NoJob /\ activeId = 0 /\ activeCancel = FALSE
  /\ busy = FALSE
  /\ heap \in HeapLevels
  /\ sub = [s \in Submitters |-> [pc |-> "idle", call |-> 0, t |-> 0, id |-> 0]]
  /\ pol = [p \in Pollers |-> [pc |-> "idle", id |-> 0, cancelled |-> FALSE, call |-> 0, kind |-> "none"]]
  /\ can = [pc |-> "idle", id |-> 0, slot |-> 0, all |-> FALSE]
  /\ calls = 0
  /\ idOf = [c \in Calls |-> 0]
  /\ reply = [c \in 0..MaxCalls |-> "none"]

Accepted == {c \in Calls : idOf[c] # 0}
Open == {c \in Calls : reply[c] = "none" /\ (idOf[c] # 0 \/ \E s \in Submitters : sub[s].call = c)}

\* emit_reply to the topic of a call.
EmitReply(c, kind) == reply' = [reply EXCEPT ![c] = IF @ = "none" THEN kind ELSE "again"]

Sub(s, l) == sub' = [sub EXCEPT ![s].pc = l]
Pol(p, l) == pol' = [pol EXCEPT ![p].pc = l]
SubReturn(s) == sub' = [sub EXCEPT ![s] = [pc |-> "idle", call |-> 0, t |-> 0, id |-> 0]]
PolReturn(p, l) ==
  pol' = [pol EXCEPT ![p] = [pc |-> l, id |-> 0, cancelled |-> FALSE, call |-> 0, kind |-> "none"]]

-----------------------------------------------------------------------------
(* Mutated forms used to show that the properties depend on the code. *)

\* A claim does not wait until the slot is published.
ClaimHeadUnpublished(p) ==
  /\ pol[p].pc = "claim" /\ head < tail
  /\ head' = head + 1
  /\ Pol(p, "swap")
  /\ UNCHANGED <<tail, nextId, pending, slots, activeVars, busy, heap, sub, can, ghosts>>

\* An id is drawn twice for one job.
TakeIdTwice(s) ==
  /\ sub[s].pc = "takeId"
  /\ nextId' = nextId + 2
  /\ sub' = [sub EXCEPT ![s].pc = "putPrompt", ![s].id = nextId + 1]
  /\ idOf' = [idOf EXCEPT ![sub[s].call] = nextId + 1]
  /\ UNCHANGED <<head, tail, pending, slots, activeVars, busy, heap, pol, can, calls, reply>>

\* The latch is not taken.
SliceEnterUnlatched(p) ==
  /\ pol[p].pc = "idle"
  /\ busy' = TRUE /\ Pol(p, "check")
  /\ UNCHANGED <<queueVars, activeVars, heap, sub, can, ghosts>>

\* The claim forgets to count.
SwapOccupiedUncounted(p) ==
  /\ pol[p].pc = "swap"
  /\ slots' = [slots EXCEPT ![(head - 1) % QueueCap].occupied = FALSE]
  /\ Pol(p, "loadId")
  /\ UNCHANGED <<head, tail, nextId, pending, activeVars, busy, heap, sub, can, ghosts>>

\* A refused claim does not answer.
ClaimDecideSilent(p) ==
  /\ pol[p].pc = "decide"
  /\ \/ (pol[p].cancelled \/ pol[p].call = 0 \/ heap # "ok") /\ PolReturn(p, "claim")
     \/ ~pol[p].cancelled /\ pol[p].call # 0 /\ heap = "ok" /\ Pol(p, "setId")
  /\ UNCHANGED <<queueVars, activeVars, busy, heap, sub, can, ghosts>>

\* The latch outlives the slice.
SliceExitLatched(p) ==
  /\ pol[p].pc = "exit"
  /\ PolReturn(p, "idle")
  /\ UNCHANGED <<queueVars, activeVars, busy, heap, sub, can, ghosts>>

\* The watchdog does not look at the phase of the job it stops.
WatchdogAbortBlind(p) ==
  /\ pol[p].pc = "idle"
  /\ \E q \in Pollers : pol[q].pc \in {"check", "slice", "exit"}
  /\ active # NoJob
  /\ EmitReply(active.call, "stopped")
  /\ activeId' = 0 /\ activeCancel' = FALSE
  /\ active' = [active EXCEPT !.phase = "idle"]
  /\ UNCHANGED <<queueVars, busy, heap, sub, pol, can, calls, idOf>>

-----------------------------------------------------------------------------
(* submit_with_ctx *)

SubmitCall(s) ==
  /\ sub[s].pc = "idle" /\ calls < MaxCalls /\ Cardinality(Open) < MaxOpen
  /\ calls' = calls + 1
  /\ IF heap = "ok"
     THEN sub' = [sub EXCEPT ![s].pc = "loadTail", ![s].call = calls + 1]
     ELSE UNCHANGED sub   \* HeapPressure
  /\ UNCHANGED <<queueVars, activeVars, busy, heap, pol, can, idOf, reply>>

LoadTail(s) ==
  /\ sub[s].pc = "loadTail"
  /\ sub' = [sub EXCEPT ![s].pc = "checkFull", ![s].t = tail]
  /\ UNCHANGED <<queueVars, activeVars, busy, heap, pol, can, ghosts>>

\* HEAD.load and occupied.load; Full
CheckFull(s) ==
  /\ sub[s].pc = "checkFull"
  /\ LET t == sub[s].t
         full == t < head \/ t - head >= QueueCap \/ slots[t % QueueCap].occupied
     IN IF full THEN SubReturn(s) ELSE Sub(s, "casTail")
  /\ UNCHANGED <<queueVars, activeVars, busy, heap, pol, can, ghosts>>

\* TAIL.compare_exchange_weak; retries from the loads
CasTail(s) ==
  /\ sub[s].pc = "casTail"
  /\ \/ tail = sub[s].t /\ tail' = tail + 1 /\ Sub(s, "takeId")
     \/ tail # sub[s].t /\ Sub(s, "loadTail") /\ UNCHANGED tail
  /\ UNCHANGED <<head, nextId, pending, slots, activeVars, busy, heap, pol, can, ghosts>>

TakeId(s) ==
  /\ sub[s].pc = "takeId"
  /\ nextId' = nextId + 1
  /\ sub' = [sub EXCEPT ![s].pc = "putPrompt", ![s].id = nextId]
  /\ idOf' = [idOf EXCEPT ![sub[s].call] = nextId]
  /\ UNCHANGED <<head, tail, pending, slots, activeVars, busy, heap, pol, can, calls, reply>>

\* prompt, reply_topic, machine; then cancel; then id; then occupied.
PutPrompt(s) ==
  /\ sub[s].pc = "putPrompt"
  /\ slots' = [slots EXCEPT ![sub[s].t % QueueCap].call = sub[s].call]
  /\ Sub(s, "clearCancel")
  /\ UNCHANGED <<head, tail, nextId, pending, activeVars, busy, heap, pol, can, ghosts>>

ClearCancel(s) ==
  /\ sub[s].pc = "clearCancel"
  /\ slots' = [slots EXCEPT ![sub[s].t % QueueCap].cancel = FALSE]
  /\ Sub(s, "putId")
  /\ UNCHANGED <<head, tail, nextId, pending, activeVars, busy, heap, pol, can, ghosts>>

PutId(s) ==
  /\ sub[s].pc = "putId"
  /\ slots' = [slots EXCEPT ![sub[s].t % QueueCap].id = sub[s].id]
  /\ Sub(s, "publish")
  /\ UNCHANGED <<head, tail, nextId, pending, activeVars, busy, heap, pol, can, ghosts>>

Publish(s) ==
  /\ sub[s].pc = "publish"
  /\ slots' = [slots EXCEPT ![sub[s].t % QueueCap].occupied = TRUE]
  /\ Sub(s, "count")
  /\ UNCHANGED <<head, tail, nextId, pending, activeVars, busy, heap, pol, can, ghosts>>

CountPending(s) ==
  /\ sub[s].pc = "count"
  /\ pending' = pending + 1
  /\ SubReturn(s)
  /\ UNCHANGED <<head, tail, nextId, slots, activeVars, busy, heap, pol, can, ghosts>>

-----------------------------------------------------------------------------
(* poll_slice: the latch and the claim *)

SliceEnter(p) ==
  /\ pol[p].pc = "idle" /\ ~busy
  /\ busy' = TRUE /\ Pol(p, "check")
  /\ UNCHANGED <<queueVars, activeVars, heap, sub, can, ghosts>>

\* ACTIVE.lock().is_none(), and the heap gate of try_claim_into_active
SliceCheck(p) ==
  /\ pol[p].pc = "check"
  /\ Pol(p, IF active = NoJob /\ heap # "critical" THEN "claim" ELSE "slice")
  /\ UNCHANGED <<queueVars, activeVars, busy, heap, sub, can, ghosts>>

\* Nothing published at HEAD, or HEAD.compare_exchange_weak
ClaimHead(p) ==
  /\ pol[p].pc = "claim"
  /\ \/ (head >= tail \/ ~slots[head % QueueCap].occupied) /\ Pol(p, "slice") /\ UNCHANGED head
     \/ head < tail /\ slots[head % QueueCap].occupied /\ head' = head + 1 /\ Pol(p, "swap")
  /\ UNCHANGED <<tail, nextId, pending, slots, activeVars, busy, heap, sub, can, ghosts>>

Claimed == (head - 1) % QueueCap

SwapOccupied(p) ==
  /\ pol[p].pc = "swap"
  /\ slots' = [slots EXCEPT ![Claimed].occupied = FALSE]
  /\ Pol(p, "uncount")
  /\ UNCHANGED <<head, tail, nextId, pending, activeVars, busy, heap, sub, can, ghosts>>

UncountPending(p) ==
  /\ pol[p].pc = "uncount"
  /\ pending' = pending - 1
  /\ Pol(p, "loadId")
  /\ UNCHANGED <<head, tail, nextId, slots, activeVars, busy, heap, sub, can, ghosts>>

LoadId(p) ==
  /\ pol[p].pc = "loadId"
  /\ pol' = [pol EXCEPT ![p].pc = "loadCancel", ![p].id = slots[Claimed].id]
  /\ UNCHANGED <<queueVars, activeVars, busy, heap, sub, can, ghosts>>

LoadCancel(p) ==
  /\ pol[p].pc = "loadCancel"
  /\ pol' = [pol EXCEPT ![p].pc = "takePrompt", ![p].cancelled = slots[Claimed].cancel]
  /\ UNCHANGED <<queueVars, activeVars, busy, heap, sub, can, ghosts>>

TakePrompt(p) ==
  /\ pol[p].pc = "takePrompt"
  /\ pol' = [pol EXCEPT ![p].pc = "decide", ![p].call = slots[Claimed].call]
  /\ slots' = [slots EXCEPT ![Claimed].call = 0]
  /\ UNCHANGED <<head, tail, nextId, pending, activeVars, busy, heap, sub, can, ghosts>>

\* "[cancelled]", or HeapPressure, or the job becomes active
ClaimDecide(p) ==
  /\ pol[p].pc = "decide"
  /\ LET cancelled == pol[p].cancelled \/ pol[p].call = 0 IN
     \/ /\ cancelled
        /\ EmitReply(pol[p].call, "cancelled") /\ PolReturn(p, "claim")
     \/ /\ ~cancelled /\ heap # "ok"
        /\ EmitReply(pol[p].call, "refused") /\ PolReturn(p, "claim")
     \/ /\ ~cancelled /\ heap = "ok"
        /\ Pol(p, "setId") /\ UNCHANGED reply
  /\ UNCHANGED <<queueVars, activeVars, busy, heap, sub, can, calls, idOf>>

SetActiveId(p) ==
  /\ pol[p].pc = "setId"
  /\ activeId' = pol[p].id
  /\ Pol(p, "resetCancel")
  /\ UNCHANGED <<queueVars, active, activeCancel, busy, heap, sub, can, ghosts>>

ResetActiveCancel(p) ==
  /\ pol[p].pc = "resetCancel"
  /\ activeCancel' = FALSE
  /\ Pol(p, "setActive")
  /\ UNCHANGED <<queueVars, active, activeId, busy, heap, sub, can, ghosts>>

\* NeedPrefill, or CoarseFallback for a model that generates in one call
SetActive(p) ==
  /\ pol[p].pc = "setActive"
  /\ \E ph \in {"work", "coarse"} :
        active' = [id |-> pol[p].id, call |-> pol[p].call, phase |-> ph, left |-> MaxSlices]
  /\ PolReturn(p, "slice")
  /\ UNCHANGED <<queueVars, activeId, activeCancel, busy, heap, sub, can, ghosts>>

-----------------------------------------------------------------------------
(* poll_slice: the slice, under the ACTIVE lock *)

Finish(p, kind) == pol' = [pol EXCEPT ![p].pc = "reply", ![p].kind = kind]

\* Nothing active; or the job ended by the watchdog, or stopped by a critical
\* heap (phase = Finishing): ACTIVE becomes None and nothing else is done.
SliceDrop(p) ==
  /\ pol[p].pc = "slice"
  /\ active = NoJob \/ active.phase = "idle" \/ heap = "critical"
  /\ active' = NoJob
  /\ Pol(p, "exit")
  /\ UNCHANGED <<queueVars, activeId, activeCancel, busy, heap, sub, can, ghosts>>

\* run_prefill / run_prefill_step / run_decode_one: cancelled, refused for memory,
\* done (or no model), or one more slice
SliceWork(p) ==
  /\ pol[p].pc = "slice" /\ active.phase = "work" /\ heap # "critical"
  /\ \/ activeCancel /\ Finish(p, "cancelled") /\ UNCHANGED active
     \/ ~activeCancel /\ (Finish(p, "refused") \/ Finish(p, "text")) /\ UNCHANGED active
     \/ /\ ~activeCancel /\ active.left > 0
        /\ \E ph \in {"work", "coarse"} :
              /\ ph = "work" => heap = "ok"   \* heap_headroom_low refuses
              /\ active' = [active EXCEPT !.left = @ - 1, !.phase = ph]
        /\ Pol(p, "exit")
  /\ UNCHANGED <<queueVars, activeId, activeCancel, busy, heap, sub, can, ghosts>>

\* run_coarse: cancelled before, or after the blocking generate
SliceCoarse(p) ==
  /\ pol[p].pc = "slice" /\ active.phase = "coarse" /\ heap # "critical"
  /\ \/ activeCancel /\ Finish(p, "cancelled")
     \/ ~activeCancel /\ Pol(p, "generated")
  /\ UNCHANGED <<queueVars, activeVars, busy, heap, sub, can, ghosts>>

CoarseGenerated(p) ==
  /\ pol[p].pc = "generated"
  /\ Finish(p, IF activeCancel THEN "cancelled" ELSE "text")
  /\ UNCHANGED <<queueVars, activeVars, busy, heap, sub, can, ghosts>>

(* finish_job *)
FinishReply(p) ==
  /\ pol[p].pc = "reply"
  /\ EmitReply(active.call, pol[p].kind)
  /\ Pol(p, "clearId")
  /\ UNCHANGED <<queueVars, activeVars, busy, heap, sub, can, calls, idOf>>

FinishClearId(p) ==
  /\ pol[p].pc = "clearId"
  /\ activeId' = 0
  /\ Pol(p, "clearFlag")
  /\ UNCHANGED <<queueVars, active, activeCancel, busy, heap, sub, can, ghosts>>

\* ACTIVE_CANCEL := false; the phase is Idle, so the slice drops the job
FinishClearCancel(p) ==
  /\ pol[p].pc = "clearFlag"
  /\ activeCancel' = FALSE
  /\ active' = NoJob
  /\ Pol(p, "exit")
  /\ UNCHANGED <<queueVars, activeId, busy, heap, sub, can, ghosts>>

SliceExit(p) ==
  /\ pol[p].pc = "exit"
  /\ busy' = FALSE
  /\ PolReturn(p, "idle")
  /\ UNCHANGED <<queueVars, activeVars, heap, sub, can, ghosts>>

\* slice_diag_and_proof_deadline: a slice of another core is stalled while it
\* does not hold the ACTIVE lock; the job is finished from here.
WatchdogAbort(p) ==
  /\ pol[p].pc = "idle"
  /\ \E q \in Pollers : pol[q].pc \in {"check", "slice", "exit"}
  /\ active.phase \in {"work", "coarse"}
  /\ EmitReply(active.call, "stopped")
  /\ activeId' = 0 /\ activeCancel' = FALSE
  /\ active' = [active EXCEPT !.phase = "idle"]
  /\ UNCHANGED <<queueVars, busy, heap, sub, pol, can, calls, idOf>>

-----------------------------------------------------------------------------
(* cancel and cancel_active *)

Can(l) == can' = [can EXCEPT !.pc = l]
CanReturn == can' = [pc |-> "idle", id |-> 0, slot |-> 0, all |-> FALSE]

CancelCall ==
  /\ can.pc = "idle" /\ "cancel" \in CancelOps
  /\ \E c \in Accepted : can' = [pc |-> "loadActive", id |-> idOf[c], slot |-> 0, all |-> FALSE]
  /\ UNCHANGED <<queueVars, activeVars, busy, heap, sub, pol, ghosts>>

\* ACTIVE_ID.load
CancelLoadActive ==
  /\ can.pc = "loadActive"
  /\ Can(IF activeId = can.id THEN "setFlag" ELSE "scan")
  /\ UNCHANGED <<queueVars, activeVars, busy, heap, sub, pol, ghosts>>

CancelSetFlag ==
  /\ can.pc = "setFlag"
  /\ activeCancel' = TRUE
  /\ IF can.all THEN Can("headSlot") ELSE CanReturn
  /\ UNCHANGED <<queueVars, active, activeId, busy, heap, sub, pol, calls, idOf, reply>>

\* occupied.load and id.load of one slot after the other
CancelScan ==
  /\ can.pc = "scan"
  /\ LET i == can.slot
         found == slots[i].occupied /\ slots[i].id = can.id
     IN \/ found /\ Can("setSlot")
        \/ ~found /\ i + 1 < QueueCap /\ can' = [can EXCEPT !.slot = i + 1]
        \/ ~found /\ i + 1 = QueueCap /\ (IF can.all THEN Can("headSlot") ELSE CanReturn)
  /\ UNCHANGED <<queueVars, activeVars, busy, heap, sub, pol, ghosts>>

CancelSetSlot ==
  /\ can.pc = "setSlot"
  /\ slots' = [slots EXCEPT ![can.slot].cancel = TRUE]
  /\ IF can.all THEN Can("headSlot") ELSE CanReturn
  /\ UNCHANGED <<head, tail, nextId, pending, activeVars, busy, heap, sub, pol, calls, idOf, reply>>

\* cancel_active: the active job, then the oldest job in the queue
CancelActiveCall ==
  /\ can.pc = "idle" /\ "cancel_active" \in CancelOps
  /\ can' = [pc |-> IF activeId # 0 THEN "raise" ELSE "headSlot",
             id |-> activeId, slot |-> 0, all |-> TRUE]
  /\ UNCHANGED <<queueVars, activeVars, busy, heap, sub, pol, ghosts>>

\* ACTIVE_CANCEL.store(true), and then cancel(id)
CancelRaise ==
  /\ can.pc = "raise"
  /\ activeCancel' = TRUE
  /\ Can("loadActive")
  /\ UNCHANGED <<queueVars, active, activeId, busy, heap, sub, pol, ghosts>>

CancelHeadSlot ==
  /\ can.pc = "headSlot"
  /\ LET i == head % QueueCap IN
     \/ head < tail /\ slots[i].occupied /\ can' = [can EXCEPT !.pc = "setHead", !.slot = i]
     \/ ~(head < tail /\ slots[i].occupied) /\ CanReturn
  /\ UNCHANGED <<queueVars, activeVars, busy, heap, sub, pol, ghosts>>

CancelSetHead ==
  /\ can.pc = "setHead"
  /\ slots' = [slots EXCEPT ![can.slot].cancel = TRUE]
  /\ CanReturn
  /\ UNCHANGED <<head, tail, nextId, pending, activeVars, busy, heap, sub, pol, ghosts>>

\* The rest of the kernel allocates and frees.
HeapChange ==
  /\ heap' \in HeapLevels /\ heap' # heap
  /\ UNCHANGED <<queueVars, activeVars, busy, sub, pol, can, ghosts>>

-----------------------------------------------------------------------------
SubmitStep(s) ==
  \/ LoadTail(s) \/ CheckFull(s) \/ CasTail(s) \/ TakeId(s) \/ PutPrompt(s)
  \/ ClearCancel(s) \/ PutId(s) \/ Publish(s) \/ CountPending(s)

ClaimStep(p) ==
  \/ ClaimHead(p) \/ SwapOccupied(p) \/ UncountPending(p) \/ LoadId(p) \/ LoadCancel(p)
  \/ TakePrompt(p) \/ ClaimDecide(p) \/ SetActiveId(p) \/ ResetActiveCancel(p) \/ SetActive(p)

PollStep(p) ==
  \/ SliceEnter(p) \/ SliceCheck(p) \/ ClaimStep(p)
  \/ SliceDrop(p) \/ SliceWork(p) \/ SliceCoarse(p) \/ CoarseGenerated(p)
  \/ FinishReply(p) \/ FinishClearId(p) \/ FinishClearCancel(p) \/ SliceExit(p)

CancelStep ==
  \/ CancelCall \/ CancelLoadActive \/ CancelSetFlag \/ CancelScan \/ CancelSetSlot
  \/ CancelActiveCall \/ CancelRaise \/ CancelHeadSlot \/ CancelSetHead

Next ==
  \/ \E s \in Submitters : SubmitCall(s) \/ SubmitStep(s)
  \/ \E p \in Pollers : PollStep(p) \/ WatchdogAbort(p)
  \/ CancelStep
  \/ HeapChange

Spec == Init /\ [][Next]_vars

\* A submit call that has begun returns, and idle APs (or the InferWorker) keep
\* calling poll_slice.
FairSpec ==
  /\ Spec
  /\ \A s \in Submitters : WF_vars(SubmitStep(s))
  /\ \A p \in Pollers : WF_vars(PollStep(p))

-----------------------------------------------------------------------------
\* The types; TAIL never falls behind HEAD and neither passes the calls made.
TypeOK ==
  /\ head \in 0..MaxCalls /\ tail \in head..MaxCalls
  /\ \A i \in DOMAIN slots : slots[i].call \in 0..MaxCalls
  /\ active.call \in 0..MaxCalls /\ active.left \in 0..MaxSlices
  /\ activeId \in 0..MaxCalls /\ activeCancel \in BOOLEAN /\ busy \in BOOLEAN
  /\ heap \in HeapLevels

\* What becomes the active job is what one submit call put into the slot: its id
\* and its prompt belong together, and it was published before it was claimed
\* (the H1 comment in try_claim_into_active).
ClaimIntact ==
  \A p \in Pollers : pol[p].pc = "decide" =>
      pol[p].call # 0 /\ pol[p].id = idOf[pol[p].call]

\* Where the prompt of an accepted call can be on its way to its reply.
Somewhere(c) ==
  \/ \E s \in Submitters : sub[s].call = c
  \/ \E i \in DOMAIN slots : slots[i].call = c
  \/ \E p \in Pollers : pol[p].call = c
  \/ active.call = c

\* Every accepted job ends with a reply on its topic: one that has not been
\* answered is still in a slot, being claimed, or active.
JobNotLost == \A c \in Accepted : reply[c] = "none" => Somewhere(c)

\* No job is answered twice, by whatever mix of claim, slice and watchdog.
AnsweredOnce == \A c \in Calls : reply[c] # "again"

\* When nobody is inside submit or claim, PENDING_COUNT is the number of
\* published jobs: what wakes idle cores (has_work) neither sticks nor misses.
PendingExact ==
  /\ \A s \in Submitters : sub[s].pc = "idle"
  /\ \A p \in Pollers : pol[p].pc \notin {"swap", "uncount"}
  => pending = Cardinality({i \in DOMAIN slots : slots[i].occupied})

\* Slices never overlap, and ACTIVE_ID names the active job while it runs: the
\* contract's "1 job in-flight".
OneJobInFlight ==
  /\ \A p, q \in Pollers : pol[p].pc # "idle" /\ pol[q].pc # "idle" => p = q
  /\ active.phase \in {"work", "coarse"} =>
       activeId = active.id \/ \E p \in Pollers : pol[p].pc = "clearFlag"

\* Every accepted job is answered.
JobAnswered == \A c \in Calls : idOf[c] # 0 ~> reply[c] # "none"

=============================================================================
