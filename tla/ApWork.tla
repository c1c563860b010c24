------------------------------- MODULE ApWork -------------------------------
(***************************************************************************)
(* The job ring and the barrier of the application processors (k_nano,     *)
(* smp/ap_work.rs).  A producer writes a slot at TAIL and publishes it; an *)
(* AP claims a slot by a compare-exchange on HEAD and reads it AFTERWARDS; *)
(* a barrier worker credits DONE when the epoch stamped on its job is      *)
(* still the active one.  Every atomic access is a step, so is the write   *)
(* and the read of a slot, which the code does without synchronisation: a  *)
(* read that overlaps a write returns any mix of old and new fields.       *)
(*                                                                         *)
(* The module gives the steps; where a core goes next when an operation    *)
(* returns is a parameter, so that callers compose them.  No slot is ever  *)
(* emptied, so the `f = None' branch of try_dequeue is never taken; the    *)
(* idle loop's other sources of work do not touch this state.              *)
(***************************************************************************)
EXTENDS Integers, FiniteSets

CONSTANTS APs,       \* application processors: cores that run ap_idle_loop
          BSP,       \* the bootstrap processor
          Kinds,     \* barrier job functions (matmul_worker, ternary_worker)
          MaxJobs    \* slots in the ring (MAX_JOBS)

ASSUME ApWorkAssumption ==
  /\ BSP \notin APs
  /\ IsFiniteSet(APs) /\ Cardinality(APs) \in Nat
  /\ MaxJobs \in Nat \ {0}
  /\ "common" \notin Kinds

VARIABLES head, tail,      \* HEAD and TAIL
          slots,           \* SLOTS
          pending, done,   \* PENDING and DONE
          epoch,           \* ACTIVE_EPOCH
          pc,              \* where each core is
          h, t,            \* the HEAD and TAIL values a core has loaded
          job              \* the QueuedJob a core runs, or is writing to a slot

queueVars == <<head, tail, slots>>
barrierVars == <<pending, done, epoch>>
coreVars == <<pc, h, t, job>>
apVars == <<head, tail, slots, pending, done, epoch, pc, h, t, job>>

Cores == APs \cup {BSP}
NoJob == [f |-> "none", epoch |-> 0, counts |-> FALSE]

ApInit ==
  /\ head = 0 /\ tail = 0
  /\ slots = [i \in 0..(MaxJobs - 1) |-> NoJob]
  /\ pending = 0 /\ done = 0 /\ epoch = 0
  /\ pc = [c \in Cores |-> "idle"]
  /\ h = [c \in Cores |-> 0]
  /\ t = [c \in Cores |-> 0]
  /\ job = [c \in Cores |-> NoJob]

Goto(c, l) == pc' = [pc EXCEPT ![c] = l]

\* A core leaves an operation: its registers are dead.
Return(c, l) ==
  /\ Goto(c, l)
  /\ h' = [h EXCEPT ![c] = 0]
  /\ t' = [t EXCEPT ![c] = 0]
  /\ job' = [job EXCEPT ![c] = NoJob]

-----------------------------------------------------------------------------
(* enqueue_impl *)

\* TAIL.load
EnqLoadTail(c, j) ==
  /\ t' = [t EXCEPT ![c] = tail]
  /\ job' = [job EXCEPT ![c] = j]
  /\ Goto(c, "enqHead")
  /\ UNCHANGED <<head, tail, slots, pending, done, epoch, h>>

\* HEAD.load and the test t.wrapping_sub(h) >= MAX_JOBS: a HEAD ahead of the
\* loaded TAIL wraps to a huge difference and refuses the job.
Refused(c) == t[c] < head \/ t[c] - head >= MaxJobs

EnqRefuse(c, next) ==
  /\ pc[c] = "enqHead"
  /\ Refused(c)
  /\ Return(c, next)
  /\ UNCHANGED <<queueVars, barrierVars>>

\* ACTIVE_EPOCH.load, and the write of the slot begins.
EnqAccept(c) ==
  /\ pc[c] = "enqHead"
  /\ ~Refused(c)
  /\ job' = [job EXCEPT ![c].epoch = epoch]
  /\ Goto(c, "enqWrite")
  /\ UNCHANGED <<queueVars, barrierVars, h, t>>

\* The write of the slot ends.
EnqWrite(c) ==
  /\ pc[c] = "enqWrite"
  /\ slots' = [slots EXCEPT ![t[c] % MaxJobs] = job[c]]
  /\ Goto(c, "enqPublish")
  /\ UNCHANGED <<head, tail, barrierVars, h, t, job>>

\* TAIL.store(t + 1)
EnqPublish(c, next) ==
  /\ pc[c] = "enqPublish"
  /\ tail' = t[c] + 1
  /\ Return(c, next)
  /\ UNCHANGED <<head, slots, barrierVars>>

-----------------------------------------------------------------------------
(* try_dequeue, called by the idle loop of an AP *)

\* HEAD.load
DeqLoadHead(c) ==
  /\ c \in APs /\ pc[c] = "idle"
  /\ h' = [h EXCEPT ![c] = head]
  /\ Goto(c, "deqTail")
  /\ UNCHANGED <<queueVars, barrierVars, t, job>>

\* TAIL.load and the test h >= t
DeqLoadTail(c) ==
  /\ pc[c] = "deqTail"
  /\ \/ h[c] >= tail /\ Return(c, "idle")
     \/ h[c] < tail /\ Goto(c, "deqCas") /\ UNCHANGED <<h, t, job>>
  /\ UNCHANGED <<queueVars, barrierVars>>

\* HEAD.compare_exchange_weak(h, h + 1); None when it fails
DeqCas(c) ==
  /\ pc[c] = "deqCas"
  /\ \/ head = h[c] /\ head' = h[c] + 1 /\ Goto(c, "deqRead") /\ UNCHANGED <<h, t, job>>
     \/ head # h[c] /\ Return(c, "idle") /\ UNCHANGED head
  /\ UNCHANGED <<tail, slots, barrierVars>>

\* The slot versions a read may meet: the stored job, and those being written.
Visible(i) == {slots[i]} \cup {job[c] : c \in {d \in Cores : pc[d] = "enqWrite" /\ t[d] % MaxJobs = i}}

\* The read of the claimed slot.
DeqRead(c) ==
  /\ pc[c] = "deqRead"
  /\ \E a, b, d \in Visible(h[c] % MaxJobs) :
        job' = [job EXCEPT ![c] = [f |-> a.f, epoch |-> b.epoch, counts |-> d.counts]]
  /\ Goto(c, "run")
  /\ h' = [h EXCEPT ![c] = 0]
  /\ UNCHANGED <<queueVars, barrierVars, t>>

-----------------------------------------------------------------------------
(* job_done *)

\* counts, and ACTIVE_EPOCH.load
JobDoneCheck(c) ==
  /\ pc[c] = "credit"
  /\ \/ job[c].counts /\ job[c].epoch = epoch /\ Goto(c, "creditAdd") /\ UNCHANGED <<h, t, job>>
     \/ ~(job[c].counts /\ job[c].epoch = epoch) /\ Return(c, "idle")
  /\ UNCHANGED <<queueVars, barrierVars>>

\* DONE.fetch_add(1)
JobDoneAdd(c) ==
  /\ pc[c] = "creditAdd"
  /\ done' = done + 1
  /\ Return(c, "idle")
  /\ UNCHANGED <<queueVars, pending, epoch>>

-----------------------------------------------------------------------------
(* clear_queue and reset_barrier *)

ClearHead(c) ==
  /\ pc[c] = "clearHead" /\ head' = 0 /\ Goto(c, "clearTail")
  /\ UNCHANGED <<tail, slots, barrierVars, h, t, job>>

ClearTail(c) ==
  /\ pc[c] = "clearTail" /\ tail' = 0 /\ Goto(c, "resetEpoch")
  /\ UNCHANGED <<head, slots, barrierVars, h, t, job>>

ResetEpoch(c) ==
  /\ pc[c] = "resetEpoch" /\ epoch' = epoch + 1 /\ Goto(c, "resetDone")
  /\ UNCHANGED <<queueVars, pending, done, h, t, job>>

ResetDone(c) ==
  /\ pc[c] = "resetDone" /\ done' = 0 /\ Goto(c, "resetPending")
  /\ UNCHANGED <<queueVars, pending, epoch, h, t, job>>

ResetPending(c, n, next) ==
  /\ pc[c] = "resetPending" /\ pending' = n /\ Goto(c, next)
  /\ UNCHANGED <<queueVars, done, epoch, h, t, job>>
=============================================================================
