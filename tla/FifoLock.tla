------------------------------ MODULE FifoLock ------------------------------
(***************************************************************************)
(* What a fair spin lock promises its callers: at most one holder, and     *)
(* callers that decided to wait are admitted in the order in which they    *)
(* queued.  A caller that refuses to wait is admitted only when nobody     *)
(* holds the lock and nobody waits for it.                                 *)
(***************************************************************************)
EXTENDS Sequences

CONSTANT Procs

VARIABLES holders,   \* the callers inside the critical section
          queue      \* the callers waiting, oldest first

vars == <<holders, queue>>

Init == holders = {} /\ queue = <<>>

Waits(p) == \E i \in DOMAIN queue : queue[i] = p

Queue(p) ==
  /\ p \notin holders /\ ~Waits(p)
  /\ queue' = Append(queue, p)
  /\ UNCHANGED holders

Admit(p) ==
  /\ holders = {} /\ queue # <<>> /\ Head(queue) = p
  /\ holders' = {p}
  /\ queue' = Tail(queue)

AdmitAtOnce(p) ==
  /\ holders = {} /\ queue = <<>>
  /\ holders' = {p}
  /\ UNCHANGED queue

Release(p) ==
  /\ p \in holders
  /\ holders' = holders \ {p}
  /\ UNCHANGED queue

Next == \E p \in Procs : Queue(p) \/ Admit(p) \/ AdmitAtOnce(p) \/ Release(p)

Spec == Init /\ [][Next]_vars
=============================================================================
