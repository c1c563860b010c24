----------------------------- MODULE TicketLock -----------------------------
(***************************************************************************)
(* The FIFO ticket spin lock of the kernel (crate ticket-lock).  lock()    *)
(* draws a ticket and spins until it is served; try_lock() reads `serving' *)
(* and draws exactly that ticket with a compare-exchange, or gives up;     *)
(* dropping the guard serves the next ticket.  Every atomic access is a    *)
(* step of its own.                                                        *)
(*                                                                         *)
(* The counters are usize and grow by one per acquisition, so they do not  *)
(* wrap in the life of a machine; MaxTicket bounds them for TLC only.      *)
(***************************************************************************)
EXTENDS Integers, FiniteSets

CONSTANTS Procs,      \* the contexts that use the lock
          MaxTicket   \* bound: tickets drawn in a behaviour

ASSUME MaxTicketAssumption == MaxTicket \in Nat

VARIABLES ticket,   \* next ticket to draw
          serving,  \* ticket being served
          pc,       \* where each context is in lock / try_lock / drop
          my        \* my_ticket, or the now_serving value try_lock has read

vars == <<ticket, serving, pc, my>>

Init ==
  /\ ticket = 0
  /\ serving = 0
  /\ pc = [p \in Procs |-> "idle"]
  /\ my = [p \in Procs |-> 0]

-----------------------------------------------------------------------------
(* Mutated forms used to show that the properties depend on the code. *)

\* try_lock with fetch_add: the ticket is drawn before the lock is known free.
TryCasOrphan(p) ==
  /\ pc[p] = "tryCas"
  /\ ticket < MaxTicket
  /\ ticket' = ticket + 1
  /\ pc' = [pc EXCEPT ![p] = IF ticket = my[p] THEN "held" ELSE "idle"]
  /\ UNCHANGED <<serving, my>>

\* lock() that accepts the ticket after the one being served.
SpinAcquireEarly(p) ==
  /\ pc[p] = "spin"
  /\ my[p] <= serving + 1
  /\ pc' = [pc EXCEPT ![p] = "held"]
  /\ UNCHANGED <<ticket, serving, my>>

\* try_lock that compares `ticket' with a fresh value instead of `serving'.
TryLoadTicket(p) ==
  /\ pc[p] = "idle"
  /\ ticket < MaxTicket
  /\ my' = [my EXCEPT ![p] = ticket]
  /\ pc' = [pc EXCEPT ![p] = "tryCas"]
  /\ UNCHANGED <<ticket, serving>>

\* try_lock whose compare-exchange is on `serving', not on `ticket'.
TryCasServing(p) ==
  /\ pc[p] = "tryCas"
  /\ pc' = [pc EXCEPT ![p] = IF serving = my[p] THEN "held" ELSE "idle"]
  /\ UNCHANGED <<ticket, serving, my>>

\* The drop gives the ticket back instead of serving the next one.
UnlockBackwards(p) ==
  /\ pc[p] = "held"
  /\ serving' = serving - 1
  /\ pc' = [pc EXCEPT ![p] = "idle"]
  /\ UNCHANGED <<ticket, my>>

-----------------------------------------------------------------------------
\* lock(): ticket.fetch_add(1).
LockDraw(p) ==
  /\ pc[p] = "idle"
  /\ ticket < MaxTicket
  /\ my' = [my EXCEPT ![p] = ticket]
  /\ ticket' = ticket + 1
  /\ pc' = [pc EXCEPT ![p] = "spin"]
  /\ UNCHANGED serving

\* lock(): the load that ends the spin.
SpinAcquire(p) ==
  /\ pc[p] = "spin"
  /\ my[p] = serving
  /\ pc' = [pc EXCEPT ![p] = "held"]
  /\ UNCHANGED <<ticket, serving, my>>

\* try_lock(): serving.load().
TryLoad(p) ==
  /\ pc[p] = "idle"
  /\ serving < MaxTicket
  /\ my' = [my EXCEPT ![p] = serving]
  /\ pc' = [pc EXCEPT ![p] = "tryCas"]
  /\ UNCHANGED <<ticket, serving>>

\* try_lock(): ticket.compare_exchange(now_serving, now_serving + 1).
TryCas(p) ==
  /\ pc[p] = "tryCas"
  /\ \/ /\ ticket = my[p]
        /\ ticket' = ticket + 1
        /\ pc' = [pc EXCEPT ![p] = "held"]
     \/ /\ ticket # my[p]
        /\ pc' = [pc EXCEPT ![p] = "idle"]
        /\ UNCHANGED ticket
  /\ UNCHANGED <<serving, my>>

\* Drop of the guard: serving.fetch_add(1).
Unlock(p) ==
  /\ pc[p] = "held"
  /\ serving' = serving + 1
  /\ pc' = [pc EXCEPT ![p] = "idle"]
  /\ UNCHANGED <<ticket, my>>

Step(p) == LockDraw(p) \/ SpinAcquire(p) \/ TryLoad(p) \/ TryCas(p) \/ Unlock(p)

\* The tickets are used up and every context is outside the lock.
Quiescent ==
  /\ serving = MaxTicket
  /\ \A p \in Procs : pc[p] = "idle"
  /\ UNCHANGED vars

Next == (\E p \in Procs : Step(p)) \/ Quiescent

Spec == Init /\ [][Next]_vars

\* A spinning core keeps loading `serving', a try_lock call runs to its end,
\* and a critical section ends; no core is obliged to ask for the lock.
Fairness ==
  \A p \in Procs : WF_vars(SpinAcquire(p)) /\ WF_vars(TryCas(p)) /\ WF_vars(Unlock(p))

FairSpec == Spec /\ Fairness

-----------------------------------------------------------------------------
Waiting == {p \in Procs : pc[p] = "spin"}
Holders == {p \in Procs : pc[p] = "held"}

\* The contexts that own a drawn ticket not yet served to the end.
Engaged == Waiting \cup Holders

\* The two counters stay within the tickets drawn, and a context is in one of the
\* four places of lock, try_lock and drop.
TypeOK ==
  /\ ticket \in 0..MaxTicket
  /\ serving \in 0..MaxTicket
  /\ pc \in [Procs -> {"idle", "spin", "tryCas", "held"}]
  /\ my \in [Procs -> 0..MaxTicket]

\* Two guards of one TicketLock never exist at the same time, whatever mix of
\* lock() and try_lock() produced them (Deref of the guard is unsynchronised).
MutualExclusion == \A p, q \in Holders : p = q

\* Every ticket between serving and ticket belongs to exactly one context that
\* waits or holds: no ticket is orphaned, so `serving' can always reach every
\* waiter (the reason try_lock uses a compare-exchange and not fetch_add).
NoOrphanTicket ==
  \A t \in serving..(ticket - 1) :
      \E p \in Engaged : my[p] = t /\ \A q \in Engaged : my[q] = t => q = p

\* Nobody enters past a waiter with an older ticket: a context that becomes a
\* holder leaves behind only waiters whose tickets are younger than its own.
NoBarging ==
  [][\A p \in Procs : (pc[p] # "held" /\ pc'[p] = "held") =>
        \A q \in Procs \ {p} : pc[q] = "spin" => my[q] > my'[p]]_vars

\* A context that called lock() gets the lock.
LockGranted == \A p \in Procs : pc[p] = "spin" ~> pc[p] = "held"
\* The first ticket nobody holds the lock with, and the owners of the tickets from
\* there on, in ticket order.
First == IF Holders = {} THEN serving ELSE serving + 1
WaitQueue == [i \in 1..(ticket - First) |-> CHOOSE p \in Waiting : my[p] = First + i - 1]

Fifo == INSTANCE FifoLock WITH holders <- Holders, queue <- WaitQueue

\* The ticket lock is a FIFO lock: lock() queues, waiters are admitted oldest
\* first, and try_lock() succeeds only on a lock nobody holds or waits for.
ImplementsFifoLock == Fifo!Spec
=============================================================================
