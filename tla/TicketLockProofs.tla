-------------------------- MODULE TicketLockProofs --------------------------
(***************************************************************************)
(* Mutual exclusion, no orphan ticket and no barging of the ticket lock,   *)
(* and that it implements the abstract FIFO lock, for any set of contexts  *)
(* and any bound on the tickets.                                           *)
(***************************************************************************)
EXTENDS TicketLock, SequenceTheorems, TLAPS

\* The window serving..ticket-1 is exactly the set of tickets of the contexts
\* that wait or hold, each owned once; a holder owns the ticket being served;
\* the value try_lock has read is never ahead of serving.
Window ==
  /\ serving <= ticket
  /\ \A p \in Engaged : serving <= my[p] /\ my[p] < ticket
  /\ \A p, q \in Engaged : my[p] = my[q] => p = q
  /\ \A p \in Holders : my[p] = serving
  /\ \A p \in Procs : pc[p] = "tryCas" => my[p] <= serving /\ my[p] < MaxTicket
  /\ \A t \in serving..(ticket - 1) : \E p \in Engaged : my[p] = t

IInv == TypeOK /\ Window

USE MaxTicketAssumption

\* The initial state has an empty window.
LEMMA InitIInv == Init => IInv
  BY DEF Init, IInv, TypeOK, Window, Engaged, Waiting, Holders

\* Every step of lock, try_lock and drop keeps types and window.
LEMMA StepIInv == IInv /\ [Next]_vars => IInv'
<1> SUFFICES ASSUME IInv, [Next]_vars PROVE IInv'
  OBVIOUS
<1> USE DEF IInv, TypeOK, Window, Engaged, Waiting, Holders
<1>1. ASSUME NEW p \in Procs, LockDraw(p) PROVE IInv'
  <2>1. TypeOK'
    BY <1>1 DEF LockDraw
  <2>2. Engaged' = Engaged \cup {p} /\ Holders' = Holders /\ p \notin Engaged
    BY <1>1 DEF LockDraw
  <2>3. my'[p] = ticket /\ ticket' = ticket + 1 /\ serving' = serving
    BY <1>1 DEF LockDraw
  <2>4. \A q \in Procs \ {p} : my'[q] = my[q] /\ pc'[q] = pc[q]
    BY <1>1 DEF LockDraw
  <2>5. \A t \in (serving..(ticket - 1))' : \E q \in Engaged' : my'[q] = t
    <3> SUFFICES ASSUME NEW t \in (serving..(ticket - 1))'
                 PROVE  \E q \in Engaged' : my'[q] = t
      OBVIOUS
    <3>1. CASE t = ticket
      BY <3>1, <2>2, <2>3
    <3>2. CASE t # ticket
      <4>1. t \in serving..(ticket - 1)
        BY <3>2, <2>3
      <4>2. PICK q \in Engaged : my[q] = t
        BY <4>1
      <4> QED BY <4>2, <2>2, <2>4
    <3> QED BY <3>1, <3>2
  <2>6. Window'
    BY <2>1, <2>2, <2>3, <2>4, <2>5, <1>1 DEF LockDraw
  <2> QED BY <2>1, <2>6
<1>2. ASSUME NEW p \in Procs, SpinAcquire(p) PROVE IInv'
  <2>1. TypeOK'
    BY <1>2 DEF SpinAcquire
  <2>2. Engaged' = Engaged /\ Holders' = Holders \cup {p}
    BY <1>2 DEF SpinAcquire
  <2>3. Window'
    BY <2>1, <2>2, <1>2 DEF SpinAcquire
  <2> QED BY <2>1, <2>3
<1>3. ASSUME NEW p \in Procs, TryLoad(p) PROVE IInv'
  <2>1. TypeOK'
    BY <1>3 DEF TryLoad
  <2>2. Engaged' = Engaged /\ Holders' = Holders /\ p \notin Engaged
    BY <1>3 DEF TryLoad
  <2>3. Window'
    BY <2>1, <2>2, <1>3 DEF TryLoad
  <2> QED BY <2>1, <2>3
<1>4. ASSUME NEW p \in Procs, TryCas(p) PROVE IInv'
  <2>1. CASE ticket = my[p]
    <3>1. Engaged = {} /\ serving = ticket /\ ticket < MaxTicket
      BY <1>4, <2>1 DEF TryCas
    <3>2. TypeOK'
      BY <1>4, <2>1, <3>1 DEF TryCas
    <3>3. Engaged' = {p} /\ Holders' = {p}
      BY <1>4, <2>1, <3>1 DEF TryCas
    <3>4. Window'
      BY <3>1, <3>2, <3>3, <1>4, <2>1 DEF TryCas
    <3> QED BY <3>2, <3>4
  <2>2. CASE ticket # my[p]
    <3>1. TypeOK'
      BY <1>4, <2>2 DEF TryCas
    <3>2. Engaged' = Engaged /\ Holders' = Holders
      BY <1>4, <2>2 DEF TryCas
    <3>3. \A q \in Procs : pc'[q] = "tryCas" => pc[q] = "tryCas"
      BY <1>4, <2>2 DEF TryCas
    <3>4. ticket' = ticket /\ serving' = serving /\ my' = my
      BY <1>4, <2>2 DEF TryCas
    <3>5. Window'
      BY <3>2, <3>3, <3>4
    <3> QED BY <3>1, <3>5
  <2> QED BY <2>1, <2>2
<1>5. ASSUME NEW p \in Procs, Unlock(p) PROVE IInv'
  <2>1. my[p] = serving /\ serving < ticket
    BY <1>5 DEF Unlock
  <2>2. TypeOK'
    BY <1>5, <2>1 DEF Unlock
  <2>3. Engaged' = Engaged \ {p} /\ Holders' = {}
    BY <1>5, <2>1 DEF Unlock
  <2>4. \A q \in Engaged' : serving + 1 <= my[q]
    BY <2>1, <2>3, <1>5 DEF Unlock
  <2>5. \A t \in (serving + 1)..(ticket - 1) : \E q \in Engaged' : my[q] = t
    BY <2>1, <2>3, <1>5 DEF Unlock
  <2>6. Window'
    BY <2>1, <2>2, <2>3, <2>4, <2>5, <1>5 DEF Unlock
  <2> QED BY <2>2, <2>6
<1>6. CASE UNCHANGED vars
  BY <1>6 DEF vars
<1> QED
  BY <1>1, <1>2, <1>3, <1>4, <1>5, <1>6 DEF Next, Step, Quiescent

\* The inductive invariant holds in every reachable state.
THEOREM Invariance == Spec => []IInv
  BY InitIInv, StepIInv, PTL DEF Spec

\* The counters and the contexts' registers keep their types.
THEOREM TypeCorrect == Spec => []TypeOK
<1>1. IInv => TypeOK
  BY DEF IInv
<1> QED BY <1>1, Invariance, PTL

\* No two guards of a TicketLock exist at the same time.
THEOREM MutualExclusionThm == Spec => []MutualExclusion
<1>1. IInv => MutualExclusion
  BY DEF IInv, Window, MutualExclusion, Engaged
<1> QED BY <1>1, Invariance, PTL

\* No ticket is ever drawn and then abandoned, so serving can reach every waiter.
THEOREM NoOrphanTicketThm == Spec => []NoOrphanTicket
<1>1. IInv => NoOrphanTicket
  BY DEF IInv, TypeOK, Window, NoOrphanTicket
<1> QED BY <1>1, Invariance, PTL

\* A context that enters leaves behind only waiters with younger tickets.
THEOREM NoBargingThm == Spec => NoBarging
<1> DEFINE Enters(p) == pc[p] # "held" /\ pc'[p] = "held"
<1>1. ASSUME IInv, [Next]_vars, NEW p \in Procs, Enters(p),
             NEW q \in Procs \ {p}, pc[q] = "spin"
      PROVE  my[q] > my'[p]
  <2>1. SpinAcquire(p) \/ TryCas(p)
    BY <1>1 DEF Next, Step, Quiescent, LockDraw, SpinAcquire, TryLoad, TryCas,
                Unlock, vars, IInv, TypeOK
  <2>2. CASE SpinAcquire(p)
    BY <1>1, <2>2 DEF SpinAcquire, IInv, TypeOK, Window, Engaged, Waiting
  <2>3. CASE TryCas(p)
    BY <1>1, <2>3 DEF TryCas, IInv, TypeOK, Window, Engaged, Waiting
  <2> QED BY <2>1, <2>2, <2>3
<1>2. IInv /\ [Next]_vars =>
        [\A p \in Procs : (pc[p] # "held" /\ pc'[p] = "held") =>
           \A q \in Procs \ {p} : pc[q] = "spin" => my[q] > my'[p]]_vars
  BY <1>1
<1> QED BY <1>2, Invariance, PTL DEF Spec, NoBarging

-----------------------------------------------------------------------------
(* The FIFO lock it implements. *)

\* A sequence that lists the owners of n consecutive tickets is the only one.
LEMMA OwnersInOrder ==
  ASSUME NEW W, NEW m, NEW f \in Int, NEW n \in Nat,
         \A p, q \in W : m[p] = m[q] => p = q,
         NEW s \in Seq(W), Len(s) = n, \A i \in 1..n : m[s[i]] = f + i - 1
  PROVE  [i \in 1..n |-> CHOOSE p \in W : m[p] = f + i - 1] = s
<1> DEFINE owner(i) == CHOOSE p \in W : m[p] = f + i - 1
<1>1. \A i \in 1..n : s[i] \in W
  BY LenProperties
<1>2. \A i \in 1..n : owner(i) = s[i]
  BY <1>1
<1>3. s = [i \in 1..n |-> s[i]]
  BY LenProperties
<1> QED BY <1>2, <1>3

\* A sequence whose elements are in T is a sequence over T.
LEMMA Retyped ==
  ASSUME NEW S, NEW T, NEW s \in Seq(S), \A i \in 1..Len(s) : s[i] \in T
  PROVE  s \in Seq(T)
  OBVIOUS

\* The queue holds the waiting contexts with consecutive tickets, oldest first.
LEMMA QueueShape ==
  ASSUME IInv
  PROVE  /\ First \in Nat /\ ticket - First \in Nat
         /\ WaitQueue \in Seq(Waiting) /\ Len(WaitQueue) = ticket - First
         /\ \A i \in 1..(ticket - First) : my[WaitQueue[i]] = First + i - 1
<1> USE DEF IInv, TypeOK, Window, Engaged, Waiting, Holders
<1> DEFINE n == ticket - First
           owner(i) == CHOOSE p \in Waiting : my[p] = First + i - 1
<1>1. First \in Nat /\ n \in Nat
  BY DEF First
<1>2. ASSUME NEW i \in 1..n PROVE owner(i) \in Waiting /\ my[owner(i)] = First + i - 1
  <2>1. First + i - 1 \in serving..(ticket - 1)
    BY <1>1 DEF First
  <2>2. PICK p \in Engaged : my[p] = First + i - 1
    BY <2>1
  <2>3. p \notin Holders
    BY <2>2, <1>1 DEF First
  <2> QED BY <2>2, <2>3
<1> HIDE DEF n, owner
<1>3. WaitQueue = [i \in 1..n |-> owner(i)]
  BY DEF WaitQueue, n, owner
<1>4. WaitQueue \in Seq(Waiting) /\ Len(WaitQueue) = n
  BY <1>1, <1>2, <1>3
<1> QED BY <1>1, <1>2, <1>3, <1>4 DEF n

\* lock() joins the queue at its end.
LEMMA DrawQueues ==
  ASSUME IInv, IInv', NEW p \in Procs, LockDraw(p)
  PROVE  Fifo!Queue(p)
<1> USE DEF IInv, TypeOK, Engaged, Waiting, Holders
<1> DEFINE n == ticket - First
           s == Append(WaitQueue, p)
<1>1. /\ Holders' = Holders /\ Waiting' = Waiting \cup {p} /\ p \notin Waiting /\ p \notin Holders
      /\ ticket' = ticket + 1 /\ serving' = serving
      /\ my'[p] = ticket /\ \A q \in Procs \ {p} : my'[q] = my[q]
  BY DEF LockDraw
<1>2. First' = First
  BY <1>1 DEF First
<1>3. /\ n \in Nat /\ First \in Nat /\ WaitQueue \in Seq(Waiting) /\ Len(WaitQueue) = n
      /\ \A i \in 1..n : my[WaitQueue[i]] = First + i - 1
  BY QueueShape
<1>4. \A i \in 1..n : WaitQueue[i] \in Waiting
  BY <1>3, LenProperties
<1>5. WaitQueue \in Seq(Waiting')
  BY <1>1, <1>3, <1>4
<1>6. s \in Seq(Waiting') /\ Len(s) = n + 1
  BY <1>1, <1>3, <1>5, AppendProperties
<1>7. \A i \in 1..(n + 1) : my'[s[i]] = First + i - 1
  <2>1. \A i \in 1..n : s[i] = WaitQueue[i]
    BY <1>1, <1>3, <1>5, AppendProperties
  <2>2. s[Len(WaitQueue) + 1] = p
    BY <1>1, <1>5, AppendProperties
  <2> SUFFICES ASSUME NEW i \in 1..(n + 1) PROVE my'[s[i]] = First + i - 1
    OBVIOUS
  <2>3. CASE i \in 1..n
    <3>1. s[i] = WaitQueue[i] /\ WaitQueue[i] \in Waiting /\ my[WaitQueue[i]] = First + i - 1
      BY <1>3, <1>4, <2>1, <2>3, Zenon
    <3>2. WaitQueue[i] \in Procs \ {p}
      BY <1>1, <3>1, Zenon DEF Waiting
    <3> QED BY <1>1, <3>1, <3>2, Zenon
  <2>4. CASE i = n + 1
    BY <1>1, <1>3, <2>2, <2>4
  <2> HIDE DEF n, s
  <2> QED BY <1>3, <2>3, <2>4
<1>8. (ticket - First)' = n + 1
  BY <1>1, <1>2, <1>3
<1>9. \A q, r \in Waiting' : my'[q] = my'[r] => q = r
  BY DEF Window
<1> HIDE DEF n, s, IInv, TypeOK, Engaged, Waiting, Holders
<1>10. [i \in 1..(n + 1) |-> CHOOSE q \in Waiting' : my'[q] = First + i - 1] = s
  BY <1>3, <1>6, <1>7, <1>9, OwnersInOrder
<1>11. WaitQueue' = s
  BY <1>2, <1>8, <1>10 DEF WaitQueue
<1>12. ~Fifo!Waits(p)
  BY <1>1, <1>3, <1>4, LenProperties DEF Fifo!Waits
<1> QED BY <1>1, <1>11, <1>12 DEF Fifo!Queue, s

\* The context whose ticket comes up is the first of the queue.
LEMMA AcquireAdmits ==
  ASSUME IInv, IInv', NEW p \in Procs, SpinAcquire(p)
  PROVE  Fifo!Admit(p)
<1> USE DEF IInv, TypeOK, Engaged, Waiting, Holders
<1> DEFINE n == ticket - First
           s == Tail(WaitQueue)
<1>1. /\ Holders = {} /\ Holders' = {p} /\ Waiting' = Waiting \ {p} /\ p \in Waiting
      /\ my[p] = serving /\ UNCHANGED <<ticket, serving, my>>
  BY DEF SpinAcquire, Window
<1>2. First = serving /\ First' = First + 1
  BY <1>1 DEF First
<1>3. /\ n \in Nat /\ First \in Nat /\ WaitQueue \in Seq(Waiting) /\ Len(WaitQueue) = n
      /\ \A i \in 1..n : my[WaitQueue[i]] = First + i - 1
  BY QueueShape
<1>4. \A i \in 1..n : WaitQueue[i] \in Waiting
  BY <1>3, LenProperties
<1>5. n > 0
  BY <1>1, <1>2 DEF Window
<1>6. WaitQueue # <<>> /\ Head(WaitQueue) = p
  <2>1. my[WaitQueue[1]] = my[p] /\ WaitQueue[1] \in Waiting
    BY <1>1, <1>2, <1>3, <1>4, <1>5
  <2>2. WaitQueue[1] = p
    BY <1>1, <2>1 DEF Window
  <2> QED BY <1>3, <1>5, <2>2
<1>7. s \in Seq(Waiting) /\ Len(s) = n - 1 /\ \A i \in 1..(n - 1) : s[i] = WaitQueue[i + 1]
  BY <1>3, <1>6, HeadTailProperties
<1>8. \A i \in 1..(n - 1) : s[i] \in Waiting' /\ my'[s[i]] = First' + i - 1
  <2> SUFFICES ASSUME NEW i \in 1..(n - 1) PROVE s[i] \in Waiting' /\ my'[s[i]] = First' + i - 1
    OBVIOUS
  <2>1. i + 1 \in 1..n
    BY <1>3
  <2>2. s[i] \in Waiting /\ my[s[i]] = First + (i + 1) - 1
    BY <1>3, <1>4, <1>7, <2>1
  <2>3. First + (i + 1) - 1 = First' + i - 1 /\ First + (i + 1) - 1 # First
    BY <1>2, <1>3
  <2>4. s[i] # p
    BY <1>1, <1>2, <2>2, <2>3
  <2> QED BY <1>1, <2>2, <2>3, <2>4
<1>9. s \in Seq(Waiting')
  <2> HIDE DEF s, n
  <2>1. \A i \in 1..Len(s) : s[i] \in Waiting'
    BY <1>7, <1>8
  <2> QED BY <1>7, <2>1, Retyped
<1>10. (ticket - First)' = n - 1 /\ n - 1 \in Nat /\ First' \in Nat
  BY <1>1, <1>2, <1>3, <1>5
<1>11. \A q, r \in Waiting' : my'[q] = my'[r] => q = r
  BY DEF Window
<1> HIDE DEF n, s, IInv, TypeOK, Engaged, Waiting, Holders
<1>12. [i \in 1..(n - 1) |-> CHOOSE q \in Waiting' : my'[q] = First' + i - 1] = s
  BY <1>7, <1>8, <1>9, <1>10, <1>11, OwnersInOrder
<1>13. WaitQueue' = s
  BY <1>10, <1>12 DEF WaitQueue
<1> QED BY <1>1, <1>6, <1>13 DEF Fifo!Admit, s

\* try_lock() takes the lock when nobody holds it and nobody waits.
LEMMA TryAdmits ==
  ASSUME IInv, IInv', NEW p \in Procs, TryCas(p), ticket = my[p]
  PROVE  Fifo!AdmitAtOnce(p)
<1> USE DEF IInv, TypeOK, Window, Engaged, Waiting, Holders
<1>1. serving = ticket /\ Waiting = {} /\ Holders = {}
  BY DEF TryCas
<1>2. Holders' = {p} /\ ticket' = serving + 1 /\ serving' = serving
  BY <1>1 DEF TryCas
<1>3. ticket - First = 0 /\ (ticket - First)' = 0
  BY <1>1, <1>2 DEF First
<1>4. WaitQueue = <<>>
  BY <1>3 DEF WaitQueue
<1>5. WaitQueue' = <<>>
  BY <1>3 DEF WaitQueue
<1> QED BY <1>1, <1>2, <1>4, <1>5 DEF Fifo!AdmitAtOnce

\* The drop of the guard leaves the queue alone: the ticket of its first context
\* is the one served next.
LEMMA UnlockReleases ==
  ASSUME IInv, IInv', NEW p \in Procs, Unlock(p)
  PROVE  Fifo!Release(p)
<1> USE DEF IInv, TypeOK, Window, Engaged, Waiting, Holders
<1>1. p \in Holders /\ Holders = {p} /\ Holders' = {} /\ Waiting' = Waiting
  BY DEF Unlock
<1>2. First' = First /\ ticket' = ticket /\ my' = my
  BY <1>1 DEF Unlock, First
<1>3. WaitQueue' = WaitQueue
  BY <1>1, <1>2 DEF WaitQueue
<1> QED BY <1>1, <1>3 DEF Fifo!Release

\* A try_lock that only looks, or fails, is invisible.
LEMMA TryInvisible ==
  ASSUME IInv, IInv', NEW p \in Procs, TryLoad(p) \/ (TryCas(p) /\ ticket # my[p])
  PROVE  UNCHANGED Fifo!vars
<1> USE DEF IInv, TypeOK, Engaged, Waiting, Holders
<1>1. /\ Waiting' = Waiting /\ Holders' = Holders /\ ticket' = ticket /\ serving' = serving
      /\ \A q \in Waiting : my'[q] = my[q]
  BY DEF TryLoad, TryCas
<1>2. First' = First
  BY <1>1 DEF First
<1>3. /\ First \in Nat /\ ticket - First \in Nat
      /\ WaitQueue \in Seq(Waiting) /\ Len(WaitQueue) = ticket - First
      /\ \A i \in 1..(ticket - First) : my[WaitQueue[i]] = First + i - 1
  BY QueueShape
<1>4. \A i \in 1..(ticket - First) : my'[WaitQueue[i]] = First + i - 1
  BY <1>1, <1>3, LenProperties
<1>5. \A q, r \in Waiting : my'[q] = my'[r] => q = r
  BY <1>1 DEF Window
<1> HIDE DEF IInv, TypeOK, Engaged, Waiting, Holders
<1>6. [i \in 1..(ticket - First) |-> CHOOSE q \in Waiting : my'[q] = First + i - 1] = WaitQueue
  BY <1>3, <1>4, <1>5, OwnersInOrder
<1>7. WaitQueue' = WaitQueue
  BY <1>1, <1>2, <1>6 DEF WaitQueue
<1> QED BY <1>1, <1>7 DEF Fifo!vars

\* The ticket lock implements the FIFO lock: it admits its callers one at a time,
\* the waiting ones in the order of their lock() calls, for any contexts.
THEOREM Refinement == Spec => ImplementsFifoLock
<1>1. Init => Fifo!Init
  <2> SUFFICES ASSUME Init PROVE Fifo!Init
    OBVIOUS
  <2>1. Holders = {}
    BY DEF Init, Holders
  <2>2. ticket - First = 0
    BY <2>1 DEF Init, First
  <2>3. WaitQueue = <<>>
    BY <2>2 DEF WaitQueue
  <2> QED BY <2>1, <2>3 DEF Fifo!Init
<1>2. IInv /\ IInv' /\ [Next]_vars => [Fifo!Next]_(Fifo!vars)
  <2> SUFFICES ASSUME IInv, IInv', [Next]_vars PROVE [Fifo!Next]_(Fifo!vars)
    OBVIOUS
  <2>1. ASSUME NEW p \in Procs, Step(p) PROVE [Fifo!Next]_(Fifo!vars)
    <3>1. Fifo!Queue(p) \/ Fifo!Admit(p) \/ Fifo!AdmitAtOnce(p) \/ Fifo!Release(p)
          \/ UNCHANGED Fifo!vars
      BY <2>1, DrawQueues, AcquireAdmits, TryAdmits, UnlockReleases, TryInvisible DEF Step
    <3> QED BY <3>1 DEF Fifo!Next
  <2>2. CASE UNCHANGED vars
    BY <2>2 DEF vars, Fifo!vars, Holders, WaitQueue, Waiting, First
  <2> QED BY <2>1, <2>2 DEF Next, Quiescent
<1> QED BY <1>1, <1>2, Invariance, PTL DEF Spec, ImplementsFifoLock, Fifo!Spec
=============================================================================
