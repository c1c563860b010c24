------------------------- MODULE IrqSafeLockProofs -------------------------
(***************************************************************************)
(* The interrupt flag around IrqSafeLock, for any set of cores and any     *)
(* number of calls: a handler never meets its own thread inside the lock,  *)
(* the flag comes back as it was, and the lock inside is still a ticket    *)
(* lock, so its guards exclude each other.                                 *)
(***************************************************************************)
EXTENDS IrqSafeLock, TLAPS

Stages == {"out", "cli", "lock", "use", "restore"}
Places == {"idle", "spin", "tryCas", "held"}

Types ==
  /\ pc \in [Contexts -> Places]
  /\ ifFlag \in [Cpus -> BOOLEAN] /\ inIrq \in [Cpus -> BOOLEAN]
  /\ ifAtBoot \in [Cpus -> BOOLEAN]
  /\ stage \in [Contexts -> Stages]
  /\ saved \in [Contexts -> BOOLEAN]

\* What a thread's flag and its saved copy are at each stage, when its core is
\* not in a handler.
ThreadFlag(c) ==
  LET x == <<c, "thread">>
  IN  /\ stage[x] # "out" => saved[x] = ifAtBoot[c]
      /\ ~inIrq[c] /\ stage[x] \in {"out", "cli"} => ifFlag[c] = ifAtBoot[c]
      /\ ~inIrq[c] /\ stage[x] \notin {"out", "cli"} => ~ifFlag[c]

\* A handler interrupted a thread that had its interrupts enabled, so outside
\* the ticket lock, and itself runs with the flag clear.
HandlerFlag(c) ==
  /\ inIrq[c] => ~ifFlag[c] /\ ifAtBoot[c]
  /\ inIrq[c] => stage[<<c, "thread">>] \in {"out", "cli"}
  /\ stage[<<c, "irq">>] # "out" => inIrq[c] /\ ~saved[<<c, "irq">>]

FlagInv ==
  /\ Types
  /\ \A c \in Cpus : ThreadFlag(c) /\ HandlerFlag(c)
  /\ \A x \in Contexts : pc[x] # "idle" => stage[x] = "use"

\* A context is the thread or the handler of a core.
LEMMA ContextCases ==
  ASSUME NEW x \in Contexts
  PROVE  \E c \in Cpus : x = <<c, "thread">> \/ x = <<c, "irq">>
  BY DEF Contexts

\* A core's thread and handler are two contexts of its own.
LEMMA CoreContexts ==
  ASSUME NEW c \in Cpus
  PROVE  /\ <<c, "thread">> \in Contexts /\ <<c, "irq">> \in Contexts
         /\ <<c, "thread">> # <<c, "irq">>
         /\ \A d \in Cpus : d # c => /\ <<d, "thread">> # <<c, "thread">>
                                     /\ <<d, "irq">> # <<c, "irq">>
                                     /\ <<d, "thread">> # <<c, "irq">>
                                     /\ <<d, "irq">> # <<c, "thread">>
  BY DEF Contexts

\* The initial state has everybody outside the lock.
LEMMA InitFlagInv == Init => FlagInv
<1> SUFFICES ASSUME Init PROVE FlagInv
  OBVIOUS
<1>1. Types
  BY DEF Init, Types, Ticket!Init, Stages, Places
<1>2. \A c \in Cpus : ThreadFlag(c) /\ HandlerFlag(c)
  BY CoreContexts DEF Init, ThreadFlag, HandlerFlag
<1>3. \A x \in Contexts : pc[x] = "idle"
  BY DEF Init, Ticket!Init
<1> QED BY <1>1, <1>2, <1>3 DEF FlagInv

\* Every step of a call, of a delivery and of a return keeps the flags.
LEMMA StepFlagInv == FlagInv /\ [Next]_vars => FlagInv'
<1> SUFFICES ASSUME FlagInv, [Next]_vars PROVE FlagInv'
  OBVIOUS
<1> USE DEF FlagInv
<1>1. ASSUME NEW x \in Contexts, SaveFlag(x) PROVE FlagInv'
  <2>1. PICK c \in Cpus : x = <<c, "thread">> \/ x = <<c, "irq">>
    BY ContextCases
  <2>2. x[1] = c /\ (x[2] = "irq") = (x = <<c, "irq">>)
    BY <2>1
  <2>3. Types'
    BY <1>1, <2>2 DEF SaveFlag, At, Running, Stage, lockVars, Types, Stages, Places
  <2>4. ASSUME NEW d \in Cpus PROVE (ThreadFlag(d) /\ HandlerFlag(d))'
    <3>1. CASE d = c
      BY <1>1, <2>1, <2>2, <3>1, CoreContexts DEF SaveFlag, At, Running, Stage, lockVars, Types, ThreadFlag, HandlerFlag
    <3>2. CASE d # c
      BY <1>1, <2>1, <2>2, <3>2, CoreContexts DEF SaveFlag, At, Running, Stage, lockVars, Types, ThreadFlag, HandlerFlag
    <3> QED BY <3>1, <3>2
  <2>5. \A y \in Contexts : pc'[y] # "idle" => stage'[y] = "use"
    BY <1>1 DEF SaveFlag, At, Running, Stage, lockVars, Types
  <2> QED BY <2>3, <2>4, <2>5 DEF FlagInv
<1>2. ASSUME NEW x \in Contexts, Disable(x) PROVE FlagInv'
  <2>1. PICK c \in Cpus : x = <<c, "thread">> \/ x = <<c, "irq">>
    BY ContextCases
  <2>2. x[1] = c /\ (x[2] = "irq") = (x = <<c, "irq">>)
    BY <2>1
  <2>3. Types'
    BY <1>2, <2>2 DEF Disable, At, Running, Stage, lockVars, Types, Stages, Places
  <2>4. ASSUME NEW d \in Cpus PROVE (ThreadFlag(d) /\ HandlerFlag(d))'
    <3>1. CASE d = c
      <4>1. ifFlag'[c] = FALSE /\ inIrq' = inIrq /\ saved' = saved /\ ifAtBoot' = ifAtBoot
        BY <1>2, <2>2 DEF Disable, Types
      <4>2. stage' = [stage EXCEPT ![x] = "lock"] /\ stage[x] = "cli"
        BY <1>2 DEF Disable, At, Stage
      <4>3. CASE x = <<c, "thread">>
        <5>1. ~inIrq[c]
          BY <1>2, <2>2, <4>3 DEF Disable, At, Running, Types
        <5> QED BY <3>1, <4>1, <4>2, <4>3, <5>1, CoreContexts DEF Types, ThreadFlag, HandlerFlag
      <4>4. CASE x = <<c, "irq">>
        BY <3>1, <4>1, <4>2, <4>4, CoreContexts DEF Types, ThreadFlag, HandlerFlag
      <4> QED BY <2>1, <4>3, <4>4
    <3>2. CASE d # c
      BY <1>2, <2>1, <2>2, <3>2, CoreContexts DEF Disable, At, Running, Stage, lockVars, Types, ThreadFlag, HandlerFlag
    <3> QED BY <3>1, <3>2
  <2>5. \A y \in Contexts : pc'[y] # "idle" => stage'[y] = "use"
    BY <1>2 DEF Disable, At, Running, Stage, lockVars, Types
  <2> QED BY <2>3, <2>4, <2>5 DEF FlagInv
<1>3. ASSUME NEW x \in Contexts, Begin(x) PROVE FlagInv'
  <2>1. PICK c \in Cpus : x = <<c, "thread">> \/ x = <<c, "irq">>
    BY ContextCases
  <2>2. x[1] = c /\ (x[2] = "irq") = (x = <<c, "irq">>)
    BY <2>1
  <2>3. Types'
    BY <1>3, <2>2 DEF Begin, Ticket!LockDraw, Ticket!TryLoad, At, Running, Stage, lockVars, Types, Stages, Places
  <2>4. ASSUME NEW d \in Cpus PROVE (ThreadFlag(d) /\ HandlerFlag(d))'
    <3>1. CASE d = c
      BY <1>3, <2>1, <2>2, <3>1, CoreContexts DEF Begin, Ticket!LockDraw, Ticket!TryLoad, At, Running, Stage, lockVars, Types, ThreadFlag, HandlerFlag
    <3>2. CASE d # c
      BY <1>3, <2>1, <2>2, <3>2, CoreContexts DEF Begin, Ticket!LockDraw, Ticket!TryLoad, At, Running, Stage, lockVars, Types, ThreadFlag, HandlerFlag
    <3> QED BY <3>1, <3>2
  <2>5. \A y \in Contexts : pc'[y] # "idle" => stage'[y] = "use"
    BY <1>3 DEF Begin, Ticket!LockDraw, Ticket!TryLoad, At, Running, Stage, lockVars, Types
  <2> QED BY <2>3, <2>4, <2>5 DEF FlagInv
<1>4. ASSUME NEW x \in Contexts, Use(x) PROVE FlagInv'
  <2>1. PICK c \in Cpus : x = <<c, "thread">> \/ x = <<c, "irq">>
    BY ContextCases
  <2>2. x[1] = c /\ (x[2] = "irq") = (x = <<c, "irq">>)
    BY <2>1
  <2>3. Types'
    BY <1>4, <2>2 DEF Use, Ticket!SpinAcquire, Ticket!TryCas, Ticket!Unlock, At, Running, Stage, lockVars, Types, Stages, Places
  <2>4. ASSUME NEW d \in Cpus PROVE (ThreadFlag(d) /\ HandlerFlag(d))'
    <3>1. CASE d = c
      BY <1>4, <2>1, <2>2, <3>1, CoreContexts DEF Use, Ticket!SpinAcquire, Ticket!TryCas, Ticket!Unlock, At, Running, Stage, lockVars, Types, ThreadFlag, HandlerFlag
    <3>2. CASE d # c
      BY <1>4, <2>1, <2>2, <3>2, CoreContexts DEF Use, Ticket!SpinAcquire, Ticket!TryCas, Ticket!Unlock, At, Running, Stage, lockVars, Types, ThreadFlag, HandlerFlag
    <3> QED BY <3>1, <3>2
  <2>5. \A y \in Contexts : pc'[y] # "idle" => stage'[y] = "use"
    BY <1>4 DEF Use, Ticket!SpinAcquire, Ticket!TryCas, Ticket!Unlock, At, Running, Stage, lockVars, Types
  <2> QED BY <2>3, <2>4, <2>5 DEF FlagInv
<1>5. ASSUME NEW x \in Contexts, Restore(x) PROVE FlagInv'
  <2>1. PICK c \in Cpus : x = <<c, "thread">> \/ x = <<c, "irq">>
    BY ContextCases
  <2>2. x[1] = c /\ (x[2] = "irq") = (x = <<c, "irq">>)
    BY <2>1
  <2>3. Types'
    BY <1>5, <2>2 DEF Restore, At, Running, Stage, lockVars, Types, Stages, Places
  <2>4. ASSUME NEW d \in Cpus PROVE (ThreadFlag(d) /\ HandlerFlag(d))'
    <3>1. CASE d = c
      BY <1>5, <2>1, <2>2, <3>1, CoreContexts DEF Restore, At, Running, Stage, lockVars, Types, ThreadFlag, HandlerFlag
    <3>2. CASE d # c
      BY <1>5, <2>1, <2>2, <3>2, CoreContexts DEF Restore, At, Running, Stage, lockVars, Types, ThreadFlag, HandlerFlag
    <3> QED BY <3>1, <3>2
  <2>5. \A y \in Contexts : pc'[y] # "idle" => stage'[y] = "use"
    BY <1>5 DEF Restore, At, Running, Stage, lockVars, Types
  <2> QED BY <2>3, <2>4, <2>5 DEF FlagInv
<1>6. ASSUME NEW c \in Cpus, IrqEnter(c) PROVE FlagInv'
  <2>1. Types'
    BY <1>6 DEF IrqEnter, Types, lockVars
  <2>2. ASSUME NEW d \in Cpus PROVE (ThreadFlag(d) /\ HandlerFlag(d))'
    <3>1. UNCHANGED <<stage, saved, ifAtBoot>>
      BY <1>6 DEF IrqEnter
    <3>2. CASE d = c
      <4>1. ifFlag'[c] = FALSE /\ inIrq'[c] = TRUE
        BY <1>6 DEF IrqEnter, Types
      <4>2. ifFlag[c] = TRUE /\ inIrq[c] = FALSE
        BY <1>6 DEF IrqEnter, Types
      <4>3. stage[<<c, "thread">>] \in {"out", "cli"}
        BY <4>2 DEF ThreadFlag
      <4>4. ifAtBoot[c] = TRUE /\ stage[<<c, "irq">>] = "out"
        BY <4>2, <4>3 DEF ThreadFlag, HandlerFlag
      <4>5. ThreadFlag(c)
        OBVIOUS
      <4> QED BY <3>1, <3>2, <4>1, <4>3, <4>4, <4>5 DEF ThreadFlag, HandlerFlag
    <3>3. CASE d # c
      <4>1. ifFlag'[d] = ifFlag[d] /\ inIrq'[d] = inIrq[d]
        BY <1>6, <3>3 DEF IrqEnter, Types
      <4> QED BY <3>1, <4>1 DEF ThreadFlag, HandlerFlag
    <3> QED BY <3>2, <3>3
  <2>3. \A y \in Contexts : pc'[y] # "idle" => stage'[y] = "use"
    BY <1>6 DEF IrqEnter, lockVars
  <2> QED BY <2>1, <2>2, <2>3
<1>7. ASSUME NEW c \in Cpus, IrqExit(c) PROVE FlagInv'
  <2>1. Types'
    BY <1>7 DEF IrqExit, Types, lockVars
  <2>2. ASSUME NEW d \in Cpus PROVE (ThreadFlag(d) /\ HandlerFlag(d))'
    <3>1. UNCHANGED <<stage, saved, ifAtBoot>>
      BY <1>7 DEF IrqExit
    <3>2. CASE d = c
      <4>1. ifFlag'[c] = TRUE /\ inIrq'[c] = FALSE /\ stage[<<c, "irq">>] = "out"
        BY <1>7 DEF IrqExit, Types
      <4>2. ifAtBoot[c] = TRUE /\ stage[<<c, "thread">>] \in {"out", "cli"}
        BY <1>7 DEF IrqExit, Types, HandlerFlag
      <4> QED BY <3>1, <3>2, <4>1, <4>2 DEF ThreadFlag, HandlerFlag
    <3>3. CASE d # c
      <4>1. ifFlag'[d] = ifFlag[d] /\ inIrq'[d] = inIrq[d]
        BY <1>7, <3>3 DEF IrqExit, Types
      <4> QED BY <3>1, <4>1 DEF ThreadFlag, HandlerFlag
    <3> QED BY <3>2, <3>3
  <2>3. \A y \in Contexts : pc'[y] # "idle" => stage'[y] = "use"
    BY <1>7 DEF IrqExit, lockVars
  <2> QED BY <2>1, <2>2, <2>3
<1>8. CASE UNCHANGED vars
  BY <1>8 DEF vars, lockVars, Types, ThreadFlag, HandlerFlag
<1> QED
  BY <1>1, <1>2, <1>3, <1>4, <1>5, <1>6, <1>7, <1>8 DEF Next, InCall, Quiescent

\* The flags agree with the stages in every reachable state.
THEOREM FlagInvariance == Spec => []FlagInv
  BY InitFlagInv, StepFlagInv, PTL DEF Spec

\* A handler never waits for its own thread: that thread is outside the lock.
THEOREM NoSelfDeadlockThm == Spec => []NoSelfDeadlock
<1>1. FlagInv => NoSelfDeadlock
  BY CoreContexts DEF FlagInv, HandlerFlag, NoSelfDeadlock
<1> QED BY <1>1, FlagInvariance, PTL

\* A thread outside the lock has the interrupt flag it started with, and a
\* handler runs with it clear until it returns.
THEOREM FlagRestoredThm == Spec => []FlagRestored
<1>1. FlagInv => FlagRestored
  BY DEF FlagInv, ThreadFlag, HandlerFlag, FlagRestored
<1> QED BY <1>1, FlagInvariance, PTL

-----------------------------------------------------------------------------
(* The lock inside. *)

TicketProofs == INSTANCE TicketLockProofs WITH Procs <- Contexts, MaxTicket <- MaxCalls

\* Calls, interrupts and returns only use the ticket lock the way TicketLock
\* lets its contexts use it.
THEOREM ImplementsTicketLock == Spec => Ticket!Spec
<1>1. Init => Ticket!Init
  BY DEF Init
<1>2. [Next]_vars => [Ticket!Next]_lockVars
  <2> SUFFICES ASSUME Next PROVE Ticket!Next \/ UNCHANGED lockVars
    BY DEF vars
  <2>1. ASSUME NEW x \in Contexts, Begin(x) \/ Use(x) PROVE Ticket!Next
    BY <2>1 DEF Begin, Use, Ticket!Next, Ticket!Step
  <2> QED
    BY <2>1 DEF Next, InCall, SaveFlag, Disable, Restore, IrqEnter, IrqExit, Quiescent, vars
<1> QED BY <1>1, <1>2, PTL DEF Spec, Ticket!Spec, Ticket!vars, lockVars

\* The lock inside and the lock the theorems are about take the same steps.
LEMMA SameNext == [Ticket!Next]_(Ticket!vars) <=> [TicketProofs!Next]_(TicketProofs!vars)
  BY DEF Ticket!Next, Ticket!Step, Ticket!LockDraw, Ticket!SpinAcquire, Ticket!TryLoad,
         Ticket!TryCas, Ticket!Unlock, Ticket!Quiescent, Ticket!vars,
         TicketProofs!Next, TicketProofs!Step, TicketProofs!LockDraw,
         TicketProofs!SpinAcquire, TicketProofs!TryLoad, TicketProofs!TryCas,
         TicketProofs!Unlock, TicketProofs!Quiescent, TicketProofs!vars

\* Two guards of one IrqSafeLock never exist at the same time, in threads and
\* handlers of all cores.
THEOREM GuardsExclusive == Spec => []Ticket!MutualExclusion
<1>1. Ticket!Init <=> TicketProofs!Init
  BY DEF Ticket!Init, TicketProofs!Init
<1>2. [Ticket!Next]_(Ticket!vars) <=> [TicketProofs!Next]_(TicketProofs!vars)
  BY SameNext
<1>3. TicketProofs!MutualExclusion => Ticket!MutualExclusion
  BY DEF Ticket!MutualExclusion, TicketProofs!MutualExclusion, Ticket!Holders,
         TicketProofs!Holders
<1>4. TicketProofs!Spec => []TicketProofs!MutualExclusion
  BY TicketProofs!MutualExclusionThm, MaxCallsAssumption
<1> QED BY <1>1, <1>2, <1>3, <1>4, ImplementsTicketLock, PTL DEF Ticket!Spec, TicketProofs!Spec

\* Threads and handlers of all cores are served in the order in which they drew
\* their tickets: the IRQ-safe lock implements the FIFO lock.
THEOREM FifoAcrossCores == Spec => TicketProofs!ImplementsFifoLock
<1>1. Ticket!Init <=> TicketProofs!Init
  BY DEF Ticket!Init, TicketProofs!Init
<1>2. [Ticket!Next]_(Ticket!vars) <=> [TicketProofs!Next]_(TicketProofs!vars)
  BY SameNext
<1>3. TicketProofs!Spec => TicketProofs!ImplementsFifoLock
  BY TicketProofs!Refinement, MaxCallsAssumption
<1> QED BY <1>1, <1>2, <1>3, ImplementsTicketLock, PTL DEF Ticket!Spec, TicketProofs!Spec
=============================================================================
