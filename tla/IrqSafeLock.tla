---------------------------- MODULE IrqSafeLock ----------------------------
(***************************************************************************)
(* IrqSafeLock (k_nano, sync/irq_lock.rs): a TicketLock taken with the     *)
(* interrupts of the calling core disabled.  Each core has a thread and an *)
(* interrupt handler that preempts it; the handler runs to its end before  *)
(* the thread continues, and both use the same lock.  lock() and           *)
(* try_lock() save the interrupt flag, clear it, use the ticket lock, and  *)
(* put the flag back after the ticket has been given up.                   *)
(***************************************************************************)
EXTENDS Integers, FiniteSets

CONSTANTS Cpus,       \* the cores
          MaxCalls    \* bound: lock and try_lock calls in a behaviour

ASSUME MaxCallsAssumption == MaxCalls \in Nat

VARIABLES ticket, serving, pc, my,   \* the TicketLock inside
          ifFlag,    \* RFLAGS.IF of each core
          inIrq,     \* the core runs its interrupt handler
          stage,     \* where each context is around the ticket lock
          saved,     \* irq_was_enabled
          calls,     \* calls begun so far
          ifAtBoot   \* the flag each thread runs with outside the lock

Contexts == Cpus \X {"thread", "irq"}

Ticket == INSTANCE TicketLock WITH Procs <- Contexts, MaxTicket <- MaxCalls

lockVars == <<ticket, serving, pc, my>>
vars == <<lockVars, ifFlag, inIrq, stage, saved, calls, ifAtBoot>>

Init ==
  /\ Ticket!Init
  /\ ifAtBoot \in [Cpus -> BOOLEAN]
  /\ ifFlag = ifAtBoot
  /\ inIrq = [c \in Cpus |-> FALSE]
  /\ stage = [x \in Contexts |-> "out"]
  /\ saved = [x \in Contexts |-> FALSE]
  /\ calls = 0

\* The context its core is executing.
Running(x) == (x[2] = "irq") = inIrq[x[1]]

At(x, s) == Running(x) /\ stage[x] = s
Stage(x, s) == stage' = [stage EXCEPT ![x] = s]

-----------------------------------------------------------------------------
(* Mutated forms used to show that the properties depend on the code. *)

\* The interrupts stay enabled.
DisableMissing(x) ==
  /\ At(x, "cli")
  /\ Stage(x, "lock")
  /\ UNCHANGED <<lockVars, ifFlag, inIrq, saved, calls, ifAtBoot>>

\* A failed try_lock leaves the interrupts as they are.
UseForgetful(x) ==
  /\ At(x, "use")
  /\ Ticket!SpinAcquire(x) \/ Ticket!TryCas(x) \/ Ticket!Unlock(x)
  /\ Stage(x, IF pc'[x] # "idle" THEN "use" ELSE IF pc[x] = "tryCas" THEN "out" ELSE "restore")
  /\ UNCHANGED <<ifFlag, inIrq, saved, calls, ifAtBoot>>

-----------------------------------------------------------------------------
\* are_irqs_enabled()
SaveFlag(x) ==
  /\ At(x, "out") /\ calls < MaxCalls
  /\ saved' = [saved EXCEPT ![x] = ifFlag[x[1]]]
  /\ calls' = calls + 1
  /\ Stage(x, "cli")
  /\ UNCHANGED <<lockVars, ifFlag, inIrq, ifAtBoot>>

\* interrupts::disable()
Disable(x) ==
  /\ At(x, "cli")
  /\ ifFlag' = [ifFlag EXCEPT ![x[1]] = FALSE]
  /\ Stage(x, "lock")
  /\ UNCHANGED <<lockVars, inIrq, saved, calls, ifAtBoot>>

\* inner.lock() or inner.try_lock() begins
Begin(x) ==
  /\ At(x, "lock")
  /\ Ticket!LockDraw(x) \/ Ticket!TryLoad(x)
  /\ Stage(x, "use")
  /\ UNCHANGED <<ifFlag, inIrq, saved, calls, ifAtBoot>>

\* ... it returns, and later the ticket guard is dropped.
Use(x) ==
  /\ At(x, "use")
  /\ Ticket!SpinAcquire(x) \/ Ticket!TryCas(x) \/ Ticket!Unlock(x)
  /\ Stage(x, IF pc'[x] = "idle" THEN "restore" ELSE "use")
  /\ UNCHANGED <<ifFlag, inIrq, saved, calls, ifAtBoot>>

\* if irq_was_enabled { interrupts::enable() }
Restore(x) ==
  /\ At(x, "restore")
  /\ ifFlag' = [ifFlag EXCEPT ![x[1]] = ifFlag[x[1]] \/ saved[x]]
  /\ Stage(x, "out")
  /\ UNCHANGED <<lockVars, inIrq, saved, calls, ifAtBoot>>

\* An interrupt is delivered; the gate clears IF.
IrqEnter(c) ==
  /\ ifFlag[c] /\ ~inIrq[c] /\ calls < MaxCalls
  /\ inIrq' = [inIrq EXCEPT ![c] = TRUE]
  /\ ifFlag' = [ifFlag EXCEPT ![c] = FALSE]
  /\ UNCHANGED <<lockVars, stage, saved, calls, ifAtBoot>>

\* The handler returns; iret restores IF.
IrqExit(c) ==
  /\ inIrq[c] /\ stage[<<c, "irq">>] = "out"
  /\ inIrq' = [inIrq EXCEPT ![c] = FALSE]
  /\ ifFlag' = [ifFlag EXCEPT ![c] = TRUE]
  /\ UNCHANGED <<lockVars, stage, saved, calls, ifAtBoot>>

InCall(x) == Disable(x) \/ Begin(x) \/ Use(x) \/ Restore(x)

\* The calls are used up and every context is outside the lock.
Quiescent ==
  /\ calls = MaxCalls
  /\ \A x \in Contexts : stage[x] = "out"
  /\ \A c \in Cpus : ~inIrq[c]
  /\ UNCHANGED vars

Next ==
  \/ \E x \in Contexts : SaveFlag(x) \/ InCall(x)
  \/ \E c \in Cpus : IrqEnter(c) \/ IrqExit(c)
  \/ Quiescent

\* A call that has begun goes on, a handler returns.  A thread runs between
\* interrupts however often they come (strong fairness: interrupts are finite
\* in rate and their handlers in length).
Spec ==
  /\ Init /\ [][Next]_vars
  /\ \A x \in Contexts : SF_vars(InCall(x))
  /\ \A c \in Cpus : WF_vars(IrqExit(c))

-----------------------------------------------------------------------------
\* A handler never waits for a ticket that its own interrupted thread holds or
\* waits in front of: the deadlock the lock exists to prevent.
NoSelfDeadlock ==
  \A c \in Cpus : inIrq[c] => pc[<<c, "thread">>] \notin {"spin", "held"}

\* Outside the lock a thread runs with the interrupt flag it had before, also
\* after a try_lock that failed, and a handler with interrupts disabled until it
\* returns, also after its own guards are dropped: interrupts are neither lost
\* nor enabled early.
FlagRestored ==
  \A c \in Cpus :
     /\ ~inIrq[c] /\ stage[<<c, "thread">>] = "out" => ifFlag[c] = ifAtBoot[c]
     /\ inIrq[c] => ~ifFlag[c]

\* Every lock() call is granted, in threads and in handlers alike.
LockGranted == \A x \in Contexts : pc[x] = "spin" ~> pc[x] = "held"
=============================================================================
