----------------------------- MODULE BoundedFifo -----------------------------
(***************************************************************************)
(* What a bounded queue with try_send and try_recv promises to one         *)
(* producer and one consumer: each call takes effect at one instant, an    *)
(* item is refused only when the queue is full at that instant, nothing is *)
(* returned only when it is empty, and items come out in the order they    *)
(* went in.  A Spurious queue may also refuse or return nothing under      *)
(* contention; what it accepts it still delivers in order.                 *)
(***************************************************************************)
EXTENDS Naturals, Sequences

CONSTANTS Values, Room, Spurious

VARIABLES q,      \* the items, oldest first
          sres,   \* what the producer's last call returned, "none" during a call
          rres    \* what the consumer's last call returned, "none" during a call

vars == <<q, sres, rres>>

Init == q = <<>> /\ sres = "ok" /\ rres = "empty"

SendCall == sres # "none" /\ sres' = "none" /\ UNCHANGED <<q, rres>>

SendOk(v) ==
  /\ sres = "none" /\ Len(q) < Room
  /\ q' = Append(q, v) /\ sres' = "ok"
  /\ UNCHANGED rres

SendFull ==
  /\ sres = "none" /\ (Len(q) = Room \/ Spurious)
  /\ sres' = "full"
  /\ UNCHANGED <<q, rres>>

RecvCall == rres # "none" /\ rres' = "none" /\ UNCHANGED <<q, sres>>

RecvOk ==
  /\ rres = "none" /\ q # <<>>
  /\ rres' = Head(q) /\ q' = Tail(q)
  /\ UNCHANGED sres

RecvEmpty ==
  /\ rres = "none" /\ (q = <<>> \/ Spurious)
  /\ rres' = "empty"
  /\ UNCHANGED <<q, sres>>

Next ==
  \/ SendCall \/ SendFull \/ RecvCall \/ RecvOk \/ RecvEmpty
  \/ \E v \in Values : SendOk(v)

Spec == Init /\ [][Next]_vars
=============================================================================
