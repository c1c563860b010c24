---------------------------- MODULE MCInferQueue ----------------------------
(***************************************************************************)
(* The inference queue for TLC.  Submitters are interchangeable, and so    *)
(* are the cores that poll; the runs with this symmetry check invariants   *)
(* only.                                                                   *)
(***************************************************************************)
EXTENDS InferQueue, TLC

Symmetry == Permutations(Submitters) \cup Permutations(Pollers)
=============================================================================
