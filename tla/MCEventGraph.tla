---------------------------- MODULE MCEventGraph ----------------------------
(* A small instance of EventGraph. *)
EXTENDS EventGraph, TLC

IdSymmetry == Permutations(Node) \cup Permutations(Kind)
=============================================================================
