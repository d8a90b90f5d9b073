-------------------------- MODULE MCTargetSelection -------------------------
(***************************************************************************)
(* Rollouts of up to three nodes of two kinds; fractions, thresholds and   *)
(* scores in halves.                                                       *)
(***************************************************************************)
EXTENDS TargetSelection
=============================================================================
