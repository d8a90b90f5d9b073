------------------------ MODULE MCSnapshotLifecycle -------------------------
(***************************************************************************)
(* Two lifecycles of either class and of any budget that is tried, two     *)
(* checkpoints: every order of calls on both.                              *)
(***************************************************************************)
EXTENDS SnapshotLifecycle

MCBudgets == 0..4
=============================================================================
