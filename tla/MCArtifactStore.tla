--------------------------- MODULE MCArtifactStore ---------------------------
(* A small instance of ArtifactStore. *)
EXTENDS ArtifactStore, TLC

IdSymmetry == Permutations(Datum) \cup Permutations(Process)
=============================================================================
