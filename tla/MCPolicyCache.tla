--------------------------- MODULE MCPolicyCache ----------------------------
(***************************************************************************)
(* Three caches, two keys, two actions, and samplers nested three deep.    *)
(* No definition tells one cache, key or action from another.              *)
(***************************************************************************)
EXTENDS PolicyCache, TLC

Symmetry == Permutations(Cache) \cup Permutations(Key) \cup Permutations(Action)
=============================================================================
