---------------------------- MODULE ContentStore ----------------------------
(***************************************************************************)
(* What redco.env.artifacts.ArtifactStore promises its callers: data that  *)
(* has been stored is there whole, or known to be damaged, and a call      *)
(* never mistakes one for the other.                                       *)
(***************************************************************************)
CONSTANT
    Datum        \* what callers store, each under its own digest

VARIABLES
    stored,      \* data that is there, whole
    damaged,     \* data whose file somebody has spoilt
    answer       \* what the last call answered

vars == <<stored, damaged, answer>>

NoAnswer == [call |-> "none"]

Init ==
    /\ stored = {} /\ damaged = {}
    /\ answer = NoAnswer

(* A successful put also repairs what was spoilt while it ran. *)
Put(d) ==
    /\ stored' = stored \cup {d}
    /\ damaged' = damaged \ {d}
    /\ answer' = [call |-> "put", data |-> d, result |-> "stored"]

RefusePut(d) ==
    /\ d \in damaged
    /\ answer' = [call |-> "put", data |-> d, result |-> "collision"]
    /\ UNCHANGED <<stored, damaged>>

(* The file system fails a put, which then has no effect. *)
FailPut(d) ==
    /\ answer' = [call |-> "put", data |-> d, result |-> "error"]
    /\ UNCHANGED <<stored, damaged>>

Get(d) ==
    /\ d \in stored
    /\ answer' = [call |-> "get", data |-> d, result |-> "data"]
    /\ UNCHANGED <<stored, damaged>>

RefuseGet(d) ==
    /\ d \notin stored
    /\ answer' = [call |-> "get", data |-> d, result |-> "error"]
    /\ UNCHANGED <<stored, damaged>>

Damage(d) ==
    /\ d \in stored
    /\ stored' = stored \ {d} /\ damaged' = damaged \cup {d}
    /\ UNCHANGED answer

Next == \E d \in Datum :
    Put(d) \/ RefusePut(d) \/ FailPut(d) \/ Get(d) \/ RefuseGet(d) \/ Damage(d)

Spec == Init /\ [][Next]_vars
=============================================================================
