---------------------------- MODULE Reachability ----------------------------
(***************************************************************************)
(* Reachability in a list of labelled edges, defined without recursion by  *)
(* closed sets of nodes.                                                   *)
(***************************************************************************)
CONSTANT
    Node         \* node ids

(* S contains the successors, along edges of these kinds, of its members ... *)
IsClosed(list, kinds, S) ==
    \A i \in DOMAIN list :
        list[i].source \in S /\ list[i].kind \in kinds => list[i].target \in S

(* ... and those of x. *)
Covers(list, kinds, x, S) ==
    /\ IsClosed(list, kinds, S)
    /\ \A i \in DOMAIN list :
          list[i].source = x /\ list[i].kind \in kinds => list[i].target \in S

(* One or more edges of these kinds lead from x to y. *)
Reaches(list, kinds, x, y) ==
    \A S \in SUBSET Node : Covers(list, kinds, x, S) => y \in S

(* Every member of S is preceded by a member: S holds a cycle, or is empty. *)
IsPreceded(list, S) ==
    \A n \in S : \E i \in DOMAIN list : list[i].target = n /\ list[i].source \in S

NoCycle(list) == \A S \in SUBSET Node : IsPreceded(list, S) => S = {}
=============================================================================
