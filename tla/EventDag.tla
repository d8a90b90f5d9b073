------------------------------ MODULE EventDag ------------------------------
(***************************************************************************)
(* What redco.env.tracer.EventGraph promises its callers: a directed       *)
(* acyclic multigraph that grows one node or one edge at a time, in which  *)
(* a call either takes effect completely or not at all, and which answers  *)
(* who descends from a node along edges of given kinds.                    *)
(***************************************************************************)
EXTENDS Reachability, Naturals, Sequences

CONSTANT
    Kind         \* edge kinds

VARIABLES
    nodes,       \* the ids of the graph's nodes
    edges,       \* the public list of edges, in the order they were added
    answer       \* what the last add_edge or descendants call answered

vars == <<nodes, edges, answer>>

Edge     == [source : Node, target : Node, kind : Kind]
NoAnswer == [call |-> "none"]

Descendants(n, kinds) == {m \in nodes : Reaches(edges, kinds, n, m)}

Accepts(e) ==
    /\ e.source \in nodes /\ e.target \in nodes
    /\ e.source # e.target
    /\ ~Reaches(edges, Kind, e.target, e.source)

-----------------------------------------------------------------------------
Init ==
    /\ nodes = {}
    /\ edges = <<>>
    /\ answer = NoAnswer

AddNode(n) ==
    /\ nodes' = nodes \cup {n}
    /\ UNCHANGED <<edges, answer>>

AddEdge(e) ==
    /\ Accepts(e)
    /\ edges' = Append(edges, e)
    /\ answer' = [edge |-> e, added |-> TRUE]
    /\ UNCHANGED nodes

RefuseEdge(e) ==
    /\ ~Accepts(e)
    /\ answer' = [edge |-> e, added |-> FALSE]
    /\ UNCHANGED <<nodes, edges>>

FindDescendants(n, kinds) ==
    /\ n \in nodes
    /\ answer' = [node |-> n, kinds |-> kinds, result |-> Descendants(n, kinds)]
    /\ UNCHANGED <<nodes, edges>>

Next ==
    \/ \E n \in Node : AddNode(n)
    \/ \E e \in Edge : AddEdge(e) \/ RefuseEdge(e)
    \/ \E n \in Node, kinds \in SUBSET Kind : FindDescendants(n, kinds)

Spec == Init /\ [][Next]_vars
=============================================================================
