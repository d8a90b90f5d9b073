----------------------------- MODULE EventGraph -----------------------------
(***************************************************************************)
(* redco.env.tracer.EventGraph.  add_edge appends to the edge list and to  *)
(* the source's adjacency list, then counts the whole graph down (Kahn's   *)
(* algorithm) and takes the edge back if some node was never reached.      *)
(* descendants is a breadth-first search over the adjacency lists.         *)
(*                                                                         *)
(* Both lists hold the same edge objects.  An edge object is its index in  *)
(* `edges`, and an adjacency list is the set of its members: only its last *)
(* element, the largest index, is ever taken off.  Metadata, node kinds,   *)
(* `via` and as_dict carry data through and are left out.                  *)
(***************************************************************************)
EXTENDS Reachability, Integers, Sequences, FiniteSets

CONSTANTS
    Kind,        \* edge kinds
    MaxEdges     \* bound: edges a graph may have

ASSUME MaxEdgesAssumption == MaxEdges \in Nat

VARIABLES
    nodes,       \* self.nodes
    edges,       \* self.edges
    answer,      \* what the last add_edge or descendants call answered
    outgoing,    \* self._outgoing: node -> indices of its edges
    phase,       \* the call that is running
    queue,       \* the deque of the running loop
    indegree,    \* assert_acyclic: node -> edges not yet counted down
    visited,     \* assert_acyclic: number of nodes taken off the queue
    done,        \* which nodes those are (not in the code)
    query,       \* descendants: its arguments
    seen         \* descendants: the set under construction

kahn   == <<indegree, visited, done>>
search == <<query, seen>>
graph  == <<nodes, edges, outgoing>>
vars   == <<graph, answer, phase, queue, kahn, search>>

Edge     == [source : Node, target : Node, kind : Kind]
NoAnswer == [call |-> "none"]
NoQuery  == [call |-> "none"]
Nothing == [n \in {} |-> 0]

Indices == DOMAIN edges
Source(i) == edges[i].source
Target(i) == edges[i].target

(* Mutants of Popped: the list keeps the edge; the list is cleared. *)
PoppedNothing(list) == list

PoppedEverything(list) == {}

(* Taking the last element off an adjacency list. *)
Popped(list) == {i \in list : \E j \in list : i < j}

NoCall ==
    /\ queue' = {}
    /\ indegree' = Nothing /\ visited' = 0 /\ done' = {}
    /\ query' = NoQuery /\ seen' = {}

-----------------------------------------------------------------------------
Init ==
    /\ nodes = {} /\ edges = <<>>
    /\ answer = NoAnswer
    /\ outgoing = Nothing
    /\ phase = "idle"
    /\ queue = {}
    /\ indegree = Nothing /\ visited = 0 /\ done = {}
    /\ query = NoQuery /\ seen = {}

(* add_node refuses a known id and changes nothing. *)
AddNode(n) ==
    /\ phase = "idle"
    /\ n \notin nodes
    /\ nodes' = nodes \cup {n}
    /\ outgoing' = [m \in nodes \cup {n} |-> IF m = n THEN {} ELSE outgoing[m]]
    /\ UNCHANGED <<edges, answer, phase, queue, kahn, search>>

(* add_edge raises on an unknown endpoint or a self edge ... *)
RejectEndpoints(e) ==
    /\ phase = "idle"
    /\ e.source \notin nodes \/ e.target \notin nodes \/ e.source = e.target
    /\ answer' = [edge |-> e, added |-> FALSE]
    /\ UNCHANGED <<graph, phase, queue, kahn, search>>

(* Mutant of Indegrees: the counts are those before the edge was appended. *)
IndegreesBefore(list) ==
    [n \in nodes |-> Cardinality({i \in 1..(Len(list) - 1) : list[i].target = n})]

(* The indegrees and the first queue of assert_acyclic. *)
Indegrees(list) ==
    [n \in nodes |-> Cardinality({i \in DOMAIN list : list[i].target = n})]

(* ... and otherwise appends the edge and starts assert_acyclic. *)
AppendEdge(e) ==
    /\ phase = "idle"
    /\ e.source \in nodes /\ e.target \in nodes /\ e.source # e.target
    /\ Len(edges) < MaxEdges
    /\ edges' = Append(edges, e)
    /\ outgoing' = [outgoing EXCEPT ![e.source] = @ \cup {Len(edges) + 1}]
    /\ phase' = "checking"
    /\ indegree' = Indegrees(edges')
    /\ queue' = {n \in nodes : indegree'[n] = 0}
    /\ visited' = 0 /\ done' = {}
    /\ UNCHANGED <<nodes, answer, search>>

EdgesTo(current, n) == {i \in outgoing[current] : Target(i) = n}

(* One node leaves the queue, and its edges are counted down.  The queue   *)
(* holds a node at most once and the verdict must not depend on its order: *)
(* any member may be next.                                                 *)
CountDown ==
    /\ phase = "checking"
    /\ \E current \in queue :
          /\ indegree' = [n \in nodes |->
                             indegree[n] - Cardinality(EdgesTo(current, n))]
          /\ queue' = (queue \ {current})
                        \cup {n \in nodes : EdgesTo(current, n) # {} /\ indegree'[n] = 0}
          /\ visited' = visited + 1
          /\ done' = done \cup {current}
    /\ UNCHANGED <<graph, answer, phase, search>>

LastEdge == edges[Len(edges)]

AcceptEdge ==
    /\ phase = "checking" /\ queue = {}
    /\ visited = Cardinality(nodes)
    /\ answer' = [edge |-> LastEdge, added |-> TRUE]
    /\ phase' = "idle"
    /\ NoCall
    /\ UNCHANGED graph

(* The ValueError handler of add_edge. *)
TakeBackEdge ==
    /\ phase = "checking" /\ queue = {}
    /\ visited # Cardinality(nodes)
    /\ edges' = SubSeq(edges, 1, Len(edges) - 1)
    /\ outgoing' = [outgoing EXCEPT ![LastEdge.source] = Popped(@)]
    /\ answer' = [edge |-> LastEdge, added |-> FALSE]
    /\ phase' = "idle"
    /\ NoCall
    /\ UNCHANGED nodes

(* descendants(n, edge_kinds); None stands for every kind. *)
BeginSearch(n, kinds) ==
    /\ phase = "idle"
    /\ n \in nodes
    /\ phase' = "searching"
    /\ query' = [node |-> n, kinds |-> kinds]
    /\ seen' = {}
    /\ queue' = {n}
    /\ UNCHANGED <<graph, answer, kahn>>

(* Mutant of Successors: the kinds are not looked at. *)
SuccessorsByAnyKind(current, kinds) == {Target(i) : i \in outgoing[current]}

Successors(current, kinds) ==
    {Target(i) : i \in {j \in outgoing[current] : edges[j].kind \in kinds}}

Search ==
    /\ phase = "searching"
    /\ \E current \in queue :
          LET new == Successors(current, query.kinds) \ seen
          IN  /\ seen' = seen \cup new
              /\ queue' = (queue \ {current}) \cup new
    /\ UNCHANGED <<graph, answer, phase, kahn, query>>

EndSearch ==
    /\ phase = "searching" /\ queue = {}
    /\ answer' = [node |-> query.node, kinds |-> query.kinds, result |-> seen]
    /\ phase' = "idle"
    /\ NoCall
    /\ UNCHANGED graph

Next ==
    \/ \E n \in Node : AddNode(n)
    \/ \E e \in Edge : RejectEndpoints(e) \/ AppendEdge(e)
    \/ CountDown \/ AcceptEdge \/ TakeBackEdge
    \/ \E n \in Node, kinds \in SUBSET Kind : BeginSearch(n, kinds)
    \/ Search \/ EndSearch

Spec == Init /\ [][Next]_vars

-----------------------------------------------------------------------------
(* Properties. *)

(* The types of the lists and of the loop variables: adjacency lists hold  *)
(* edges of the list only.                                                 *)
TypeOK ==
    /\ nodes \subseteq Node
    /\ edges \in Seq(Edge) /\ Len(edges) <= MaxEdges
    /\ outgoing \in [nodes -> SUBSET Indices]
    /\ phase \in {"idle", "checking", "searching"}
    /\ \/ answer = NoAnswer
       \/ answer \in [edge : Edge, added : BOOLEAN]
       \/ answer \in [node : nodes, kinds : SUBSET Kind, result : SUBSET nodes]
    /\ queue \subseteq nodes /\ done \subseteq nodes /\ seen \subseteq nodes
    /\ phase = "checking" => indegree \in [nodes -> Nat] /\ visited \in Nat
    /\ phase = "searching" => query \in [node : nodes, kinds : SUBSET Kind]

(***************************************************************************)
(* The two lists describe one graph, also while an edge is being tried and *)
(* after it has been taken back.                                           *)
(***************************************************************************)
ListsAgree ==
    /\ \A i \in Indices : Source(i) \in nodes /\ Target(i) \in nodes
    /\ \A n \in nodes : outgoing[n] = {i \in Indices : Source(i) = n}

(***************************************************************************)
(* The count-down never lets a cycle in: between calls no set of nodes has *)
(* all its members preceded by members.                                    *)
(***************************************************************************)
GraphIsAcyclic == phase # "checking" => NoCycle(edges)

(***************************************************************************)
(* The graph implements EventDag when the edge on trial is not counted: a  *)
(* call takes effect at its end or never, an edge is refused exactly when  *)
(* its source is reachable from its target, and descendants answers with   *)
(* the nodes reachable along the given kinds.                              *)
(***************************************************************************)
Committed == IF phase = "checking" THEN SubSeq(edges, 1, Len(edges) - 1) ELSE edges

Dag == INSTANCE EventDag WITH edges <- Committed

ImplementsDag == Dag!Spec
=============================================================================
