-------------------------- MODULE EventGraphProofs --------------------------
(***************************************************************************)
(* For every set of node ids and of edge kinds and every bound on the      *)
(* number of edges: EventGraph keeps its two lists in agreement, never     *)
(* lets a cycle in, and implements EventDag.                               *)
(***************************************************************************)
EXTENDS EventGraph, FiniteSetTheorems, SequenceTheorems, TLAPS

-----------------------------------------------------------------------------
(* Reachability. *)

LEMMA MembersAreEdges ==
    ASSUME NEW list \in Seq(Edge)
    PROVE  \A i \in DOMAIN list :
              /\ list[i] \in Edge
              /\ list[i].source \in Node /\ list[i].target \in Node
              /\ list[i].kind \in Kind
<1>1. \A i \in DOMAIN list : list[i] \in Edge
    OBVIOUS
<1> QED
    BY <1>1 DEF Edge

(* An edge of a wanted kind reaches its target. *)
LEMMA ReachesByEdge ==
    ASSUME NEW list \in Seq(Edge), NEW kinds, NEW i \in DOMAIN list,
           list[i].kind \in kinds
    PROVE  Reaches(list, kinds, list[i].source, list[i].target)
BY DEF Reaches, Covers

(* Reachability can be extended by an edge at its far end ... *)
LEMMA ReachesThenEdge ==
    ASSUME NEW list \in Seq(Edge), NEW kinds, NEW x, NEW i \in DOMAIN list,
           list[i].kind \in kinds, Reaches(list, kinds, x, list[i].source)
    PROVE  Reaches(list, kinds, x, list[i].target)
BY DEF Reaches, Covers, IsClosed

(* ... and at its near end. *)
LEMMA EdgeThenReaches ==
    ASSUME NEW list \in Seq(Edge), NEW kinds, NEW y, NEW i \in DOMAIN list,
           list[i].kind \in kinds, Reaches(list, kinds, list[i].target, y)
    PROVE  Reaches(list, kinds, list[i].source, y)
BY DEF Reaches, Covers, IsClosed

(* What is reached is the target of an edge from x or from another node    *)
(* that x reaches.                                                         *)
LEMMA LastEdgeOfPath ==
    ASSUME NEW list \in Seq(Edge), NEW kinds, NEW x, NEW y \in Node,
           Reaches(list, kinds, x, y)
    PROVE  \E i \in DOMAIN list :
              /\ list[i].kind \in kinds
              /\ list[i].target = y
              /\ list[i].source = x \/ Reaches(list, kinds, x, list[i].source)
<1> DEFINE S == {z \in Node : Reaches(list, kinds, x, z)} \ {y}
<1> SUFFICES ASSUME ~ \E i \in DOMAIN list :
                        /\ list[i].kind \in kinds
                        /\ list[i].target = y
                        /\ list[i].source = x \/ Reaches(list, kinds, x, list[i].source)
             PROVE  FALSE
    OBVIOUS
<1>1. \A i \in DOMAIN list : list[i].target \in Node
    BY MembersAreEdges
<1>2. ASSUME NEW i \in DOMAIN list, list[i].source \in S, list[i].kind \in kinds
      PROVE  list[i].target \in S
    BY <1>1, <1>2, ReachesThenEdge
<1>3. ASSUME NEW i \in DOMAIN list, list[i].source = x, list[i].kind \in kinds
      PROVE  list[i].target \in S
    BY <1>1, <1>3, ReachesByEdge
<1>4. S \in SUBSET Node /\ Covers(list, kinds, x, S)
    BY <1>2, <1>3 DEF Covers, IsClosed
<1> QED
    BY <1>4 DEF Reaches

(***************************************************************************)
(* Adding an edge to an acyclic graph closes a cycle exactly if its source *)
(* could already be reached from its target.                               *)
(***************************************************************************)
LEMMA ReachableClosesCycle ==
    ASSUME NEW list \in Seq(Edge), NEW e \in Edge,
           Reaches(list, Kind, e.target, e.source)
    PROVE  ~NoCycle(Append(list, e))
<1> DEFINE long == Append(list, e)
           After(x) == x = e.target \/ Reaches(list, Kind, e.target, x)
           Before(x) == x = e.source \/ Reaches(list, Kind, x, e.source)
           S == {x \in Node : After(x) /\ Before(x)}
<1>1. /\ long \in Seq(Edge)
      /\ DOMAIN long = 1..(Len(list) + 1) /\ DOMAIN list = 1..Len(list)
      /\ \A i \in DOMAIN list : i \in DOMAIN long /\ long[i] = list[i]
      /\ long[Len(list) + 1] = e
    BY AppendProperties
<1>2. \A i \in DOMAIN list : list[i].source \in Node /\ list[i].kind \in Kind
    BY MembersAreEdges
<1>3. e.source \in S /\ e.target \in S
    BY DEF Edge
<1>4. ASSUME NEW x \in S
      PROVE  \E i \in DOMAIN long : long[i].target = x /\ long[i].source \in S
  <2>1. CASE x = e.target
      BY <1>1, <1>3, <2>1
  <2>2. CASE x # e.target
    <3>1. Reaches(list, Kind, e.target, x)
        BY <2>2
    <3>2. PICK i \in DOMAIN list :
              /\ list[i].kind \in Kind
              /\ list[i].target = x
              /\ \/ list[i].source = e.target
                 \/ Reaches(list, Kind, e.target, list[i].source)
        BY <3>1, LastEdgeOfPath
    <3>3. Before(list[i].source)
      <4>1. CASE x = e.source
          BY <3>2, <4>1, ReachesByEdge
      <4>2. CASE Reaches(list, Kind, x, e.source)
          BY <3>2, <4>2, EdgeThenReaches
      <4> QED
          BY <4>1, <4>2
    <3>4. list[i].source \in S
        BY <1>2, <3>2, <3>3
    <3> QED
        BY <1>1, <3>2, <3>4
  <2> QED
      BY <2>1, <2>2
<1> QED
    BY <1>3, <1>4 DEF NoCycle, IsPreceded

LEMMA CycleNeedsReachable ==
    ASSUME NEW list \in Seq(Edge), NEW e \in Edge,
           NoCycle(list), ~NoCycle(Append(list, e))
    PROVE  Reaches(list, Kind, e.target, e.source) \/ e.source = e.target
<1> DEFINE long == Append(list, e)
           After(x) == x = e.target \/ Reaches(list, Kind, e.target, x)
<1>1. /\ DOMAIN long = 1..(Len(list) + 1) /\ DOMAIN list = 1..Len(list)
      /\ \A i \in DOMAIN list : long[i] = list[i]
      /\ long[Len(list) + 1] = e
    BY AppendProperties
<1>2. \A i \in DOMAIN list : list[i].source \in Node /\ list[i].kind \in Kind
    BY MembersAreEdges
<1>3. PICK S \in SUBSET Node : IsPreceded(long, S) /\ S # {}
    BY DEF NoCycle
<1> DEFINE T == {x \in S : ~After(x)}
<1>4. IsPreceded(list, T)
  <2> SUFFICES ASSUME NEW x \in T
               PROVE  \E i \in DOMAIN list : list[i].target = x /\ list[i].source \in T
      BY DEF IsPreceded
  <2>1. PICK i \in DOMAIN long : long[i].target = x /\ long[i].source \in S
      BY <1>3 DEF IsPreceded
  <2>2. i \in DOMAIN list
      BY <1>1, <2>1
  <2>3. list[i].target = x /\ list[i].source \in S
      BY <1>1, <2>1, <2>2
  <2>4. ~After(list[i].source)
    <3>1. CASE list[i].source = e.target
        BY <1>2, <2>2, <2>3, <3>1, ReachesByEdge
    <3>2. CASE Reaches(list, Kind, e.target, list[i].source)
        BY <1>2, <2>2, <2>3, <3>2, ReachesThenEdge
    <3> QED
        BY <3>1, <3>2
  <2> QED
      BY <2>2, <2>3, <2>4
<1>5. T = {}
    BY <1>4 DEF NoCycle
<1>6. ~IsPreceded(list, S)
    BY <1>3 DEF NoCycle
<1>7. e.source \in S
    BY <1>1, <1>3, <1>6 DEF IsPreceded
<1> QED
    BY <1>5, <1>7
(* The list without its last edge. *)
Shorter(list) == SubSeq(list, 1, Len(list) - 1)

LEMMA FrontFacts ==
    ASSUME NEW list \in Seq(Edge), Len(list) > 0
    PROVE  /\ Shorter(list) \in Seq(Edge)
           /\ Len(Shorter(list)) = Len(list) - 1
           /\ \A i \in 1..(Len(list) - 1) : Shorter(list)[i] = list[i]
           /\ list[Len(list)] \in Edge
           /\ Append(Shorter(list), list[Len(list)]) = list
<1> DEFINE n == Len(list)
           front == SubSeq(list, 1, n - 1)
<1>1. n \in Nat \ {0} /\ \A i \in 1..n : list[i] \in Edge
    OBVIOUS
<1>2. /\ front \in Seq(Edge)
      /\ Len(front) = IF 1 <= n - 1 THEN (n - 1) - 1 + 1 ELSE 0
      /\ \A i \in 1..((n - 1) - 1 + 1) : front[i] = list[1 + i - 1]
  <2>1. \A i \in 1..(n - 1) : list[i] \in Edge
      BY <1>1
  <2>2. 1 \in Int /\ n - 1 \in Int
      BY <1>1
  <2> HIDE DEF n
  <2> QED
      BY <2>1, <2>2, SubSeqProperties
<1>3. front \o <<list[n]>> = SubSeq(list, 1, n)
    BY <1>1, SubSeqRecursiveSecond
<1>4. SubSeq(list, 1, n) = list
    BY SubSeqFull
<1>5. Append(front, list[n]) = front \o <<list[n]>>
    BY <1>1, <1>2, AppendIsConcat
<1>6. Shorter(list) = front
    BY DEF Shorter
<1> HIDE DEF n, front
<1>7. Len(front) = n - 1 /\ \A i \in 1..(n - 1) : front[i] = list[i]
    BY <1>1, <1>2
<1>8. Append(front, list[n]) = list
    BY <1>3, <1>4, <1>5
<1>9. list[n] \in Edge
    BY <1>1
<1> QED
    BY <1>2, <1>6, <1>7, <1>8, <1>9 DEF n

-----------------------------------------------------------------------------
(* The inductive invariant. *)

(* Edges into n from nodes that have not been taken off the queue. *)
Pending(n) == {i \in Indices : Target(i) = n /\ Source(i) \notin done}

(***************************************************************************)
(* The count-down knows how many edges of each node are pending, its queue *)
(* holds exactly the nodes with none that it has not taken off, and no     *)
(* node of a cycle has been queued.                                        *)
(***************************************************************************)
CountDownInv ==
    phase = "checking" =>
        /\ Len(edges) > 0
        /\ LastEdge.source # LastEdge.target
        /\ NoCycle(Committed)
        /\ visited = Cardinality(done)
        /\ queue \cap done = {}
        /\ \A n \in nodes : indegree[n] = Cardinality(Pending(n))
        /\ \A n \in nodes : n \in queue \cup done <=> Pending(n) = {}
        /\ \A S \in SUBSET Node : IsPreceded(edges, S) => S \cap (queue \cup done) = {}

(* The search has seen nodes that are reachable, and the successors of all *)
(* of them that are not queued.                                            *)
SearchInv ==
    phase = "searching" =>
        /\ \A m \in seen : Reaches(edges, query.kinds, query.node, m)
        /\ queue \subseteq seen \cup {query.node}
        /\ \A m \in (seen \cup {query.node}) \ queue :
              Successors(m, query.kinds) \subseteq seen

IInv ==
    /\ TypeOK
    /\ IsFiniteSet(nodes)
    /\ ListsAgree
    /\ GraphIsAcyclic
    /\ CountDownInv
    /\ SearchInv

(* Initially there is nothing. *)
LEMMA InitInv == Init => IInv
<1> SUFFICES ASSUME Init PROVE IInv
    OBVIOUS
<1>1. edges \in Seq(Edge) /\ Len(edges) = 0 /\ DOMAIN edges = {}
    BY DEF Init
<1>2. TypeOK
    BY <1>1, MaxEdgesAssumption DEF Init, TypeOK, Nothing, Indices
<1>3. IsFiniteSet(nodes)
    BY FS_EmptySet DEF Init
<1>4. ListsAgree
    BY <1>1 DEF Init, ListsAgree, Indices
<1>5. NoCycle(edges)
    BY <1>1 DEF NoCycle, IsPreceded
<1> QED
    BY <1>2, <1>3, <1>4, <1>5
    DEF IInv, GraphIsAcyclic, CountDownInv, SearchInv, Init

-----------------------------------------------------------------------------
(* Each action preserves it. *)

LEMMA AddNodeInv ==
    ASSUME IInv, NEW n \in Node, AddNode(n)
    PROVE  IInv'
<1> USE DEF AddNode, kahn, search
<1>1. TypeOK'
    BY DEF IInv, TypeOK, Indices, Edge
<1>2. IsFiniteSet(nodes')
    BY FS_AddElement DEF IInv
<1>3. ListsAgree'
    BY DEF IInv, TypeOK, ListsAgree, Indices, Source, Target
<1>4. GraphIsAcyclic'
    BY DEF IInv, GraphIsAcyclic
<1> QED
    BY <1>1, <1>2, <1>3, <1>4 DEF IInv, CountDownInv, SearchInv

LEMMA RejectEndpointsInv ==
    ASSUME IInv, NEW e \in Edge, RejectEndpoints(e)
    PROVE  IInv'
<1> USE DEF RejectEndpoints, graph, kahn, search
<1>1. TypeOK'
    BY DEF IInv, TypeOK, Indices
<1>2. ListsAgree' /\ GraphIsAcyclic' /\ IsFiniteSet(nodes')
    BY DEF IInv, ListsAgree, Indices, Source, Target, GraphIsAcyclic
<1> QED
    BY <1>1, <1>2 DEF IInv, CountDownInv, SearchInv

(* Appending an edge on trial leaves the committed list alone. *)
LEMMA AppendEdgeCommits ==
    ASSUME IInv, NEW e \in Edge, AppendEdge(e)
    PROVE  Committed' = edges
<1>1. /\ edges \in Seq(Edge) /\ Len(edges) \in Nat
      /\ edges' = Append(edges, e) /\ Len(edges') = Len(edges) + 1
    BY AppendProperties DEF AppendEdge, IInv, TypeOK
<1>2. Committed' = SubSeq(edges', 1, Len(edges))
    BY <1>1 DEF AppendEdge, Committed
<1>3. edges' = edges \o <<e>> /\ <<e>> \in Seq(Edge)
    BY <1>1, AppendIsConcat
<1>4. CASE Len(edges) = 0
  <2>1. Committed' = <<>>
      BY <1>1, <1>2, <1>4, SubSeqEmpty
  <2>2. edges = <<>>
      BY <1>1, <1>4
  <2> QED
      BY <2>1, <2>2
<1>5. CASE Len(edges) > 0
  <2>1. SubSeq(edges', 1, Len(edges)) = SubSeq(edges, 1, Len(edges))
      BY <1>1, <1>3, <1>5, SubSeqOfConcat1
  <2> QED
      BY <1>1, <1>2, <2>1, SubSeqFull
<1> QED
    BY <1>1, <1>4, <1>5

LEMMA AppendEdgeInv ==
    ASSUME IInv, NEW e \in Edge, AppendEdge(e)
    PROVE  IInv'
<1> USE DEF AppendEdge, search
<1>1. /\ edges' \in Seq(Edge) /\ Len(edges') = Len(edges) + 1
      /\ DOMAIN edges = 1..Len(edges) /\ DOMAIN edges' = 1..(Len(edges) + 1)
      /\ Len(edges) \in Nat
      /\ \A i \in DOMAIN edges : edges'[i] = edges[i]
      /\ edges'[Len(edges) + 1] = e
    BY AppendProperties DEF IInv, TypeOK
<1>2. \A n \in nodes : {i \in DOMAIN edges' : edges'[i].target = n} = Pending(n)'
    BY DEF Pending, Indices, Target
<1>3. \A n \in nodes :
        /\ IsFiniteSet(Pending(n)')
        /\ indegree'[n] = Cardinality(Pending(n)')
        /\ Cardinality(Pending(n)') \in Nat
        /\ Cardinality(Pending(n)') = 0 <=> Pending(n)' = {}
  <2> TAKE n \in nodes
  <2>1. IsFiniteSet(Pending(n)')
    <3>1. Pending(n)' \subseteq 1..(Len(edges) + 1)
        BY <1>1 DEF Pending, Indices
    <3>2. IsFiniteSet(1..(Len(edges) + 1))
        BY <1>1, FS_Interval
    <3> QED
        BY <3>1, <3>2, FS_Subset
  <2> QED
      BY <1>2, <2>1, FS_CardinalityType, FS_EmptySet DEF Indegrees
<1>4. ListsAgree'
  <2>1. \A i \in Indices' : Source(i)' \in nodes /\ Target(i)' \in nodes
      BY <1>1 DEF IInv, ListsAgree, Indices, Source, Target
  <2>2. ASSUME NEW n \in nodes
        PROVE  outgoing'[n] = {i \in Indices' : Source(i)' = n}
    <3>1. outgoing[n] = {i \in Indices : Source(i) = n}
        BY DEF IInv, ListsAgree
    <3>2. outgoing'[n] = IF n = e.source THEN outgoing[n] \cup {Len(edges) + 1}
                                         ELSE outgoing[n]
        BY DEF IInv, TypeOK
    <3> QED
        BY <1>1, <3>1, <3>2 DEF Indices, Source
  <2> QED
      BY <2>1, <2>2 DEF ListsAgree
<1>5. TypeOK'
  <2>1. outgoing' \in [nodes -> SUBSET Indices']
    <3>1. DOMAIN outgoing' = nodes /\ outgoing' = [n \in nodes |-> outgoing'[n]]
        BY DEF IInv, TypeOK
    <3>2. \A n \in nodes : outgoing'[n] \subseteq Indices'
        BY <1>4 DEF ListsAgree
    <3> QED
        BY <3>1, <3>2
  <2>2. indegree' \in [nodes' -> Nat]
      BY <1>2, <1>3 DEF Indegrees
  <2>3. Len(edges') <= MaxEdges
      BY <1>1, MaxEdgesAssumption
  <2>4. queue' \subseteq nodes' /\ done' \subseteq nodes' /\ visited' \in Nat
      OBVIOUS
  <2> QED
      BY <1>1, <2>1, <2>2, <2>3, <2>4 DEF IInv, TypeOK
<1>6. CountDownInv'
  <2>1. Len(edges') > 0 /\ LastEdge' = e /\ LastEdge'.source # LastEdge'.target
      BY <1>1 DEF LastEdge
  <2>2. Committed' = edges
      BY <1>1, AppendEdgeCommits
  <2>3. NoCycle(Committed')
      BY <2>2 DEF IInv, GraphIsAcyclic
  <2>4. visited' = Cardinality(done')
      BY FS_EmptySet
  <2>5. \A n \in nodes : n \in queue' \cup done' <=> Pending(n)' = {}
      BY <1>3
  <2>6. ASSUME NEW S \in SUBSET Node, IsPreceded(edges', S)
        PROVE  S \cap (queue' \cup done') = {}
    <3> SUFFICES ASSUME NEW x \in S, x \in queue'
                 PROVE  FALSE
        OBVIOUS
    <3>1. PICK i \in DOMAIN edges' : edges'[i].target = x
        BY <2>6 DEF IsPreceded
    <3>2. i \in Pending(x)'
        BY <3>1 DEF Pending, Indices, Target
    <3> QED
        BY <1>3, <3>2
  <2> QED
      BY <1>3, <2>1, <2>3, <2>4, <2>5, <2>6 DEF CountDownInv
<1> QED
    BY <1>4, <1>5, <1>6 DEF IInv, GraphIsAcyclic, SearchInv
(* The adjacency lists give the edges between two nodes and the successors *)
(* of a node.                                                              *)
LEMMA ListFacts ==
    ASSUME IInv, NEW m \in nodes
    PROVE  /\ \A n : EdgesTo(m, n) = {i \in Indices : Source(i) = m /\ Target(i) = n}
           /\ \A kinds : Successors(m, kinds) =
                {Target(i) : i \in {j \in Indices : Source(j) = m /\ edges[j].kind \in kinds}}
<1>1. outgoing[m] = {i \in Indices : Source(i) = m}
    BY DEF IInv, ListsAgree
<1> QED
    BY <1>1 DEF EdgesTo, Successors

LEMMA CountDownPreserves ==
    ASSUME IInv, CountDown
    PROVE  IInv'
<1> USE DEF graph, search
<1>1. PICK current \in queue :
        /\ indegree' = [n \in nodes |-> indegree[n] - Cardinality(EdgesTo(current, n))]
        /\ queue' = (queue \ {current})
                      \cup {n \in nodes : EdgesTo(current, n) # {} /\ indegree'[n] = 0}
        /\ visited' = visited + 1
        /\ done' = done \cup {current}
    BY DEF CountDown
<1>2. /\ phase = "checking" /\ phase' = "checking"
      /\ nodes' = nodes /\ edges' = edges /\ outgoing' = outgoing /\ answer' = answer
      /\ current \in nodes /\ current \notin done
      /\ queue \subseteq nodes /\ done \subseteq nodes
      /\ Len(edges) \in Nat /\ Indices = 1..Len(edges)
    BY DEF CountDown, IInv, TypeOK, CountDownInv, Indices
<1>3. /\ \A n \in nodes : indegree[n] = Cardinality(Pending(n))
      /\ \A n \in nodes : n \in queue \cup done <=> Pending(n) = {}
      /\ \A S \in SUBSET Node : IsPreceded(edges, S) => S \cap (queue \cup done) = {}
      /\ visited = Cardinality(done) /\ queue \cap done = {}
    BY <1>2 DEF IInv, CountDownInv
<1>4. ASSUME NEW n \in nodes
      PROVE  /\ EdgesTo(current, n) \subseteq Pending(n)
             /\ Pending(n)' = Pending(n) \ EdgesTo(current, n)
             /\ indegree'[n] = Cardinality(Pending(n)')
             /\ indegree'[n] \in Nat
             /\ indegree'[n] = 0 <=> Pending(n)' = {}
  <2>1. /\ EdgesTo(current, n) \subseteq Pending(n)
        /\ Pending(n)' = Pending(n) \ EdgesTo(current, n)
      BY <1>1, <1>2, ListFacts DEF Pending, Indices, Source, Target
  <2>2. IsFiniteSet(Pending(n))
    <3>1. Pending(n) \subseteq 1..Len(edges)
        BY <1>2 DEF Pending
    <3>2. IsFiniteSet(1..Len(edges))
        BY <1>2, FS_Interval
    <3> QED
        BY <3>1, <3>2, FS_Subset
  <2>3. /\ IsFiniteSet(Pending(n)')
        /\ Cardinality(Pending(n)') =
             Cardinality(Pending(n)) - Cardinality(Pending(n) \cap EdgesTo(current, n))
      BY <2>1, <2>2, FS_Difference
  <2>4. Pending(n) \cap EdgesTo(current, n) = EdgesTo(current, n)
      BY <2>1
  <2>5. indegree'[n] = Cardinality(Pending(n)')
      BY <1>1, <1>3, <2>3, <2>4
  <2> QED
      BY <2>1, <2>3, <2>5, FS_CardinalityType, FS_EmptySet
<1>5. \A n \in nodes : n \in queue' \cup done' <=> Pending(n)' = {}
  <2> TAKE n \in nodes
  <2>1. CASE EdgesTo(current, n) = {}
      BY <1>1, <1>2, <1>3, <1>4, <2>1
  <2>2. CASE EdgesTo(current, n) # {}
      BY <1>1, <1>2, <1>3, <1>4, <2>2
  <2> QED
      BY <2>1, <2>2
<1>6. queue' \cap done' = {}
    BY <1>1, <1>2, <1>3, <1>4
<1>7. ASSUME NEW S \in SUBSET Node, IsPreceded(edges', S)
      PROVE  S \cap (queue' \cup done') = {}
  <2>1. S \cap (queue \cup done) = {}
      BY <1>2, <1>3, <1>7
  <2> SUFFICES ASSUME NEW n \in S, n \in queue', n \notin queue
               PROVE  FALSE
      BY <1>1, <2>1
  <2>2. n \in nodes /\ Pending(n)' = {}
      BY <1>1, <1>2, <1>5
  <2>3. PICK i \in Indices : Target(i) = n /\ Source(i) \in S
      BY <1>2, <1>7 DEF IsPreceded, Indices, Source, Target
  <2>4. Source(i) \in done'
      BY <1>2, <2>2, <2>3 DEF Pending, Indices, Source, Target
  <2> QED
      BY <1>1, <2>1, <2>3, <2>4
<1>8. visited' = Cardinality(done') /\ visited' \in Nat
  <2>1. IsFiniteSet(done)
      BY <1>2, FS_Subset DEF IInv
  <2> QED
      BY <1>1, <1>2, <1>3, <2>1, FS_AddElement, FS_CardinalityType
<1>9. CountDownInv'
    BY <1>2, <1>3, <1>4, <1>5, <1>6, <1>7, <1>8
    DEF IInv, CountDownInv, LastEdge, Committed
<1>10. TypeOK'
  <2>1. indegree' \in [nodes' -> Nat]
      BY <1>1, <1>2, <1>4
  <2>2. queue' \subseteq nodes' /\ done' \subseteq nodes'
      BY <1>1, <1>2
  <2> QED
      BY <1>2, <1>8, <2>1, <2>2 DEF CountDown, IInv, TypeOK, Indices
<1>11. ListsAgree'
    BY <1>2 DEF IInv, ListsAgree, Indices, Source, Target
<1> QED
    BY <1>2, <1>9, <1>10, <1>11 DEF IInv, GraphIsAcyclic, SearchInv

(* The verdict: all nodes are counted exactly if there is no cycle. *)
LEMMA VerdictIsExact ==
    ASSUME IInv, phase = "checking", queue = {}
    PROVE  visited = Cardinality(nodes) <=> NoCycle(edges)
<1>1. /\ done \subseteq nodes /\ nodes \subseteq Node /\ IsFiniteSet(nodes)
      /\ visited = Cardinality(done)
      /\ \A n \in nodes : n \in done <=> Pending(n) = {}
      /\ \A S \in SUBSET Node : IsPreceded(edges, S) => S \cap done = {}
      /\ \A i \in Indices : Source(i) \in nodes /\ Target(i) \in nodes
    BY DEF IInv, TypeOK, CountDownInv, ListsAgree
<1>2. ASSUME visited = Cardinality(nodes)
      PROVE  NoCycle(edges)
  <2>1. done = nodes
      BY <1>1, <1>2, FS_Subset
  <2> SUFFICES ASSUME NEW S \in SUBSET Node, IsPreceded(edges, S)
               PROVE  S = {}
      BY DEF NoCycle
  <2>2. S \subseteq nodes
      BY <1>1 DEF IsPreceded, Indices, Source, Target
  <2> QED
      BY <1>1, <2>1, <2>2
<1>3. ASSUME NoCycle(edges)
      PROVE  visited = Cardinality(nodes)
  <2>1. IsPreceded(edges, nodes \ done)
      BY <1>1 DEF IsPreceded, Pending, Indices, Source, Target
  <2>2. nodes \ done = {}
      BY <1>1, <1>3, <2>1 DEF NoCycle
  <2> QED
      BY <1>1, <2>2
<1> QED
    BY <1>2, <1>3
LEMMA AcceptEdgeInv ==
    ASSUME IInv, AcceptEdge
    PROVE  IInv'
<1> USE DEF AcceptEdge, NoCall, graph
<1>1. Len(edges) > 0 /\ LastEdge \in Edge
    BY FrontFacts DEF IInv, TypeOK, CountDownInv, LastEdge
<1>2. TypeOK'
    BY <1>1 DEF IInv, TypeOK, Indices
<1>3. NoCycle(edges')
    BY VerdictIsExact
<1>4. ListsAgree'
    BY DEF IInv, ListsAgree, Indices, Source, Target
<1> QED
    BY <1>2, <1>3, <1>4 DEF IInv, GraphIsAcyclic, CountDownInv, SearchInv

LEMMA TakeBackEdgeInv ==
    ASSUME IInv, TakeBackEdge
    PROVE  IInv'
<1> USE DEF TakeBackEdge, NoCall
<1>1. /\ edges \in Seq(Edge) /\ Len(edges) \in Nat \ {0} /\ Len(edges) <= MaxEdges
      /\ NoCycle(Committed) /\ phase = "checking"
      /\ outgoing \in [nodes -> SUBSET Indices]
    BY DEF IInv, TypeOK, CountDownInv
<1>2. /\ edges' \in Seq(Edge) /\ Len(edges') = Len(edges) - 1
      /\ \A i \in 1..(Len(edges) - 1) : edges'[i] = edges[i]
      /\ LastEdge \in Edge
      /\ DOMAIN edges = 1..Len(edges) /\ DOMAIN edges' = 1..(Len(edges) - 1)
    BY <1>1, FrontFacts DEF Shorter, LastEdge
<1>3. NoCycle(edges')
    BY <1>1 DEF Committed
<1>4. \A n \in nodes : outgoing[n] = {i \in 1..Len(edges) : Source(i) = n}
    BY <1>2 DEF IInv, ListsAgree, Indices
<1>5. ListsAgree'
  <2>1. \A i \in Indices' : Source(i)' \in nodes /\ Target(i)' \in nodes
      BY <1>1, <1>2 DEF IInv, ListsAgree, Indices, Source, Target
  <2>2. ASSUME NEW n \in nodes
        PROVE  outgoing'[n] = {i \in Indices' : Source(i)' = n}
    <3>1. CASE n = LastEdge.source
      <4>1. outgoing'[n] = Popped(outgoing[n])
          BY <1>1, <3>1
      <4>2. Len(edges) \in outgoing[n] /\ outgoing[n] \subseteq 1..Len(edges)
          BY <1>1, <1>4, <3>1 DEF LastEdge, Source
      <4>3. Popped(outgoing[n]) = outgoing[n] \ {Len(edges)}
          BY <1>1, <4>2 DEF Popped
      <4> QED
          BY <1>1, <1>2, <1>4, <4>1, <4>3 DEF Indices, Source
    <3>2. CASE n # LastEdge.source
      <4>1. outgoing'[n] = outgoing[n]
          BY <1>1, <3>2
      <4> QED
          BY <1>1, <1>2, <1>4, <3>2, <4>1 DEF Indices, Source, LastEdge
    <3> QED
        BY <3>1, <3>2
  <2> QED
      BY <2>1, <2>2 DEF ListsAgree
<1>6. TypeOK'
  <2>1. outgoing' \in [nodes' -> SUBSET Indices']
    <3>1. outgoing' = [n \in nodes |-> outgoing'[n]]
        BY <1>1
    <3> QED
        BY <3>1, <1>5 DEF ListsAgree
  <2> QED
      BY <1>1, <1>2, <2>1, MaxEdgesAssumption DEF IInv, TypeOK
<1> QED
    BY <1>3, <1>5, <1>6 DEF IInv, GraphIsAcyclic, CountDownInv, SearchInv

LEMMA BeginSearchInv ==
    ASSUME IInv, NEW n \in Node, NEW kinds \in SUBSET Kind, BeginSearch(n, kinds)
    PROVE  IInv'
<1> USE DEF BeginSearch, graph, kahn
<1>1. TypeOK'
    BY DEF IInv, TypeOK, Indices
<1>2. SearchInv'
    BY DEF SearchInv
<1>3. ListsAgree' /\ GraphIsAcyclic' /\ IsFiniteSet(nodes')
    BY DEF IInv, ListsAgree, Indices, Source, Target, GraphIsAcyclic
<1> QED
    BY <1>1, <1>2, <1>3 DEF IInv, CountDownInv

LEMMA SearchPreserves ==
    ASSUME IInv, Search
    PROVE  IInv'
<1> USE DEF graph, kahn
<1> DEFINE new(m) == Successors(m, query.kinds) \ seen
<1>1. PICK current \in queue :
        /\ seen' = seen \cup new(current)
        /\ queue' = (queue \ {current}) \cup new(current)
    BY DEF Search
<1>2. /\ phase = "searching" /\ phase' = "searching" /\ query' = query
      /\ nodes' = nodes /\ edges' = edges /\ outgoing' = outgoing
      /\ current \in nodes /\ edges \in Seq(Edge) /\ queue \subseteq nodes
      /\ query \in [node : nodes, kinds : SUBSET Kind]
      /\ queue \subseteq seen \cup {query.node}
      /\ \A m \in seen : Reaches(edges, query.kinds, query.node, m)
    BY DEF Search, IInv, TypeOK, SearchInv
<1>3. \A m \in nodes : Successors(m, query.kinds)' = Successors(m, query.kinds)
    BY <1>2 DEF Successors, Target
<1>4. ASSUME NEW m \in Successors(current, query.kinds)
      PROVE  m \in nodes /\ Reaches(edges, query.kinds, query.node, m)
  <2>1. PICK i \in Indices : /\ Source(i) = current /\ Target(i) = m
                             /\ edges[i].kind \in query.kinds
      BY <1>2, ListFacts
  <2>2. m \in nodes
      BY <2>1 DEF IInv, ListsAgree
  <2>3. CASE current = query.node
      BY <1>2, <2>1, <2>2, <2>3, ReachesByEdge DEF Indices, Source, Target
  <2>4. CASE current \in seen
      BY <1>2, <2>1, <2>2, <2>4, ReachesThenEdge DEF Indices, Source, Target
  <2> QED
      BY <1>2, <2>3, <2>4
<1>5. TypeOK'
  <2>1. seen' \subseteq nodes /\ queue' \subseteq nodes
      BY <1>1, <1>2, <1>4 DEF IInv, TypeOK
  <2> QED
      BY <1>2, <2>1 DEF Search, IInv, TypeOK, Indices
<1>6. SearchInv'
  <2>1. \A m \in seen' : Reaches(edges', query'.kinds, query'.node, m)
      BY <1>1, <1>2, <1>4
  <2>2. queue' \subseteq seen' \cup {query'.node}
      BY <1>1, <1>2
  <2>3. ASSUME NEW m \in (seen' \cup {query'.node}) \ queue'
        PROVE  Successors(m, query.kinds) \subseteq seen'
    <3>1. CASE m = current
        BY <1>1, <3>1
    <3>2. CASE m # current
        BY <1>1, <1>2, <2>3, <3>2 DEF IInv, SearchInv
    <3> QED
        BY <3>1, <3>2
  <2>4. \A m \in seen' \cup {query'.node} : m \in nodes
      BY <1>1, <1>2, <1>4 DEF IInv, TypeOK
  <2> QED
      BY <1>2, <1>3, <2>1, <2>2, <2>3, <2>4 DEF SearchInv
<1>7. ListsAgree' /\ GraphIsAcyclic' /\ IsFiniteSet(nodes')
    BY <1>2 DEF IInv, ListsAgree, Indices, Source, Target, GraphIsAcyclic
<1> QED
    BY <1>2, <1>5, <1>6, <1>7 DEF IInv, CountDownInv

LEMMA EndSearchInv ==
    ASSUME IInv, EndSearch
    PROVE  IInv'
<1> USE DEF EndSearch, NoCall, graph
<1>1. TypeOK'
    BY DEF IInv, TypeOK, Indices
<1>2. ListsAgree' /\ GraphIsAcyclic' /\ IsFiniteSet(nodes')
    BY DEF IInv, ListsAgree, Indices, Source, Target, GraphIsAcyclic
<1> QED
    BY <1>1, <1>2 DEF IInv, CountDownInv, SearchInv

LEMMA StutterInv ==
    ASSUME IInv, UNCHANGED vars
    PROVE  IInv'
BY DEF vars, graph, kahn, search, IInv, TypeOK, ListsAgree, GraphIsAcyclic, CountDownInv,
       SearchInv, Indices, Source, Target, LastEdge, Committed, Pending, Successors

LEMMA StepInv == IInv /\ [Next]_vars => IInv'
<1> SUFFICES ASSUME IInv, [Next]_vars PROVE IInv'
    OBVIOUS
<1>1. ASSUME NEW n \in Node, AddNode(n) PROVE IInv'
    BY <1>1, AddNodeInv
<1>2. ASSUME NEW e \in Edge, RejectEndpoints(e) \/ AppendEdge(e) PROVE IInv'
    BY <1>2, RejectEndpointsInv, AppendEdgeInv
<1>3. CASE CountDown
    BY <1>3, CountDownPreserves
<1>4. CASE AcceptEdge \/ TakeBackEdge
    BY <1>4, AcceptEdgeInv, TakeBackEdgeInv
<1>5. ASSUME NEW n \in Node, NEW kinds \in SUBSET Kind, BeginSearch(n, kinds)
      PROVE  IInv'
    BY <1>5, BeginSearchInv
<1>6. CASE Search \/ EndSearch
    BY <1>6, SearchPreserves, EndSearchInv
<1>7. CASE UNCHANGED vars
    BY <1>7, StutterInv
<1> QED
    BY <1>1, <1>2, <1>3, <1>4, <1>5, <1>6, <1>7 DEF Next

LEMMA Invariance == Spec => []IInv
<1>1. Init => IInv
    BY InitInv
<1>2. IInv /\ [Next]_vars => IInv'
    BY StepInv
<1> QED
    BY <1>1, <1>2, PTL DEF Spec

(* The lists hold ids of the graph, and every loop variable its type. *)
THEOREM TypeCorrect == Spec => []TypeOK
<1>1. IInv => TypeOK
    BY DEF IInv
<1> QED
    BY <1>1, Invariance, PTL

(* The adjacency lists describe the edge list at every moment. *)
THEOREM ListsAlwaysAgree == Spec => []ListsAgree
<1>1. IInv => ListsAgree
    BY DEF IInv
<1> QED
    BY <1>1, Invariance, PTL

(* No call leaves a cycle behind. *)
THEOREM AlwaysAcyclic == Spec => []GraphIsAcyclic
<1>1. IInv => GraphIsAcyclic
    BY DEF IInv
<1> QED
    BY <1>1, Invariance, PTL

-----------------------------------------------------------------------------
(* Every step is a call of EventDag taking effect, or stutters. *)

LEMMA SameReaches ==
    \A list, kinds, x, y : Dag!Reaches(list, kinds, x, y) <=> Reaches(list, kinds, x, y)
BY DEF Dag!Reaches, Dag!Covers, Dag!IsClosed, Reaches, Covers, IsClosed

LEMMA InitRefines == Init => Dag!Init
BY DEF Init, Dag!Init, Committed, NoAnswer, Dag!NoAnswer

(* Steps inside a call. *)
LEMMA InnerSteps ==
    ASSUME IInv, (\E e \in Edge : AppendEdge(e)) \/ CountDown \/ Search
                    \/ (\E n \in Node, kinds \in SUBSET Kind : BeginSearch(n, kinds))
    PROVE  UNCHANGED Dag!vars
<1> USE DEF Dag!vars, graph, kahn, search
<1>1. ASSUME NEW e \in Edge, AppendEdge(e) PROVE UNCHANGED Dag!vars
    BY <1>1, AppendEdgeCommits DEF AppendEdge, Committed
<1>2. CASE CountDown
    BY <1>2 DEF CountDown, Committed
<1>3. CASE Search
    BY <1>3 DEF Search, Committed
<1>4. ASSUME NEW n \in Node, NEW kinds \in SUBSET Kind, BeginSearch(n, kinds)
      PROVE  UNCHANGED Dag!vars
    BY <1>4 DEF BeginSearch, Committed
<1> QED
    BY <1>1, <1>2, <1>3, <1>4

LEMMA AddNodeRefines ==
    ASSUME NEW n \in Node, AddNode(n)
    PROVE  Dag!AddNode(n)
BY DEF AddNode, Dag!AddNode, Committed

LEMMA RejectEndpointsRefines ==
    ASSUME NEW e \in Edge, RejectEndpoints(e)
    PROVE  Dag!RefuseEdge(e)
BY DEF RejectEndpoints, Dag!RefuseEdge, Dag!Accepts, Committed, graph

(* The edge on trial, and the list without it. *)
LEMMA Trial ==
    ASSUME IInv, phase = "checking"
    PROVE  /\ Committed \in Seq(Edge) /\ NoCycle(Committed)
           /\ LastEdge \in Edge /\ edges = Append(Committed, LastEdge)
           /\ LastEdge.source \in nodes /\ LastEdge.target \in nodes
           /\ LastEdge.source # LastEdge.target
<1>1. edges \in Seq(Edge) /\ Len(edges) > 0 /\ Len(edges) \in DOMAIN edges
    BY DEF IInv, TypeOK, CountDownInv
<1>2. Committed = Shorter(edges)
    BY DEF Committed, Shorter
<1> QED
    BY <1>1, <1>2, FrontFacts
    DEF IInv, CountDownInv, ListsAgree, LastEdge, Indices, Source, Target

LEMMA AcceptEdgeRefines ==
    ASSUME IInv, AcceptEdge
    PROVE  Dag!AddEdge(LastEdge)
<1>1. phase = "checking" /\ phase' = "idle" /\ NoCycle(edges)
    BY VerdictIsExact DEF AcceptEdge
<1>2. ~Reaches(Committed, Kind, LastEdge.target, LastEdge.source)
    BY <1>1, Trial, ReachableClosesCycle
<1>3. Dag!Accepts(LastEdge)
    BY <1>1, <1>2, Trial, SameReaches DEF Dag!Accepts
<1>4. Committed' = edges
    BY <1>1 DEF AcceptEdge, graph, Committed
<1> QED
    BY <1>1, <1>3, <1>4, Trial DEF Dag!AddEdge, AcceptEdge, graph

LEMMA TakeBackEdgeRefines ==
    ASSUME IInv, TakeBackEdge
    PROVE  Dag!RefuseEdge(LastEdge)
<1>1. phase = "checking" /\ phase' = "idle" /\ ~NoCycle(edges)
    BY VerdictIsExact DEF TakeBackEdge
<1>2. Reaches(Committed, Kind, LastEdge.target, LastEdge.source)
    BY <1>1, Trial, CycleNeedsReachable
<1>3. ~Dag!Accepts(LastEdge)
    BY <1>2, SameReaches DEF Dag!Accepts
<1>4. Committed' = Committed
    BY <1>1 DEF TakeBackEdge, Committed
<1> QED
    BY <1>1, <1>3, <1>4 DEF Dag!RefuseEdge, TakeBackEdge

(* A search that has emptied its queue has seen all there is to see. *)
LEMMA EndSearchRefines ==
    ASSUME IInv, EndSearch
    PROVE  Dag!FindDescendants(query.node, query.kinds)
<1>1. /\ phase = "searching" /\ phase' = "idle" /\ queue = {}
      /\ nodes' = nodes /\ edges' = edges
      /\ nodes \subseteq Node /\ seen \subseteq nodes /\ query.node \in nodes
      /\ \A m \in seen : Reaches(edges, query.kinds, query.node, m)
      /\ \A m \in seen \cup {query.node} : Successors(m, query.kinds) \subseteq seen
    BY DEF EndSearch, graph, IInv, TypeOK, SearchInv
<1>2. ASSUME NEW i \in DOMAIN edges, edges[i].kind \in query.kinds,
             edges[i].source \in seen \cup {query.node}
      PROVE  edges[i].target \in seen
    BY <1>1, <1>2, ListFacts DEF Indices, Source, Target
<1>3. Covers(edges, query.kinds, query.node, seen)
    BY <1>2 DEF Covers, IsClosed
<1>4. \A m \in nodes : Reaches(edges, query.kinds, query.node, m) <=> m \in seen
    BY <1>1, <1>3 DEF Reaches
<1>5. Committed = edges /\ Committed' = edges
    BY <1>1 DEF Committed
<1>6. seen = Dag!Descendants(query.node, query.kinds)
    BY <1>1, <1>4, <1>5, SameReaches DEF Dag!Descendants
<1> QED
    BY <1>1, <1>5, <1>6 DEF Dag!FindDescendants, EndSearch

LEMMA StepRefines == IInv /\ [Next]_vars => [Dag!Next]_(Dag!vars)
<1> SUFFICES ASSUME IInv, [Next]_vars PROVE [Dag!Next]_(Dag!vars)
    OBVIOUS
<1>1. ASSUME NEW n \in Node, AddNode(n) PROVE Dag!Next
    BY <1>1, AddNodeRefines DEF Dag!Next
<1>2. Edge = Dag!Edge
    BY DEF Edge, Dag!Edge
<1>3. ASSUME NEW e \in Edge, RejectEndpoints(e) PROVE Dag!Next
    BY <1>2, <1>3, RejectEndpointsRefines DEF Dag!Next
<1>4. CASE AcceptEdge
  <2>1. LastEdge \in Edge
      BY <1>4, Trial DEF AcceptEdge
  <2> QED
      BY <1>2, <1>4, <2>1, AcceptEdgeRefines DEF Dag!Next
<1>5. CASE TakeBackEdge
  <2>1. LastEdge \in Edge
      BY <1>5, Trial DEF TakeBackEdge
  <2> QED
      BY <1>2, <1>5, <2>1, TakeBackEdgeRefines DEF Dag!Next
<1>6. CASE EndSearch
  <2>1. query.node \in Node /\ query.kinds \in SUBSET Kind
      BY <1>6 DEF EndSearch, IInv, TypeOK
  <2> QED
      BY <1>6, <2>1, EndSearchRefines DEF Dag!Next
<1>7. CASE UNCHANGED vars
    BY <1>7 DEF vars, graph, Dag!vars, Committed
<1> QED
    BY <1>1, <1>3, <1>4, <1>5, <1>6, <1>7, InnerSteps DEF Next

(***************************************************************************)
(* EventGraph implements EventDag: whatever the order in which the queues  *)
(* are served, add_edge accepts exactly the edges that keep the graph      *)
(* acyclic, leaves no trace of a refused one, and descendants answers with *)
(* exactly the reachable nodes.                                            *)
(***************************************************************************)
THEOREM Implements == Spec => ImplementsDag
<1>1. Init => Dag!Init
    BY InitRefines
<1>2. IInv /\ [Next]_vars => [Dag!Next]_(Dag!vars)
    BY StepRefines
<1> QED
    BY <1>1, <1>2, Invariance, PTL DEF Spec, ImplementsDag, Dag!Spec
=============================================================================
