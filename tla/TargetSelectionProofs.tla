------------------------ MODULE TargetSelectionProofs -----------------------
(***************************************************************************)
(* Theorems about TargetSelection, for rollouts of any length and kinds,   *)
(* and draws, fractions and thresholds of any precision.                   *)
(***************************************************************************)
EXTENDS TargetSelection, FiniteSetTheorems, TLAPS

-----------------------------------------------------------------------------
(* The inductive invariant.                                                *)

(* t is the least of these nodes, or there are none.                       *)
IsFirst(t, nodes) ==
    \/ nodes = {} /\ t = None
    \/ t \in nodes /\ \A n \in nodes : t <= n

OnlineNodes     == {n \in EligibleNodes : finalized = None \/ n <= finalized}
RandomizedNodes == IF finalized = 0 THEN {} ELSE WinningNodes

(* The online selector is closed by its target, or by finalize and nothing  *)
(* else.                                                                   *)
OnlineInv ==
    /\ IsFirst(TargetOf(online), OnlineNodes)
    /\ finalized # None => online # None
    /\ online # None /\ online.status = "skipped" => finalized # None

(* The randomized selector keeps a skip exactly if finalize came before the *)
(* first node; while it is open, _last_decision is what it decided last.   *)
RandomizedInv ==
    /\ IsFirst(TargetOf(randomized), RandomizedNodes)
    /\ (randomized # None /\ randomized.status = "skipped") <=> finalized = 0
    /\ randomized = None => (last = None <=> Len(rollout) = 0)
    /\ Len(rollout) = 0 => last = None

IInv == TypeOK /\ OnlineInv /\ RandomizedInv /\ LoggedProbabilityIsExact

-----------------------------------------------------------------------------
(* The least node of a set is the one CHOOSE finds.                        *)
LEMMA FirstIsLeast ==
    ASSUME NEW t, NEW nodes \in SUBSET Nat, IsFirst(t, nodes)
    PROVE  FirstOf(nodes) = t
  <1>1. CASE nodes = {}
    BY <1>1 DEF IsFirst, FirstOf
  <1>2. CASE nodes # {}
    <2>1. t \in nodes /\ \A n \in nodes : t <= n
      BY <1>2 DEF IsFirst
    <2>2. \A u \in nodes : (\A n \in nodes : u <= n) => u = t
      BY <2>1
    <2> QED
      BY <1>2, <2>1, <2>2 DEF FirstOf
  <1> QED
    BY <1>1, <1>2

(* A node further down does not replace it.                                *)
LEMMA LaterNodesLeaveFirst ==
    ASSUME NEW nodes \in SUBSET Nat, NEW t \in nodes, \A n \in nodes : t <= n,
           NEW h \in Nat, \A n \in nodes : n < h, NEW new \in SUBSET {h}
    PROVE  IsFirst(t, nodes \cup new)
  BY DEF IsFirst

(* A commitment is not None.                                               *)
LEMMA CommitmentsExist ==
    ASSUME NEW statuses \in SUBSET Statuses, NEW c \in Commitments(statuses)
    PROVE  c # None
  BY SelectionAssumption DEF Commitments

LEMMA NoneIsNoNumber == None \notin Nat /\ MaxNodes \in Nat /\ Unit \in Nat \ {0}
  BY SelectionAssumption

-----------------------------------------------------------------------------
LEMMA InitInv == Init => IInv
  <1> SUFFICES ASSUME Init PROVE IInv
    OBVIOUS
  <1>1. TypeOK
    BY SelectionAssumption DEF Init, TypeOK
  <1>2. finalized # 0
    BY SelectionAssumption DEF Init
  <1>3. OnlineInv /\ RandomizedInv
    BY <1>2 DEF Init, OnlineInv, RandomizedInv, IsFirst, TargetOf, OnlineNodes,
                RandomizedNodes, WinningNodes, EligibleNodes, Nodes
  <1>4. LoggedProbabilityIsExact
    BY DEF Init, LoggedProbabilityIsExact, Nodes
  <1> QED
    BY <1>1, <1>3, <1>4 DEF IInv

(* A node is added at the end of the rollout.                               *)
LEMMA ConsideredNode ==
    ASSUME IInv, NEW kind \in NodeKinds, NEW score \in 0..Unit, NEW draw \in 0..(Unit - 1),
           Consider(kind, score, draw)
    PROVE  /\ Here \in 1..MaxNodes /\ Here \notin Nodes /\ None \notin Nodes
           /\ Nodes \subseteq Nat /\ \A n \in Nodes : n < Here
           /\ Nodes' = Nodes \cup {Here} /\ Len(rollout') = Here
           /\ rollout' \in Seq([kind : NodeKinds, score : 0..Unit, draw : 0..(Unit - 1)])
           /\ \A n \in Nodes : rollout'[n] = rollout[n]
           /\ rollout'[Here] = [kind |-> kind, score |-> score, draw |-> draw]
           /\ EligibleNodes' = EligibleNodes \cup (IF kind \in settings.eligible
                                                   THEN {Here} ELSE {})
           /\ WinningNodes' = WinningNodes \cup
                 (IF kind \in settings.eligible /\ Selects(score, draw) THEN {Here} ELSE {})
           /\ UNCHANGED <<settings, finalized>>
  <1>1. /\ rollout \in Seq([kind : NodeKinds, score : 0..Unit, draw : 0..(Unit - 1)])
        /\ Len(rollout) \in Nat /\ Len(rollout) < MaxNodes
        /\ DOMAIN rollout = 1..Len(rollout)
        /\ rollout' = Append(rollout, [kind |-> kind, score |-> score, draw |-> draw])
        /\ UNCHANGED <<settings, finalized>>
    BY DEF IInv, TypeOK, Consider
  <1>2. /\ Len(rollout') = Here /\ DOMAIN rollout' = 1..Here
        /\ rollout' \in Seq([kind : NodeKinds, score : 0..Unit, draw : 0..(Unit - 1)])
        /\ \A n \in Nodes : rollout'[n] = rollout[n]
        /\ rollout'[Here] = [kind |-> kind, score |-> score, draw |-> draw]
    BY <1>1 DEF Here, Nodes
  <1>3. /\ Here \in 1..MaxNodes /\ Here \notin Nodes /\ None \notin Nodes
        /\ Nodes \subseteq Nat /\ \A n \in Nodes : n < Here
        /\ Nodes' = Nodes \cup {Here}
    BY <1>1, <1>2, SelectionAssumption DEF Here, Nodes
  <1>4. EligibleNodes' = EligibleNodes \cup (IF kind \in settings.eligible
                                             THEN {Here} ELSE {})
    <2>1. EligibleNodes' = {n \in Nodes \cup {Here} : rollout'[n].kind \in settings.eligible}
      BY <1>1, <1>3 DEF EligibleNodes
    <2>2. /\ rollout'[Here].kind = kind
          /\ \A n \in Nodes : rollout'[n].kind = rollout[n].kind
      BY <1>2
    <2>3. CASE kind \in settings.eligible
      BY <2>1, <2>2, <2>3 DEF EligibleNodes
    <2>4. CASE kind \notin settings.eligible
      BY <2>1, <2>2, <2>4 DEF EligibleNodes
    <2> QED
      BY <2>3, <2>4
  <1>5. WinningNodes' = WinningNodes \cup
            (IF kind \in settings.eligible /\ Selects(score, draw) THEN {Here} ELSE {})
    <2> DEFINE Wins(r) == r.score >= settings.threshold \/ r.draw < settings.fraction
    <2>1. /\ WinningNodes' = {n \in EligibleNodes' : Wins(rollout'[n])}
          /\ WinningNodes = {n \in EligibleNodes : Wins(rollout[n])}
      BY <1>1 DEF WinningNodes
    <2>2. EligibleNodes \subseteq Nodes
      BY DEF EligibleNodes
    <2>3. \A n \in EligibleNodes : Wins(rollout'[n]) <=> Wins(rollout[n])
      BY <1>2, <2>2
    <2>4. Wins(rollout'[Here]) <=> Selects(score, draw)
      BY <1>2 DEF Selects, IsPriority
    <2> HIDE DEF Wins
    <2>5. CASE kind \in settings.eligible
      BY <1>4, <2>1, <2>3, <2>4, <2>5
    <2>6. CASE kind \notin settings.eligible
      BY <1>4, <2>1, <2>3, <2>6
    <2> QED
      BY <2>5, <2>6
  <1> QED
    BY <1>1, <1>2, <1>3, <1>4, <1>5

(* What consider returns.                                                   *)
LEMMA DecisionFacts ==
    ASSUME IInv, NEW kind \in NodeKinds, NEW score \in 0..Unit, NEW draw \in 0..(Unit - 1),
           Len(rollout) < MaxNodes
    PROVE  LET d == Decision(kind, score, draw)
           IN  /\ d \in Commitments(Statuses)
               /\ randomized # None => d.status = "already_committed" /\ d.probability = None
               /\ randomized = None => d \in Commitments({"committed", "skipped", "ineligible"})
               /\ randomized = None /\ kind \notin settings.eligible =>
                     d.status = "ineligible" /\ d.probability = 0
               /\ randomized = None /\ kind \in settings.eligible =>
                     /\ d.probability = SelectionProbability(score)
                     /\ Selects(score, draw) => d.status = "committed" /\ d.node = Here
                     /\ ~Selects(score, draw) => d.status = "skipped"
  <1> DEFINE d == Decision(kind, score, draw)
  <1>1. Here \in 1..MaxNodes /\ SelectionProbability(score) \in 0..Unit /\ 0 \in 0..Unit
    BY SelectionAssumption DEF IInv, TypeOK, Here, SelectionProbability
  <1>2. CASE randomized # None
    <2>1. d = Commitment(None, "already_committed", None)
      BY <1>2 DEF Decision
    <2>2. d.status = "already_committed" /\ d.probability = None /\ d \in Commitments(Statuses)
      BY <2>1, NoneIsNoNumber DEF Commitment, Commitments, Statuses
    <2> QED
      BY <1>2, <2>2
  <1>3. CASE randomized = None /\ kind \notin settings.eligible
    <2>1. d = Commitment(None, "ineligible", 0)
      BY <1>3 DEF Decision
    <2>2. /\ d.status = "ineligible" /\ d.probability = 0 /\ d \in Commitments(Statuses)
          /\ d \in Commitments({"committed", "skipped", "ineligible"})
      BY <1>1, <2>1, NoneIsNoNumber DEF Commitment, Commitments, Statuses
    <2> QED
      BY <1>3, <2>2
  <1>4. CASE randomized = None /\ kind \in settings.eligible /\ Selects(score, draw)
    <2>1. d = Commitment(Here, "committed", SelectionProbability(score))
      BY <1>4 DEF Decision
    <2>2. /\ d.status = "committed" /\ d.node = Here /\ d \in Commitments(Statuses)
          /\ d.probability = SelectionProbability(score)
          /\ d \in Commitments({"committed", "skipped", "ineligible"})
      BY <1>1, <2>1, NoneIsNoNumber DEF Commitment, Commitments, Statuses
    <2> QED
      BY <1>4, <2>2
  <1>5. CASE randomized = None /\ kind \in settings.eligible /\ ~Selects(score, draw)
    <2>1. d = Commitment(None, "skipped", SelectionProbability(score))
      BY <1>5 DEF Decision
    <2>2. /\ d.status = "skipped" /\ d.probability = SelectionProbability(score)
          /\ d \in Commitments(Statuses)
          /\ d \in Commitments({"committed", "skipped", "ineligible"})
      BY <1>1, <2>1, NoneIsNoNumber DEF Commitment, Commitments, Statuses
    <2> QED
      BY <1>5, <2>2
  <1> QED
    BY <1>2, <1>3, <1>4, <1>5

LEMMA ConsiderTypeOK ==
    ASSUME IInv, NEW kind \in NodeKinds, NEW score \in 0..Unit, NEW draw \in 0..(Unit - 1),
           Consider(kind, score, draw)
    PROVE  TypeOK'
  <1> DEFINE d == Decision(kind, score, draw)
  <1>0. /\ Here \in 1..MaxNodes /\ Len(rollout') = Here
        /\ rollout' \in Seq([kind : NodeKinds, score : 0..Unit, draw : 0..(Unit - 1)])
        /\ UNCHANGED <<settings, finalized>>
    BY ConsideredNode
  <1>1. Len(rollout) < MaxNodes
    BY DEF Consider
  <1>2. /\ log' = Append(log, d)
        /\ last' = IF randomized = None THEN d ELSE last
        /\ randomized' = IF d.status = "committed" THEN d ELSE randomized
    BY DEF Consider, RandomizedConsiders
  <1>3. log' \in Seq(Commitments(Statuses)) /\ Len(log') = Len(log) + 1
    <2>1. d \in Commitments(Statuses)
      BY <1>1, DecisionFacts
    <2> QED
      BY <1>2, <2>1 DEF IInv, TypeOK
  <1>4. last' # None => last' \in Commitments({"committed", "skipped", "ineligible"})
    BY <1>1, <1>2, DecisionFacts DEF IInv, TypeOK
  <1>5. randomized' # None => /\ randomized' \in Commitments({"committed", "skipped"})
                              /\ randomized'.node = None <=> randomized'.status = "skipped"
    <2>1. CASE randomized = None /\ d.status = "committed"
      <3>1. d \in Commitments({"committed", "skipped", "ineligible"}) /\ d.node = Here
        BY <1>1, <2>1, DecisionFacts
      <3>2. d \in Commitments({"committed", "skipped"})
        BY <2>1, <3>1 DEF Commitments
      <3>3. Here # None
        BY <1>0, NoneIsNoNumber
      <3> QED
        BY <1>2, <2>1, <3>1, <3>2, <3>3
    <2>2. CASE randomized # None \/ d.status # "committed"
      BY <1>1, <1>2, <2>2, DecisionFacts DEF IInv, TypeOK
    <2> QED
      BY <2>1, <2>2
  <1>6. online' # None => /\ online' \in Commitments({"committed", "skipped"})
                          /\ online'.node = None <=> online'.status = "skipped"
    <2>1. Here # None
      BY <1>0, NoneIsNoNumber
    <2>2. /\ Commitment(Here, "committed", None) \in Commitments({"committed", "skipped"})
          /\ Commitment(Here, "committed", None).node = Here
          /\ Commitment(Here, "committed", None).status = "committed"
      BY <1>0, NoneIsNoNumber DEF Commitment, Commitments, Statuses
    <2> QED
      BY <2>1, <2>2 DEF Consider, OnlineConsiders, IInv, TypeOK
  <1>7. Len(log') = Len(rollout') /\ Len(rollout') <= MaxNodes
    BY <1>0, <1>3, NoneIsNoNumber DEF Here, IInv, TypeOK
  <1>8. finalized' # None => finalized' \in 0..Len(rollout')
    BY <1>0 DEF Here, IInv, TypeOK
  <1>9. settings' \in [fraction : 1..Unit, threshold : 0..Unit, eligible : SUBSET NodeKinds]
    BY <1>0 DEF IInv, TypeOK
  <1>10. \A c \in {online', randomized'} \ {None} :
            /\ c \in Commitments({"committed", "skipped"})
            /\ c.node = None <=> c.status = "skipped"
    <2> SUFFICES ASSUME NEW c \in {online', randomized'} \ {None}
                 PROVE  /\ c \in Commitments({"committed", "skipped"})
                        /\ c.node = None <=> c.status = "skipped"
      OBVIOUS
    <2>1. CASE c = online'
      BY <1>6, <2>1
    <2>2. CASE c = randomized'
      BY <1>5, <2>2
    <2> QED
      BY <2>1, <2>2
  <1> HIDE DEF d
  <1> QED
    BY <1>0, <1>3, <1>4, <1>7, <1>8, <1>9, <1>10 DEF TypeOK

LEMMA ConsiderOnline ==
    ASSUME IInv, NEW kind \in NodeKinds, NEW score \in 0..Unit, NEW draw \in 0..(Unit - 1),
           Consider(kind, score, draw)
    PROVE  OnlineInv'
  <1> DEFINE new == IF kind \in settings.eligible THEN {Here} ELSE {}
  <1>1. /\ OnlineNodes' = {n \in EligibleNodes \cup new : finalized = None \/ n <= finalized}
        /\ EligibleNodes \subseteq Nodes /\ None \notin Nodes
        /\ Nodes \subseteq Nat /\ \A n \in Nodes : n < Here
        /\ Here \in Nat /\ Here \in 1..MaxNodes /\ finalized' = finalized
    <2>1. /\ EligibleNodes' = EligibleNodes \cup new
          /\ None \notin Nodes /\ Here \in 1..MaxNodes
          /\ Nodes \subseteq Nat /\ \A n \in Nodes : n < Here
          /\ finalized' = finalized
      BY ConsideredNode
    <2> QED
      BY <2>1, NoneIsNoNumber DEF OnlineNodes, EligibleNodes
  <1>2. online' = IF online = None /\ kind \in settings.eligible
                  THEN Commitment(Here, "committed", None) ELSE online
    BY DEF Consider, OnlineConsiders
  <1>3. CASE online = None
    <2>1. finalized = None
      BY <1>3 DEF IInv, OnlineInv
    <2>2. EligibleNodes = {}
      BY <1>1, <1>3, <2>1 DEF IInv, OnlineInv, IsFirst, TargetOf, OnlineNodes
    <2>3. /\ Commitment(Here, "committed", None) \in Commitments(Statuses)
          /\ Commitment(Here, "committed", None).node = Here
          /\ Commitment(Here, "committed", None).status = "committed"
      BY <1>1, NoneIsNoNumber DEF Commitment, Commitments, Statuses
    <2>a. Commitment(Here, "committed", None) # None
      BY <2>3, CommitmentsExist
    <2>4. OnlineNodes' = new
      BY <1>1, <2>1, <2>2
    <2>5. IsFirst(TargetOf(online'), new)
      BY <1>1, <1>2, <1>3, <2>3, <2>a DEF IsFirst, TargetOf
    <2> QED
      BY <1>1, <1>2, <1>3, <2>1, <2>3, <2>a, <2>4, <2>5 DEF OnlineInv
  <1>4. CASE online # None
    <2>1. online' = online
      BY <1>2, <1>4
    <2>2. CASE finalized # None
      <3>1. finalized \in Nat /\ finalized < Here
        BY <2>2 DEF IInv, TypeOK, Here
      <3>2. OnlineNodes' = OnlineNodes
        BY <1>1, <2>2, <3>1 DEF OnlineNodes
      <3> QED
        BY <1>1, <2>1, <3>2 DEF IInv, OnlineInv
    <2>3. CASE finalized = None
      <3>1. TargetOf(online) # None
        BY <1>4, <2>3 DEF IInv, OnlineInv, TypeOK, TargetOf
      <3>2. TargetOf(online) \in OnlineNodes /\ \A n \in OnlineNodes : TargetOf(online) <= n
        BY <3>1 DEF IInv, OnlineInv, IsFirst
      <3>3. OnlineNodes = EligibleNodes /\ OnlineNodes' = EligibleNodes \cup new
        BY <1>1, <2>3 DEF OnlineNodes
      <3>4. IsFirst(TargetOf(online), OnlineNodes')
        <4>1. IsFirst(TargetOf(online), EligibleNodes \cup new)
          BY <1>1, <3>2, <3>3, LaterNodesLeaveFirst
        <4> QED
          BY <3>3, <4>1
      <3> QED
        BY <1>1, <2>1, <2>3, <3>4 DEF IInv, OnlineInv
    <2> QED
      BY <2>2, <2>3
  <1> QED
    BY <1>3, <1>4

LEMMA ConsiderRandomized ==
    ASSUME IInv, NEW kind \in NodeKinds, NEW score \in 0..Unit, NEW draw \in 0..(Unit - 1),
           Consider(kind, score, draw)
    PROVE  RandomizedInv'
  <1> DEFINE d == Decision(kind, score, draw)
             new == IF kind \in settings.eligible /\ Selects(score, draw) THEN {Here} ELSE {}
  <1>1. /\ RandomizedNodes' = IF finalized = 0 THEN {} ELSE WinningNodes \cup new
        /\ WinningNodes \subseteq Nodes /\ None \notin Nodes
        /\ Nodes \subseteq Nat /\ \A n \in Nodes : n < Here
        /\ Here \in Nat /\ finalized' = finalized
        /\ Len(rollout') # 0
    <2>1. /\ WinningNodes' = WinningNodes \cup new
          /\ None \notin Nodes /\ Here \in 1..MaxNodes /\ Len(rollout') = Here
          /\ Nodes \subseteq Nat /\ \A n \in Nodes : n < Here
          /\ finalized' = finalized
      BY ConsideredNode
    <2>2. RandomizedNodes' = IF finalized = 0 THEN {} ELSE WinningNodes \cup new
      BY <2>1 DEF RandomizedNodes
    <2> QED
      BY <2>1, <2>2, NoneIsNoNumber DEF WinningNodes, EligibleNodes
  <1>2. /\ last' = IF randomized = None THEN d ELSE last
        /\ randomized' = IF d.status = "committed" THEN d ELSE randomized
    BY DEF Consider, RandomizedConsiders
  <1>3. Len(rollout) < MaxNodes
    BY DEF Consider
  <1>4. CASE randomized # None
    <2>1. d.status = "already_committed"
      BY <1>3, <1>4, DecisionFacts
    <2>2. randomized' = randomized
      BY <1>2, <2>1
    <2>3. CASE finalized = 0
      BY <1>1, <1>4, <2>2, <2>3 DEF IInv, RandomizedInv, RandomizedNodes
    <2>4. CASE finalized # 0
      <3>1. TargetOf(randomized) # None
        BY <1>4, <2>4 DEF IInv, RandomizedInv, TypeOK, TargetOf
      <3>2. /\ TargetOf(randomized) \in WinningNodes
            /\ \A n \in WinningNodes : TargetOf(randomized) <= n
        BY <2>4, <3>1 DEF IInv, RandomizedInv, RandomizedNodes, IsFirst
      <3>3. IsFirst(TargetOf(randomized), RandomizedNodes')
        <4>1. IsFirst(TargetOf(randomized), WinningNodes \cup new)
          BY <1>1, <3>2, LaterNodesLeaveFirst
        <4> QED
          BY <1>1, <2>4, <4>1
      <3> QED
        BY <1>1, <1>4, <2>2, <2>4, <3>3 DEF IInv, RandomizedInv
    <2> QED
      BY <2>3, <2>4
  <1>5. CASE randomized = None
    <2>1. finalized # 0
      BY <1>5 DEF IInv, RandomizedInv
    <2>2. WinningNodes = {}
      BY <1>1, <1>5, <2>1 DEF IInv, RandomizedInv, IsFirst, TargetOf, RandomizedNodes
    <2>3. d \in Commitments({"committed", "skipped", "ineligible"}) /\ d # None
      BY <1>3, <1>5, DecisionFacts, CommitmentsExist DEF Statuses
    <2>4. last' = d /\ last' # None
      BY <1>2, <1>5, <2>3
    <2>5. CASE kind \in settings.eligible /\ Selects(score, draw)
      <3>1. d.status = "committed" /\ d.node = Here
        BY <1>3, <1>5, <2>5, DecisionFacts
      <3>2. randomized' = d
        BY <1>2, <3>1
      <3>3. IsFirst(TargetOf(randomized'), RandomizedNodes')
        BY <1>1, <2>1, <2>2, <2>3, <2>5, <3>1, <3>2 DEF IsFirst, TargetOf
      <3> QED
        BY <1>1, <2>1, <2>3, <2>4, <3>1, <3>2, <3>3 DEF RandomizedInv
    <2>6. CASE ~(kind \in settings.eligible /\ Selects(score, draw))
      <3>1. d.status # "committed"
        BY <1>3, <1>5, <2>6, DecisionFacts
      <3>2. randomized' = None
        BY <1>2, <1>5, <3>1
      <3>3. IsFirst(TargetOf(randomized'), RandomizedNodes')
        BY <1>1, <2>1, <2>2, <2>6, <3>2 DEF IsFirst, TargetOf
      <3> QED
        BY <1>1, <2>1, <2>4, <3>2, <3>3 DEF RandomizedInv
    <2> QED
      BY <2>5, <2>6
  <1> QED
    BY <1>4, <1>5

-----------------------------------------------------------------------------
LEMMA CountBelow ==
    ASSUME NEW n \in Nat
    PROVE  Cardinality(0..(n - 1)) = n
  <1>1. n - 1 \in Int /\ 0 \in Int
    OBVIOUS
  <1> QED
    BY <1>1, FS_Interval

(* How many draws select a node of this score.                              *)
LEMMA SelectingDraws ==
    ASSUME TypeOK, NEW score \in 0..Unit
    PROVE  Cardinality({d \in 0..(Unit - 1) : score >= settings.threshold \/ d < settings.fraction})
               = SelectionProbability(score)
  <1>1. Unit \in Nat \ {0} /\ settings.fraction \in 1..Unit /\ settings.threshold \in 0..Unit
    BY NoneIsNoNumber DEF TypeOK
  <1>2. CASE score >= settings.threshold
    <2>1. {d \in 0..(Unit - 1) : score >= settings.threshold \/ d < settings.fraction}
            = 0..(Unit - 1)
      BY <1>2
    <2>2. Cardinality(0..(Unit - 1)) = Unit
      BY <1>1, CountBelow
    <2> QED
      BY <1>2, <2>1, <2>2 DEF SelectionProbability, IsPriority
  <1>3. CASE ~(score >= settings.threshold)
    <2>1. {d \in 0..(Unit - 1) : score >= settings.threshold \/ d < settings.fraction}
            = 0..(settings.fraction - 1)
      BY <1>1, <1>3
    <2>2. Cardinality(0..(settings.fraction - 1)) = settings.fraction
      BY <1>1, CountBelow
    <2> QED
      BY <1>3, <2>1, <2>2 DEF SelectionProbability, IsPriority
  <1> QED
    BY <1>2, <1>3

(* A node is still open to the randomized selector.                         *)
IsOpen(n) == finalized # 0 /\ \A m \in WinningNodes : m >= n

(* The draws that would make it the target.                                *)
WinningDraws(n) ==
    {d \in 0..(Unit - 1) :
        /\ n \in EligibleNodes
        /\ \/ rollout[n].score >= settings.threshold
           \/ d < settings.fraction}

LEMMA LoggedByNode ==
    LoggedProbabilityIsExact <=>
        \A n \in Nodes : log[n].probability = IF IsOpen(n) THEN Cardinality(WinningDraws(n))
                                                          ELSE None
  BY DEF LoggedProbabilityIsExact, IsOpen, WinningDraws

LEMMA ConsiderLogs ==
    ASSUME IInv, NEW kind \in NodeKinds, NEW score \in 0..Unit, NEW draw \in 0..(Unit - 1),
           Consider(kind, score, draw)
    PROVE  LoggedProbabilityIsExact'
  <1>0. PICK here \in Nat : here = Here
    BY DEF Here, IInv, TypeOK
  <1> DEFINE d == Decision(kind, score, draw)
             new == IF kind \in settings.eligible /\ Selects(score, draw) THEN {here} ELSE {}
  <1>1. /\ here \in 1..MaxNodes /\ here \notin Nodes /\ None \notin Nodes
        /\ Nodes \subseteq Nat /\ \A n \in Nodes : n < here
        /\ Nodes' = Nodes \cup {here}
        /\ \A n \in Nodes : rollout'[n] = rollout[n]
        /\ rollout'[here] = [kind |-> kind, score |-> score, draw |-> draw]
        /\ EligibleNodes' = EligibleNodes \cup (IF kind \in settings.eligible
                                                THEN {here} ELSE {})
        /\ WinningNodes' = WinningNodes \cup new
        /\ UNCHANGED <<settings, finalized>>
    BY <1>0, ConsideredNode
  <1>2. EligibleNodes \subseteq Nodes /\ WinningNodes \subseteq Nodes
    BY DEF EligibleNodes, WinningNodes
  <1>3. log'[here] = d /\ \A n \in Nodes : log'[n] = log[n]
    BY <1>0 DEF Consider, RandomizedConsiders, IInv, TypeOK, Here, Nodes
  <1>4. Len(rollout) < MaxNodes
    BY DEF Consider
  <1>5. ASSUME NEW n \in Nodes
        PROVE  log'[n].probability = IF IsOpen(n)' THEN Cardinality(WinningDraws(n)')
                                                  ELSE None
    <2>1. IsOpen(n)' <=> IsOpen(n)
      BY <1>1, NoneIsNoNumber DEF IsOpen
    <2>2. WinningDraws(n)' = WinningDraws(n)
      <3>1. n \in EligibleNodes' <=> n \in EligibleNodes
        BY <1>1
      <3> QED
        BY <1>1, <3>1 DEF WinningDraws
    <2>3. log[n].probability = IF IsOpen(n) THEN Cardinality(WinningDraws(n)) ELSE None
      BY LoggedByNode DEF IInv
    <2> QED
      BY <1>3, <2>1, <2>2, <2>3
  <1>6. log'[here].probability = IF IsOpen(here)' THEN Cardinality(WinningDraws(here)') ELSE None
    <2>1. CASE randomized # None
      <3>1. d.probability = None
        BY <1>4, <2>1, DecisionFacts
      <3>2. ~IsOpen(here)'
        <4>1. CASE finalized = 0
          BY <1>1, <4>1 DEF IsOpen
        <4>2. CASE finalized # 0
          <5>1. TargetOf(randomized) # None
            BY <2>1, <4>2 DEF IInv, RandomizedInv, TypeOK, TargetOf
          <5>2. TargetOf(randomized) \in WinningNodes
            BY <4>2, <5>1 DEF IInv, RandomizedInv, RandomizedNodes, IsFirst
          <5>3. TargetOf(randomized) \in WinningNodes' /\ TargetOf(randomized) < here
            BY <1>1, <1>2, <5>2
          <5>4. \A m \in Nat : m < here => ~(m >= here)
            BY <1>0
          <5>5. TargetOf(randomized) \in Nat
            BY <1>1, <1>2, <5>2
          <5> QED
            BY <5>3, <5>4, <5>5 DEF IsOpen
        <4> QED
          BY <4>1, <4>2
      <3> QED
        BY <1>3, <3>1, <3>2
    <2>2. CASE randomized = None
      <3>1. finalized # 0
        BY <2>2 DEF IInv, RandomizedInv
      <3>2. WinningNodes = {}
        BY <1>1, <1>2, <2>2, <3>1 DEF IInv, RandomizedInv, IsFirst, TargetOf, RandomizedNodes
      <3>3. IsOpen(here)'
        BY <1>1, <3>1, <3>2, NoneIsNoNumber DEF IsOpen
      <3>4. CASE kind \in settings.eligible
        <4>1. d.probability = SelectionProbability(score)
          BY <1>4, <2>2, <3>4, DecisionFacts
        <4>2. WinningDraws(here)' = {e \in 0..(Unit - 1) : \/ score >= settings.threshold
                                                           \/ e < settings.fraction}
          BY <1>1, <3>4 DEF WinningDraws
        <4>3. Cardinality({e \in 0..(Unit - 1) : \/ score >= settings.threshold
                                                 \/ e < settings.fraction})
                = SelectionProbability(score)
          BY SelectingDraws DEF IInv
        <4> QED
          BY <1>3, <3>3, <4>1, <4>2, <4>3
      <3>5. CASE kind \notin settings.eligible
        <4>1. d.probability = 0
          BY <1>4, <2>2, <3>5, DecisionFacts
        <4>2. here \notin EligibleNodes'
          BY <1>1, <1>2, <3>5
        <4>3. WinningDraws(here)' = {}
          BY <4>2 DEF WinningDraws
        <4> QED
          BY <1>3, <3>3, <4>1, <4>3, FS_EmptySet
      <3> QED
        BY <3>4, <3>5
    <2> QED
      BY <2>1, <2>2
  <1>7. (\A n \in Nodes : log[n].probability = IF IsOpen(n) THEN Cardinality(WinningDraws(n))
                                                          ELSE None)'
    BY <1>1, <1>5, <1>6
  <1> QED
    BY <1>7 DEF LoggedProbabilityIsExact, IsOpen, WinningDraws

-----------------------------------------------------------------------------
LEMMA FinalizeInv ==
    ASSUME IInv, Finalize
    PROVE  IInv'
  <1>1. /\ online' = IF online = None THEN Commitment(None, "skipped", None) ELSE online
        /\ randomized' = IF randomized = None /\ last = None
                         THEN Commitment(None, "skipped", 0) ELSE randomized
        /\ finalized' = IF finalized = None THEN Len(rollout) ELSE finalized
        /\ UNCHANGED <<settings, last, rollout, log>>
    BY DEF Finalize, OnlineFinalizes, RandomizedFinalizes
  <1>2. /\ Len(rollout) \in Nat /\ Nodes = 1..Len(rollout)
        /\ EligibleNodes \subseteq Nodes /\ WinningNodes \subseteq EligibleNodes
    BY DEF IInv, TypeOK, Nodes, EligibleNodes, WinningNodes
  <1>3. EligibleNodes' = EligibleNodes /\ WinningNodes' = WinningNodes /\ Nodes' = Nodes
    BY <1>1 DEF EligibleNodes, WinningNodes, Nodes
  <1>4. \A x \in {0, None} :
            /\ Commitment(None, "skipped", x) \in Commitments({"committed", "skipped"})
            /\ Commitment(None, "skipped", x) \in Commitments(Statuses)
            /\ Commitment(None, "skipped", x).node = None
            /\ Commitment(None, "skipped", x).status = "skipped"
    BY NoneIsNoNumber DEF Commitment, Commitments, Statuses
  <1>5. \A x \in {0, None} : Commitment(None, "skipped", x) # None
    BY <1>4, CommitmentsExist
  <1>6. TypeOK'
    <2>1. \A c \in {online', randomized'} \ {None} :
             /\ c \in Commitments({"committed", "skipped"})
             /\ c.node = None <=> c.status = "skipped"
      BY <1>1, <1>4 DEF IInv, TypeOK
    <2>2. finalized' # None => finalized' \in 0..Len(rollout')
      BY <1>1, <1>2 DEF IInv, TypeOK
    <2> QED
      BY <1>1, <2>1, <2>2 DEF IInv, TypeOK
  <1>7. OnlineInv'
    <2>1. TargetOf(online') = TargetOf(online) /\ online' # None
      BY <1>1, <1>4, <1>5 DEF TargetOf
    <2>2. OnlineNodes' = OnlineNodes
      <3>1. CASE finalized = None
        <4>1. finalized' = Len(rollout) /\ \A n \in EligibleNodes : n <= Len(rollout)
          BY <1>1, <1>2, <3>1
        <4> QED
          BY <1>3, <3>1, <4>1 DEF OnlineNodes
      <3>2. CASE finalized # None
        BY <1>1, <1>3, <3>2 DEF OnlineNodes
      <3> QED
        BY <3>1, <3>2
    <2>3. finalized' # None
      BY <1>1, <1>2, NoneIsNoNumber
    <2> QED
      BY <2>1, <2>2, <2>3 DEF IInv, OnlineInv
  <1>8. RandomizedInv'
    <2>1. TargetOf(randomized') = TargetOf(randomized)
      BY <1>1, <1>4, <1>5 DEF TargetOf
    <2>2. CASE Len(rollout) = 0
      <3>1. last = None /\ WinningNodes = {}
        BY <1>2, <2>2 DEF IInv, RandomizedInv
      <3>2. randomized' # None /\ randomized'.status = "skipped" /\ finalized' = 0
        <4>1. CASE randomized = None
          <5>1. finalized = None
            BY <2>2, <4>1 DEF IInv, TypeOK, RandomizedInv
          <5> QED
            BY <1>1, <1>4, <1>5, <2>2, <3>1, <4>1, <5>1
        <4>2. CASE randomized # None
          <5>1. TargetOf(randomized) = None
            BY <1>2, <3>1 DEF IInv, RandomizedInv, IsFirst, RandomizedNodes
          <5>2. randomized.status = "skipped"
            BY <4>2, <5>1 DEF IInv, TypeOK, TargetOf
          <5>3. finalized = 0
            BY <4>2, <5>2 DEF IInv, RandomizedInv
          <5> QED
            BY <1>1, <4>2, <5>2, <5>3, NoneIsNoNumber
        <4> QED
          BY <4>1, <4>2
      <3>3. TargetOf(randomized) = None
        BY <3>1 DEF IInv, RandomizedInv, IsFirst, RandomizedNodes
      <3>4. IsFirst(TargetOf(randomized'), RandomizedNodes')
        BY <2>1, <3>2, <3>3 DEF IsFirst, RandomizedNodes
      <3> QED
        BY <1>1, <3>1, <3>2, <3>4 DEF RandomizedInv
    <2>3. CASE Len(rollout) # 0
      <3>1. randomized' = randomized
        BY <1>1, <2>3 DEF IInv, RandomizedInv
      <3>2. finalized' = 0 <=> finalized = 0
        BY <1>1, <1>2, <2>3, NoneIsNoNumber
      <3>3. RandomizedNodes' = RandomizedNodes
        BY <1>3, <3>2 DEF RandomizedNodes
      <3> QED
        BY <1>1, <3>1, <3>2, <3>3 DEF IInv, RandomizedInv
    <2> QED
      BY <2>2, <2>3
  <1>9. LoggedProbabilityIsExact'
    <2>1. ASSUME NEW n \in Nodes
          PROVE  IsOpen(n)' <=> IsOpen(n)
      <3>1. finalized' = 0 <=> finalized = 0
        BY <1>1, <1>2, <2>1, NoneIsNoNumber
      <3> QED
        BY <1>3, <3>1 DEF IsOpen
    <2>2. \A n \in Nodes : WinningDraws(n)' = WinningDraws(n)
      BY <1>1, <1>3 DEF WinningDraws
    <2>3. \A n \in Nodes : log[n].probability = IF IsOpen(n) THEN Cardinality(WinningDraws(n))
                                                            ELSE None
      BY LoggedByNode DEF IInv
    <2>4. (\A n \in Nodes : log[n].probability = IF IsOpen(n) THEN Cardinality(WinningDraws(n))
                                                            ELSE None)'
      BY <1>1, <1>3, <2>1, <2>2, <2>3
    <2> QED
      BY <2>4 DEF LoggedProbabilityIsExact, IsOpen, WinningDraws
  <1> QED
    BY <1>6, <1>7, <1>8, <1>9 DEF IInv

LEMMA StutterInv == IInv /\ UNCHANGED vars => IInv'
  <1> SUFFICES ASSUME IInv, UNCHANGED vars PROVE IInv'
    OBVIOUS
  <1> USE DEF vars
  <1>1. Nodes' = Nodes /\ EligibleNodes' = EligibleNodes /\ WinningNodes' = WinningNodes
    BY DEF Nodes, EligibleNodes, WinningNodes
  <1>2. TypeOK'
    BY DEF IInv, TypeOK
  <1>3. OnlineInv' /\ RandomizedInv'
    BY <1>1 DEF IInv, OnlineInv, RandomizedInv, OnlineNodes, RandomizedNodes, TargetOf
  <1>4. LoggedProbabilityIsExact'
    BY <1>1 DEF IInv, LoggedProbabilityIsExact
  <1> QED
    BY <1>2, <1>3, <1>4 DEF IInv

LEMMA StepInv == IInv /\ [Next]_vars => IInv'
  <1> SUFFICES ASSUME IInv, [Next]_vars PROVE IInv'
    OBVIOUS
  <1>1. ASSUME NEW kind \in NodeKinds, NEW score \in 0..Unit, NEW draw \in 0..(Unit - 1),
               Consider(kind, score, draw)
        PROVE  IInv'
    <2>1. TypeOK'
      BY <1>1, ConsiderTypeOK
    <2>2. OnlineInv'
      BY <1>1, ConsiderOnline
    <2>3. RandomizedInv'
      BY <1>1, ConsiderRandomized
    <2>4. LoggedProbabilityIsExact'
      BY <1>1, ConsiderLogs
    <2> QED
      BY <2>1, <2>2, <2>3, <2>4 DEF IInv
  <1>2. CASE Finalize
    BY <1>2, FinalizeInv
  <1>3. CASE UNCHANGED vars
    BY <1>3, StutterInv
  <1> QED
    BY <1>1, <1>2, <1>3 DEF Next

LEMMA Invariance == Spec => []IInv
  <1> QED
    BY InitInv, StepInv, PTL DEF Spec

(***************************************************************************)
(* The fields of both selectors and the log have their types; a selector's *)
(* commitment names a node exactly if it is not a skip.                    *)
(***************************************************************************)
THEOREM TypeCorrect == Spec => []TypeOK
  <1>1. IInv => TypeOK
    BY DEF IInv
  <1> QED
    BY <1>1, Invariance, PTL

(***************************************************************************)
(* OnlineTargetSelector commits to the first eligible node seen before     *)
(* finalize, RandomizedSelectiveTargetSelector to the first that has       *)
(* priority or wins its draw: neither depends on what comes later.         *)
(***************************************************************************)
THEOREM TargetsAlwaysFirst == Spec => []TargetsAreFirst
  <1>1. IInv => TargetsAreFirst
    <2> SUFFICES ASSUME IInv PROVE TargetsAreFirst
      OBVIOUS
    <2>1. Nodes \subseteq Nat
      BY DEF IInv, TypeOK, Nodes
    <2>2. OnlineNodes \in SUBSET Nat /\ RandomizedNodes \in SUBSET Nat
      BY <2>1 DEF OnlineNodes, RandomizedNodes, EligibleNodes, WinningNodes
    <2>3. FirstOf(OnlineNodes) = TargetOf(online)
      BY <2>2, FirstIsLeast DEF IInv, OnlineInv
    <2>4. FirstOf(RandomizedNodes) = TargetOf(randomized)
      BY <2>2, FirstIsLeast DEF IInv, RandomizedInv
    <2> QED
      BY <2>3, <2>4 DEF TargetsAreFirst, OnlineTargetIsFirstEligible,
                        RandomizedTargetIsFirstWinner, OnlineNodes, RandomizedNodes
  <1> QED
    BY <1>1, Invariance, PTL

(***************************************************************************)
(* The probability consider logs for a node is the share of the draws that *)
(* would have made it the target, which is what makes the importance       *)
(* weights of the randomized branch unbiased.                              *)
(***************************************************************************)
THEOREM LogIsExact == Spec => []LoggedProbabilityIsExact
  <1>1. IInv => LoggedProbabilityIsExact
    BY DEF IInv
  <1> QED
    BY <1>1, Invariance, PTL
=============================================================================
