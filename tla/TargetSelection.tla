--------------------------- MODULE TargetSelection --------------------------
(***************************************************************************)
(* redco.algo.branching: the two selectors that decide, node by node and   *)
(* before each node's action exists, which node of a rollout is replayed.  *)
(* OnlineTargetSelector takes the first eligible node.                     *)
(* RandomizedSelectiveTargetSelector takes a node of high priority, and    *)
(* any other eligible node with a given probability.  A rollout shows its  *)
(* nodes to one selector of each class; finalize may be called at any time *)
(* and any number of times, also before the last node.                     *)
(*                                                                         *)
(* A node is its position in the rollout.  Probabilities, draws, scores    *)
(* and the threshold count in units of 1/Unit; a draw is one of the Unit   *)
(* values below 1.                                                         *)
(***************************************************************************)
EXTENDS Naturals, Sequences, FiniteSetsExt

CONSTANTS
    Unit,        \* the number of values a draw has
    NodeKinds,   \* PolicyNodeKind
    MaxNodes,    \* bound: nodes of a rollout
    None         \* Python's None

Commitments(statuses) ==
    [node : (1..MaxNodes) \cup {None}, status : statuses,
     probability : (0..Unit) \cup {None}]

Statuses == {"committed", "skipped", "ineligible", "already_committed"}

(* None is neither a position nor a commitment. *)
ASSUME SelectionAssumption ==
    /\ Unit \in Nat \ {0}
    /\ MaxNodes \in Nat
    /\ None \notin Nat \cup Commitments(Statuses)

VARIABLES
    settings,    \* fraction, threshold and eligible_kinds
    online,      \* _commitment of the online selector
    randomized,  \* _commitment of the randomized selector
    last,        \* its _last_decision
    rollout,     \* the nodes considered so far, with the draw each was given
    log,         \* what consider of the randomized selector returned for each
    finalized    \* how many nodes there were when finalize was first called

vars == <<settings, online, randomized, last, rollout, log, finalized>>

(* TargetCommitment *)
Commitment(node, status, probability) ==
    [node |-> node, status |-> status, probability |-> probability]

TargetOf(commitment) == IF commitment = None THEN None ELSE commitment.node

-----------------------------------------------------------------------------
(* The constructors refuse a fraction of 0. *)
Init ==
    /\ settings \in [fraction : 1..Unit, threshold : 0..Unit,
                     eligible : SUBSET NodeKinds]
    /\ online = None
    /\ randomized = None
    /\ last = None
    /\ rollout = <<>>
    /\ log = <<>>
    /\ finalized = None

Here == Len(rollout) + 1

(* OnlineTargetSelector.consider *)
OnlineConsiders(kind) ==
    online' = IF online = None /\ kind \in settings.eligible
              THEN Commitment(Here, "committed", None)
              ELSE online

IsPriority(score) == score >= settings.threshold

Selects(score, draw) == IsPriority(score) \/ draw < settings.fraction

(* Mutant of SelectionProbability: the threshold itself is no priority. *)
SelectionProbabilityBelow(score) ==
    IF score > settings.threshold THEN Unit ELSE settings.fraction

SelectionProbability(score) == IF IsPriority(score) THEN Unit ELSE settings.fraction

(* RandomizedSelectiveTargetSelector.consider: what it returns, and draws. *)
Decision(kind, score, draw) ==
    CASE randomized # None -> Commitment(None, "already_committed", None)
      [] randomized = None /\ kind \notin settings.eligible ->
            Commitment(None, "ineligible", 0)
      [] OTHER ->
            IF Selects(score, draw)
            THEN Commitment(Here, "committed", SelectionProbability(score))
            ELSE Commitment(None, "skipped", SelectionProbability(score))

(* Mutant of RandomizedConsiders: the first decision is kept, whatever it is. *)
RandomizedConsidersOnce(kind, score, draw) ==
    LET decision == Decision(kind, score, draw)
    IN  /\ log' = Append(log, decision)
        /\ last' = IF randomized = None THEN decision ELSE last
        /\ randomized' = IF randomized = None THEN decision ELSE randomized

RandomizedConsiders(kind, score, draw) ==
    LET decision == Decision(kind, score, draw)
    IN  /\ log' = Append(log, decision)
        /\ last' = IF randomized = None THEN decision ELSE last
        /\ randomized' = IF decision.status = "committed" THEN decision ELSE randomized

Consider(kind, score, draw) ==
    /\ Len(rollout) < MaxNodes
    /\ OnlineConsiders(kind)
    /\ RandomizedConsiders(kind, score, draw)
    /\ rollout' = Append(rollout, [kind |-> kind, score |-> score, draw |-> draw])
    /\ UNCHANGED <<settings, finalized>>

OnlineFinalizes ==
    online' = IF online = None THEN Commitment(None, "skipped", None) ELSE online

(* Mutant of RandomizedFinalizes: any skip is kept. *)
RandomizedFinalizesClosed ==
    randomized' = IF randomized = None THEN Commitment(None, "skipped", 0) ELSE randomized

(* The randomized selector keeps a skip only if it has made no decision.   *)
RandomizedFinalizes ==
    randomized' = IF randomized = None /\ last = None
                  THEN Commitment(None, "skipped", 0) ELSE randomized

Finalize ==
    /\ OnlineFinalizes
    /\ RandomizedFinalizes
    /\ finalized' = IF finalized = None THEN Len(rollout) ELSE finalized
    /\ UNCHANGED <<settings, last, rollout, log>>

Next ==
    \/ \E kind \in NodeKinds, score \in 0..Unit, draw \in 0..(Unit - 1) :
          Consider(kind, score, draw)
    \/ Finalize

Spec == Init /\ [][Next]_vars

-----------------------------------------------------------------------------
(* Properties. *)

(* The types of the fields; a selector's commitment names a node exactly   *)
(* if it is not a skip.                                                    *)
TypeOK ==
    /\ settings \in [fraction : 1..Unit, threshold : 0..Unit, eligible : SUBSET NodeKinds]
    /\ \A c \in {online, randomized} \ {None} :
          /\ c \in Commitments({"committed", "skipped"})
          /\ c.node = None <=> c.status = "skipped"
    /\ last # None => last \in Commitments({"committed", "skipped", "ineligible"})
    /\ rollout \in Seq([kind : NodeKinds, score : 0..Unit, draw : 0..(Unit - 1)])
    /\ log \in Seq(Commitments(Statuses))
    /\ Len(log) = Len(rollout) /\ Len(rollout) <= MaxNodes
    /\ finalized # None => finalized \in 0..Len(rollout)

Nodes == DOMAIN rollout

FirstOf(nodes) == IF nodes = {} THEN None ELSE CHOOSE n \in nodes : \A m \in nodes : n <= m

EligibleNodes == {n \in Nodes : rollout[n].kind \in settings.eligible}

(***************************************************************************)
(* The online target is the first eligible node of the rollout as it was   *)
(* when finalize was first called: finalize closes the selector, and       *)
(* nothing else does.                                                      *)
(***************************************************************************)
OnlineTargetIsFirstEligible ==
    TargetOf(online) = FirstOf({n \in EligibleNodes : finalized = None \/ n <= finalized})

(***************************************************************************)
(* The randomized target is the first eligible node that has priority or   *)
(* wins its draw, however often finalize was called in between: finalize   *)
(* closes this selector only if it is called before the first node.        *)
(***************************************************************************)
WinningNodes ==
    {n \in EligibleNodes :
        \/ rollout[n].score >= settings.threshold
        \/ rollout[n].draw < settings.fraction}

RandomizedTargetIsFirstWinner ==
    TargetOf(randomized) = FirstOf(IF finalized = 0 THEN {} ELSE WinningNodes)

(***************************************************************************)
(* Neither selector looks ahead: what each commits to is decided by the    *)
(* nodes before the target, the draws, and when finalize was called.       *)
(***************************************************************************)
TargetsAreFirst == OnlineTargetIsFirstEligible /\ RandomizedTargetIsFirstWinner

(***************************************************************************)
(* The probability logged for a node is the share of draws with which it   *)
(* would have become the target, whether or not it did: 0 for a node that  *)
(* is not eligible.  Once there is a target, nodes are logged without one. *)
(***************************************************************************)
LoggedProbabilityIsExact ==
    \A n \in Nodes :
        LET open    == finalized # 0 /\ \A m \in WinningNodes : m >= n
            winning == {d \in 0..(Unit - 1) :
                           /\ n \in EligibleNodes
                           /\ \/ rollout[n].score >= settings.threshold
                              \/ d < settings.fraction}
        IN  log[n].probability = IF open THEN Cardinality(winning) ELSE None
=============================================================================
