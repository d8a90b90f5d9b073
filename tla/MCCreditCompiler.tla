-------------------------- MODULE MCCreditCompiler --------------------------
(***************************************************************************)
(* Small instances of CreditCompiler: rollouts of three tokens, and        *)
(* branches of one prompt token and one action.                            *)
(***************************************************************************)
EXTENDS CreditCompiler, TLC

CONSTANTS
    n1, n2, n3    \* the nodes of a rollout

Masks == [1..3 -> BOOLEAN]
Spans == {s \in [start : 0..2, stop : 1..4] : s.start < s.stop}
DecisionAt(n, s, w) == [node |-> n, start |-> s.start, stop |-> s.stop, weight |-> w]

Call(mask, decisions, target, branches, supplied) ==
    [tokens |-> <<1, 2, 3>>, mask |-> mask, decisions |-> decisions, trajectory |-> 5,
     target |-> target, branches |-> branches, supplied |-> supplied]

(* Up to two decisions with any spans, and three that fit. *)
DecisionLists ==
    LET ds == {DecisionAt(n, s, IF n = n1 THEN 1 ELSE 2) : n \in {n1, n2}, s \in Spans}
        at(n, i) == DecisionAt(n, [start |-> i, stop |-> i + 1], i + 1)
    IN  {<<>>} \cup {<<d>> : d \in ds} \cup (ds \X ds) \cup {<<at(n1, 0), at(n2, 1), at(n3, 2)>>}

UntargetedCalls == {Call(m, ds, None, <<>>, None) : m \in Masks, ds \in DecisionLists}

(* Rollouts whose target may be n1. *)
Rollouts ==
    LET d(n, i, j, w) == DecisionAt(n, [start |-> i, stop |-> j], w)
    IN  {<<<<TRUE, TRUE, TRUE>>, <<d(n1, 0, 1, 2), d(n2, 1, 3, 1)>>>>,
         <<<<TRUE, FALSE, TRUE>>, <<d(n2, 0, 1, 1), d(n1, 2, 3, 1)>>>>,
         <<<<FALSE, TRUE, TRUE>>, <<d(n1, 1, 3, 2)>>>>,
         <<<<TRUE, TRUE, FALSE>>, <<d(n2, 0, 2, 1)>>>>}

Branch(tokens, mask, start, reward, source) ==
    [tokens |-> tokens, mask |-> mask, start |-> start, stop |-> 2, reward |-> reward,
     source |-> source]

(* Branches that repeat token t, do something else, train their prompt,    *)
(* train nothing, or end before their action does.                         *)
BranchPool(t) ==
    UNION {{Branch(<<9, t>>, <<FALSE, TRUE>>, 1, r, s) : r \in 0..2}
             \cup {Branch(<<9, 7>>, <<FALSE, TRUE>>, 1, 3, s),
                   Branch(<<t, t>>, <<TRUE, TRUE>>, 1, 0, s),
                   Branch(<<9, t>>, <<FALSE, FALSE>>, 1, 0, s),
                   Branch(<<9>>, <<FALSE>>, 1, 0, s),
                   Branch(<<2, 3>>, <<TRUE, TRUE>>, 0, 1, s)} : s \in {"original", "sampled"}}

BranchGroups(t) ==
    LET original(r) == Branch(<<9, t>>, <<FALSE, TRUE>>, 1, r, "original")
        sampled(r)  == Branch(<<9, 7>>, <<FALSE, TRUE>>, 1, r, "sampled")
    IN  {<<>>} \cup {<<x>> : x \in BranchPool(t)} \cup (BranchPool(t) \X BranchPool(t))
          \cup {<<original(f[1]), sampled(f[2]), sampled(f[3])>> : f \in [1..3 -> 0..2]}
          \cup {<<original(f[1]), sampled(f[2]), sampled(f[3]), sampled(f[4])>> :
                    f \in [1..4 -> 0..2]}

TargetedCalls ==
    {Call(r[1], r[2], n1, group, supplied) :
        r \in Rollouts, group \in UNION {BranchGroups(t) : t \in 1..3}, supplied \in {None, <<2, -1>>}}
      \cup {Call(r[1], r[2], None, group, supplied) :
                r \in Rollouts, group \in {<<x>> : x \in BranchPool(1)} \cup {<<>>},
                supplied \in {None, <<2, -1>>}}
=============================================================================
