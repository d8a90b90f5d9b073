--------------------------- MODULE CreditCompiler ---------------------------
(***************************************************************************)
(* redco.algo.training.compile_redco_records: the token spans of a rollout *)
(* are claimed by its decisions, and then either every decision is         *)
(* credited with the trajectory's advantage, or the target's credit is     *)
(* taken out and given to the branches that were sampled from its state.   *)
(* decision_normalized_loss turns the records into the objective, and      *)
(* assemble_redco_credit (redco.algo.branching) computes the same credit   *)
(* for four branches from a mask and a span.                               *)
(*                                                                         *)
(* Rewards, advantages and weights are integers.  With K branches a weight *)
(* and a normalizer count in units of 1/K, and a leave-one-out advantage   *)
(* in units of 1/(K-1), so that nothing is divided.  A token span          *)
(* [start, stop) holds the positions start + 1 to stop.  Environment names *)
(* are carried through and left out, and so is the test for finite floats. *)
(***************************************************************************)
EXTENDS Integers, Sequences, FiniteSets, Functions

CONSTANTS
    Inputs,      \* the argument lists of a call
    None         \* no node; no advantages supplied

IsSequence(s) == Len(s) \in Nat /\ DOMAIN s = 1..Len(s)

(* What SequenceExample, TokenSpan and PolicyDecision accept: masks are     *)
(* tuples of booleans, spans are not empty, and weights are positive.      *)
IsCall(c) ==
    /\ c.mask \in Seq(BOOLEAN)
    /\ c.trajectory \in Int
    /\ IsSequence(c.decisions) /\ IsSequence(c.branches)
    /\ \A n \in DOMAIN c.decisions :
          LET d == c.decisions[n]
          IN  /\ d.node # None
              /\ d.start \in Nat /\ d.stop \in Nat /\ d.start < d.stop
              /\ d.weight \in Nat \ {0}
    /\ \A k \in DOMAIN c.branches :
          c.branches[k].mask \in Seq(BOOLEAN) /\ c.branches[k].reward \in Int
    /\ c.supplied # None => c.supplied \in Seq(Int)

ASSUME InputsAssumption == \A c \in Inputs : IsCall(c)

VARIABLES
    input,       \* the arguments of the running call
    phase,       \* how far it has come
    next,        \* _validate_decisions: the decision to look at
    owner,       \* _validate_decisions: position -> node that claimed it
    records      \* the trainer records so far

vars == <<input, phase, next, owner, records>>

Decisions == input.decisions
Branches  == input.branches
K         == IF Branches = <<>> THEN 1 ELSE Len(Branches)

Span(a) == (a.start + 1)..a.stop
Trainable(mask) == {i \in DOMAIN mask : mask[i]}
Nodes == {Decisions[n].node : n \in DOMAIN Decisions}

Refuse ==
    /\ phase' = "refused"
    /\ UNCHANGED <<input, next, owner, records>>

-----------------------------------------------------------------------------
Init ==
    /\ input \in Inputs
    /\ phase = "decisions"
    /\ next = 1
    /\ owner = [i \in DOMAIN input.mask |-> None]
    /\ records = <<>>

NodeIdsAreUnique == Cardinality(Nodes) = Len(Decisions)

(* Mutant of CanClaim: spans may overlap. *)
CanClaimAgain(d) ==
    /\ d.stop <= Len(input.mask)
    /\ Span(d) \subseteq Trainable(input.mask)

CanClaim(d) ==
    /\ d.stop <= Len(input.mask)
    /\ Span(d) \subseteq Trainable(input.mask)
    /\ \A i \in Span(d) : owner[i] = None

(* Mutant of ClaimantOf: the owner is the decision instead of its id. *)
ClaimantOfWhole(d) == d

ClaimantOf(d) == d.node

(* One turn of the loop of _validate_decisions. *)
ClaimSpan ==
    /\ phase = "decisions" /\ NodeIdsAreUnique /\ next <= Len(Decisions)
    /\ LET d == Decisions[next]
       IN  /\ CanClaim(d)
           /\ owner' = [i \in DOMAIN owner |->
                           IF i \in Span(d) THEN ClaimantOf(d) ELSE owner[i]]
    /\ next' = next + 1
    /\ UNCHANGED <<input, phase, records>>

Uncovered == {i \in Trainable(input.mask) : owner[i] = None}

RefuseDecisions ==
    /\ phase = "decisions"
    /\ \/ Decisions = <<>>
       \/ ~NodeIdsAreUnique
       \/ next <= Len(Decisions) /\ ~CanClaim(Decisions[next])
       \/ next > Len(Decisions) /\ Uncovered # {}
    /\ Refuse

EveryTokenIsClaimed ==
    /\ phase = "decisions" /\ Decisions # <<>> /\ NodeIdsAreUnique
    /\ next > Len(Decisions) /\ Uncovered = {}

(* ReDCOTrainerRecord.__post_init__ *)
IsAccepted(r) ==
    /\ DOMAIN r.advantages = DOMAIN r.mask /\ DOMAIN r.weights = DOMAIN r.mask
    /\ r.units > 0
    /\ \A i \in DOMAIN r.mask : r.weights[i] # 0 => r.mask[i]
    /\ \A i \in DOMAIN r.mask : r.weights[i] >= 0

(* The call goes on with the record, unless its constructor raises. *)
Emit(r, then) ==
    /\ IF IsAccepted(r)
       THEN records' = Append(records, r) /\ phase' = then
       ELSE phase' = "broken" /\ UNCHANGED records
    /\ UNCHANGED <<input, next, owner>>

(* The incumbent sequence, with the trajectory's credit for some decisions. *)
IncumbentRecord(ds) ==
    LET claimed(i) == {d \in ds : i \in Span(d)}
    IN  [kind       |-> "incumbent",
         mask       |-> input.mask,
         advantages |-> [i \in DOMAIN input.mask |->
                            IF claimed(i) = {} THEN 0 ELSE input.trajectory],
         weights    |-> [i \in DOMAIN input.mask |->
                            IF claimed(i) = {} THEN 0
                            ELSE K * (CHOOSE d \in claimed(i) : TRUE).weight],
         units      |-> K * Cardinality(ds)]

DecisionSet == {Decisions[n] : n \in DOMAIN Decisions}

WithoutTarget ==
    /\ EveryTokenIsClaimed
    /\ input.target = None
    /\ IF Branches = <<>> /\ input.supplied = None
       THEN Emit(IncumbentRecord(DecisionSet), "returned")
       ELSE Refuse

(* _validate_branch_action *)
TrainsItsSpan(b) == b.stop <= Len(b.mask) /\ Span(b) = Trainable(b.mask)

Action(sequence, span) == SubSeq(sequence.tokens, span.start + 1, span.stop)

Target == CHOOSE d \in DecisionSet : d.node = input.target

BranchesAreSound ==
    /\ input.target \in Nodes
    /\ Len(Branches) >= 2
    /\ \A k \in DOMAIN Branches :
          /\ Branches[k].source = IF k = 1 THEN "original" ELSE "sampled"
          /\ TrainsItsSpan(Branches[k])
    /\ Action(Branches[1], Branches[1]) = Action(input, Target)

Untargeted == {d \in DecisionSet : d.node # input.target}

(* The target is checked, and the other decisions are credited; a rollout  *)
(* of one decision has no incumbent record.                                *)
WithTarget ==
    /\ EveryTokenIsClaimed
    /\ input.target # None
    /\ IF ~BranchesAreSound THEN Refuse
       ELSE IF Untargeted = {}
            THEN phase' = "branches" /\ UNCHANGED <<input, next, owner, records>>
            ELSE Emit(IncumbentRecord(Untargeted), "branches")

Rewards == [k \in DOMAIN Branches |-> Branches[k].reward]

(* Mutant of LeaveOneOut: the reward itself is left in the baseline. *)
LeaveOneOutOfNothing(rewards, k) == (Len(rewards) - 1) * rewards[k] - SumFunction(rewards)

(* leave_one_out_advantages, times Len(rewards) - 1 *)
LeaveOneOut(rewards, k) ==
    (Len(rewards) - 1) * rewards[k] - (SumFunction(rewards) - rewards[k])

Advantage(k) ==
    IF input.supplied = None THEN LeaveOneOut(Rewards, k) ELSE input.supplied[k]

(* Mutant of BranchUnits: every branch counts as a decision. *)
BranchUnitsWhole == K

(* branch_normalizer *)
BranchUnits == 1

BranchRecord(k) ==
    LET b == Branches[k]
    IN  [kind       |-> "branch",
         mask       |-> b.mask,
         advantages |-> [i \in DOMAIN b.mask |-> IF i \in Span(b) THEN Advantage(k) ELSE 0],
         weights    |-> [i \in DOMAIN b.mask |-> IF i \in Span(b) THEN Target.weight ELSE 0],
         units      |-> BranchUnits]

BranchesDone == {n \in DOMAIN records : records[n].kind = "branch"}

SuppliedFit == input.supplied # None => Len(input.supplied) = Len(Branches)

EmitBranch ==
    /\ phase = "branches"
    /\ SuppliedFit
    /\ LET k == Cardinality(BranchesDone) + 1
       IN  Emit(BranchRecord(k), IF k = Len(Branches) THEN "returned" ELSE "branches")

RefuseSupplied ==
    /\ phase = "branches"
    /\ ~SuppliedFit
    /\ Refuse

Next ==
    \/ ClaimSpan \/ RefuseDecisions
    \/ WithoutTarget \/ WithTarget
    \/ EmitBranch \/ RefuseSupplied

Spec == Init /\ [][Next]_vars

-----------------------------------------------------------------------------
(* decision_normalized_loss: records recs are scored with log-probability  *)
(* current[n][i] for token i of record n, behavior[n][i] when it was       *)
(* sampled.  The sums are those the code divides by the normalizer.        *)
Selected(r) == {i \in DOMAIN r.mask : r.weights[i] # 0}

Normalizer(recs) == SumFunction([n \in DOMAIN recs |-> recs[n].units])

PolicyGradient(recs, current) ==
    -SumFunction([n \in DOMAIN recs |->
        SumFunction([i \in Selected(recs[n]) |->
            recs[n].advantages[i] * current[n][i] * recs[n].weights[i]])])

Drift(current, behavior, n, i) ==
    (current[n][i] - behavior[n][i]) * (current[n][i] - behavior[n][i])

DriftPenalty(recs, current, behavior) ==
    SumFunction([n \in DOMAIN recs |->
        SumFunction([i \in Selected(recs[n]) |->
            Drift(current, behavior, n, i) * recs[n].weights[i]])])

-----------------------------------------------------------------------------
(* assemble_redco_credit, for the mask and the target of this call. *)

(* Mutant of Replaced: the incumbent keeps the target's credit. *)
ReplacedNothing == {}

Replaced == IF input.target = None THEN {} ELSE Span(Target)

Assembled ==
    [incumbent |-> [i \in DOMAIN input.mask |->
                       IF input.mask[i] /\ i \notin Replaced THEN input.trajectory ELSE 0],
     branches  |-> [k \in DOMAIN Branches |->
                       [advantage |-> LeaveOneOut(Rewards, k), weight |-> Target.weight]]]

-----------------------------------------------------------------------------
(* Properties. *)

(* The types of the loop variables; what is claimed is claimed by a node   *)
(* of the call.                                                            *)
TypeOK ==
    /\ phase \in {"idle", "decisions", "branches", "returned", "refused", "broken"}
    /\ next \in 1..(Len(Decisions) + 1)
    /\ owner \in [DOMAIN input.mask -> Nodes \cup {None}]
    /\ Len(records) <= Len(Branches) + 1
    /\ \A n \in DOMAIN records : records[n].kind \in {"incumbent", "branch"}

SpansPartitionTheAction ==
    /\ Decisions # <<>> /\ NodeIdsAreUnique
    /\ \A m, n \in DOMAIN Decisions :
          m # n => Span(Decisions[m]) \cap Span(Decisions[n]) = {}
    /\ UNION {Span(d) : d \in DecisionSet} = Trainable(input.mask)

(***************************************************************************)
(* The token-by-token validation refuses a call exactly if its decisions   *)
(* do not partition the trainable tokens, or its branches do not fit; and  *)
(* what it lets through never fails later: no record built from it trains  *)
(* a token that is not trainable, or has no decision.                      *)
(***************************************************************************)
RefusesExactly ==
    LET compilable ==
            /\ SpansPartitionTheAction
            /\ IF input.target = None
               THEN Branches = <<>> /\ input.supplied = None
               ELSE BranchesAreSound /\ SuppliedFit
    IN  /\ phase = "refused" => ~compilable
        /\ phase = "returned" => compilable
        /\ phase # "broken"

BranchAt(n) == n - Len(records) + Len(Branches)

(***************************************************************************)
(* The loss of the compiled records is the objective of the README: the    *)
(* log-probabilities of each action are summed and weighted once, a        *)
(* targeted action's by its branches' credit, and the sum is divided by    *)
(* the number of decisions, whether or not one is split into branches.     *)
(***************************************************************************)
IsPerDecision(current, behavior) ==
    LET kept   == DOMAIN records \ BranchesDone
        others == {d \in DecisionSet : d.node # input.target}
        logprob(n, a) == SumFunctionOnSet(current[n], Span(a))
        drift(n, a)   == SumFunction([i \in Span(a) |-> Drift(current, behavior, n, i)])
    IN  /\ Normalizer(records) = K * Len(Decisions)
        /\ PolicyGradient([n \in kept |-> records[n]], current) =
              -K * SumFunction([d \in others |-> d.weight * input.trajectory * logprob(1, d)])
        /\ PolicyGradient([n \in BranchesDone |-> records[n]], current) =
              -SumFunction([n \in BranchesDone |->
                  Target.weight * Advantage(BranchAt(n)) * logprob(n, Branches[BranchAt(n)])])
        /\ DriftPenalty(records, current, behavior) =
              K * SumFunction([d \in others |-> d.weight * drift(1, d)])
              + SumFunction([n \in BranchesDone |->
                    Target.weight * drift(n, Branches[BranchAt(n)])])

(* So at log-probabilities that differ from record to record and from      *)
(* token to token.                                                         *)
LossIsPerDecision ==
    phase = "returned" =>
        IsPerDecision([n \in DOMAIN records |->
                          [i \in DOMAIN records[n].mask |-> -(2 * n + i * i)]],
                      [n \in DOMAIN records |->
                          [i \in DOMAIN records[n].mask |-> -(n * i + 1)]])

(***************************************************************************)
(* The branches' own advantages are in balance: they sum to zero and rank  *)
(* the branches as their rewards do.                                       *)
(***************************************************************************)
BranchAdvantagesBalance ==
    phase = "returned" /\ input.target # None /\ input.supplied = None =>
        LET advantages == [k \in DOMAIN Branches |-> Advantage(k)]
        IN  /\ SumFunction(advantages) = 0
            /\ \A j, k \in DOMAIN Branches :
                  Rewards[j] < Rewards[k] <=> advantages[j] < advantages[k]

(***************************************************************************)
(* assemble_redco_credit and compile_redco_records give the same credit    *)
(* wherever both apply: without a target, or with four branches.           *)
(***************************************************************************)
AssemblyAgrees ==
    phase = "returned" /\ input.supplied = None /\ Len(Branches) \in {0, 4} =>
        /\ \A n \in DOMAIN records \ BranchesDone :
              records[n].advantages = Assembled.incumbent
        /\ BranchesDone = DOMAIN records =>
              Assembled.incumbent = [i \in DOMAIN input.mask |-> 0]
        /\ \A k \in DOMAIN Branches :
              LET r == records[Len(records) - Len(Branches) + k]
                  b == Assembled.branches[k]
              IN  \A i \in Span(Branches[k]) :
                      r.advantages[i] = b.advantage /\ r.weights[i] = b.weight
=============================================================================
