--------------------------- MODULE CreditConfusion --------------------------
(***************************************************************************)
(* redco.analysis.credit_confusion: tasks of two decisions, a context and  *)
(* a target, and luck, on which two estimators of the target's gradient    *)
(* are compared.  The moments of both are enumerated exactly; then seeded  *)
(* trials learn with either one, from records that the maintained compiler *)
(* and loss (CreditCompiler) turn into optimizer steps.  A behaviour is    *)
(* the diagnostic of one probe with one learning trial, since probes and   *)
(* trials share nothing, or a call of the compiler by anybody else.        *)
(*                                                                         *)
(* Probabilities count in units of 1/Whole; a trial's logit counts from    *)
(* its start, in units of its step: learning_rate over the group's         *)
(* denominators and Whole.  Draws of positive probability are choices.     *)
(***************************************************************************)
EXTENDS CreditCompiler, Folds, Combinatorics

CONSTANTS
    Whole,       \* a probability of one
    Probes,      \* ConfusionProbe: name and the three probabilities
    Configs,     \* candidate DiagnosticConfig; __post_init__ filters them
    Thresholds   \* arm -> the logit at which target_threshold is reached

(* With certain luck the code's enumeration would have no category at all; *)
(* no probe has it.                                                        *)
ASSUME ConfusionAssumption ==
    /\ Whole \in Nat \ {0}
    /\ \A probe \in Probes :
          /\ probe.context \in 0..Whole /\ probe.luck \in 0..(Whole - 1)
          /\ probe.target \in 1..(Whole - 1)
          /\ probe.name \in {"irrelevant_target", "redundant_target", "lucky_target"}
    /\ \A c \in Configs : {c.group, c.branches, c.episodes, c.budget} \subseteq Nat
    /\ Thresholds \in [{"trajectory_loo", "redco"} -> Int]
    /\ None \notin Nat \cup {"target"}

VARIABLES
    probe,       \* the task
    config,      \* the DiagnosticConfig
    stage,       \* what build_credit_confusion_diagnostic is doing
    moments,     \* the moments it has enumerated
    arm,         \* the estimator of the learning trial
    level,       \* its target_logit
    step,        \* its step, from 1
    batch,       \* the records of that step so far
    called,      \* the policy actions drawn for the trial so far
    threshold    \* threshold_calls

trial     == <<arm, level, step, batch, called, threshold>>
diagnosis == <<probe, config, stage, moments>>
allVars   == <<vars, diagnosis, trial>>

Bit == {0, 1}
Arms == {"trajectory_loo", "redco"}

(* standard_confusion_probes *)
Reward(context, target, luck) ==
    CASE probe.name = "irrelevant_target" -> context
      [] probe.name = "redundant_target" -> IF context = 1 \/ target = 1 THEN 1 ELSE 0
      [] probe.name = "lucky_target" -> target + (IF luck = 1 THEN 1 ELSE -1)

(* _bernoulli_probability *)
Chance(value, probability) == IF value = 1 THEN probability ELSE Whole - probability

Drawable(probability) == {v \in Bit : Chance(v, probability) > 0}

(* DiagnosticConfig.__post_init__ *)
IsSound(c) ==
    /\ c.group >= 2 /\ c.branches >= 2 /\ c.episodes >= 1
    /\ 2 * c.group = c.episodes * (1 + c.branches)
    /\ c.budget >= 2 * c.group

CallsPerUpdate == 2 * config.group

(* Mutant of MaximumSteps: a rest of the budget starts an update. *)
MaximumStepsRoundedUp == (config.budget + CallsPerUpdate - 1) \div CallsPerUpdate

MaximumSteps == config.budget \div CallsPerUpdate

-----------------------------------------------------------------------------
(* Exact moments. *)

(* _categories *)
Categories ==
    {[target |-> t, reward |-> Reward(c, t, l), context |-> c, luck |-> l,
      mass |-> Chance(c, probe.context) * Chance(t, probe.target) * Chance(l, probe.luck)] :
        c \in Drawable(probe.context), t \in Bit, l \in Drawable(probe.luck)}

Score(action) == Whole * action - probe.target

(* exact_target_gradient *)
ExactGradient == SumFunction([x \in Categories |-> x.mass * x.reward * Score(x.target)])

(* _count_vectors: how often each category occurs among total draws; the   *)
(* last category takes what the others leave.                              *)
CountVectors(total) ==
    LET vectors[S \in SUBSET Categories, rest \in 0..total] ==
            LET first == CHOOSE x \in S : TRUE
            IN  IF Cardinality(S) = 1 THEN {[x \in S |-> rest]}
                ELSE UNION {{[x \in S |-> IF x = first THEN n ELSE tail[x]] :
                                tail \in vectors[S \ {first}, rest - n]} : n \in 0..rest}
    IN  vectors[Categories, total]

Product(f) == FoldFunction(LAMBDA x, y : x * y, 1, f)

(* Mutant of Multinomial: sequences of draws are not counted. *)
MultinomialOrdered(counts) == Product([x \in Categories |-> x.mass ^ counts[x]])

(* _multinomial_probability *)
Multinomial(counts) ==
    (factorial[SumFunction(counts)] \div Product([x \in Categories |-> factorial[counts[x]]]))
      * Product([x \in Categories |-> x.mass ^ counts[x]])

(* _loo_gradient_from_counts, times the group size and one less. *)
GroupGradient(counts) ==
    LET size  == SumFunction(counts)
        total == SumFunction([x \in DOMAIN counts |-> counts[x] * x.reward])
    IN  SumFunction([x \in DOMAIN counts |->
            counts[x] * ((size - 1) * x.reward - (total - x.reward)) * Score(x.target)])

(* _moments *)
Moments(value, weight) ==
    [mass   |-> SumFunction(weight),
     mean   |-> SumFunction([x \in DOMAIN value |-> weight[x] * value[x]]),
     second |-> SumFunction([x \in DOMAIN value |-> weight[x] * value[x] ^ 2])]

(* trajectory_target_moments *)
TrajectoryMoments ==
    LET vectors == CountVectors(config.group)
    IN  Moments([v \in vectors |-> GroupGradient(v)], [v \in vectors |-> Multinomial(v)])

(* redco_target_moments of one episode: a world, and how many of its       *)
(* branches choose the target.                                             *)
Worlds == [context : Drawable(probe.context), luck : Drawable(probe.luck),
           successes : 0..config.branches]

BranchCounts(w) ==
    [x \in {[target |-> t, reward |-> Reward(w.context, t, w.luck)] : t \in Bit} |->
        IF x.target = 1 THEN w.successes ELSE config.branches - w.successes]

WorldWeight(w) ==
    Chance(w.context, probe.context) * Chance(w.luck, probe.luck)
      * choose(config.branches, w.successes)
      * probe.target ^ w.successes * (Whole - probe.target) ^ (config.branches - w.successes)

RedcoMoments ==
    Moments([w \in Worlds |-> GroupGradient(BranchCounts(w))], [w \in Worlds |-> WorldWeight(w)])

-----------------------------------------------------------------------------
(* A learning trial. *)

(* sigmoid: any map that never decreases, into the open interval, will do. *)
Sigmoid(logit) ==
    LET p == probe.target + logit
    IN  IF p < 1 THEN 1 ELSE IF p > Whole - 1 THEN Whole - 1 ELSE p

(* Mutant of LogProb: what is common to both actions is left out of one. *)
LogProbOfTarget(action, at) == action * (Whole * at - Sigmoid(level) * at)

(* _bernoulli_logprob of an action at a distance of at from the logit: the *)
(* action's share, and a term common to both actions.                      *)
LogProb(action, at) == Whole * action * at - (Sigmoid(level) * at + at * at)

Sampled(record, action, reward) == [record |-> record, target |-> action, reward |-> reward]

(* _trajectory_records *)
TrajectoryBatch(draws) ==
    LET rewards == [k \in DOMAIN draws |-> Reward(draws[k].context, draws[k].target, draws[k].luck)]
    IN  [k \in DOMAIN draws |->
            Sampled([kind |-> "incumbent", mask |-> <<TRUE>>,
                     advantages |-> <<LeaveOneOut(rewards, k)>>, weights |-> <<1>>, units |-> 1],
                    draws[k].target, rewards[k])]

(* _loss_gradient: half the central difference of the loss, before it is   *)
(* divided by the normalizer.                                              *)
LossGradient(samples) ==
    LET recs == [n \in DOMAIN samples |-> samples[n].record]
        loss(at) == PolicyGradient(recs,
                        [n \in DOMAIN samples |-> <<LogProb(samples[n].target, at)>>])
    IN  (loss(1) - loss(-1)) \div 2

NoCall == [tokens |-> <<>>, mask |-> <<>>, decisions |-> <<>>, trajectory |-> 0, target |-> None,
           branches |-> <<>>, supplied |-> None]

CompilerRests == phase = "idle" /\ UNCHANGED vars

(* Mutant of BranchReward: sampled branches have a luck of their own. *)
BranchRewardOwnLuck(context, target, luck, k) ==
    Reward(context, target, IF k = 1 THEN luck ELSE 0)

(* The branches of an episode share its context and its luck. *)
BranchReward(context, target, luck, k) == Reward(context, target, luck)

(* The call of compile_redco_records for one episode. *)
EpisodeCall(context, luck, targets) ==
    [tokens |-> <<targets[1]>>, mask |-> <<TRUE>>, trajectory |-> 0,
     decisions |-> <<[node |-> "target", start |-> 0, stop |-> 1, weight |-> 1]>>,
     target |-> "target", supplied |-> None,
     branches |-> [k \in DOMAIN targets |->
         [tokens |-> <<targets[k]>>, mask |-> <<TRUE>>, start |-> 0, stop |-> 1,
          reward |-> BranchReward(context, targets[k], luck, k),
          source |-> IF k = 1 THEN "original" ELSE "sampled"]]]

-----------------------------------------------------------------------------
NoTrial ==
    /\ level = 0 /\ step = 1 /\ batch = <<>> /\ called = 0 /\ threshold = None

DiagnosticInit ==
    /\ input = NoCall /\ phase = "idle" /\ next = 1 /\ owner = <<>> /\ records = <<>>
    /\ probe \in Probes
    /\ config \in {c \in Configs : IsSound(c)}
    /\ arm \in Arms
    /\ stage = "exact" /\ moments = <<>>
    /\ NoTrial

(* Somebody else calls the compiler. *)
CallerInit ==
    /\ Init
    /\ probe = None /\ config = None /\ arm = None /\ stage = "caller" /\ moments = <<>>
    /\ NoTrial

Enumerate(now, value, then) ==
    /\ stage = now
    /\ moments' = Append(moments, value)
    /\ stage' = then
    /\ CompilerRests /\ UNCHANGED <<probe, config, trial>>

EnumerateMoments ==
    \/ Enumerate("exact", ExactGradient, "trajectory")
    \/ Enumerate("trajectory", TrajectoryMoments, "redco")
    \/ Enumerate("redco", RedcoMoments, "learn")

SamplesPerStep == IF arm = "redco" THEN config.episodes * config.branches ELSE config.group

IsCollected == stage = "learn" /\ Len(batch) = SamplesPerStep

(* Two policy actions for each trajectory. *)
DrawTrajectories ==
    /\ stage = "learn" /\ arm = "trajectory_loo" /\ batch = <<>>
    /\ \E draws \in [1..config.group ->
                         [context : Drawable(probe.context), target : Bit, luck : Drawable(probe.luck)]] :
          batch' = TrajectoryBatch(draws)
    /\ called' = called + 2 * config.group
    /\ CompilerRests /\ UNCHANGED <<diagnosis, arm, level, step, threshold>>

(* One policy action for the context, and one for each branch. *)
DrawEpisode ==
    /\ stage = "learn" /\ arm = "redco" /\ phase = "idle" /\ ~IsCollected
    /\ \E context \in Drawable(probe.context), luck \in Drawable(probe.luck),
           targets \in [1..config.branches -> Bit] :
          input' = EpisodeCall(context, luck, targets)
    /\ phase' = "decisions" /\ owner' = <<None>>
    /\ called' = called + 1 + config.branches
    /\ UNCHANGED <<next, records, diagnosis, arm, level, step, batch, threshold>>

Compile == (stage \in {"learn", "caller"}) /\ Next /\ UNCHANGED <<diagnosis, trial>>

(* Mutant of CollectEpisode: the next call starts where this one stopped. *)
CollectEpisodeOnly ==
    /\ stage = "learn" /\ phase = "returned"
    /\ batch' = batch \o [n \in DOMAIN records |->
                    Sampled(records[n], Branches[n].tokens[1], Branches[n].reward)]
    /\ input' = NoCall /\ phase' = "idle" /\ owner' = <<>> /\ records' = <<>>
    /\ UNCHANGED <<next, diagnosis, arm, level, step, called, threshold>>

CollectEpisode ==
    /\ stage = "learn" /\ phase = "returned"
    /\ batch' = batch \o [n \in DOMAIN records |->
                    Sampled(records[n], Branches[n].tokens[1], Branches[n].reward)]
    /\ input' = NoCall /\ phase' = "idle" /\ next' = 1 /\ owner' = <<>> /\ records' = <<>>
    /\ UNCHANGED <<diagnosis, arm, level, step, called, threshold>>

Learn ==
    /\ IsCollected
    /\ level' = level - LossGradient(batch)
    /\ threshold' = IF threshold = None /\ level' >= Thresholds[arm] THEN step * CallsPerUpdate ELSE threshold
    /\ step' = step + 1
    /\ stage' = IF step = MaximumSteps THEN "done" ELSE "learn"
    /\ batch' = <<>>
    /\ CompilerRests /\ UNCHANGED <<probe, config, moments, arm, called>>

DiagnosticNext ==
    \/ EnumerateMoments \/ DrawTrajectories \/ DrawEpisode
    \/ Compile \/ CollectEpisode \/ Learn

(* A running computation goes on: both are loops without a wait. *)
DiagnosticSpec ==
    /\ CallerInit \/ DiagnosticInit
    /\ [][DiagnosticNext]_allVars
    /\ WF_allVars(DiagnosticNext)

-----------------------------------------------------------------------------
(* Properties. *)

(***************************************************************************)
(* The claim of the analysis: the enumerated outcomes have all of the      *)
(* probability, and both estimators have the exact gradient as their mean, *)
(* for every task and group size; where the target does not matter, every  *)
(* value of the branch estimator is zero.                                  *)
(***************************************************************************)
EstimatorsAreUnbiased ==
    stage = "learn" /\ step = 1 =>
        LET g == config.group
            k == config.branches
            exact      == moments[1]
            trajectory == moments[2]
            redco      == moments[3]
        IN  /\ trajectory.mass = Whole ^ (3 * g)
            /\ redco.mass = Whole ^ (2 + k)
            /\ trajectory.mean = exact * g * (g - 1) * Whole ^ (3 * (g - 1))
            /\ redco.mean = exact * k * (k - 1) * Whole ^ (k - 1)
            /\ probe.name = "irrelevant_target" => redco.second = 0 /\ trajectory.second > 0
            /\ probe.name # "irrelevant_target" => exact > 0

(* The groups of a batch: all trajectories, or the branches of an episode. *)
Groups ==
    IF arm = "trajectory_loo" THEN {DOMAIN batch}
    ELSE {((e - 1) * config.branches + 1)..(e * config.branches) : e \in 1..config.episodes}

Outcome(n) == [target |-> batch[n].target, reward |-> batch[n].reward]

CountsOf(group) ==
    [x \in {Outcome(n) : n \in group} |-> Cardinality({n \in group : Outcome(n) = x})]

(***************************************************************************)
(* A trial's step, taken by differences of the loss over compiled records, *)
(* is the estimator whose moments were enumerated, at the outcomes drawn;  *)
(* the loss divides it by one decision per trajectory or per episode.      *)
(***************************************************************************)
TrialsStepAsEnumerated ==
    IsCollected =>
        /\ LossGradient(batch) = -SumFunction([g \in Groups |-> GroupGradient(CountsOf(g))])
        /\ Normalizer([n \in DOMAIN batch |-> batch[n].record]) =
              IF arm = "redco" THEN config.branches * config.episodes ELSE config.group

(***************************************************************************)
(* Branches share their world, so no draw of it can mislead the branch     *)
(* estimator: its trials never move away from the target where the target  *)
(* helps, and never move at all where it does not matter.                  *)
(***************************************************************************)
RedcoIsNeverMisled ==
    [][arm = "redco" =>
          /\ level' >= level
          /\ probe.name = "irrelevant_target" => level' = level]_level

(***************************************************************************)
(* Both arms are charged for the policy actions they draw, spend all but   *)
(* less than one update of the same budget, and report the first step at   *)
(* which the threshold was reached, if any.                                *)
(***************************************************************************)
BudgetIsShared ==
    /\ stage = "done" =>
          /\ called = MaximumSteps * CallsPerUpdate
          /\ called <= config.budget /\ config.budget < called + CallsPerUpdate
    /\ threshold = None /\ step > 1 => ~(level >= Thresholds[arm])
    /\ threshold # None => threshold \in {n * CallsPerUpdate : n \in 1..(step - 1)}

(***************************************************************************)
(* Every call of the compiler is answered, and every diagnostic ends.      *)
(***************************************************************************)
ComputationEnds == <>(stage = "done" \/ (stage = "caller" /\ phase \in {"returned", "refused"}))
=============================================================================
