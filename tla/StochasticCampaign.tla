------------------------- MODULE StochasticCampaign -------------------------
(***************************************************************************)
(* redco.analysis.stochastic_replay_equivalence: the second campaign over  *)
(* the workload of RlmProgram.  It alternates the routes of its programs,  *)
(* gives its engines a sampler that always returns the same action, and    *)
(* keeps Bernoulli rewards of both modes, in all and for each route.       *)
(* The intervals computed from the rewards in the end are left out.        *)
(***************************************************************************)
EXTENDS RlmProgram

VARIABLES
    index,          \* program_index, from 0
    alternative,    \* alternative_index, from 0
    arm,            \* the mode to replay next, or "account"
    rewards,        \* rewards_by_route, for each route and mode
    counts          \* deterministic_mismatches and topology_divergences

campaign == <<index, alternative, arm, rewards, counts>>

(* original_route: the two strata take turns. *)
Route(i) == IF i % 2 = 0 THEN "direct" ELSE "recurse"

CampaignPrograms == {ProgramOf(i, Route(i), d) : i \in 0..(ProgramCount - 1), d \in Draws}

(* lambda *_args: (1,) *)
ConstantSampler(prompt, seed) == <<JInt(1)>>

-----------------------------------------------------------------------------
CampaignInit ==
    /\ Init
    /\ index = 0 /\ alternative = 0 /\ arm = "full_suffix"
    /\ rewards = [r \in Routes |-> [m \in Modes |-> <<>>]]
    /\ counts = [mismatches |-> 0, divergences |-> 0]
    /\ \E d \in Draws : program = ProgramOf(0, Route(0), d)

NextProgram ==
    /\ phase = "idle" /\ arm = "full_suffix"
    /\ alternative = Alternatives
    /\ index + 1 < ProgramCount
    /\ index' = index + 1
    /\ alternative' = 0
    /\ \E d \in Draws : program' = ProgramOf(index', Route(index'), d)
    /\ phase' = "original" /\ pos' = 1
    /\ trace' = (EmptyTrace(EmptyDict))'
    /\ original' = trace'
    /\ request' = NoRequest /\ dirty' = Clean /\ results' = EmptyDict
    /\ UNCHANGED <<arm, rewards, counts>>

EngineRuns ==
    /\ \/ SkipInactive \/ ExecuteActive \/ OriginalRaises \/ FinishOriginal
       \/ BeginFull \/ BeginSliced \/ RemoveInactive \/ ExecuteDirty \/ ReuseClean
       \/ Return \/ ReplayRaises
    /\ UNCHANGED campaign

ReplayAlternative ==
    /\ alternative < Alternatives
    /\ arm \in Modes
    /\ \A m \in DOMAIN results : results[m].returned
    /\ Replay(Target, ReplacementAction(Route(index), alternative), arm)
    /\ arm' = IF arm = "full_suffix" THEN "sliced" ELSE "account"
    /\ UNCHANGED <<index, alternative, rewards, counts>>

(* _bernoulli_reward: hashes of the two arms, so any two values. *)
Account ==
    LET full   == results["full_suffix"]
        sliced == results["sliced"]
    IN  /\ phase = "idle" /\ arm = "account"
        /\ sliced.returned
        /\ \E reward \in [Modes -> 0..1] :
              rewards' = [rewards EXCEPT ![Route(index)] =
                             [m \in Modes |-> Append(@[m], reward[m])]]
        /\ counts' = [mismatches |->
                          counts.mismatches + (IF full.state # sliced.state THEN 1 ELSE 0),
                      divergences |->
                          counts.divergences + (IF Diverged(sliced) THEN 1 ELSE 0)]
        /\ alternative' = alternative + 1
        /\ arm' = "full_suffix"
        /\ UNCHANGED <<vars, index>>

CampaignNext == NextProgram \/ EngineRuns \/ ReplayAlternative \/ Account

CampaignSpec == CampaignInit /\ [][CampaignNext]_<<vars, campaign>>

-----------------------------------------------------------------------------
(***************************************************************************)
(* "Balance the two strata by construction": the rewards of a program are  *)
(* counted under the route its original run takes.  The constant sampler   *)
(* answers every root turn with the same action, which is no call for      *)
(* recursion, so every original run is direct whatever its stratum.        *)
(***************************************************************************)
StratumIsOriginalRoute ==
    phase = "idle" => (TakesRecursiveRoute(original.active) <=> Route(index) = "recurse")
=============================================================================
