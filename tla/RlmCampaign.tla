----------------------------- MODULE RlmCampaign ----------------------------
(***************************************************************************)
(* redco.analysis.rlm_raf.run_rlm_raf_campaign: a campaign draws programs, *)
(* builds an engine for each, replays every alternative of its root turn   *)
(* in full and sliced, and adds up mismatches, topology changes and work.  *)
(* Every step of the engines is a step of DynamicReplay.                   *)
(***************************************************************************)
EXTENDS RlmProgram

VARIABLES
    index,          \* program_index, from 0
    route,          \* original_route of the program
    alternative,    \* alternative_index, from 0
    arm,            \* the mode to replay next, or "account", or "report"
    totals          \* the campaign's counters

campaign == <<index, route, alternative, arm, totals>>

(* Programs of DynamicReplay, with the campaign's sampler. *)
CampaignPrograms ==
    {ProgramOf(i, r, d) : i \in 0..(ProgramCount - 1), r \in Routes, d \in Draws}

(* _deterministic_sampler *)
DeterministicSampler(prompt, seed) == prompt[2] \o <<JInt(1), JInt(2)>>

(* What the campaign gives its engines: the programs it can draw, its      *)
(* interventions, its sampler, and no cache.                               *)
CampaignSetting ==
    /\ CampaignPrograms \subseteq Programs
    /\ CampaignReplacements \subseteq Replacements
    /\ InitialCaches = {EmptyDict}
    /\ Draws \subseteq [children : Seq(Nat), target : Nat, direct : Nat, recursive : Nat,
                       judge : Nat]
    /\ \A i \in 0..(ProgramCount - 1), r \in Routes :
          Sampler(RoutePrompt(i, r), 10000 + i)
              = DeterministicSampler(RoutePrompt(i, r), 10000 + i)

-----------------------------------------------------------------------------
(* Accounting. *)
Metrics == {"events", "cpu_units", "generated_tokens", "judge_calls"}

NoTotals ==
    LET empty == [r \in Roles |-> [m \in Metrics |-> 0]]
    IN  [failures |-> 0, divergences |-> 0, added |-> 0, removed |-> 0,
         events |-> [m \in Modes |-> 0], work |-> [m \in Modes |-> empty],
         baseline |-> 0, actions |-> 0]

(* PolicyEventDecision.generated *)
Regenerated(outcome) ==
    {e \in DOMAIN outcome.decisions : outcome.decisions[e] = "key_changed_or_missing"}

(* Mutant of PaysTokens: whatever runs again pays for its tokens. *)
PaysTokensAlways(e, outcome) == TRUE

PaysTokens(e, outcome) == ~IsPolicy(e) \/ e \in Regenerated(outcome)

EventMetric(e, metric, outcome) ==
    CASE metric = "events" -> 1
      [] metric = "generated_tokens" ->
            IF PaysTokens(e, outcome) THEN Cmd(e).work.generated_tokens ELSE 0
      [] OTHER -> Cmd(e).work[metric]

(* _accumulate_work *)
WithWork(payload, outcome) ==
    [r \in Roles |-> [m \in Metrics |->
        LET ran == {e \in outcome.reexecuted : Cmd(e).role = r}
        IN  payload[r][m] + SumFunction([e \in ran |-> EventMetric(e, m, outcome)])]]

(* _generated_tokens *)
GeneratedTokens(active) == SumFunction([e \in active |-> Cmd(e).work.generated_tokens])

Total(payload, metric) == SumFunction([r \in Roles |-> payload[r][metric]])

-----------------------------------------------------------------------------
(* The loop over programs: draw one and build its engine. *)
CampaignInit ==
    /\ Init
    /\ index = 0 /\ alternative = 0 /\ arm = "full_suffix" /\ totals = NoTotals
    /\ route \in Routes
    /\ \E d \in Draws : program = ProgramOf(0, route, d)

NextProgram ==
    /\ phase = "idle" /\ arm = "full_suffix"
    /\ alternative = Alternatives
    /\ index + 1 < ProgramCount
    /\ index' = index + 1
    /\ alternative' = 0
    /\ route' \in Routes
    /\ \E d \in Draws : program' = ProgramOf(index', route', d)
    /\ phase' = "original" /\ pos' = 1
    /\ trace' = (EmptyTrace(EmptyDict))'
    /\ original' = trace'
    /\ request' = NoRequest /\ dirty' = Clean /\ results' = EmptyDict
    /\ UNCHANGED <<arm, totals>>

(* The engine is built, and the tokens of its original run are counted. *)
EngineBuilt ==
    /\ FinishOriginal
    /\ totals' = [totals EXCEPT !.baseline = @ + GeneratedTokens(trace.active)]
    /\ UNCHANGED <<index, route, alternative, arm>>

EngineRuns ==
    /\ \/ SkipInactive \/ ExecuteActive \/ OriginalRaises
       \/ BeginFull \/ BeginSliced \/ RemoveInactive \/ ExecuteDirty \/ ReuseClean
       \/ Return \/ ReplayRaises
    /\ UNCHANGED campaign

(* An alternative is replayed in full, then sliced; an exception in either *)
(* ends the campaign.                                                      *)
ReplayAlternative ==
    /\ alternative < Alternatives
    /\ arm \in Modes
    /\ \A m \in DOMAIN results : results[m].returned
    /\ Replay(Target, ReplacementAction(route, alternative), arm)
    /\ arm' = IF arm = "full_suffix" THEN "sliced" ELSE "account"
    /\ UNCHANGED <<index, route, alternative, totals>>

Account ==
    LET full   == results["full_suffix"]
        sliced == results["sliced"]
    IN  /\ phase = "idle" /\ arm = "account"
        /\ sliced.returned
        /\ totals' = [totals EXCEPT
               !.failures = @ + (IF full.state # sliced.state THEN 1 ELSE 0),
               !.divergences = @ + (IF Diverged(sliced) THEN 1 ELSE 0),
               !.added = @ + Cardinality(Added(sliced)),
               !.removed = @ + Cardinality(Removed(sliced)),
               !.events = [m \in Modes |-> @[m] + Cardinality(results[m].reexecuted)],
               !.work = [m \in Modes |-> WithWork(@[m], results[m])],
               !.actions = @ + Cmd(Target).work.generated_tokens]
        /\ alternative' = alternative + 1
        /\ arm' = "full_suffix"
        /\ UNCHANGED <<vars, index, route>>

Report ==
    /\ phase = "idle" /\ arm = "full_suffix"
    /\ alternative = Alternatives /\ index + 1 = ProgramCount
    /\ arm' = "report"
    /\ UNCHANGED <<vars, index, route, alternative, totals>>

(* passed_rlm_shaped_cpu_proxy *)
Passed ==
    /\ totals.failures = 0
    /\ totals.divergences > 0 /\ totals.added > 0 /\ totals.removed > 0
    /\ totals.events["sliced"] < totals.events["full_suffix"]

CampaignNext ==
    \/ NextProgram \/ EngineBuilt \/ EngineRuns
    \/ ReplayAlternative \/ Account \/ Report

(* The campaign is one sequential program, which nothing suspends.         *)
CampaignSpec ==
    /\ CampaignInit /\ [][CampaignNext]_<<vars, campaign>>
    /\ WF_<<vars, campaign>>(CampaignNext)

-----------------------------------------------------------------------------
(* Properties. *)

(***************************************************************************)
(* The report's gate is open, whatever the draws of routes, children and   *)
(* tokens: the dicts always agree, some alternative has added templates to *)
(* its branch and taken some away, and the slices have run less.           *)
(***************************************************************************)
GateIsOpen == arm = "report" => Passed

(***************************************************************************)
(* Every campaign reaches its report, and the report's gate is open: no    *)
(* program the generator can draw is refused or raises in either mode,     *)
(* whichever route it takes, no loop of the engine waits for an event that *)
(* never comes, and no draw of routes, children and tokens closes the gate.*)
(***************************************************************************)
EveryCampaignPasses ==
    /\ \A p \in Programs : WellFormed(p)
    /\ <>(arm = "report")
    /\ []GateIsOpen

(***************************************************************************)
(* A program labelled with a route takes it in its original run, and the   *)
(* branches whose topology diverged are exactly those whose alternative    *)
(* leaves the route.                                                       *)
(***************************************************************************)
RouteDecidesTopology ==
    /\ phase = "idle" => (TakesRecursiveRoute(original.active) <=> route = "recurse")
    /\ totals.divergences =
           Cardinality({b \in (0..index) \X (0..(Alternatives - 1)) :
                           Leaves(b[2]) /\ (b[1] < index \/ b[2] < alternative)})

(***************************************************************************)
(* A slice never does more than a full replay, in any role and any metric, *)
(* and both pay for the same policy tokens: what a slice runs in addition  *)
(* to the changed calls is answered by the cache.  Its savings in tokens   *)
(* are the judge's.                                                        *)
(***************************************************************************)
SlicingSavesWorkNotSamples ==
    LET full   == totals.work["full_suffix"]
        sliced == totals.work["sliced"]
    IN  /\ \A r \in Roles, m \in Metrics : sliced[r][m] <= full[r][m]
        /\ \A r \in {"root_policy", "subcall_policy"} :
              sliced[r]["generated_tokens"] = full[r]["generated_tokens"]
        /\ Total(full, "generated_tokens") - Total(sliced, "generated_tokens") =
              full["judge"]["generated_tokens"] - sliced["judge"]["generated_tokens"]
=============================================================================
