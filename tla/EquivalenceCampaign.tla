------------------------- MODULE EquivalenceCampaign ------------------------
(***************************************************************************)
(* redco.analysis.replay_equivalence.run_randomized_equivalence: random    *)
(* programs of additions, interventions replayed in full and then sliced   *)
(* by one engine per program, and a report of mismatches, work and kinds   *)
(* of dependency.  Every step of the engines is a step of StaticReplay.    *)
(* The other programs are replayed by somebody else, in any way.           *)
(*                                                                         *)
(* The mean work fraction is left out; it is a quotient of the counters.   *)
(***************************************************************************)
EXTENDS StaticReplay, FiniteSetsExt

CONSTANTS
    ProgramCount,       \* program_count
    Interventions,      \* interventions_per_program
    InitialStates,      \* the dicts _random_program may draw
    Outputs             \* the output names value^0, value^1, ... it gives

ASSUME CampaignAssumption ==
    /\ ProgramCount \in Nat \ {0}
    /\ Interventions \in Nat \ {0}
    /\ Len(Outputs) >= 2

VARIABLES
    index,          \* program_index, from 1
    trials,         \* interventions finished on this program
    arm,            \* the mode to replay next, or "account", "report", "other"
    totals          \* failures, work of both modes, and edges of each kind

campaign == <<index, trials, arm, totals>>
allVars  == <<vars, campaign>>

DeclaredKinds == {"control", "call", "side_effect", "observation", "resource"}
Kinds == DeclaredKinds \cup {"dataflow"}

-----------------------------------------------------------------------------
(* _random_program *)

(* What an event may read: rng.sample(available). *)
Sampled(initial, e) == DOMAIN initial \cup {Outputs[i] : i \in 1..(e - 1)}

RandomCommands(initial, e) ==
    {[kind |-> "add", param |-> None, inputs |-> inputs, output |-> Outputs[e],
      dependencies |-> {d[2] : d \in declared}, declared |-> declared] :
        inputs \in {s \in UNION {[1..k -> Sampled(initial, e)] : k \in 1..2} : IsInjective(s)},
        declared \in {{}} \cup {{d} : d \in DeclaredKinds \X (1..(e - 1))}}

(* The programs of e events; the last output is the terminal. *)
RandomPrograms ==
    LET commands[e \in 0..Len(Outputs), initial \in InitialStates] ==
            IF e = 0 THEN {<<>>}
            ELSE {Append(c, x) : c \in commands[e - 1, initial], x \in RandomCommands(initial, e)}
    IN  UNION {{[initial |-> initial, commands |-> c, terminal |-> Outputs[Len(Outputs)]] :
                    c \in commands[Len(Outputs), initial]} : initial \in InitialStates}

(* dependency_edge_counts of one program *)
EdgesOf(p, kind) ==
    MapThenSumSet(LAMBDA e :
        IF kind = "dataflow"
        THEN Cardinality({i \in DOMAIN p.commands[e].inputs :
                             p.commands[e].inputs[i] \notin DOMAIN p.initial})
        ELSE Cardinality({d \in p.commands[e].declared : d[1] = kind}), DOMAIN p.commands)

-----------------------------------------------------------------------------
NoTotals == [failures |-> 0, work |-> [m \in Modes |-> 0], edges |-> [k \in Kinds |-> 0]]

WithEdges(p) == [k \in Kinds |-> totals.edges[k] + EdgesOf(p, k)]

CampaignInit ==
    /\ Init
    /\ index = 1 /\ trials = 0
    /\ IF program \in RandomPrograms
       THEN /\ arm = "full_suffix"
            /\ totals = [NoTotals EXCEPT !.edges = [k \in Kinds |-> EdgesOf(program, k)]]
       ELSE arm = "other" /\ totals = NoTotals

(* The loops of the engine; none of them waits for anything. *)
EngineRuns ==
    /\ \/ Execute \/ ExecuteRaises \/ FinishExecute
       \/ ExpandClosure \/ CloseRoot \/ FinishClosures
       \/ ReplayPrefix \/ Intervene \/ ReplaySuffix \/ ReuseEvent
       \/ Return \/ ReplayRaises
    /\ UNCHANGED campaign

SomebodyReplays ==
    /\ arm = "other"
    /\ \E target \in Events, replacement \in Replacements, mode \in Modes :
          Replay(target, replacement, mode)
    /\ UNCHANGED campaign

IntReplacements == {r \in Replacements : r[1] = "int"}

(* A random target and replacement in full, and the same one sliced; an    *)
(* exception would end the campaign.                                       *)
Intervention ==
    /\ phase = "idle" /\ trials < Interventions
    /\ \/ /\ arm = "full_suffix"
          /\ \E target \in Events, replacement \in IntReplacements : Replay(target, replacement, arm)
          /\ arm' = "sliced"
       \/ /\ arm = "sliced"
          /\ results[request.mode].pos = EventCount + 1
          /\ Replay(request.target, request.replacement, arm)
          /\ arm' = "account"
    /\ UNCHANGED <<index, trials, totals>>

Account ==
    /\ phase = "idle" /\ arm = "account"
    /\ results["sliced"].pos = EventCount + 1
    /\ totals' = [totals EXCEPT
           !.failures = @ + (IF results["full_suffix"].state # results["sliced"].state
                             THEN 1 ELSE 0),
           !.work = [m \in Modes |-> @[m] + Cardinality(results[m].reexecuted)]]
    /\ trials' = trials + 1
    /\ arm' = "full_suffix"
    /\ results' = EmptyDict
    /\ UNCHANGED <<engine, search, phase, pos, state, request, reexecuted, index>>

ProgramIsDone == phase = "idle" /\ arm = "full_suffix" /\ trials = Interventions

NextProgram ==
    /\ ProgramIsDone /\ index < ProgramCount
    /\ program' \in RandomPrograms
    /\ phase' = "execute" /\ pos' = 1 /\ state' = program'.initial
    /\ original' = EmptyDict /\ closures' = EmptyDict
    /\ seen' = {} /\ frontier' = {}
    /\ request' = <<>> /\ reexecuted' = {} /\ results' = EmptyDict
    /\ totals' = [totals EXCEPT !.edges = WithEdges(program')]
    /\ index' = index + 1 /\ trials' = 0
    /\ UNCHANGED arm

Report ==
    /\ ProgramIsDone /\ index = ProgramCount
    /\ arm' = "report"
    /\ UNCHANGED <<vars, index, trials, totals>>

CampaignRuns == Intervention \/ Account \/ NextProgram \/ Report

CampaignNext == EngineRuns \/ SomebodyReplays \/ CampaignRuns

(* Whoever calls the engine may stop asking; the engine and the campaign   *)
(* go on by themselves.                                                    *)
CampaignSpec ==
    /\ CampaignInit /\ [][CampaignNext]_allVars
    /\ WF_allVars(EngineRuns) /\ WF_allVars(CampaignRuns)

-----------------------------------------------------------------------------
(* Properties. *)

(***************************************************************************)
(* Construction and replay always end, whoever asks for them.              *)
(***************************************************************************)
EngineAnswers == phase \notin {"idle", "failed"} ~> phase \in {"idle", "failed"}

EdgesFound == MapThenSumSet(LAMBDA e : Cardinality(Outgoing(e)), Events)

(* The edges that are counted twice: a dependency on a producer of an input. *)
CountedTwice ==
    {edge \in Events \X Events :
        edge[1] \in Cmd(edge[2]).dependencies /\ Out(edge[1]) \in ReadSet(Cmd(edge[2]))}

(***************************************************************************)
(* Every campaign reaches its report and passes: no program it can draw    *)
(* is refused by its constructor or raises in either mode, no replay       *)
(* differs, and slices never do more work.  What the first program leaves  *)
(* in the counters (later ones add to them) are the edges that the         *)
(* engine's descendants are searched along, each once for the dataflow and *)
(* once for a declared dependency.                                         *)
(***************************************************************************)
EveryCampaignPasses ==
    /\ arm # "other" => <>(arm = "report")
    /\ [](arm # "other" =>
            /\ totals.failures = 0
            /\ totals.work["sliced"] <= totals.work["full_suffix"]
            /\ index = 1 => EdgesFound + Cardinality(CountedTwice)
                               = MapThenSumSet(LAMBDA k : totals.edges[k], Kinds))
    /\ \A p \in RandomPrograms : WellFormed(p)
=============================================================================
