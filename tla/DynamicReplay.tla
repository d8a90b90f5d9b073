---------------------------- MODULE DynamicReplay ---------------------------
(***************************************************************************)
(* redco.env.dynamic_replay: replay of programs whose command templates    *)
(* may be active in one branch and not in another.  A template has an      *)
(* optional guard on an artifact and an optional policy call; several      *)
(* templates may produce one artifact as long as no branch activates two   *)
(* of them.  FULL replay re-materializes the whole suffix; SLICED replay   *)
(* starts from the original trace, propagates dirtiness, and removes the   *)
(* outputs of templates that are no longer active.                         *)
(*                                                                         *)
(* A template is the position of its command: event ids are unique keys.   *)
(* Work estimates are carried by the code but never read by the engine,    *)
(* and are left out; of a role only the check of a policy call reads.  The *)
(* caller always gives a sampler: without one the engine refuses, before   *)
(* it runs anything, a program that has a policy template.                 *)
(***************************************************************************)
EXTENDS Commands

CONSTANTS
    Programs,         \* candidate programs; DynamicProgram.__post_init__ filters
    Replacements,     \* JSON values an intervention may put in place
    InitialCaches,    \* policy caches the caller may hand to the engine
    Sampler(_, _)     \* the caller's sampler: prompt and seed to an action

ASSUME ProgramsAssumption ==
    \A p \in Programs :
        /\ IsDict(p.initial)
        /\ Len(p.commands) \in Nat
        /\ DOMAIN p.commands = 1..Len(p.commands)

(* A PolicyActionCache keeps its actions in a dict. *)
ASSUME CachesAssumption == \A cache \in InitialCaches : IsDict(cache)

VARIABLES
    program,     \* the engine's program
    phase,       \* which loop of the engine is running
    pos,         \* the template that loop is at
    trace,       \* the _MaterializedTrace the running loop extends
    original,    \* self._original; its cache is self._base_policy_cache
    request,     \* the intervention being or last replayed
    dirty,       \* dirty artifacts and dirty events of a sliced replay
    results      \* mode -> outcome, for the modes request was replayed in

vars == <<program, phase, pos, trace, original, request, dirty, results>>

Modes == {"full_suffix", "sliced"}

NoGuard  == [artifact |-> "none"]
NoPolicy == [prompt |-> "none"]

PolicyRoles == {"root_policy", "subcall_policy"}

-----------------------------------------------------------------------------
(* Programs. *)

Available(p, e) == DOMAIN p.initial \cup {p.commands[i].output : i \in 1..(e - 1)}

(* DynamicCommand.__post_init__ and DynamicProgram.__post_init__ *)
WellFormed(p) ==
    /\ \A e \in 1..Len(p.commands) :
          LET c == p.commands[e]
          IN  /\ c.policy = NoPolicy \/ c.policy.prompt \in ReadSet(c)
              /\ c.policy = NoPolicy \/ c.role \in PolicyRoles
              /\ c.guard = NoGuard \/ c.guard.artifact \in Available(p, e)
              /\ ReadSet(c) \subseteq Available(p, e)
              /\ c.dependencies \subseteq 1..(e - 1)
              /\ c.output \notin DOMAIN p.initial
    /\ p.terminal \in Available(p, Len(p.commands) + 1)

EventCount == Len(program.commands)
Events     == 1..EventCount
Cmd(e)     == program.commands[e]
Out(e)     == program.commands[e].output

-----------------------------------------------------------------------------
(* Activation and evaluation of one template. *)

(* BranchGuard.matches raises KeyError ... *)
GuardMissing(e, dict) ==
    Cmd(e).guard # NoGuard /\ Cmd(e).guard.artifact \notin DOMAIN dict

(* ... or compares canonical JSON, in which True is not 1. *)
IsActive(e, dict) ==
    Cmd(e).guard # NoGuard =>
        ~GuardMissing(e, dict) /\ dict[Cmd(e).guard.artifact] = Cmd(e).guard.equals

IsInactive(e, dict) == ~GuardMissing(e, dict) /\ ~IsActive(e, dict)

IsPolicy(e) == Cmd(e).policy # NoPolicy

(* A policy prompt must be a list of integers; bools are refused. *)
PromptReady(e, dict) ==
    LET prompt == Cmd(e).policy.prompt
    IN  /\ prompt \in DOMAIN dict
        /\ IsList(dict[prompt])
        /\ \A i \in DOMAIN dict[prompt][2] : IsInt(dict[prompt][2][i])

(* PolicyCallKey.from_call; equal hashes are equal prompts. *)
Key(e, dict) ==
    [prompt |-> dict[Cmd(e).policy.prompt], config |-> Cmd(e).policy.config,
     seed |-> Cmd(e).policy.seed]

(* PolicyActionCache.resolve: the cached action, or the sampler's. *)
Action(cache, key) ==
    IF key \in DOMAIN cache THEN cache[key] ELSE Sampler(key.prompt, key.seed)

(* DynamicReplayEngine._execute_value *)
Value(e, t) ==
    IF ~IsPolicy(e) THEN ExecuteCommand(Cmd(e), t.state)
    ELSE IF PromptReady(e, t.state) THEN JList(Action(t.cache, Key(e, t.state)))
    ELSE Raised

(* Mutant of Resolved: a sampled action is not recorded. *)
ResolvedUnrecorded(e, t) ==
    IF ~IsPolicy(e) THEN t
    ELSE [t EXCEPT !.decisions = Put(@, e, IF Key(e, t.state) \in DOMAIN t.cache
                                           THEN "exact_key_match"
                                           ELSE "key_changed_or_missing")]

(* What resolving leaves behind: the cache entry, and the decision. *)
Resolved(e, t) ==
    IF ~IsPolicy(e) THEN t
    ELSE LET key == Key(e, t.state)
         IN  [t EXCEPT !.cache = Put(@, key, Action(@, key)),
                       !.decisions = Put(@, e, IF key \in DOMAIN t.cache
                                               THEN "exact_key_match"
                                               ELSE "key_changed_or_missing")]

(* state[output] = value; producer_by_artifact[output] = event; the event  *)
(* joins active_event_ids, which is in template order and so is a set.     *)
Written(t, e, value) ==
    [t EXCEPT !.state = Put(@, Out(e), value),
              !.producer = Put(@, Out(e), e),
              !.active = @ \cup {e}]

(* Mutant of EmptyTrace: the branch starts with a new cache, not a fork. *)
EmptyTraceNewCache(cache) ==
    [state |-> program.initial,
     producer |-> [a \in DOMAIN program.initial |-> 0],
     active |-> {}, cache |-> EmptyDict, decisions |-> EmptyDict]

EmptyTrace(cache) ==
    [state |-> program.initial,
     producer |-> [a \in DOMAIN program.initial |-> 0],
     active |-> {}, cache |-> cache, decisions |-> EmptyDict]

-----------------------------------------------------------------------------
NoRequest == [target |-> 0, replacement |-> None, mode |-> "full_suffix"]
Clean     == [artifacts |-> {}, events |-> {}]

Init ==
    /\ program \in {p \in Programs : WellFormed(p)}
    /\ phase = "original"
    /\ pos = 1
    /\ \E cache \in InitialCaches : trace = EmptyTrace(cache)
    /\ original = trace
    /\ request = NoRequest
    /\ dirty = Clean
    /\ results = EmptyDict

(***************************************************************************)
(* One iteration of the loop shared by _execute_original, _execute_prefix  *)
(* and _full_suffix: skip an inactive template, run an active one.         *)
(***************************************************************************)
Materializing ==
    \/ phase \in {"original", "full"} /\ pos \in Events
    \/ phase = "prefix" /\ pos < request.target

SkipInactive ==
    /\ Materializing
    /\ IsInactive(pos, trace.state)
    /\ pos' = pos + 1
    /\ UNCHANGED <<program, phase, trace, original, request, dirty, results>>

(* Mutant of ExecuteActive: an output that already exists is overwritten. *)
ExecuteActiveOverwriting ==
    /\ Materializing
    /\ IsActive(pos, trace.state)
    /\ Value(pos, trace) # Raised
    /\ trace' = Written(Resolved(pos, trace), pos, Value(pos, trace))
    /\ pos' = pos + 1
    /\ UNCHANGED <<program, phase, original, request, dirty, results>>

(* _execute_active *)
ExecuteActive ==
    /\ Materializing
    /\ IsActive(pos, trace.state)
    /\ Out(pos) \notin DOMAIN trace.state
    /\ Value(pos, trace) # Raised
    /\ trace' = Written(Resolved(pos, trace), pos, Value(pos, trace))
    /\ pos' = pos + 1
    /\ UNCHANGED <<program, phase, original, request, dirty, results>>

(* A missing guard artifact, a second active producer, or a command that   *)
(* raises.                                                                 *)
CannotMaterialize ==
    \/ GuardMissing(pos, trace.state)
    \/ /\ IsActive(pos, trace.state)
       /\ Out(pos) \in DOMAIN trace.state \/ Value(pos, trace) = Raised

TerminalMissing == program.terminal \notin DOMAIN trace.state

(* __init__ aborts: there is no engine to replay. *)
OriginalRaises ==
    /\ phase = "original"
    /\ \/ pos \in Events /\ CannotMaterialize
       \/ pos = EventCount + 1 /\ TerminalMissing
    /\ phase' = "failed"
    /\ UNCHANGED <<program, pos, trace, original, request, dirty, results>>

FinishOriginal ==
    /\ phase = "original" /\ pos = EventCount + 1
    /\ ~TerminalMissing
    /\ original' = trace
    /\ phase' = "idle"
    /\ UNCHANGED <<program, pos, trace, request, dirty, results>>

(***************************************************************************)
(* replay(target, replacement, mode).  The prefix starts from a fork of    *)
(* the base policy cache.  An unknown target or one absent from the        *)
(* original branch is refused before anything is done.  results is the     *)
(* caller's record of the outcomes of one intervention, one call per mode. *)
(***************************************************************************)
Replay(target, replacement, mode) ==
    /\ phase = "idle"
    /\ target \in original.active
    /\ phase' = "prefix"
    /\ pos' = 1
    /\ trace' = EmptyTrace(original.cache)
    /\ request' = [target |-> target, replacement |-> replacement, mode |-> mode]
    /\ dirty' = Clean
    /\ results' = IF /\ request.target = target
                     /\ request.replacement = replacement
                     /\ mode \notin DOMAIN results
                  THEN results
                  ELSE EmptyDict
    /\ UNCHANGED <<program, original>>

(* The target's output is replaced, whether or not something is there. *)
Replaced ==
    LET t == Written(trace, request.target, request.replacement)
    IN  IF IsPolicy(request.target)
        THEN [t EXCEPT !.decisions = Put(@, request.target, "intervention_action")]
        ELSE t

BeginFull ==
    /\ phase = "prefix" /\ pos = request.target
    /\ IsActive(pos, trace.state)
    /\ request.mode = "full_suffix"
    /\ trace' = Replaced
    /\ phase' = "full"
    /\ pos' = pos + 1
    /\ UNCHANGED <<program, original, request, dirty, results>>

(* _sliced overlays the prefix on the original trace. *)
BeginSliced ==
    /\ phase = "prefix" /\ pos = request.target
    /\ IsActive(pos, trace.state)
    /\ request.mode = "sliced"
    /\ trace' = [Replaced EXCEPT !.state = Update(original.state, @),
                                 !.producer = Update(original.producer, @)]
    /\ dirty' = [artifacts |-> IF request.replacement = original.state[Out(pos)]
                               THEN {} ELSE {Out(pos)},
                 events |-> {pos}]
    /\ phase' = "sliced"
    /\ pos' = pos + 1
    /\ UNCHANGED <<program, original, request, results>>

-----------------------------------------------------------------------------
(* One iteration of the loop of _sliced. *)

(* producer_by_artifact.get(name); no event is 0. *)
Producer(name) == IF name \in DOMAIN trace.producer THEN trace.producer[name] ELSE 0

Without(dict, key) == Restrict(dict, DOMAIN dict \ {key})

(* Mutant of RemoveInactive: the producer entry stays. *)
RemoveInactiveKeepingProducer ==
    /\ phase = "sliced" /\ pos \in Events
    /\ IsInactive(pos, trace.state)
    /\ trace' = IF Producer(Out(pos)) = pos
                THEN [trace EXCEPT !.state = Without(@, Out(pos))]
                ELSE trace
    /\ pos' = pos + 1
    /\ UNCHANGED <<program, phase, original, request, dirty, results>>

(* A template that is not active in this branch takes its output with it,   *)
(* unless the output is another template's.                                *)
RemoveInactive ==
    /\ phase = "sliced" /\ pos \in Events
    /\ IsInactive(pos, trace.state)
    /\ trace' = IF Producer(Out(pos)) = pos
                THEN [trace EXCEPT !.state = Without(@, Out(pos)),
                                   !.producer = Without(@, Out(pos))]
                ELSE trace
    /\ pos' = pos + 1
    /\ UNCHANGED <<program, phase, original, request, dirty, results>>

(* Mutant of ShouldExecute: a changed input does not make an event dirty. *)
ShouldExecuteIgnoringData(e) ==
    \/ e \notin original.active
    \/ Cmd(e).guard # NoGuard /\ Cmd(e).guard.artifact \in dirty.artifacts
    \/ Cmd(e).dependencies \cap dirty.events # {}
    \/ Producer(Out(e)) # e

ShouldExecute(e) ==
    \/ e \notin original.active
    \/ Cmd(e).guard # NoGuard /\ Cmd(e).guard.artifact \in dirty.artifacts
    \/ ReadSet(Cmd(e)) \cap dirty.artifacts # {}
    \/ Cmd(e).dependencies \cap dirty.events # {}
    \/ Producer(Out(e)) # e

(* Another template active in this branch already produced the output. *)
HasRival(e) == Producer(Out(e)) # e /\ Producer(Out(e)) \in trace.active

ExecuteDirty ==
    LET value == Value(pos, trace)
        changed == \/ Producer(Out(pos)) # pos
                   \/ trace.state[Out(pos)] # value
    IN  /\ phase = "sliced" /\ pos \in Events
        /\ IsActive(pos, trace.state)
        /\ ShouldExecute(pos)
        /\ ~HasRival(pos)
        /\ value # Raised
        /\ trace' = Written(Resolved(pos, trace), pos, value)
        /\ dirty' = [artifacts |-> dirty.artifacts \cup (IF changed THEN {Out(pos)} ELSE {}),
                     events |-> dirty.events \cup {pos}]
        /\ pos' = pos + 1
        /\ UNCHANGED <<program, phase, original, request, results>>

ReuseClean ==
    /\ phase = "sliced" /\ pos \in Events
    /\ IsActive(pos, trace.state)
    /\ ~ShouldExecute(pos)
    /\ trace' = [trace EXCEPT
                    !.active = @ \cup {pos},
                    !.decisions = IF IsPolicy(pos)
                                  THEN Put(@, pos, "unchanged_event_reuse") ELSE @]
    /\ pos' = pos + 1
    /\ UNCHANGED <<program, phase, original, request, dirty, results>>

CannotSlice ==
    \/ GuardMissing(pos, trace.state)
    \/ /\ IsActive(pos, trace.state)
       /\ ShouldExecute(pos)
       /\ HasRival(pos) \/ Value(pos, trace) = Raised

-----------------------------------------------------------------------------
(* DynamicReplayEngine._result, or the exception that ended the call. The   *)
(* sliced loop adds every event it re-executes, and no other, to the dirty *)
(* events.                                                                 *)
Suffix == {e \in trace.active : e > request.target}

Returned ==
    [returned |-> TRUE, state |-> trace.state, active |-> trace.active,
     cache |-> trace.cache, decisions |-> trace.decisions,
     reexecuted |-> IF request.mode = "sliced" THEN Suffix \cap dirty.events ELSE Suffix]

Aborted == [returned |-> FALSE, at |-> pos]

Return ==
    /\ phase \in {"full", "sliced"} /\ pos = EventCount + 1
    /\ ~TerminalMissing
    /\ results' = Put(results, request.mode, Returned)
    /\ phase' = "idle"
    /\ UNCHANGED <<program, pos, trace, original, request, dirty>>

(* Includes "original intervention target became inactive" and the missing *)
(* terminal output.                                                        *)
ReplayRaises ==
    /\ \/ phase \in {"prefix", "full"} /\ Materializing /\ CannotMaterialize
       \/ phase = "prefix" /\ pos = request.target /\ ~IsActive(pos, trace.state)
       \/ phase = "sliced" /\ pos \in Events /\ CannotSlice
       \/ phase \in {"full", "sliced"} /\ pos = EventCount + 1 /\ TerminalMissing
    /\ results' = Put(results, request.mode, Aborted)
    /\ phase' = "idle"
    /\ UNCHANGED <<program, pos, trace, original, request, dirty>>

Next ==
    \/ SkipInactive \/ ExecuteActive \/ OriginalRaises \/ FinishOriginal
    \/ \E target \in Events, replacement \in Replacements, mode \in Modes :
          Replay(target, replacement, mode)
    \/ BeginFull \/ BeginSliced
    \/ RemoveInactive \/ ExecuteDirty \/ ReuseClean
    \/ Return \/ ReplayRaises

Spec == Init /\ [][Next]_vars

-----------------------------------------------------------------------------
(* Properties. *)

IsTrace(t) ==
    /\ t = [state |-> t.state, producer |-> t.producer, active |-> t.active,
            cache |-> t.cache, decisions |-> t.decisions]
    /\ IsDict(t.state) /\ IsDict(t.producer) /\ IsDict(t.cache) /\ IsDict(t.decisions)
    /\ DOMAIN t.state \subseteq Available(program, EventCount + 1)
    /\ DOMAIN t.producer = DOMAIN t.state
    /\ \A a \in DOMAIN t.state :
          IF a \in DOMAIN program.initial THEN t.producer[a] = 0
          ELSE t.producer[a] \in Events /\ Out(t.producer[a]) = a
    /\ t.active \subseteq Events
    /\ DOMAIN t.decisions \subseteq {e \in Events : IsPolicy(e)}

(* The types of the engine's fields; a trace records a producer for every  *)
(* artifact it holds and for no other.                                     *)
TypeOK ==
    /\ program \in Programs /\ WellFormed(program)
    /\ phase \in {"original", "idle", "prefix", "full", "sliced", "failed"}
    /\ pos \in 1..(EventCount + 1)
    /\ IsTrace(trace) /\ IsTrace(original)
    /\ request = NoRequest \/
          request \in [target : Events, replacement : Replacements, mode : Modes]
    /\ dirty.artifacts \subseteq Available(program, EventCount + 1)
    /\ dirty.events \subseteq Events
    /\ IsDict(results) /\ DOMAIN results \subseteq Modes

FullReturned == "full_suffix" \in DOMAIN results /\ results["full_suffix"].returned

(***************************************************************************)
(* Exactness: whenever the full replay of an intervention returns, the     *)
(* sliced one returns the same dict, activates the same templates, samples *)
(* the same policy events and leaves the same policy cache.                *)
(***************************************************************************)
SlicedEqualsFull ==
    FullReturned /\ "sliced" \in DOMAIN results =>
        LET full   == results["full_suffix"]
            sliced == results["sliced"]
            Regenerated(o) == {e \in DOMAIN o.decisions :
                                  o.decisions[e] = "key_changed_or_missing"}
        IN  /\ sliced.returned
            /\ sliced.state = full.state
            /\ sliced.active = full.active
            /\ sliced.cache = full.cache
            /\ Regenerated(sliced) = Regenerated(full)
            /\ DOMAIN sliced.decisions = DOMAIN full.decisions

(***************************************************************************)
(* A returned full replay is a branch of the program: the templates that   *)
(* ran are exactly those whose guard holds in the final dict, each artifact *)
(* has one producer, nothing else is left in the dict, and every output    *)
(* except the target's is what its template computes from the final dict.  *)
(***************************************************************************)
BranchIsCoherent ==
    FullReturned =>
        LET o == results["full_suffix"]
        IN  /\ \A e \in Events :
                  e \in o.active <=> IsActive(e, o.state)
            /\ \A e, f \in o.active : Out(e) = Out(f) => e = f
            /\ DOMAIN o.state = DOMAIN program.initial \cup {Out(e) : e \in o.active}
            /\ \A e \in o.active :
                  o.state[Out(e)] = IF e = request.target THEN request.replacement
                                                         ELSE Value(e, o)

(***************************************************************************)
(* Putting back the value the target had reproduces the original branch in *)
(* both modes, and samples nothing.                                        *)
(***************************************************************************)
ReplayOfOriginalIsIdentity ==
    \A m \in DOMAIN results :
        request.replacement = original.state[Out(request.target)] =>
            LET o == results[m]
            IN  /\ o.returned
                /\ o.state = original.state
                /\ o.active = original.active
                /\ o.cache = original.cache
                /\ \A e \in DOMAIN o.decisions : o.decisions[e] # "key_changed_or_missing"

(***************************************************************************)
(* The prefix is restored: no replay fails before its target, the target   *)
(* never becomes inactive, the same templates run, no policy event of the  *)
(* prefix is sampled again, and these templates and every event a slice    *)
(* reuses keep their original output.                                      *)
(***************************************************************************)
UntouchedEventsAreOriginal ==
    \A m \in DOMAIN results :
        LET o == results[m]
            t == request.target
        IN  IF ~o.returned THEN o.at > t
            ELSE /\ {e \in o.active : e < t} = {e \in original.active : e < t}
                 /\ \A e \in DOMAIN o.decisions :
                       e < t => o.decisions[e] = "exact_key_match"
                 /\ \A e \in o.active \ (o.reexecuted \cup {t}) :
                       /\ e \in original.active
                       /\ o.state[Out(e)] = original.state[Out(e)]

(***************************************************************************)
(* The original branch survives its interventions: the no-op intervention  *)
(* reproduces it, and no replay changes what it did not re-execute.        *)
(***************************************************************************)
ReplayKeepsOriginal == ReplayOfOriginalIsIdentity /\ UntouchedEventsAreOriginal

(* The prompt of a template in the branch of an outcome: initial, or the   *)
(* output of an earlier template that is active in the branch.             *)
PromptIsProduced(e, o) ==
    LET prompt == Cmd(e).policy.prompt
    IN  \/ prompt \in DOMAIN program.initial
        \/ \E d \in o.active : d < e /\ Out(d) = prompt

(***************************************************************************)
(* Policy actions are reused by exact key only.  In a replay of either     *)
(* mode that returns, whatever the other mode does, and for every policy   *)
(* event whose prompt the branch produces: the event is sampled only when  *)
(* the original run has no action for its key, and an event a slice reuses *)
(* without asking the cache has the action cached for its key.  When the   *)
(* full replay of the intervention returns, the branch produces every      *)
(* prompt, and the claim is about all policy events; when it raises, a     *)
(* slice may still return, with an event reported as reused whose prompt   *)
(* has left the branch, and which has no key any more.  It is excluded     *)
(* here; the counterexample to SlicedRaisesWithFull below has one.         *)
(***************************************************************************)
ReuseIsByExactKey ==
    \A m \in DOMAIN results : results[m].returned =>
        \A e \in DOMAIN results[m].decisions :
            LET o      == results[m]
                key    == Key(e, o.state)
                reason == o.decisions[e]
            IN  /\ FullReturned => PromptIsProduced(e, o)
                /\ PromptIsProduced(e, o) =>
                      /\ reason = "key_changed_or_missing" => key \notin DOMAIN original.cache
                      /\ reason = "unchanged_event_reuse" =>
                            /\ key \in DOMAIN original.cache
                            /\ o.state[Out(e)] = JList(original.cache[key])

-----------------------------------------------------------------------------
(* Two claims the code does not keep. *)

(***************************************************************************)
(* "Exact paired replay": if the full replay of an intervention raises, so *)
(* does the sliced one.  A reused template whose input has left the branch *)
(* is never re-executed, so the missing input is not noticed; if it is a   *)
(* policy call and the input its prompt, it is reported as reused without  *)
(* a key.                                                                  *)
(***************************************************************************)
SlicedRaisesWithFull ==
    DOMAIN results = Modes /\ ~results["full_suffix"].returned =>
        ~results["sliced"].returned

(***************************************************************************)
(* "Ordered command templates": a template that is executed reads outputs  *)
(* of earlier templates only.  The sliced trace starts with the outputs of *)
(* the whole original run, later ones included.                            *)
(***************************************************************************)
ReadsEarlierOutputs ==
    phase \in {"full", "sliced"} /\ pos \in Events
      /\ IsActive(pos, trace.state) /\ (phase = "sliced" => ShouldExecute(pos)) =>
        \A a \in ReadSet(Cmd(pos)) \cap DOMAIN trace.state : trace.producer[a] < pos
=============================================================================
