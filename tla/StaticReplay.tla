---------------------------- MODULE StaticReplay ----------------------------
(***************************************************************************)
(* redco.env.replay: a straight-line program of typed commands, executed   *)
(* once, and then replayed under interventions.  An intervention replaces  *)
(* the output of one target event.  FULL replay re-executes the whole      *)
(* suffix; SLICED replay starts from the original final state and          *)
(* re-executes only the target's descendants in the event graph.  The two  *)
(* are claimed to share "one deterministic execution semantics".           *)
(*                                                                         *)
(* An event is the position of its command in the program: the code's      *)
(* event ids are unique and are used only as keys.                         *)
(***************************************************************************)
EXTENDS Commands

CONSTANTS
    Programs,       \* candidate programs; Program.__post_init__ filters them
    Replacements    \* JSON values an intervention may put in place

(* Shape only: a program is a record of an initial dict, a sequence of      *)
(* commands and a terminal output name.                                    *)
ASSUME ProgramsAssumption ==
    \A p \in Programs :
        /\ IsDict(p.initial)
        /\ Len(p.commands) \in Nat
        /\ DOMAIN p.commands = 1..Len(p.commands)

VARIABLES
    program,      \* the engine's program
    phase,        \* which loop of the engine is running
    pos,          \* the event that loop is at
    state,        \* the dict the running loop writes
    original,     \* self.original.state
    closures,     \* self._descendants: event -> set of events
    seen,         \* the closure under construction
    frontier,     \* its breadth-first queue
    request,      \* the intervention being or last replayed
    reexecuted,   \* suffix events executed by the running replay
    results       \* mode -> outcome, for the modes request was replayed in

engine == <<program, original, closures>>
search == <<seen, frontier>>
replay == <<request, reexecuted, results>>
vars   == <<engine, search, replay, phase, pos, state>>

Modes == {"full_suffix", "sliced"}

-----------------------------------------------------------------------------
(* Programs and their event graph. *)

Available(p, e) == DOMAIN p.initial \cup {p.commands[i].output : i \in 1..(e - 1)}

(* Program.__post_init__ *)
WellFormed(p) ==
    /\ \A e \in 1..Len(p.commands) :
          /\ ReadSet(p.commands[e]) \subseteq Available(p, e)
          /\ p.commands[e].dependencies \subseteq 1..(e - 1)
          /\ p.commands[e].output \notin Available(p, e)
    /\ p.terminal \in Available(p, Len(p.commands) + 1)

EventCount == Len(program.commands)
Events  == 1..EventCount
Cmd(e)  == program.commands[e]
Out(e)  == program.commands[e].output

(* Mutant of Outgoing: the edges of the data flow are forgotten. *)
OutgoingDeclaredOnly(e) == {d \in Events : e \in Cmd(d).dependencies}

(* outgoing[e]: the events that name e as a dependency or read its output. *)
Outgoing(e) == {d \in Events : e \in Cmd(d).dependencies \/ Out(e) \in ReadSet(Cmd(d))}

Run(e, dict) == ExecuteCommand(Cmd(e), dict)

-----------------------------------------------------------------------------
Init ==
    /\ program \in {p \in Programs : WellFormed(p)}
    /\ phase = "execute"
    /\ pos = 1
    /\ state = program.initial
    /\ original = EmptyDict
    /\ closures = EmptyDict
    /\ seen = {}
    /\ frontier = {}
    /\ request = <<>>
    /\ reexecuted = {}
    /\ results = EmptyDict

(***************************************************************************)
(* ReplayEngine.__init__: DeterministicExecutor.execute ...                *)
(***************************************************************************)
Execute ==
    /\ phase = "execute" /\ pos \in Events
    /\ Run(pos, state) # Raised
    /\ state' = Put(state, Out(pos), Run(pos, state))
    /\ pos' = pos + 1
    /\ UNCHANGED <<engine, search, replay, phase>>

(* A raising command aborts the constructor: there is no engine to replay. *)
ExecuteRaises ==
    /\ phase = "execute" /\ pos \in Events
    /\ Run(pos, state) = Raised
    /\ phase' = "failed"
    /\ UNCHANGED <<engine, search, replay, pos, state>>

FinishExecute ==
    /\ phase = "execute" /\ pos = EventCount + 1
    /\ original' = state
    /\ phase' = "closures"
    /\ pos' = 1
    /\ seen' = {}
    /\ frontier' = {1}
    /\ UNCHANGED <<program, closures, replay, state>>

(***************************************************************************)
(* ... then _event_descendants: one breadth-first search per event.  A     *)
(* node's descendants are Python sets, so the order in which equals leave  *)
(* the queue is not determined; any frontier element may be next.          *)
(***************************************************************************)
(* Mutant of ExpandClosure: the head of the queue is read, not removed. *)
ExpandClosurePeeking ==
    /\ phase = "closures" /\ pos \in Events
    /\ \E current \in frontier :
          /\ seen' = seen \cup Outgoing(current)
          /\ frontier' = frontier \cup (Outgoing(current) \ seen)
    /\ UNCHANGED <<engine, replay, phase, pos, state>>

(* Mutant of ExpandClosure: a newly seen event is not queued. *)
ExpandClosureOnce ==
    /\ phase = "closures" /\ pos \in Events
    /\ \E current \in frontier :
          /\ seen' = seen \cup Outgoing(current)
          /\ frontier' = frontier \ {current}
    /\ UNCHANGED <<engine, replay, phase, pos, state>>

ExpandClosure ==
    /\ phase = "closures" /\ pos \in Events
    /\ \E current \in frontier :
          LET new == Outgoing(current) \ seen
          IN  /\ seen' = seen \cup new
              /\ frontier' = (frontier \ {current}) \cup new
    /\ UNCHANGED <<engine, replay, phase, pos, state>>

(* Mutant of CloseRoot: the next search starts with what this one saw. *)
CloseRootWithoutReset ==
    /\ phase = "closures" /\ pos \in Events
    /\ frontier = {}
    /\ closures' = Put(closures, pos, seen)
    /\ pos' = pos + 1
    /\ seen' = seen
    /\ frontier' = {pos + 1}
    /\ UNCHANGED <<program, original, replay, phase, state>>

CloseRoot ==
    /\ phase = "closures" /\ pos \in Events
    /\ frontier = {}
    /\ closures' = Put(closures, pos, seen)
    /\ pos' = pos + 1
    /\ seen' = {}
    /\ frontier' = {pos + 1}
    /\ UNCHANGED <<program, original, replay, phase, state>>

FinishClosures ==
    /\ phase = "closures" /\ pos = EventCount + 1
    /\ phase' = "idle"
    /\ UNCHANGED <<engine, search, replay, pos, state>>

(***************************************************************************)
(* ReplayEngine.replay(target, replacement, mode).  The engine keeps       *)
(* nothing between calls; results is the caller's record of the outcomes   *)
(* of one intervention, dropped when another intervention is asked for.    *)
(***************************************************************************)
Replay(target, replacement, mode) ==
    /\ phase = "idle"
    /\ phase' = "prefix"
    /\ pos' = 1
    /\ state' = program.initial
    /\ request' = [target |-> target, replacement |-> replacement, mode |-> mode]
    /\ reexecuted' = {}
    /\ results' = IF /\ DOMAIN results # {}
                     /\ request.target = target
                     /\ request.replacement = replacement
                  THEN results
                  ELSE EmptyDict
    /\ UNCHANGED <<engine, search>>

ReplayPrefix ==
    /\ phase = "prefix" /\ pos < request.target
    /\ Run(pos, state) # Raised
    /\ state' = Put(state, Out(pos), Run(pos, state))
    /\ pos' = pos + 1
    /\ UNCHANGED <<engine, search, replay, phase>>

(* prefix_state[target.output] = replacement; SLICED then overlays it on   *)
(* the original final state.                                               *)
Intervened(dict) ==
    LET prefix == Put(dict, Out(request.target), request.replacement)
    IN  IF request.mode = "full_suffix" THEN prefix ELSE Update(original, prefix)

Intervene ==
    /\ phase = "prefix" /\ pos = request.target
    /\ state' = Intervened(state)
    /\ phase' = "suffix"
    /\ pos' = pos + 1
    /\ UNCHANGED <<engine, search, replay>>

Selected(e) == request.mode = "full_suffix" \/ e \in closures[request.target]

(* Mutant of ReplaySuffix: the re-executed event is not listed. *)
ReplaySuffixUnlisted ==
    /\ phase = "suffix" /\ pos \in Events
    /\ Selected(pos)
    /\ Run(pos, state) # Raised
    /\ state' = Put(state, Out(pos), Run(pos, state))
    /\ pos' = pos + 1
    /\ UNCHANGED <<engine, search, replay, phase>>

ReplaySuffix ==
    /\ phase = "suffix" /\ pos \in Events
    /\ Selected(pos)
    /\ Run(pos, state) # Raised
    /\ state' = Put(state, Out(pos), Run(pos, state))
    /\ reexecuted' = reexecuted \cup {pos}
    /\ pos' = pos + 1
    /\ UNCHANGED <<engine, search, phase, request, results>>

(* Mutant of ReuseEvent: the loop runs past the last event. *)
ReuseEventUnbounded ==
    /\ phase = "suffix"
    /\ ~Selected(pos)
    /\ pos' = pos + 1
    /\ UNCHANGED <<engine, search, replay, phase, state>>

ReuseEvent ==
    /\ phase = "suffix" /\ pos \in Events
    /\ ~Selected(pos)
    /\ pos' = pos + 1
    /\ UNCHANGED <<engine, search, replay, phase, state>>

(* What a call ended with: pos is the event that raised, or EventCount + 1. *)
Outcome == [pos |-> pos, state |-> state, reexecuted |-> reexecuted]

Return ==
    /\ phase = "suffix" /\ pos = EventCount + 1
    /\ results' = Put(results, request.mode, Outcome)
    /\ phase' = "idle"
    /\ UNCHANGED <<engine, search, pos, state, request, reexecuted>>

ReplayRaises ==
    /\ \/ phase = "prefix" /\ pos < request.target
       \/ phase = "suffix" /\ pos \in Events /\ Selected(pos)
    /\ Run(pos, state) = Raised
    /\ results' = Put(results, request.mode, Outcome)
    /\ phase' = "idle"
    /\ UNCHANGED <<engine, search, pos, state, request, reexecuted>>

Next ==
    \/ Execute \/ ExecuteRaises \/ FinishExecute
    \/ ExpandClosure \/ CloseRoot \/ FinishClosures
    \/ \E target \in Events, replacement \in Replacements, mode \in Modes :
          Replay(target, replacement, mode)
    \/ ReplayPrefix \/ Intervene \/ ReplaySuffix \/ ReuseEvent
    \/ Return \/ ReplayRaises

Spec == Init /\ [][Next]_vars

-----------------------------------------------------------------------------
(* Properties. *)

IsOutcome(o) ==
    /\ o = [pos |-> o.pos, state |-> o.state, reexecuted |-> o.reexecuted]
    /\ o.pos \in 1..(EventCount + 1)
    /\ IsDict(o.state)
    /\ DOMAIN o.state \subseteq Available(program, EventCount + 1)
    /\ o.reexecuted \subseteq Events

(* The types of the engine's fields and loop variables; every dict holds   *)
(* only artifacts the program names.                                       *)
TypeOK ==
    /\ program \in Programs /\ WellFormed(program)
    /\ phase \in {"execute", "closures", "idle", "prefix", "suffix", "failed"}
    /\ pos \in 1..(EventCount + 1)
    /\ IsDict(state) /\ DOMAIN state \subseteq Available(program, EventCount + 1)
    /\ IsDict(original) /\ DOMAIN original \subseteq Available(program, EventCount + 1)
    /\ DOMAIN closures \subseteq Events
    /\ closures \in [DOMAIN closures -> SUBSET Events]
    /\ seen \subseteq Events
    /\ frontier \subseteq 1..(EventCount + 1)
    /\ phase \in {"prefix", "suffix"} \/ DOMAIN results # {} =>
          request \in [target : Events, replacement : Replacements, mode : Modes]
    /\ reexecuted \subseteq Events
    /\ IsDict(results) /\ DOMAIN results \subseteq Modes
    /\ \A m \in DOMAIN results : IsOutcome(results[m])

(***************************************************************************)
(* The claim of the class ReplayEngine: replaying one intervention in both *)
(* modes gives the same final dict, and if one of them raises, the other   *)
(* raises at the same event.                                               *)
(***************************************************************************)
SlicedEqualsFull ==
    DOMAIN results = Modes =>
        LET full   == results["full_suffix"]
            sliced == results["sliced"]
        IN  /\ full.pos = sliced.pos
            /\ full.pos = EventCount + 1 => full.state = sliced.state

(***************************************************************************)
(* What a replay means, in either mode: every event it got past computes   *)
(* its own output from the dict the replay ends with, except the target,   *)
(* which has the replacement; and if it stopped early, the event it        *)
(* stopped at cannot be computed from that dict.  A stale input that a     *)
(* slice failed to refresh breaks this.                                    *)
(***************************************************************************)
OutcomesSolveProgram ==
    \A m \in DOMAIN results :
        LET o == results[m]
        IN  /\ \A e \in 1..(o.pos - 1) :
                  o.state[Out(e)] = IF e = request.target THEN request.replacement
                                                         ELSE Run(e, o.state)
            /\ o.pos \in Events => Run(o.pos, o.state) = Raised

(***************************************************************************)
(* Putting back the value the target had reproduces the original run in    *)
(* both modes (tests call this the no-op intervention).                    *)
(***************************************************************************)
ReplayOfOriginalIsIdentity ==
    \A m \in DOMAIN results :
        request.replacement = original[Out(request.target)] =>
            results[m].pos = EventCount + 1 /\ results[m].state = original

(***************************************************************************)
(* The prefix is restored, never changed, and cannot raise; an event that  *)
(* a replay reports as reused carries its original value.                  *)
(***************************************************************************)
UntouchedEventsAreOriginal ==
    \A m \in DOMAIN results :
        LET o == results[m]
        IN  /\ o.pos > request.target
            /\ \A e \in (1..(o.pos - 1)) \ (o.reexecuted \cup {request.target}) :
                  o.state[Out(e)] = original[Out(e)]

(***************************************************************************)
(* The original run survives its interventions: the no-op intervention     *)
(* reproduces it, and no replay changes what it did not re-execute.        *)
(***************************************************************************)
ReplayKeepsOriginal == ReplayOfOriginalIsIdentity /\ UntouchedEventsAreOriginal

(***************************************************************************)
(* Once the engine is constructed, the breadth-first searches have found   *)
(* exactly the descendants of every event: the closure contains the        *)
(* successors, is closed under successors, and is contained in every set   *)
(* of events with these two properties.                                    *)
(***************************************************************************)
ContainsDescendants(e, S) ==
    Outgoing(e) \subseteq S /\ \A d \in S : Outgoing(d) \subseteq S

ClosuresAreDescendants ==
    phase = "idle" => \A e \in Events :
        /\ ContainsDescendants(e, closures[e])
        /\ \A S \in SUBSET Events :
              ContainsDescendants(e, S) => closures[e] \subseteq S
=============================================================================
