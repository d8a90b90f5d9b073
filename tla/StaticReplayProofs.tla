------------------------- MODULE StaticReplayProofs -------------------------
(***************************************************************************)
(* Theorems about StaticReplay, for every program, every replacement value *)
(* and every meaning of the commands.                                      *)
(***************************************************************************)
EXTENDS StaticReplay, TLAPS

-----------------------------------------------------------------------------
(* Dicts. *)

LEMMA PutFacts ==
    \A d, k, v :
        /\ IsDict(Put(d, k, v))
        /\ DOMAIN Put(d, k, v) = DOMAIN d \cup {k}
        /\ Put(d, k, v)[k] = v
        /\ \A j \in DOMAIN d : j # k => Put(d, k, v)[j] = d[j]
  BY DEF Put, IsDict

LEMMA UpdateFacts ==
    \A d, o :
        /\ IsDict(Update(d, o))
        /\ DOMAIN Update(d, o) = DOMAIN d \cup DOMAIN o
        /\ \A j \in DOMAIN o : Update(d, o)[j] = o[j]
        /\ \A j \in DOMAIN d : j \notin DOMAIN o => Update(d, o)[j] = d[j]
  BY DEF Update, IsDict

-----------------------------------------------------------------------------
(* Type correctness. *)

LEMMA CountIsNat == ASSUME TypeOK PROVE EventCount \in Nat
  BY ProgramsAssumption DEF TypeOK, EventCount

LEMMA OutIsAvailable ==
    ASSUME NEW e \in Events
    PROVE  Out(e) \in Available(program, EventCount + 1)
  BY DEF Available, Out, Events, EventCount

LEMMA InitTypeOK == Init => TypeOK
  <1> SUFFICES ASSUME Init PROVE TypeOK
    OBVIOUS
  <1>1. program \in Programs /\ WellFormed(program)
    BY DEF Init
  <1>2. EventCount \in Nat
    BY <1>1, ProgramsAssumption DEF EventCount
  <1>3. DOMAIN program.initial \subseteq Available(program, EventCount + 1)
    BY DEF Available
  <1>4. IsDict(EmptyDict) /\ DOMAIN EmptyDict = {}
    BY DEF IsDict, EmptyDict
  <1>5. IsDict(program.initial)
    BY <1>1, ProgramsAssumption
  <1>6. EmptyDict \in [{} -> SUBSET Events]
    BY DEF EmptyDict
  <1> QED
    BY <1>1, <1>2, <1>3, <1>4, <1>5, <1>6 DEF Init, TypeOK

(* Adding the output of an event to a dict keeps it within the program's    *)
(* artifacts.                                                              *)
LEMMA PutTyped ==
    ASSUME NEW d, DOMAIN d \subseteq Available(program, EventCount + 1),
           NEW e \in Events, NEW v
    PROVE  /\ IsDict(Put(d, Out(e), v))
           /\ DOMAIN Put(d, Out(e), v) \subseteq Available(program, EventCount + 1)
  <1>1. Out(e) \in Available(program, EventCount + 1)
    BY OutIsAvailable
  <1>2. IsDict(Put(d, Out(e), v)) /\ DOMAIN Put(d, Out(e), v) = DOMAIN d \cup {Out(e)}
    BY PutFacts
  <1> QED
    BY <1>1, <1>2

(* Recording the outcome of a call keeps the results typed. *)
LEMMA RecordTyped ==
    ASSUME TypeOK, phase \in {"prefix", "suffix"},
           NEW r, r = Put(results, request.mode, Outcome)
    PROVE  /\ IsDict(r) /\ DOMAIN r \subseteq Modes
           /\ \A m \in DOMAIN r : IsOutcome(r[m])
  <1>1. request.mode \in Modes
    BY DEF TypeOK
  <1>2. IsOutcome(Outcome)
    BY DEF TypeOK, IsOutcome, Outcome
  <1>3. DOMAIN results \subseteq Modes /\ \A m \in DOMAIN results : IsOutcome(results[m])
    BY DEF TypeOK
  <1>4. IsDict(r)
    BY PutFacts
  <1>5. DOMAIN r = DOMAIN results \cup {request.mode}
    BY PutFacts
  <1>6. \A m \in DOMAIN r : r[m] = IF m = request.mode THEN Outcome ELSE results[m]
    BY DEF Put
  <1> QED
    BY <1>1, <1>2, <1>3, <1>4, <1>5, <1>6

LEMMA NextTypeOK == TypeOK /\ [Next]_vars => TypeOK'
  <1> SUFFICES ASSUME TypeOK, [Next]_vars PROVE TypeOK'
    OBVIOUS
  <1>0. EventCount \in Nat
    BY CountIsNat
  <1> USE <1>0 DEF engine, search, replay, EventCount, Events, IsOutcome
  <1>1. CASE Execute
    <2>1. IsDict(state') /\ DOMAIN state' \subseteq Available(program, EventCount + 1)
      BY <1>1, PutTyped DEF Execute, TypeOK
    <2> QED
      BY <1>1, <2>1 DEF Execute, TypeOK
  <1>2. CASE ExecuteRaises
    BY <1>2 DEF ExecuteRaises, TypeOK
  <1>3. CASE FinishExecute
    BY <1>3 DEF FinishExecute, TypeOK
  <1>4. CASE ExpandClosure
    BY <1>4 DEF ExpandClosure, Outgoing, TypeOK
  <1>5. CASE CloseRoot
    BY <1>5, PutFacts DEF CloseRoot, Put, TypeOK
  <1>6. CASE FinishClosures
    BY <1>6 DEF FinishClosures, TypeOK
  <1>7. CASE \E target \in Events, replacement \in Replacements, mode \in Modes :
                 Replay(target, replacement, mode)
    BY <1>7, ProgramsAssumption DEF Replay, Available, IsDict, EmptyDict, TypeOK
  <1>8. CASE ReplayPrefix
    <2>1. pos \in Events
      BY <1>8 DEF ReplayPrefix, TypeOK
    <2>2. IsDict(state') /\ DOMAIN state' \subseteq Available(program, EventCount + 1)
      BY <1>8, <2>1, PutTyped DEF ReplayPrefix, TypeOK
    <2> QED
      BY <1>8, <2>1, <2>2 DEF ReplayPrefix, TypeOK
  <1>9. CASE Intervene
    <2>1. pos \in Events /\ pos = request.target
      BY <1>9 DEF Intervene, TypeOK
    <2> DEFINE prefix == Put(state, Out(request.target), request.replacement)
    <2>a. IsDict(prefix) /\ DOMAIN prefix \subseteq Available(program, EventCount + 1)
      BY <2>1, PutTyped DEF TypeOK
    <2>b. /\ IsDict(Update(original, prefix))
          /\ DOMAIN Update(original, prefix) \subseteq Available(program, EventCount + 1)
      <3>1. /\ IsDict(Update(original, prefix))
            /\ DOMAIN Update(original, prefix) = DOMAIN original \cup DOMAIN prefix
        BY UpdateFacts
      <3> QED
        BY <2>a, <3>1 DEF TypeOK
    <2>2. IsDict(state') /\ DOMAIN state' \subseteq Available(program, EventCount + 1)
      BY <1>9, <2>a, <2>b DEF Intervene, Intervened
    <2> QED
      BY <1>9, <2>1, <2>2 DEF Intervene, TypeOK
  <1>10. CASE ReplaySuffix
    <2>1. IsDict(state') /\ DOMAIN state' \subseteq Available(program, EventCount + 1)
      BY <1>10, PutTyped DEF ReplaySuffix, TypeOK
    <2> QED
      BY <1>10, <2>1 DEF ReplaySuffix, TypeOK
  <1>11. CASE ReuseEvent
    BY <1>11 DEF ReuseEvent, TypeOK
  <1>12. CASE Return
    BY <1>12, RecordTyped DEF Return, TypeOK
  <1>13. CASE ReplayRaises
    BY <1>13, RecordTyped DEF ReplayRaises, TypeOK
  <1>14. CASE UNCHANGED vars
    BY <1>14 DEF vars, TypeOK
  <1> QED
    BY <1>1, <1>2, <1>3, <1>4, <1>5, <1>6, <1>7, <1>8, <1>9, <1>10, <1>11, <1>12, <1>13, <1>14
    DEF Next

(* Every reachable state of the engine is well typed. *)
THEOREM TypeCorrect == Spec => []TypeOK
  BY InitTypeOK, NextTypeOK, PTL DEF Spec

-----------------------------------------------------------------------------
(***************************************************************************)
(* The inductive invariant.  None of the properties is inductive: that two *)
(* outcomes agree follows only from what each of them says about every     *)
(* event, and that a reused value is right only from the closures.         *)
(***************************************************************************)

(* Finished searches found the descendants; the running one has expanded   *)
(* everything it has seen except its frontier, and seen nothing else.      *)
ClosureInv ==
    /\ phase \in {"execute", "failed"} => closures = EmptyDict
    /\ phase = "closures" => DOMAIN closures = 1..(pos - 1)
    /\ phase \in {"idle", "prefix", "suffix"} => DOMAIN closures = Events
    /\ \A e \in DOMAIN closures :
          /\ ContainsDescendants(e, closures[e])
          /\ \A S \in SUBSET Events : ContainsDescendants(e, S) => closures[e] \subseteq S
    /\ phase = "closures" /\ pos \in Events =>
          /\ frontier \subseteq {pos} \cup seen
          /\ \A e \in ({pos} \cup seen) \ frontier : Outgoing(e) \subseteq seen
          /\ \A S \in SUBSET Events : ContainsDescendants(pos, S) => seen \subseteq S

(* A dict that executing the first n - 1 events, all of which succeed, can *)
(* leave.                                                                  *)
Executed(d, n) ==
    /\ DOMAIN d = Available(program, n)
    /\ \A a \in DOMAIN program.initial : d[a] = program.initial[a]
    /\ \A e \in 1..(n - 1) : d[Out(e)] = Run(e, d) /\ Run(e, d) # Raised

OriginalInv ==
    /\ phase = "execute" => Executed(state, pos)
    /\ phase \notin {"execute", "failed"} => Executed(original, EventCount + 1)

(* The dict of a replay in this mode that got as far as event n, having     *)
(* re-executed the suffix events in done.                                  *)
Replayed(d, n, done, mode) ==
    /\ n > request.target
    /\ done \subseteq (request.target + 1)..(n - 1)
    /\ DOMAIN d = Available(program, IF mode = "sliced" THEN EventCount + 1 ELSE n)
    /\ \A a \in DOMAIN program.initial : d[a] = program.initial[a]
    /\ d[Out(request.target)] = request.replacement
    /\ \A e \in (1..(n - 1)) \ {request.target} :
          d[Out(e)] = Run(e, d) /\ Run(e, d) # Raised
    /\ \A e \in (1..(n - 1)) \ (done \cup {request.target}) : d[Out(e)] = original[Out(e)]
    /\ mode = "sliced" =>
          /\ done \subseteq closures[request.target]
          /\ \A e \in n..EventCount : d[Out(e)] = original[Out(e)]
    /\ request.replacement = original[Out(request.target)] =>
          \A e \in 1..(n - 1) : d[Out(e)] = original[Out(e)]

(* A replay at event n and a recorded outcome have the same history.       *)
Agrees(d, n, o) ==
    /\ n <= o.pos
    /\ \A e \in 1..(n - 1) : d[Out(e)] = o.state[Out(e)]

ReplayInv ==
    /\ phase = "prefix" =>
          /\ pos <= request.target
          /\ reexecuted = {}
          /\ DOMAIN state = Available(program, pos)
          /\ \A a \in DOMAIN state : state[a] = original[a]
    /\ phase = "suffix" =>
          /\ Replayed(state, pos, reexecuted, request.mode)
          /\ \A m \in DOMAIN results : Agrees(state, pos, results[m])
    /\ \A m \in DOMAIN results :
          LET o == results[m]
          IN  /\ Replayed(o.state, o.pos, o.reexecuted, m)
              /\ o.pos \in Events => Run(o.pos, o.state) = Raised
              /\ \A k \in DOMAIN results : Agrees(o.state, o.pos, results[k])

NoResultsYet == phase \in {"execute", "closures", "failed"} => results = EmptyDict

IInv ==
    /\ TypeOK
    /\ ClosureInv
    /\ OriginalInv
    /\ ReplayInv
    /\ NoResultsYet

-----------------------------------------------------------------------------
(* Commands and programs. *)

(* A command's outcome depends on nothing but the artifacts it reads.       *)
LEMMA ReadsOnlyInputs ==
    ASSUME NEW c, NEW d1, NEW d2,
           ReadSet(c) \subseteq DOMAIN d1, ReadSet(c) \subseteq DOMAIN d2,
           \A a \in ReadSet(c) : d1[a] = d2[a]
    PROVE  ExecuteCommand(c, d1) = ExecuteCommand(c, d2)
  <1> DEFINE values(d) == [k \in DOMAIN c.inputs |-> d[c.inputs[k]]]
  <1>1. \A k \in DOMAIN c.inputs : d1[c.inputs[k]] = d2[c.inputs[k]]
    BY DEF ReadSet
  <1>2. values(d1) = values(d2)
    BY <1>1
  <1> QED
    BY <1>2 DEF ExecuteCommand

LEMMA AvailableFacts ==
    ASSUME TypeOK
    PROVE  /\ \A n \in 1..(EventCount + 1) :
                 /\ DOMAIN program.initial \subseteq Available(program, n)
                 /\ \A e \in 1..(n - 1) : Out(e) \in Available(program, n)
                 /\ \A a \in Available(program, n) :
                       a \in DOMAIN program.initial \/ \E e \in 1..(n - 1) : a = Out(e)
                 /\ \A k \in 1..n : Available(program, k) \subseteq Available(program, n)
           /\ \A e \in Events : Available(program, e + 1) = Available(program, e) \cup {Out(e)}
  <1>1. EventCount \in Nat
    BY CountIsNat
  <1>2. ASSUME NEW n \in 1..(EventCount + 1)
        PROVE  /\ DOMAIN program.initial \subseteq Available(program, n)
               /\ \A e \in 1..(n - 1) : Out(e) \in Available(program, n)
               /\ \A a \in Available(program, n) :
                     a \in DOMAIN program.initial \/ \E e \in 1..(n - 1) : a = Out(e)
               /\ \A k \in 1..n : Available(program, k) \subseteq Available(program, n)
    BY <1>1 DEF Available, Out
  <1>3. ASSUME NEW e \in Events
        PROVE  Available(program, e + 1) = Available(program, e) \cup {Out(e)}
    <2>1. e \in Nat /\ 1..((e + 1) - 1) = (1..(e - 1)) \cup {e}
      BY <1>1 DEF Events
    <2> QED
      BY <2>1 DEF Available, Out
  <1> QED
    BY <1>2, <1>3

(* SSA: an event reads only what exists before it, and writes a new name.  *)
LEMMA SingleAssignment ==
    ASSUME TypeOK
    PROVE  /\ \A e \in Events : ReadSet(Cmd(e)) \subseteq Available(program, e)
           /\ \A e \in Events : Out(e) \notin Available(program, e)
           /\ \A e, f \in Events : e # f => Out(e) # Out(f)
  <1>1. EventCount \in Nat
    BY CountIsNat
  <1>2. /\ \A e \in Events : ReadSet(Cmd(e)) \subseteq Available(program, e)
        /\ \A e \in Events : Out(e) \notin Available(program, e)
    BY DEF TypeOK, WellFormed, Events, EventCount, Cmd, Out
  <1>3. ASSUME NEW e \in Events, NEW f \in Events, e < f PROVE Out(e) # Out(f)
    <2>1. Out(e) \in Available(program, f)
      BY <1>1, <1>3, AvailableFacts DEF Events
    <2> QED
      BY <1>2, <2>1
  <1> QED
    BY <1>1, <1>2, <1>3 DEF Events

(* Writing an event's output disturbs neither an earlier output nor what    *)
(* this or an earlier event computes.                                      *)
LEMMA PutKeeps ==
    ASSUME TypeOK, NEW n \in Events, NEW d, NEW v,
           Available(program, n) \subseteq DOMAIN d
    PROVE  LET new == Put(d, Out(n), v)
           IN  /\ \A f \in 1..n : Run(f, new) = Run(f, d)
               /\ \A a \in DOMAIN d : a # Out(n) => new[a] = d[a]
               /\ \A f \in Events : f # n /\ Out(f) \in DOMAIN d => new[Out(f)] = d[Out(f)]
  <1> DEFINE new == Put(d, Out(n), v)
  <1>1. DOMAIN new = DOMAIN d \cup {Out(n)} /\ \A a \in DOMAIN d : a # Out(n) => new[a] = d[a]
    BY DEF Put
  <1>2. EventCount \in Nat
    BY CountIsNat
  <1> HIDE DEF new
  <1>3. ASSUME NEW f \in 1..n PROVE Run(f, new) = Run(f, d)
    <2>1. f \in Events
      BY <1>2 DEF Events
    <2>2. ReadSet(Cmd(f)) \subseteq Available(program, n)
      BY <1>2, <2>1, SingleAssignment, AvailableFacts DEF Events
    <2>3. Out(n) \notin ReadSet(Cmd(f))
      BY <2>2, SingleAssignment
    <2> QED
      BY <1>1, <2>2, <2>3, ReadsOnlyInputs DEF Run
  <1>4. \A f \in Events : f # n /\ Out(f) \in DOMAIN d => new[Out(f)] = d[Out(f)]
    BY <1>1, SingleAssignment
  <1> QED
    BY <1>1, <1>3, <1>4 DEF new

-----------------------------------------------------------------------------
(* Each part of the invariant is preserved. *)

Replaying ==
    \/ \E target \in Events, replacement \in Replacements, mode \in Modes :
          Replay(target, replacement, mode)
    \/ ReplayPrefix \/ Intervene \/ ReplaySuffix \/ ReuseEvent
    \/ Return \/ ReplayRaises

(* A replay does not touch the engine. *)
LEMMA ReplayingKeepsEngine ==
    Replaying => /\ UNCHANGED <<engine, search>>
                 /\ phase \in {"idle", "prefix", "suffix"}
                 /\ phase' \in {"idle", "prefix", "suffix"}
  BY DEF Replaying, Replay, ReplayPrefix, Intervene, ReplaySuffix, ReuseEvent, Return,
     ReplayRaises, replay

LEMMA ProgramIsFixed == [Next]_vars => program' = program
  BY DEF Next, vars, engine, Execute, ExecuteRaises, FinishExecute, ExpandClosure, CloseRoot,
     FinishClosures, Replay, ReplayPrefix, Intervene, ReplaySuffix, ReuseEvent, Return, ReplayRaises

LEMMA ClosureStep == TypeOK /\ ClosureInv /\ [Next]_vars => ClosureInv'
  <1> SUFFICES ASSUME TypeOK, ClosureInv, [Next]_vars PROVE ClosureInv'
    OBVIOUS
  <1>0. EventCount \in Nat /\ Events = 1..EventCount /\ pos \in 1..(EventCount + 1)
    BY CountIsNat DEF TypeOK, Events
  <1>p. program' = program
    BY ProgramIsFixed
  <1>e. /\ EventCount' = EventCount /\ Events' = Events
        /\ \A e : Outgoing(e)' = Outgoing(e)
        /\ \A e, S : ContainsDescendants(e, S)' <=> ContainsDescendants(e, S)
    BY <1>p DEF EventCount, Events, Outgoing, Cmd, Out, ContainsDescendants
  <1>1. CASE Execute \/ ExecuteRaises
    <2>1. /\ phase = "execute" /\ phase' \in {"execute", "failed"}
          /\ closures' = closures
      BY <1>1 DEF Execute, ExecuteRaises, engine
    <2>2. closures = EmptyDict /\ DOMAIN closures = {}
      BY <2>1 DEF ClosureInv, EmptyDict
    <2> QED
      BY <2>1, <2>2 DEF ClosureInv
  <1>6. CASE FinishClosures
    <2>1. phase = "closures" /\ phase' = "idle" /\ closures' = closures /\ pos = EventCount + 1
      BY <1>6 DEF FinishClosures, engine
    <2>2. DOMAIN closures = Events
      BY <1>0, <2>1 DEF ClosureInv
    <2> QED
      BY <2>1, <2>2, <1>e DEF ClosureInv
  <1>7. CASE UNCHANGED vars
    BY <1>7, <1>e DEF vars, engine, search, ClosureInv
  <1>2. CASE FinishExecute
    BY <1>0, <1>2, <1>e DEF FinishExecute, ClosureInv, EmptyDict
  <1>3. CASE ExpandClosure
    <2> PICK current \in frontier :
            /\ seen' = seen \cup Outgoing(current)
            /\ frontier' = (frontier \ {current}) \cup (Outgoing(current) \ seen)
      BY <1>3 DEF ExpandClosure
    <2>1. current = pos \/ current \in seen
      BY <1>3 DEF ExpandClosure, ClosureInv
    <2>2. \A S \in SUBSET Events : ContainsDescendants(pos, S) => seen' \subseteq S
      BY <1>3, <2>1 DEF ExpandClosure, ClosureInv, ContainsDescendants
    <2>3. \A e \in ({pos} \cup seen') \ frontier' : Outgoing(e) \subseteq seen'
      BY <1>3 DEF ExpandClosure, ClosureInv
    <2>4. frontier' \subseteq {pos} \cup seen'
      BY <1>3 DEF ExpandClosure, ClosureInv
    <2>5. /\ phase = "closures" /\ phase' = phase /\ pos' = pos
          /\ closures' = closures
      BY <1>3 DEF ExpandClosure, engine
    <2> QED
      BY <2>2, <2>3, <2>4, <2>5, <1>e DEF ClosureInv
  <1>4. CASE CloseRoot
    <2>1. ContainsDescendants(pos, seen)
      BY <1>4 DEF CloseRoot, ClosureInv, ContainsDescendants
    <2>2. \A S \in SUBSET Events : ContainsDescendants(pos, S) => seen \subseteq S
      BY <1>4 DEF CloseRoot, ClosureInv
    <2>3. /\ phase = "closures" /\ phase' = phase /\ pos' = pos + 1
          /\ seen' = {} /\ frontier' = {pos + 1}
          /\ closures' = Put(closures, pos, seen)
      BY <1>4 DEF CloseRoot
    <2>4. DOMAIN closures' = 1..(pos' - 1)
      BY <1>0, <2>3 DEF Put, ClosureInv
    <2>5. \A e \in DOMAIN closures' : closures'[e] = IF e = pos THEN seen ELSE closures[e]
      BY <2>3 DEF Put
    <2>6. \A e \in DOMAIN closures' : e # pos => e \in DOMAIN closures
      BY <2>3 DEF Put
    <2>7. \A e \in DOMAIN closures' :
            /\ ContainsDescendants(e, closures'[e])
            /\ \A S \in SUBSET Events : ContainsDescendants(e, S) => closures'[e] \subseteq S
      BY <2>1, <2>2, <2>5, <2>6 DEF ClosureInv
    <2> QED
      BY <1>0, <2>3, <2>4, <2>7, <1>e DEF ClosureInv
  <1>5. CASE Replaying
    <2>1. /\ UNCHANGED <<closures, seen, frontier>>
          /\ phase \in {"idle", "prefix", "suffix"} /\ phase' \in {"idle", "prefix", "suffix"}
      BY <1>5, ReplayingKeepsEngine DEF engine, search
    <2> QED
      BY <2>1, <1>e DEF ClosureInv
  <1> QED
    BY <1>1, <1>2, <1>3, <1>4, <1>5, <1>6, <1>7 DEF Next, Replaying

LEMMA ExecutedExtends ==
    ASSUME TypeOK, NEW n \in Events, NEW d, Executed(d, n), Run(n, d) # Raised
    PROVE  Executed(Put(d, Out(n), Run(n, d)), n + 1)
  <1> DEFINE new == Put(d, Out(n), Run(n, d))
  <1>0. EventCount \in Nat /\ n \in 1..EventCount
    BY CountIsNat DEF Events
  <1>1. DOMAIN d = Available(program, n)
    BY DEF Executed
  <1>2. DOMAIN new = Available(program, n + 1)
    BY <1>1, AvailableFacts DEF Put
  <1>3. /\ \A f \in 1..n : Run(f, new) = Run(f, d)
        /\ \A a \in DOMAIN d : a # Out(n) => new[a] = d[a]
    BY <1>1, PutKeeps
  <1>4. new[Out(n)] = Run(n, d)
    BY DEF Put
  <1>5. Out(n) \notin DOMAIN d
    BY <1>1, SingleAssignment
  <1>6. \A e \in 1..(n - 1) : Out(e) \in DOMAIN d
    BY <1>0, <1>1, AvailableFacts
  <1>7. DOMAIN program.initial \subseteq DOMAIN d
    BY <1>0, <1>1, AvailableFacts
  <1> HIDE DEF new
  <1>8. \A a \in DOMAIN program.initial : new[a] = program.initial[a]
    BY <1>3, <1>5, <1>7 DEF Executed
  <1>9. ASSUME NEW e \in 1..n PROVE new[Out(e)] = Run(e, new) /\ Run(e, new) # Raised
    <2>1. CASE e = n
      BY <2>1, <1>0, <1>3, <1>4
    <2>2. CASE e \in 1..(n - 1)
      BY <2>2, <1>0, <1>3, <1>5, <1>6 DEF Executed
    <2> QED
      BY <2>1, <2>2, <1>0
  <1> QED
    BY <1>0, <1>2, <1>8, <1>9 DEF Executed, new

LEMMA OriginalStep == TypeOK /\ OriginalInv /\ [Next]_vars => OriginalInv'
  <1> SUFFICES ASSUME TypeOK, OriginalInv, [Next]_vars PROVE OriginalInv'
    OBVIOUS
  <1>0. EventCount \in Nat
    BY CountIsNat
  <1>p. program' = program
    BY ProgramIsFixed
  <1>e. EventCount' = EventCount /\ \A d, n : Executed(d, n)' <=> Executed(d, n)
    <2>1. EventCount' = EventCount
      BY <1>p DEF EventCount
    <2>2. ASSUME NEW d, NEW n PROVE Executed(d, n)' <=> Executed(d, n)
      BY <1>p DEF Executed, Run, Cmd, Out
    <2> QED
      BY <2>1, <2>2
  <1>1. CASE Execute
    <2>1. phase = "execute" /\ phase' = phase /\ pos \in Events /\ pos' = pos + 1
      BY <1>1 DEF Execute
    <2>2. Executed(state', pos')
      BY <1>1, <2>1, ExecutedExtends DEF Execute, OriginalInv
    <2> QED
      BY <2>1, <2>2, <1>e DEF OriginalInv
  <1>2. CASE ExecuteRaises
    BY <1>2 DEF ExecuteRaises, OriginalInv
  <1>3. CASE FinishExecute
    BY <1>3, <1>e DEF FinishExecute, OriginalInv
  <1>4. CASE ExpandClosure \/ CloseRoot \/ FinishClosures
    BY <1>4, <1>e DEF ExpandClosure, CloseRoot, FinishClosures, engine, OriginalInv
  <1>5. CASE Replaying
    BY <1>5, <1>e, ReplayingKeepsEngine DEF engine, OriginalInv
  <1>6. CASE UNCHANGED vars
    BY <1>6, <1>e DEF vars, engine, OriginalInv
  <1> QED
    BY <1>1, <1>2, <1>3, <1>4, <1>5, <1>6 DEF Next, Replaying

-----------------------------------------------------------------------------
(* One event of a replay. *)

(* Everything the events before n know is in a dict that has got to n.      *)
LEMMA ReplayedDomain ==
    ASSUME TypeOK, NEW n \in 1..(EventCount + 1), NEW d, NEW done, NEW mode,
           Replayed(d, n, done, mode)
    PROVE  /\ Available(program, n) \subseteq DOMAIN d
           /\ \A e \in 1..(n - 1) : Out(e) \in DOMAIN d
           /\ mode = "sliced" => \A e \in Events : Out(e) \in DOMAIN d
  <1>0. EventCount \in Nat /\ Events = 1..EventCount
    BY CountIsNat DEF Events
  <1>1. DOMAIN d = Available(program, IF mode = "sliced" THEN EventCount + 1 ELSE n)
    BY DEF Replayed
  <1>2. Available(program, n) \subseteq Available(program, EventCount + 1)
    BY <1>0, AvailableFacts
  <1>3. \A e \in Events : Out(e) \in Available(program, EventCount + 1)
    BY OutIsAvailable
  <1>4. \A e \in 1..(n - 1) : Out(e) \in Available(program, n)
    BY AvailableFacts
  <1> QED
    BY <1>1, <1>2, <1>3, <1>4

LEMMA OriginalDomain ==
    ASSUME TypeOK, Executed(original, EventCount + 1)
    PROVE  /\ \A e \in Events : Out(e) \in DOMAIN original
           /\ \A n \in 1..(EventCount + 1) : Available(program, n) \subseteq DOMAIN original
           /\ \A e \in Events : original[Out(e)] = Run(e, original) /\ Run(e, original) # Raised
  <1>0. EventCount \in Nat /\ Events = 1..EventCount
    BY CountIsNat DEF Events
  <1> QED
    BY <1>0, AvailableFacts, OutIsAvailable DEF Executed

(* Two dicts with the same initial artifacts and the same earlier outputs  *)
(* give an event the same result.                                          *)
LEMMA SameHistorySameRun ==
    ASSUME TypeOK, NEW n \in Events, NEW d1, NEW d2,
           Available(program, n) \subseteq DOMAIN d1, Available(program, n) \subseteq DOMAIN d2,
           \A a \in DOMAIN program.initial : d1[a] = d2[a],
           \A e \in 1..(n - 1) : d1[Out(e)] = d2[Out(e)]
    PROVE  Run(n, d1) = Run(n, d2)
  <1>0. EventCount \in Nat /\ n \in 1..(EventCount + 1)
    BY CountIsNat DEF Events
  <1>1. ReadSet(Cmd(n)) \subseteq Available(program, n)
    BY SingleAssignment
  <1>2. \A a \in Available(program, n) : d1[a] = d2[a]
    BY <1>0, AvailableFacts
  <1> QED
    BY <1>1, <1>2, ReadsOnlyInputs DEF Run

(* Executing an event of the suffix. *)
LEMMA ReplayedExecutes ==
    ASSUME TypeOK, Executed(original, EventCount + 1), request.target \in Events,
           NEW n \in Events, NEW d, NEW done, NEW mode,
           Replayed(d, n, done, mode), Run(n, d) # Raised,
           mode = "sliced" => n \in closures[request.target]
    PROVE  Replayed(Put(d, Out(n), Run(n, d)), n + 1, done \cup {n}, mode)
  <1> DEFINE new == Put(d, Out(n), Run(n, d))
             t == request.target
  <1>0. EventCount \in Nat /\ Events = 1..EventCount /\ n \in 1..(EventCount + 1)
    BY CountIsNat DEF Events
  <1>1. /\ Available(program, n) \subseteq DOMAIN d
        /\ \A e \in 1..(n - 1) : Out(e) \in DOMAIN d
        /\ mode = "sliced" => \A e \in Events : Out(e) \in DOMAIN d
    BY <1>0, ReplayedDomain
  <1>2. /\ \A f \in 1..n : Run(f, new) = Run(f, d)
        /\ \A a \in DOMAIN d : a # Out(n) => new[a] = d[a]
        /\ \A f \in Events : f # n /\ Out(f) \in DOMAIN d => new[Out(f)] = d[Out(f)]
    BY <1>1, PutKeeps
  <1>3. new[Out(n)] = Run(n, d) /\ DOMAIN new = DOMAIN d \cup {Out(n)}
    BY DEF Put
  <1>4. DOMAIN new = Available(program, IF mode = "sliced" THEN EventCount + 1 ELSE n + 1)
    <2>1. Out(n) \in Available(program, EventCount + 1)
      BY OutIsAvailable
    <2>2. Available(program, n + 1) = Available(program, n) \cup {Out(n)}
      BY AvailableFacts
    <2> QED
      BY <1>3, <2>1, <2>2 DEF Replayed
  <1>5. \A a \in DOMAIN program.initial : a \in DOMAIN d /\ a # Out(n)
    BY <1>0, <1>1, AvailableFacts, SingleAssignment
  <1>r. n > t /\ done \subseteq (t + 1)..(n - 1)
    BY DEF Replayed
  <1> HIDE DEF new
  <1>6. \A a \in DOMAIN program.initial : new[a] = program.initial[a]
    BY <1>2, <1>5 DEF Replayed
  <1>7. \A e \in 1..(n - 1) : e \in Events /\ e # n /\ new[Out(e)] = d[Out(e)]
    BY <1>0, <1>1, <1>2
  <1>8. ASSUME NEW e \in 1..((n + 1) - 1), e # t
        PROVE  new[Out(e)] = Run(e, new) /\ Run(e, new) # Raised
    <2>1. CASE e = n
      BY <2>1, <1>0, <1>2, <1>3
    <2>2. CASE e \in 1..(n - 1)
      BY <2>2, <1>8, <1>0, <1>2, <1>7 DEF Replayed
    <2> QED
      BY <2>1, <2>2, <1>0
  <1>9. new[Out(t)] = request.replacement
    BY <1>0, <1>r, <1>7 DEF Replayed
  <1>10. \A e \in (1..((n + 1) - 1)) \ ((done \cup {n}) \cup {t}) : new[Out(e)] = original[Out(e)]
    BY <1>0, <1>7 DEF Replayed
  <1>11. mode = "sliced" =>
            /\ done \cup {n} \subseteq closures[t]
            /\ \A e \in (n + 1)..EventCount : new[Out(e)] = original[Out(e)]
    BY <1>0, <1>1, <1>2 DEF Replayed
  <1>12. ASSUME request.replacement = original[Out(t)]
         PROVE  \A e \in 1..((n + 1) - 1) : new[Out(e)] = original[Out(e)]
    <2>1. \A e \in 1..(n - 1) : d[Out(e)] = original[Out(e)]
      BY <1>12 DEF Replayed
    <2>2. \A a \in DOMAIN program.initial : d[a] = original[a]
      BY DEF Replayed, Executed
    <2>3. Run(n, d) = Run(n, original)
      BY <1>0, <1>1, <2>1, <2>2, OriginalDomain, SameHistorySameRun
    <2>4. new[Out(n)] = original[Out(n)]
      BY <2>3, <1>3, OriginalDomain
    <2> QED
      BY <1>0, <1>7, <2>1, <2>4
  <1>13. n + 1 > t /\ done \cup {n} \subseteq (t + 1)..((n + 1) - 1)
    BY <1>0, <1>r
  <1> QED
    BY <1>4, <1>6, <1>8, <1>9, <1>10, <1>11, <1>12, <1>13 DEF Replayed, new

(* Reusing an event outside the closure: nothing it reads has changed, so  *)
(* its original value is what executing it would give.                     *)
LEMMA ReplayedReuses ==
    ASSUME TypeOK, Executed(original, EventCount + 1), request.target \in Events,
           ContainsDescendants(request.target, closures[request.target]),
           NEW n \in Events, NEW d, NEW done,
           Replayed(d, n, done, "sliced"), n \notin closures[request.target]
    PROVE  Replayed(d, n + 1, done, "sliced") /\ Run(n, d) # Raised
  <1> DEFINE t == request.target
  <1>0. EventCount \in Nat /\ Events = 1..EventCount /\ n \in 1..(EventCount + 1)
    BY CountIsNat DEF Events
  <1>1. Available(program, n) \subseteq DOMAIN d
    BY <1>0, ReplayedDomain
  <1>2. n > t /\ done \subseteq (t + 1)..(n - 1) /\ done \subseteq closures[t]
    BY DEF Replayed
  <1>3. ReadSet(Cmd(n)) \subseteq Available(program, n)
    BY SingleAssignment
  <1>4. ASSUME NEW a \in ReadSet(Cmd(n)) PROVE d[a] = original[a]
    <2>1. CASE a \in DOMAIN program.initial
      BY <2>1 DEF Replayed, Executed
    <2>2. CASE \E e \in 1..(n - 1) : a = Out(e)
      <3> PICK e \in 1..(n - 1) : a = Out(e)
        BY <2>2
      <3>1. n \in Outgoing(e)
        BY <1>4 DEF Outgoing
      <3>2. e # t /\ e \notin done
        BY <3>1, <1>2 DEF ContainsDescendants
      <3> QED
        BY <3>2 DEF Replayed
    <2> QED
      BY <1>0, <1>3, <1>4, <2>1, <2>2, AvailableFacts
  <1>5. Available(program, n) \subseteq DOMAIN original
    BY <1>0, OriginalDomain
  <1>6. Run(n, d) = Run(n, original)
    BY <1>1, <1>3, <1>4, <1>5, ReadsOnlyInputs DEF Run
  <1>7. d[Out(n)] = original[Out(n)]
    BY <1>0 DEF Replayed
  <1>8. d[Out(n)] = Run(n, d) /\ Run(n, d) # Raised
    BY <1>6, <1>7, OriginalDomain
  <1>9. \A e \in 1..((n + 1) - 1) : e = n \/ e \in 1..(n - 1)
    BY <1>0
  <1>10. /\ n + 1 > t /\ done \subseteq (t + 1)..((n + 1) - 1)
         /\ \A e \in (n + 1)..EventCount : e \in n..EventCount
    BY <1>0, <1>2
  <1> QED
    BY <1>7, <1>8, <1>9, <1>10 DEF Replayed

(* A replay that agrees with a recorded outcome keeps agreeing: it runs an *)
(* event if and only if that outcome got past the event, with one result.  *)
LEMMA SameRunAsRecorded ==
    ASSUME TypeOK, NEW n \in Events, NEW d, NEW done, NEW mode, Replayed(d, n, done, mode),
           NEW o, NEW k, o.pos \in 1..(EventCount + 1), Replayed(o.state, o.pos, o.reexecuted, k),
           Agrees(d, n, o)
    PROVE  Run(n, d) = Run(n, o.state)
  <1>0. EventCount \in Nat /\ n \in 1..(EventCount + 1)
    BY CountIsNat DEF Events
  <1>1. Available(program, n) \subseteq DOMAIN d
    BY <1>0, ReplayedDomain
  <1>2. Available(program, o.pos) \subseteq DOMAIN o.state
    BY ReplayedDomain
  <1>3. n <= o.pos
    BY DEF Agrees
  <1>4. Available(program, n) \subseteq DOMAIN o.state
    BY <1>0, <1>2, <1>3, AvailableFacts
  <1>5. \A a \in DOMAIN program.initial : d[a] = o.state[a]
    BY DEF Replayed
  <1> QED
    BY <1>1, <1>4, <1>5, SameHistorySameRun DEF Agrees

LEMMA AgreesExtends ==
    ASSUME TypeOK, request.target \in Events,
           NEW n \in Events, NEW d, NEW done, NEW mode, Replayed(d, n, done, mode),
           NEW o, NEW k, o.pos \in 1..(EventCount + 1), Replayed(o.state, o.pos, o.reexecuted, k),
           o.pos \in Events => Run(o.pos, o.state) = Raised,
           Agrees(d, n, o), Run(n, d) # Raised,
           NEW new, \A e \in 1..(n - 1) : new[Out(e)] = d[Out(e)], new[Out(n)] = Run(n, d)
    PROVE  Agrees(new, n + 1, o)
  <1>0. EventCount \in Nat /\ Events = 1..EventCount
    BY CountIsNat DEF Events
  <1>1. Run(n, d) = Run(n, o.state)
    BY SameRunAsRecorded
  <1>2. n < o.pos
    BY <1>0, <1>1 DEF Agrees
  <1>3. n # request.target
    BY <1>0 DEF Replayed
  <1>4. o.state[Out(n)] = Run(n, d)
    BY <1>0, <1>1, <1>2, <1>3 DEF Replayed
  <1> QED
    BY <1>0, <1>2, <1>4 DEF Agrees

(* Replacing the target's output in a restored prefix, in either mode. *)
LEMMA InterveneReplays ==
    ASSUME IInv, phase = "prefix", pos = request.target
    PROVE  /\ Replayed(Intervened(state), pos + 1, {}, request.mode)
           /\ \A m \in DOMAIN results : Agrees(Intervened(state), pos + 1, results[m])
  <1> DEFINE t      == request.target
             prefix == Put(state, Out(t), request.replacement)
             new    == Intervened(state)
  <1>i. TypeOK /\ ClosureInv /\ OriginalInv /\ ReplayInv
    BY DEF IInv
  <1>0. EventCount \in Nat /\ Events = 1..EventCount
    BY <1>i, CountIsNat DEF Events
  <1>1. t \in Events /\ request.mode \in Modes /\ Executed(original, EventCount + 1)
    BY <1>i DEF TypeOK, OriginalInv
  <1>2. DOMAIN state = Available(program, t) /\ \A a \in DOMAIN state : state[a] = original[a]
    BY <1>i DEF ReplayInv
  <1>3. Out(t) \notin DOMAIN state
    BY <1>i, <1>1, <1>2, SingleAssignment
  <1>4. /\ DOMAIN prefix = Available(program, t + 1)
        /\ prefix[Out(t)] = request.replacement
        /\ \A a \in DOMAIN state : prefix[a] = original[a]
    BY <1>i, <1>1, <1>2, <1>3, AvailableFacts DEF Put
  <1>6. /\ DOMAIN new = Available(program, IF request.mode = "sliced" THEN EventCount + 1 ELSE t + 1)
        /\ \A a \in DOMAIN prefix : new[a] = prefix[a]
        /\ request.mode = "sliced" =>
              \A a \in DOMAIN original : a \notin DOMAIN prefix => new[a] = original[a]
    <2>1. CASE request.mode = "full_suffix"
      BY <2>1, <1>4 DEF Intervened
    <2>2. CASE request.mode = "sliced"
      <3>1. new = Update(original, prefix)
        BY <2>2 DEF Intervened
      <3>2. DOMAIN prefix \subseteq DOMAIN original /\ DOMAIN original = Available(program, EventCount + 1)
        BY <1>0, <1>1, <1>i, <1>4, AvailableFacts DEF Executed
      <3> QED
        BY <2>2, <3>1, <3>2 DEF Update
    <2> QED
      BY <1>1, <2>1, <2>2 DEF Modes
  <1> HIDE DEF new, prefix
  <1>7. \A a \in DOMAIN program.initial : a \in DOMAIN state /\ new[a] = program.initial[a]
    <2>1. DOMAIN program.initial \subseteq DOMAIN state
      BY <1>0, <1>1, <1>2, <1>i, AvailableFacts
    <2> QED
      BY <2>1, <1>1, <1>2, <1>4, <1>6, <1>i, AvailableFacts DEF Executed
  <1>8. new[Out(t)] = request.replacement
    BY <1>1, <1>4, <1>6, <1>i, AvailableFacts
  <1>9. \A e \in 1..(t - 1) : new[Out(e)] = original[Out(e)]
    BY <1>0, <1>1, <1>2, <1>4, <1>6, <1>i, AvailableFacts
  <1>10. ASSUME NEW e \in 1..(t - 1)
         PROVE  new[Out(e)] = Run(e, new) /\ Run(e, new) # Raised
    <2>1. /\ e \in Events /\ e \in 1..(EventCount + 1) /\ e \in 1..t
          /\ t \in 1..(t + 1) /\ t \in 1..(EventCount + 1) /\ t + 1 \in 1..(EventCount + 1)
      BY <1>0, <1>1
    <2>2. /\ Available(program, e) \subseteq Available(program, t)
          /\ Available(program, t) \subseteq Available(program, t + 1)
          /\ Available(program, t + 1) \subseteq Available(program, EventCount + 1)
      BY <1>0, <1>i, <2>1, AvailableFacts
    <2>3. /\ Available(program, t) \subseteq DOMAIN prefix
          /\ DOMAIN prefix \subseteq DOMAIN new
      BY <1>1, <1>4, <1>6, <2>2 DEF Modes
    <2>4. Available(program, e) \subseteq DOMAIN original
      BY <2>1, <1>1, <1>i, OriginalDomain
    <2>5. \A a \in DOMAIN program.initial : new[a] = original[a]
      BY <1>1, <1>7 DEF Executed
    <2>6. \A f \in 1..(e - 1) : new[Out(f)] = original[Out(f)]
      BY <1>0, <1>1, <1>9
    <2>7. Run(e, new) = Run(e, original)
      BY <1>i, <2>1, <2>2, <2>3, <2>4, <2>5, <2>6, SameHistorySameRun
    <2> QED
      BY <1>1, <1>9, <1>i, <2>1, <2>7, OriginalDomain
  <1>11. request.mode = "sliced" => \A e \in (t + 1)..EventCount : new[Out(e)] = original[Out(e)]
    <2>1. ASSUME NEW e \in (t + 1)..EventCount PROVE Out(e) \notin DOMAIN prefix
      BY <1>0, <1>1, <1>4, <1>i, AvailableFacts, SingleAssignment
    <2>2. \A e \in (t + 1)..EventCount : Out(e) \in DOMAIN original
      BY <1>0, <1>1, <1>i, OriginalDomain
    <2> QED
      BY <2>1, <2>2, <1>6
  <1>12. Replayed(new, t + 1, {}, request.mode)
    <2>1. \A e \in 1..((t + 1) - 1) : e = t \/ e \in 1..(t - 1)
      BY <1>0, <1>1
    <2>2. t + 1 > t
      BY <1>0, <1>1
    <2> QED
      BY <1>6, <1>7, <1>8, <1>9, <1>10, <1>11, <2>1, <2>2 DEF Replayed
  <1>13. ASSUME NEW m \in DOMAIN results PROVE Agrees(new, t + 1, results[m])
    <2>1. Replayed(results[m].state, results[m].pos, results[m].reexecuted, m)
      BY <1>i DEF ReplayInv
    <2>2. results[m].pos \in 1..(EventCount + 1)
      BY <1>i DEF TypeOK, IsOutcome
    <2>3. /\ results[m].state[Out(t)] = request.replacement
          /\ \A e \in 1..(t - 1) : results[m].state[Out(e)] = original[Out(e)]
          /\ t + 1 <= results[m].pos
      BY <1>0, <1>1, <2>1, <2>2 DEF Replayed
    <2> QED
      BY <1>0, <1>1, <1>8, <1>9, <2>3 DEF Agrees
  <1> QED
    BY <1>12, <1>13 DEF new

-----------------------------------------------------------------------------
(* Every step of a replay preserves ReplayInv. *)

LEMMA ReplayStep == IInv /\ [Next]_vars => ReplayInv' /\ NoResultsYet'
  <1> SUFFICES ASSUME IInv, [Next]_vars PROVE ReplayInv' /\ NoResultsYet'
    OBVIOUS
  <1> USE DEF NoResultsYet
  <1>i. TypeOK /\ ClosureInv /\ OriginalInv /\ ReplayInv /\ NoResultsYet
    BY DEF IInv
  <1>0. EventCount \in Nat /\ Events = 1..EventCount /\ pos \in 1..(EventCount + 1)
    BY <1>i, CountIsNat DEF Events, TypeOK
  <1>p. program' = program
    BY ProgramIsFixed
  <1>e. /\ EventCount' = EventCount /\ Events' = Events
        /\ \A e, d : Run(e, d)' = Run(e, d)
        /\ \A d, n, o : Agrees(d, n, o)' <=> Agrees(d, n, o)
    <2>1. EventCount' = EventCount /\ Events' = Events
      BY <1>p DEF EventCount, Events
    <2>2. \A e, d : Run(e, d)' = Run(e, d)
      BY <1>p DEF Run, Cmd
    <2>3. \A d, n, o : Agrees(d, n, o)' <=> Agrees(d, n, o)
      BY <1>p DEF Agrees, Out
    <2> QED
      BY <2>1, <2>2, <2>3
  <1>r. ASSUME original' = original, closures' = closures,
               request'.target = request.target, request'.replacement = request.replacement
        PROVE  \A d, n, done, mode : Replayed(d, n, done, mode)' <=> Replayed(d, n, done, mode)
    <2>1. ASSUME NEW d, NEW n, NEW done, NEW mode
          PROVE  Replayed(d, n, done, mode)' <=> Replayed(d, n, done, mode)
      BY <1>p, <1>r DEF Replayed, Run, Cmd, Out, EventCount
    <2> QED
      BY <2>1
  <1>1. CASE Execute \/ ExecuteRaises \/ FinishExecute \/ ExpandClosure \/ CloseRoot \/ FinishClosures
    <2>1. /\ results = EmptyDict /\ results' = EmptyDict
          /\ phase' \in {"execute", "closures", "failed", "idle"}
      BY <1>1, <1>i DEF Execute, ExecuteRaises, FinishExecute, ExpandClosure, CloseRoot,
         FinishClosures, replay
    <2>2. DOMAIN results' = {}
      BY <2>1 DEF EmptyDict
    <2> QED
      BY <2>1, <2>2 DEF ReplayInv
  <1>2. CASE UNCHANGED vars
    <2>1. UNCHANGED <<original, closures, request, results, state, pos, phase, reexecuted>>
      BY <1>2 DEF vars, engine, replay
    <2>2. \A d, n, done, mode : Replayed(d, n, done, mode)' <=> Replayed(d, n, done, mode)
      BY <1>r, <2>1
    <2>3. phase' = "prefix" =>
              /\ pos' <= request'.target /\ reexecuted' = {}
              /\ DOMAIN state' = Available(program', pos')
              /\ \A a \in DOMAIN state' : state'[a] = original'[a]
      BY <1>i, <1>p, <2>1 DEF ReplayInv
    <2>4. phase' = "suffix" =>
              /\ Replayed(state', pos', reexecuted', request'.mode)
              /\ \A m \in DOMAIN results' : Agrees(state', pos', results'[m])
      BY <1>i, <2>1 DEF ReplayInv
    <2>5. \A m \in DOMAIN results' :
              /\ Replayed(results'[m].state, results'[m].pos, results'[m].reexecuted, m)
              /\ results'[m].pos \in Events => Run(results'[m].pos, results'[m].state) = Raised
              /\ \A k \in DOMAIN results' :
                    Agrees(results'[m].state, results'[m].pos, results'[k])
      BY <1>i, <2>1 DEF ReplayInv
    <2> QED
      BY <1>i, <1>e, <2>1, <2>2, <2>3, <2>4, <2>5 DEF ReplayInv
  <1>3. CASE \E target \in Events, replacement \in Replacements, mode \in Modes :
                 Replay(target, replacement, mode)
    <2> PICK target \in Events, replacement \in Replacements, mode \in Modes :
            Replay(target, replacement, mode)
      BY <1>3
    <2>1. /\ phase = "idle" /\ phase' = "prefix" /\ pos' = 1
          /\ state' = program.initial /\ reexecuted' = {}
          /\ request'.target = target /\ request'.replacement = replacement
          /\ original' = original /\ closures' = closures
      BY DEF Replay, engine
    <2>2. CASE results' = EmptyDict
      <3>1. DOMAIN results' = {}
        BY <2>2 DEF EmptyDict
      <3>2. pos' <= request'.target
        BY <1>0, <2>1
      <3>3. Executed(original, EventCount + 1)
        BY <2>1, <1>i DEF OriginalInv
      <3>4. Available(program, 1) = DOMAIN program.initial
        BY DEF Available
      <3>5. DOMAIN state' = Available(program', pos') /\ \A a \in DOMAIN state' : state'[a] = original'[a]
        BY <1>p, <2>1, <3>3, <3>4 DEF Executed
      <3> QED
        BY <2>1, <3>1, <3>2, <3>5 DEF ReplayInv
    <2>3. CASE results' # EmptyDict
      <3>1. results' = results /\ request'.target = request.target
            /\ request'.replacement = request.replacement
        BY <2>1, <2>3 DEF Replay
      <3>2. pos' <= request'.target
        BY <1>0, <2>1
      <3>3. Executed(original, EventCount + 1)
        BY <2>1, <1>i DEF OriginalInv
      <3>4. Available(program, 1) = DOMAIN program.initial
        BY DEF Available
      <3>5. DOMAIN state' = Available(program', pos') /\ \A a \in DOMAIN state' : state'[a] = original'[a]
        BY <1>p, <2>1, <3>3, <3>4 DEF Executed
      <3> QED
        BY <1>i, <1>e, <1>r, <2>1, <3>1, <3>2, <3>5 DEF ReplayInv
    <2> QED
      BY <2>2, <2>3
  (* From here on the request does not change, and the engine is complete.  *)
  <1>f. ASSUME phase \in {"prefix", "suffix"}
        PROVE  /\ request.target \in Events /\ request.mode \in Modes
               /\ Executed(original, EventCount + 1)
               /\ ContainsDescendants(request.target, closures[request.target])
               /\ \A m \in DOMAIN results : results[m].pos \in 1..(EventCount + 1)
    BY <1>f, <1>i DEF TypeOK, OriginalInv, ClosureInv, IsOutcome
  <1>h. ASSUME phase = "prefix", pos \in Events
        PROVE  Run(pos, state) = original[Out(pos)] /\ Run(pos, state) # Raised
    <2>1. DOMAIN state = Available(program, pos) /\ \A a \in DOMAIN state : state[a] = original[a]
      BY <1>h, <1>i DEF ReplayInv
    <2>2. Available(program, pos) \subseteq DOMAIN original
      BY <1>0, <1>f, <1>h, <1>i, OriginalDomain
    <2>3. ReadSet(Cmd(pos)) \subseteq Available(program, pos)
      BY <1>h, <1>i, SingleAssignment
    <2>4. Run(pos, state) = Run(pos, original)
      BY <2>1, <2>2, <2>3, ReadsOnlyInputs DEF Run
    <2> QED
      BY <2>4, <1>f, <1>h, <1>i, OriginalDomain
  <1>4. CASE ReplayPrefix
    <2>1. /\ phase = "prefix" /\ phase' = "prefix" /\ pos < request.target /\ pos' = pos + 1
          /\ state' = Put(state, Out(pos), Run(pos, state))
          /\ UNCHANGED <<original, closures, request, results, reexecuted>>
      BY <1>4 DEF ReplayPrefix, engine, replay
    <2>2. pos \in Events /\ pos' <= request.target
      BY <1>0, <1>f, <2>1
    <2>3. DOMAIN state = Available(program, pos) /\ \A a \in DOMAIN state : state[a] = original[a]
      BY <2>1, <1>i DEF ReplayInv
    <2>4. DOMAIN state' = Available(program, pos')
      BY <1>i, <2>1, <2>2, <2>3, AvailableFacts DEF Put
    <2>5. \A a \in DOMAIN state' : state'[a] = original[a]
      BY <1>h, <2>1, <2>2, <2>3 DEF Put
    <2> QED
      BY <1>i, <1>p, <1>e, <1>r, <2>1, <2>2, <2>4, <2>5 DEF ReplayInv
  <1>5. CASE Intervene
    <2>1. /\ phase = "prefix" /\ phase' = "suffix" /\ pos = request.target /\ pos' = pos + 1
          /\ state' = Intervened(state)
          /\ UNCHANGED <<original, closures, request, results, reexecuted>>
      BY <1>5 DEF Intervene, engine, replay
    <2>2. reexecuted = {}
      BY <2>1, <1>i DEF ReplayInv
    <2>3. /\ Replayed(state', pos', reexecuted', request'.mode)
          /\ \A m \in DOMAIN results' : Agrees(state', pos', results'[m])
      BY <2>1, <2>2, InterveneReplays
    <2> QED
      BY <1>i, <1>e, <1>r, <2>1, <2>3 DEF ReplayInv
  <1>s. ASSUME phase = "suffix"
        PROVE  /\ Replayed(state, pos, reexecuted, request.mode)
               /\ \A m \in DOMAIN results :
                     /\ Agrees(state, pos, results[m])
                     /\ Replayed(results[m].state, results[m].pos, results[m].reexecuted, m)
                     /\ results[m].pos \in Events => Run(results[m].pos, results[m].state) = Raised
    BY <1>i, <1>s DEF ReplayInv
  <1>6. CASE ReplaySuffix
    <2>1. /\ phase = "suffix" /\ phase' = "suffix" /\ pos \in Events /\ pos' = pos + 1
          /\ Run(pos, state) # Raised
          /\ request.mode = "sliced" => pos \in closures[request.target]
          /\ state' = Put(state, Out(pos), Run(pos, state))
          /\ reexecuted' = reexecuted \cup {pos}
          /\ UNCHANGED <<original, closures, request, results>>
      BY <1>6 DEF ReplaySuffix, Selected, engine
    <2>2. Replayed(state', pos', reexecuted', request'.mode)
      BY <1>f, <1>i, <1>s, <2>1, ReplayedExecutes
    <2>3. state'[Out(pos)] = Run(pos, state) /\ \A e \in 1..(pos - 1) : state'[Out(e)] = state[Out(e)]
      <3>1. \A e \in 1..(pos - 1) : e \in Events /\ e # pos /\ Out(e) \in DOMAIN state
        BY <1>0, <1>i, <1>s, <2>1, ReplayedDomain
      <3> QED
        BY <1>i, <2>1, <3>1, SingleAssignment DEF Put
    <2>4. ASSUME NEW m \in DOMAIN results PROVE Agrees(state', pos', results[m])
      BY <1>f, <1>i, <1>s, <2>1, <2>3, AgreesExtends
    <2> QED
      BY <1>i, <1>e, <1>r, <2>1, <2>2, <2>4 DEF ReplayInv
  <1>7. CASE ReuseEvent
    <2>1. /\ phase = "suffix" /\ phase' = "suffix" /\ pos \in Events /\ pos' = pos + 1
          /\ request.mode = "sliced" /\ pos \notin closures[request.target]
          /\ UNCHANGED <<original, closures, request, results, state, reexecuted>>
      BY <1>7, <1>f DEF ReuseEvent, Selected, engine, replay, Modes
    <2>2. Replayed(state, pos + 1, reexecuted, "sliced") /\ Run(pos, state) # Raised
      BY <1>f, <1>i, <1>s, <2>1, ReplayedReuses
    <2>3. state[Out(pos)] = Run(pos, state)
      <3>1. pos \in 1..((pos + 1) - 1) /\ pos # request.target
        BY <1>0, <1>f, <1>s, <2>1 DEF Replayed
      <3> QED
        BY <2>2, <3>1 DEF Replayed
    <2>4. ASSUME NEW m \in DOMAIN results PROVE Agrees(state, pos + 1, results[m])
      BY <1>f, <1>i, <1>s, <2>1, <2>2, <2>3, AgreesExtends
    <2> QED
      BY <1>i, <1>e, <1>r, <2>1, <2>2, <2>4 DEF ReplayInv
  <1>8. CASE Return \/ ReplayRaises
    <2>1. /\ phase' = "idle"
          /\ results' = Put(results, request.mode, Outcome)
          /\ UNCHANGED <<original, closures, request>>
      BY <1>8 DEF Return, ReplayRaises, engine
    <2>2. /\ phase = "suffix"
          /\ pos \in Events => Run(pos, state) = Raised
      <3>1. CASE Return
        BY <3>1, <1>0 DEF Return
      <3>2. CASE ReplayRaises
        <4>1. CASE phase = "prefix" /\ pos < request.target
          BY <4>1, <3>2, <1>0, <1>f, <1>h DEF ReplayRaises
        <4> QED
          BY <4>1, <3>2 DEF ReplayRaises
      <3> QED
        BY <3>1, <3>2, <1>8
    <2>3. /\ DOMAIN results' = DOMAIN results \cup {request.mode}
          /\ results'[request.mode] = Outcome
          /\ \A m \in DOMAIN results : m # request.mode => results'[m] = results[m]
      BY <2>1 DEF Put
    <2>4. /\ Outcome.pos = pos /\ Outcome.state = state /\ Outcome.reexecuted = reexecuted
      BY DEF Outcome
    <2>5. ASSUME NEW m \in DOMAIN results
          PROVE  /\ results[m].pos = pos
                 /\ Agrees(results[m].state, results[m].pos, Outcome)
                 /\ Agrees(state, pos, results[m])
      <3>1. Agrees(state, pos, results[m])
        BY <1>s, <2>2
      <3>2. Replayed(state, pos, reexecuted, request.mode) /\ pos <= results[m].pos
        BY <1>s, <2>2, <3>1 DEF Agrees
      <3>3. results[m].pos = pos
        <4>1. CASE pos = EventCount + 1
          BY <4>1, <3>2, <1>0, <1>f, <2>2
        <4>2. CASE pos \in Events /\ results[m].pos > pos
          <5>1. Run(pos, state) = Run(pos, results[m].state)
            BY <4>2, <1>f, <1>i, <1>s, <2>2, <3>1, SameRunAsRecorded
          <5>2. pos # request.target /\ pos \in 1..(results[m].pos - 1)
            BY <4>2, <3>2, <1>0, <1>f, <2>2 DEF Replayed
          <5>3. Run(pos, results[m].state) # Raised
            BY <5>2, <1>s, <2>2 DEF Replayed
          <5> QED
            BY <4>2, <5>1, <5>3, <2>2
        <4> QED
          BY <4>1, <4>2, <3>2, <1>0, <1>f, <2>2
      <3> QED
        BY <3>1, <3>3, <1>0, <2>4 DEF Agrees
    <2>6. Agrees(state, pos, Outcome)
      BY <1>0, <2>4 DEF Agrees
    <2>7. \A m \in DOMAIN results' :
              /\ Replayed(results'[m].state, results'[m].pos, results'[m].reexecuted, m)
              /\ results'[m].pos \in Events => Run(results'[m].pos, results'[m].state) = Raised
      BY <1>s, <2>2, <2>3, <2>4
    <2>8. \A m, k \in DOMAIN results' : Agrees(results'[m].state, results'[m].pos, results'[k])
      <3>1. \A m, k \in DOMAIN results : Agrees(results[m].state, results[m].pos, results[k])
        BY <1>i DEF ReplayInv
      <3> QED
        BY <2>3, <2>4, <2>5, <2>6, <3>1
    <2> QED
      BY <1>e, <1>r, <2>1, <2>7, <2>8 DEF ReplayInv
  <1> QED
    BY <1>1, <1>2, <1>3, <1>4, <1>5, <1>6, <1>7, <1>8 DEF Next

-----------------------------------------------------------------------------
LEMMA InitInv == Init => IInv
  <1> SUFFICES ASSUME Init PROVE IInv
    OBVIOUS
  <1>1. TypeOK
    BY InitTypeOK
  <1>2. /\ phase = "execute" /\ pos = 1 /\ state = program.initial
        /\ closures = EmptyDict /\ results = EmptyDict /\ DOMAIN EmptyDict = {}
    BY DEF Init, EmptyDict
  <1>3. Executed(state, 1)
    BY <1>2 DEF Executed, Available
  <1> QED
    BY <1>1, <1>2, <1>3 DEF IInv, ClosureInv, OriginalInv, ReplayInv, NoResultsYet

LEMMA NextInv == IInv /\ [Next]_vars => IInv'
  BY NextTypeOK, ClosureStep, OriginalStep, ReplayStep DEF IInv

LEMMA Invariance == Spec => []IInv
  BY InitInv, NextInv, PTL DEF Spec

(* Two dicts with the same keys, the same initial artifacts and the same   *)
(* outputs of every event are the same dict.                               *)
LEMMA SameDict ==
    ASSUME TypeOK, NEW d1, NEW d2, IsDict(d1), IsDict(d2),
           DOMAIN d1 = Available(program, EventCount + 1),
           DOMAIN d2 = Available(program, EventCount + 1),
           \A a \in DOMAIN program.initial : d1[a] = d2[a],
           \A e \in Events : d1[Out(e)] = d2[Out(e)]
    PROVE  d1 = d2
  <1>0. EventCount + 1 \in 1..(EventCount + 1) /\ Events = 1..((EventCount + 1) - 1)
    BY CountIsNat DEF Events
  <1>1. \A a \in Available(program, EventCount + 1) : d1[a] = d2[a]
    BY <1>0, AvailableFacts
  <1> QED
    BY <1>1 DEF IsDict

-----------------------------------------------------------------------------
(* The theorems. *)

(* Whatever a replay in either mode ends with solves the program with the  *)
(* target's output replaced: no stale value survives in it.                *)
THEOREM ReplaysSolveTheProgram == Spec => []OutcomesSolveProgram
  <1>1. IInv => OutcomesSolveProgram
    <2> SUFFICES ASSUME IInv PROVE OutcomesSolveProgram
      OBVIOUS
    <2>1. ASSUME NEW m \in DOMAIN results
          PROVE  /\ Replayed(results[m].state, results[m].pos, results[m].reexecuted, m)
                 /\ results[m].pos \in Events => Run(results[m].pos, results[m].state) = Raised
      BY DEF IInv, ReplayInv
    <2> QED
      BY <2>1 DEF OutcomesSolveProgram, Replayed
  <1> QED
    BY <1>1, Invariance, PTL

(* The restored prefix and every event a slice reuses have the value of    *)
(* the original run, and no replay fails before its target.                *)
THEOREM UntouchedIsOriginal == Spec => []UntouchedEventsAreOriginal
  <1>1. IInv => UntouchedEventsAreOriginal
    <2> SUFFICES ASSUME IInv PROVE UntouchedEventsAreOriginal
      OBVIOUS
    <2>1. ASSUME NEW m \in DOMAIN results
          PROVE  Replayed(results[m].state, results[m].pos, results[m].reexecuted, m)
      BY DEF IInv, ReplayInv
    <2> QED
      BY <2>1 DEF UntouchedEventsAreOriginal, Replayed
  <1> QED
    BY <1>1, Invariance, PTL

(* The breadth-first searches compute exactly the descendants.             *)
THEOREM ClosuresCorrect == Spec => []ClosuresAreDescendants
  <1>1. IInv => ClosuresAreDescendants
    BY DEF IInv, ClosureInv, ClosuresAreDescendants
  <1> QED
    BY <1>1, Invariance, PTL

(* Putting back the target's own output reproduces the original run.        *)
THEOREM IdentityReplay == Spec => []ReplayOfOriginalIsIdentity
  <1>1. IInv => ReplayOfOriginalIsIdentity
    <2> SUFFICES ASSUME IInv, NEW m \in DOMAIN results,
                        request.replacement = original[Out(request.target)]
                 PROVE  results[m].pos = EventCount + 1 /\ results[m].state = original
      BY DEF ReplayOfOriginalIsIdentity
    <2> DEFINE d == results[m].state
               n == results[m].pos
    <2>1. /\ TypeOK /\ Replayed(d, n, results[m].reexecuted, m)
          /\ n \in Events => Run(n, d) = Raised
      BY DEF IInv, ReplayInv
    <2>2. /\ phase \notin {"execute", "failed"}
          /\ Executed(original, EventCount + 1)
      BY DEF IInv, OriginalInv, NoResultsYet, EmptyDict
    <2>3. EventCount \in Nat /\ Events = 1..EventCount /\ n \in 1..(EventCount + 1)
      BY <2>1, CountIsNat DEF TypeOK, IsOutcome, Events
    <2>4. /\ \A e \in 1..(n - 1) : d[Out(e)] = original[Out(e)]
          /\ \A a \in DOMAIN program.initial : d[a] = original[a]
      BY <2>1, <2>2 DEF Replayed, Executed
    <2>5. n \notin Events
      <3> SUFFICES ASSUME n \in Events PROVE FALSE
        OBVIOUS
      <3>1. Available(program, n) \subseteq DOMAIN d /\ Available(program, n) \subseteq DOMAIN original
        BY <2>1, <2>2, <2>3, ReplayedDomain, OriginalDomain
      <3>2. Run(n, d) = Run(n, original)
        BY <2>1, <2>4, <3>1, SameHistorySameRun
      <3> QED
        BY <2>1, <2>2, <3>2, OriginalDomain
    <2>6. n = EventCount + 1
      BY <2>3, <2>5
    <2>7. DOMAIN d = Available(program, EventCount + 1) /\ DOMAIN original = DOMAIN d
      BY <2>1, <2>2, <2>6 DEF Replayed, Executed
    <2>8. IsDict(d) /\ IsDict(original)
      BY <2>1 DEF TypeOK, IsOutcome
    <2> QED
      BY <2>1, <2>3, <2>4, <2>6, <2>7, <2>8, SameDict
  <1> QED
    BY <1>1, Invariance, PTL

(* No intervention loses the original run: the two theorems together.      *)
THEOREM OriginalIsKept == Spec => []ReplayKeepsOriginal
  BY UntouchedIsOriginal, IdentityReplay, PTL DEF ReplayKeepsOriginal

(* The claim of ReplayEngine, for every program, intervention and order of *)
(* calls: a sliced and a full replay of one intervention end at the same   *)
(* event, and with the same dict if they return.                           *)
THEOREM SlicedReplayIsExact == Spec => []SlicedEqualsFull
  <1>1. IInv => SlicedEqualsFull
    <2> DEFINE full   == results["full_suffix"]
               sliced == results["sliced"]
    <2> SUFFICES ASSUME IInv, DOMAIN results = Modes
                 PROVE  /\ full.pos = sliced.pos
                        /\ full.pos = EventCount + 1 => full.state = sliced.state
      BY DEF SlicedEqualsFull
    <2>1. /\ TypeOK
          /\ Replayed(full.state, full.pos, full.reexecuted, "full_suffix")
          /\ Replayed(sliced.state, sliced.pos, sliced.reexecuted, "sliced")
          /\ Agrees(full.state, full.pos, sliced) /\ Agrees(sliced.state, sliced.pos, full)
      BY DEF IInv, ReplayInv, Modes
    <2>2. /\ EventCount \in Nat /\ Events = 1..EventCount
          /\ full.pos \in 1..(EventCount + 1) /\ IsDict(full.state)
          /\ sliced.pos \in 1..(EventCount + 1) /\ IsDict(sliced.state)
      BY <2>1, CountIsNat DEF TypeOK, IsOutcome, Events, Modes
    <2>3. full.pos = sliced.pos
      BY <2>1, <2>2 DEF Agrees
    <2>4. ASSUME full.pos = EventCount + 1 PROVE full.state = sliced.state
      <3>1. /\ DOMAIN full.state = Available(program, EventCount + 1)
            /\ DOMAIN sliced.state = Available(program, EventCount + 1)
            /\ \A a \in DOMAIN program.initial : full.state[a] = sliced.state[a]
        BY <2>1, <2>4 DEF Replayed
      <3>2. \A e \in Events : full.state[Out(e)] = sliced.state[Out(e)]
        BY <2>1, <2>2, <2>4 DEF Agrees
      <3> QED
        BY <2>1, <2>2, <3>1, <3>2, SameDict
    <2> QED
      BY <2>3, <2>4
  <1> QED
    BY <1>1, Invariance, PTL
=============================================================================
