------------------------- MODULE DynamicReplayProofs ------------------------
(***************************************************************************)
(* Theorems about DynamicReplay, for every program, every intervention,    *)
(* every policy cache the engine may start with and every sampler; and     *)
(* about RlmCampaign, for every number of programs and of alternatives and *)
(* every draw of its generator.                                            *)
(***************************************************************************)
EXTENDS RlmCampaign, FiniteSetTheorems, WellFoundedInduction, TLAPS

-----------------------------------------------------------------------------
(***************************************************************************)
(* Runs.  What the loop of _execute_original and _full_suffix leaves in    *)
(* its trace is a run: it depends on the program, the cache it started     *)
(* with, the target and the target's value only.                           *)
(***************************************************************************)

(* What the evaluation of a template looks up. *)
Inputs(e) == IF IsPolicy(e) THEN {Cmd(e).policy.prompt} ELSE ReadSet(Cmd(e))

(* The artifacts there are when template n is reached.                     *)
Before(active, n) == DOMAIN program.initial \cup {Out(d) : d \in {x \in active : x < n}}

(* The policy calls asked of the cache by then, and their keys.            *)
CallsBefore(active, t, n) == {d \in active : d < n /\ IsPolicy(d) /\ d # t}

KeysBefore(dict, active, t, n) == {Key(d, dict) : d \in CallsBefore(active, t, n)}

(* The cache grows by these keys, with the actions the base cache or the    *)
(* sampler has for them.                                                   *)
CacheIs(cache, base, keys) ==
    /\ IsDict(cache)
    /\ DOMAIN cache = DOMAIN base \cup keys
    /\ \A k \in DOMAIN cache : cache[k] = Action(base, k)

(* Why the call of template e was answered as it was.                      *)
Reason(b, base, t, e) ==
    IF e = t THEN "intervention_action"
    ELSE IF Key(e, b.state) \in DOMAIN base \cup KeysBefore(b.state, b.active, t, e)
         THEN "exact_key_match"
         ELSE "key_changed_or_missing"

(* Artifacts are assigned once, and guards and templates read only what    *)
(* earlier templates of the run have written.                              *)
Ordered(b, t, n) ==
    /\ IsDict(b.state) /\ DOMAIN b.state = Before(b.active, n)
    /\ \A a \in DOMAIN program.initial : b.state[a] = program.initial[a]
    /\ b.active \subseteq {e \in Events : e < n}
    /\ \A e, f \in b.active : Out(e) = Out(f) => e = f
    /\ \A e \in Events : e < n /\ Cmd(e).guard # NoGuard =>
          Cmd(e).guard.artifact \in Before(b.active, e)
    /\ \A e \in b.active \ {t} : Inputs(e) \subseteq Before(b.active, e)

(* b is a run of the templates before n from a base cache, with the output *)
(* of t replaced (by whatever it is).                                      *)
Run(b, base, t, n) ==
    /\ Ordered(b, t, n)
    /\ \A e \in Events : e < n => (e \in b.active <=> IsActive(e, b.state))
    /\ \A e \in b.active \ {t} : Value(e, b) # Raised /\ b.state[Out(e)] = Value(e, b)
    /\ CacheIs(b.cache, base, KeysBefore(b.state, b.active, t, n))
    /\ IsDict(b.decisions) /\ DOMAIN b.decisions = {e \in b.active : IsPolicy(e)}
    /\ \A e \in DOMAIN b.decisions : b.decisions[e] = Reason(b, base, t, e)

(* A branch is a complete run that a full replay of t could return.         *)
IsBranch(b, t) ==
    /\ Run(b, original.cache, t, EventCount + 1)
    /\ t \in b.active
    /\ program.terminal \in DOMAIN b.state

(* Until template n, b did what F did.                                      *)
Follows(b, F, n) ==
    /\ b.active = {e \in F.active : e < n}
    /\ \A a \in Before(F.active, n) : a \in DOMAIN b.state /\ b.state[a] = F.state[a]

(* The original run, seen as the branch that the no-op intervention makes.  *)
NoOp(t) ==
    [state |-> original.state, active |-> original.active, cache |-> original.cache,
     decisions |-> [e \in {x \in original.active : IsPolicy(x)} |->
                       IF e = t THEN "intervention_action" ELSE "exact_key_match"]]

-----------------------------------------------------------------------------
(***************************************************************************)
(* The inductive invariant, as a predicate of the request r, the position  *)
(* n, the trace or slice b and the dirtiness d of the running loop.        *)
(***************************************************************************)

(* The producers of a materialized trace. *)
ProducersMatch(b) ==
    /\ IsDict(b.producer) /\ DOMAIN b.producer = DOMAIN b.state
    /\ \A a \in DOMAIN program.initial : b.producer[a] = 0
    /\ \A e \in b.active : b.producer[Out(e)] = e

(* The constructor runs the program once; what it leaves is a run.          *)
MaterializedAt(n, b) == \E base \in InitialCaches : Run(b, base, 0, n) /\ ProducersMatch(b)

OriginalIsRun ==
    /\ MaterializedAt(EventCount + 1, original)
    /\ program.terminal \in DOMAIN original.state

RequestAt(r) ==
    /\ r.target \in original.active
    /\ r \in [target : Events, replacement : Replacements, mode : Modes]

(* What the caller asked for: branch F replaces the target's output by the  *)
(* requested value.                                                        *)
Requested(r, F) == IsBranch(F, r.target) /\ F.state[Out(r.target)] = r.replacement

(* The templates before the target, and their artifacts, are the original's, *)
(* and no policy call among them is sampled.                               *)
PrefixKept(b, t) ==
    /\ {e \in b.active : e < t} = {e \in original.active : e < t}
    /\ \A e \in b.active : e < t => /\ Out(e) \in DOMAIN b.state
                                    /\ b.state[Out(e)] = original.state[Out(e)]
    /\ \A e \in DOMAIN b.decisions : e < t => b.decisions[e] = "exact_key_match"

PrefixAt(r, n, b) ==
    /\ RequestAt(r)
    /\ n <= r.target
    /\ Run(b, original.cache, r.target, n)
    /\ ProducersMatch(b)
    /\ \A F : IsBranch(F, r.target) => Follows(b, F, n)

FullAt(r, n, b) ==
    /\ RequestAt(r)
    /\ r.mode = "full_suffix"
    /\ n > r.target
    /\ r.target \in b.active
    /\ Run(b, original.cache, r.target, n)
    /\ b.state[Out(r.target)] = r.replacement
    /\ ProducersMatch(b)
    /\ PrefixKept(b, r.target)
    /\ \A F : Requested(r, F) => Follows(b, F, n)

(* A slice holds what its active templates wrote; everything else in it is *)
(* an original output that its loop has not reached.  What it wrote        *)
(* without being dirty is original too.                                    *)
Slice(n, b, d) ==
    /\ b.active \subseteq {e \in Events : e < n}
    /\ DOMAIN program.initial \subseteq DOMAIN b.state
    /\ \A e \in b.active : Out(e) \in DOMAIN b.state /\ b.producer[Out(e)] = e
    /\ \A a \in DOMAIN b.state \ DOMAIN program.initial :
          b.producer[a] \notin b.active =>
              /\ b.producer[a] >= n
              /\ a \in DOMAIN original.state
              /\ b.state[a] = original.state[a]
    /\ \A e \in b.active \ d.events :
          e \in original.active /\ b.state[Out(e)] = original.state[Out(e)]
    /\ DOMAIN b.decisions = {e \in b.active : IsPolicy(e)}

(* A decision of a slice: the branch's own, or the reuse of an event whose  *)
(* key the original run has an action for.                                 *)
SliceDecision(b, F, e) ==
    \/ b.decisions[e] = F.decisions[e]
    \/ /\ b.decisions[e] = "unchanged_event_reuse"
       /\ F.decisions[e] = "exact_key_match"
       /\ Key(e, F.state) \in DOMAIN original.cache

(* Compared with the branch that full replay makes: the slice has followed  *)
(* it, and an artifact that is not dirty is as in the original run.        *)
SliceFollows(r, n, b, d, F) ==
    /\ Follows(b, F, n)
    /\ CacheIs(b.cache, original.cache, KeysBefore(F.state, F.active, r.target, n))
    /\ \A e \in DOMAIN b.decisions : SliceDecision(b, F, e)
    /\ \A a \in Before(F.active, n) \ d.artifacts :
          a \in DOMAIN original.state /\ original.state[a] = F.state[a]

SlicedAt(r, n, b, d) ==
    /\ RequestAt(r)
    /\ r.mode = "sliced"
    /\ n > r.target
    /\ r.target \in b.active
    /\ r.target \in d.events
    /\ Slice(n, b, d)
    /\ PrefixKept(b, r.target)
    /\ \A F : Requested(r, F) => SliceFollows(r, n, b, d, F)

(* The outcome o of a call is that of branch F.                             *)
SameBranch(o, F) ==
    /\ o.returned
    /\ o.state = F.state /\ o.active = F.active /\ o.cache = F.cache
    /\ DOMAIN o.decisions = DOMAIN F.decisions
    /\ \A e \in DOMAIN F.decisions : SliceDecision(o, F, e)

OutcomeAt(r, m, o) ==
    /\ ~o.returned => o.at > r.target
    /\ o.returned =>
          /\ PrefixKept(o, r.target)
          /\ \A e \in o.active \ (o.reexecuted \cup {r.target}) :
                e \in original.active /\ o.state[Out(e)] = original.state[Out(e)]
          /\ m = "full_suffix" => Requested(r, o)
    /\ \A F : Requested(r, F) => SameBranch(o, F)

ResultsAt(r, res) ==
    DOMAIN res # {} => RequestAt(r) /\ \A m \in DOMAIN res : OutcomeAt(r, m, res[m])

IInv ==
    /\ TypeOK
    /\ phase \in {"original", "failed"} => results = EmptyDict /\ request = NoRequest
    /\ phase = "original" => MaterializedAt(pos, trace)
    /\ phase \notin {"original", "failed"} => OriginalIsRun
    /\ phase = "prefix" => PrefixAt(request, pos, trace)
    /\ phase = "full" => FullAt(request, pos, trace)
    /\ phase = "sliced" => SlicedAt(request, pos, trace, dirty)
    /\ ResultsAt(request, results)

-----------------------------------------------------------------------------
(* Dicts and programs. *)

LEMMA PutFacts ==
    \A d, k, v :
        /\ IsDict(Put(d, k, v))
        /\ DOMAIN Put(d, k, v) = DOMAIN d \cup {k}
        /\ Put(d, k, v)[k] = v
        /\ \A j \in DOMAIN d : j # k => Put(d, k, v)[j] = d[j]
  BY DEF Put, IsDict

LEMMA UpdateFacts ==
    \A d, o :
        /\ IsDict(Update(d, o))
        /\ DOMAIN Update(d, o) = DOMAIN d \cup DOMAIN o
        /\ \A j \in DOMAIN o : Update(d, o)[j] = o[j]
        /\ \A j \in DOMAIN d : j \notin DOMAIN o => Update(d, o)[j] = d[j]
  BY DEF Update, IsDict

LEMMA WithoutFacts ==
    \A d, k :
        /\ IsDict(Without(d, k))
        /\ DOMAIN Without(d, k) = DOMAIN d \ {k}
        /\ \A j \in DOMAIN d \ {k} : Without(d, k)[j] = d[j]
  BY DEF Without, Restrict, IsDict

LEMMA SameDict ==
    ASSUME NEW d1, NEW d2, IsDict(d1), IsDict(d2), DOMAIN d1 = DOMAIN d2,
           \A k \in DOMAIN d1 : d1[k] = d2[k]
    PROVE  d1 = d2
  BY DEF IsDict

LEMMA EventFacts ==
    ASSUME program \in Programs, WellFormed(program)
    PROVE  /\ EventCount \in Nat /\ Events \subseteq Nat
           /\ IsDict(program.initial)
           /\ \A e \in Events : /\ Out(e) \notin DOMAIN program.initial
                                /\ Inputs(e) \subseteq ReadSet(Cmd(e))
                                /\ Cmd(e).dependencies \subseteq Events
  <1>1. EventCount \in Nat /\ IsDict(program.initial)
    BY ProgramsAssumption DEF EventCount
  <1>2. \A e \in Events : /\ Out(e) \notin DOMAIN program.initial
                          /\ Inputs(e) \subseteq ReadSet(Cmd(e))
                          /\ Cmd(e).dependencies \subseteq Events
    BY <1>1 DEF WellFormed, Events, EventCount, Out, Inputs, IsPolicy, Cmd
  <1> QED
    BY <1>1, <1>2 DEF Events

LEMMA BeforeFacts ==
    ASSUME NEW active, NEW n
    PROVE  /\ \A a : a \in Before(active, n) <=>
                       \/ a \in DOMAIN program.initial
                       \/ \E d \in active : d < n /\ Out(d) = a
           /\ DOMAIN program.initial \subseteq Before(active, n)
           /\ \A d \in active : d < n => Out(d) \in Before(active, n)
  BY DEF Before

(* One template further: its output has come, if it is active.              *)
LEMMA BeforeNext ==
    ASSUME NEW active, NEW n, active \subseteq Nat, n \in Nat
    PROVE  /\ n \in active => Before(active, n + 1) = Before(active, n) \cup {Out(n)}
           /\ n \notin active => Before(active, n + 1) = Before(active, n)
           /\ \A e \in Nat : e <= n => /\ Before(active, e) \subseteq Before(active, n)
                                       /\ Before(active \cup {n}, e) = Before(active, e)
           /\ Before(active \cup {n}, n + 1) = Before(active, n) \cup {Out(n)}
  <1>1. \A d \in active : d < n + 1 <=> d < n \/ d = n
    OBVIOUS
  <1>2. \A e \in Nat, d \in Nat : e <= n /\ d < e => d < n /\ d # n
    OBVIOUS
  <1>3. ~(n < n) /\ n < n + 1
    OBVIOUS
  <1> DEFINE early(m) == {d \in active : d < m}
             late(m) == {d \in active \cup {n} : d < m}
             outputs(S) == {Out(d) : d \in S}
  <1>4. \A m : /\ Before(active, m) = DOMAIN program.initial \cup outputs(early(m))
               /\ Before(active \cup {n}, m) = DOMAIN program.initial \cup outputs(late(m))
    BY DEF Before
  <1>5. /\ Before(active, n) = DOMAIN program.initial \cup outputs(early(n))
        /\ Before(active, n + 1) = DOMAIN program.initial \cup outputs(early(n + 1))
        /\ Before(active \cup {n}, n + 1) = DOMAIN program.initial \cup outputs(late(n + 1))
    BY DEF Before
  <1>6. /\ n \in active => early(n + 1) = early(n) \cup {n}
        /\ n \notin active => early(n + 1) = early(n)
        /\ late(n + 1) = early(n) \cup {n}
    BY <1>1, <1>3
  <1>7. \A e \in Nat : e <= n => early(e) \subseteq early(n) /\ late(e) = early(e)
    BY <1>2
  <1>8. /\ \A S : outputs(S \cup {n}) = outputs(S) \cup {Out(n)}
        /\ \A S, T : S \subseteq T => outputs(S) \subseteq outputs(T)
    OBVIOUS
  <1> HIDE DEF outputs
  <1>9. outputs(early(n) \cup {n}) = outputs(early(n)) \cup {Out(n)}
    BY <1>8
  <1> HIDE DEF early, late
  <1>10. /\ n \in active => Before(active, n + 1) = Before(active, n) \cup {Out(n)}
         /\ n \notin active => Before(active, n + 1) = Before(active, n)
    BY <1>5, <1>6, <1>9
  <1>11. \A e \in Nat : e <= n => /\ Before(active, e) \subseteq Before(active, n)
                                  /\ Before(active \cup {n}, e) = Before(active, e)
    BY <1>4, <1>7, <1>8
  <1>12. Before(active \cup {n}, n + 1) = Before(active, n) \cup {Out(n)}
    BY <1>5, <1>6, <1>9
  <1> QED
    BY <1>10, <1>11, <1>12

(* ... and so has its key, if it calls the policy.                          *)
LEMMA CallsNext ==
    ASSUME NEW active, NEW n, NEW t, active \subseteq Nat, n \in Nat
    PROVE  /\ n \in active /\ IsPolicy(n) /\ n # t =>
                 CallsBefore(active, t, n + 1) = CallsBefore(active, t, n) \cup {n}
           /\ n \notin active \/ ~IsPolicy(n) \/ n = t =>
                 CallsBefore(active, t, n + 1) = CallsBefore(active, t, n)
           /\ \A e \in Nat : e <= n =>
                 CallsBefore(active \cup {n}, t, e) = CallsBefore(active, t, e)
  <1>1. \A d \in active : d < n + 1 <=> d < n \/ d = n
    OBVIOUS
  <1>2. \A e \in Nat, d \in Nat : e <= n /\ d < e => d < n /\ d # n
    OBVIOUS
  <1>3. ~(n < n) /\ n < n + 1
    OBVIOUS
  <1>4. n \in active /\ IsPolicy(n) /\ n # t =>
           CallsBefore(active, t, n + 1) = CallsBefore(active, t, n) \cup {n}
    BY <1>1, <1>3 DEF CallsBefore
  <1>5. n \notin active \/ ~IsPolicy(n) \/ n = t =>
           CallsBefore(active, t, n + 1) = CallsBefore(active, t, n)
    BY <1>1, <1>3 DEF CallsBefore
  <1>6. \A e \in Nat : e <= n => CallsBefore(active \cup {n}, t, e) = CallsBefore(active, t, e)
    BY <1>2 DEF CallsBefore
  <1> QED
    BY <1>4, <1>5, <1>6

-----------------------------------------------------------------------------
(* The evaluation of a template depends on what it looks up only.           *)

LEMMA ReadsOnlyInputs ==
    ASSUME NEW c, NEW d1, NEW d2,
           ReadSet(c) \subseteq DOMAIN d1, ReadSet(c) \subseteq DOMAIN d2,
           \A a \in ReadSet(c) : d1[a] = d2[a]
    PROVE  ExecuteCommand(c, d1) = ExecuteCommand(c, d2)
  <1> DEFINE values(d) == [k \in DOMAIN c.inputs |-> d[c.inputs[k]]]
  <1>1. \A k \in DOMAIN c.inputs : d1[c.inputs[k]] = d2[c.inputs[k]]
    BY DEF ReadSet
  <1>2. values(d1) = values(d2)
    BY <1>1
  <1> QED
    BY <1>2 DEF ExecuteCommand

LEMMA SameActivity ==
    ASSUME NEW e, NEW d1, NEW d2,
           Cmd(e).guard # NoGuard =>
               /\ Cmd(e).guard.artifact \in DOMAIN d1 /\ Cmd(e).guard.artifact \in DOMAIN d2
               /\ d1[Cmd(e).guard.artifact] = d2[Cmd(e).guard.artifact]
    PROVE  /\ ~GuardMissing(e, d1) /\ ~GuardMissing(e, d2)
           /\ IsActive(e, d1) <=> IsActive(e, d2)
           /\ IsInactive(e, d1) <=> ~IsActive(e, d1)
  BY DEF IsActive, IsInactive, GuardMissing

(* The cache is asked for nothing but actions its base or the sampler has.  *)
LEMMA ActionIsPure ==
    ASSUME NEW cache, NEW base, NEW keys, CacheIs(cache, base, keys), NEW k
    PROVE  Action(cache, k) = Action(base, k)
  BY DEF CacheIs, Action

LEMMA SameValue ==
    ASSUME NEW e, NEW b1, NEW b2, NEW base, NEW keys1, NEW keys2,
           CacheIs(b1.cache, base, keys1), CacheIs(b2.cache, base, keys2),
           Inputs(e) \subseteq DOMAIN b1.state, Inputs(e) \subseteq DOMAIN b2.state,
           \A a \in Inputs(e) : b1.state[a] = b2.state[a]
    PROVE  /\ Value(e, b1) = Value(e, b2)
           /\ IsPolicy(e) => Key(e, b1.state) = Key(e, b2.state)
  <1>1. CASE ~IsPolicy(e)
    BY <1>1, ReadsOnlyInputs DEF Inputs, Value
  <1>2. CASE IsPolicy(e)
    <2>1. /\ Cmd(e).policy.prompt \in DOMAIN b1.state /\ Cmd(e).policy.prompt \in DOMAIN b2.state
          /\ b1.state[Cmd(e).policy.prompt] = b2.state[Cmd(e).policy.prompt]
      BY <1>2 DEF Inputs
    <2>2. PromptReady(e, b1.state) <=> PromptReady(e, b2.state)
      BY <2>1 DEF PromptReady
    <2>3. Key(e, b1.state) = Key(e, b2.state)
      BY <2>1 DEF Key
    <2>4. Action(b1.cache, Key(e, b1.state)) = Action(b2.cache, Key(e, b2.state))
      BY <2>3, ActionIsPure
    <2> QED
      BY <1>2, <2>2, <2>3, <2>4 DEF Value
  <1> QED
    BY <1>1, <1>2

(* What does not raise has found its inputs.                               *)
LEMMA EvaluatedInputs ==
    ASSUME NEW e, NEW b, Value(e, b) # Raised
    PROVE  Inputs(e) \subseteq DOMAIN b.state
  BY DEF Value, Inputs, ExecuteCommand, PromptReady

-----------------------------------------------------------------------------
(* Runs grow by one template.                                              *)

(* The keys of a run stay what they were when its dict grows.               *)
LEMMA SameKeys ==
    ASSUME NEW d1, NEW d2, NEW active, NEW t, NEW n,
           \A e \in CallsBefore(active, t, n) :
               /\ Cmd(e).policy.prompt \in DOMAIN d1 /\ Cmd(e).policy.prompt \in DOMAIN d2
               /\ d1[Cmd(e).policy.prompt] = d2[Cmd(e).policy.prompt]
    PROVE  KeysBefore(d1, active, t, n) = KeysBefore(d2, active, t, n)
  <1>1. \A e \in CallsBefore(active, t, n) : Key(e, d1) = Key(e, d2)
    BY DEF Key
  <1> QED
    BY <1>1 DEF KeysBefore

LEMMA RunInputs ==
    ASSUME TypeOK, NEW b, NEW t, NEW n, n \in Nat, Ordered(b, t, n)
    PROVE  /\ \A e \in b.active : e \in Events /\ e \in Nat /\ e < n
           /\ \A e \in b.active : Out(e) \in DOMAIN b.state
           /\ \A e \in b.active \ {t} : Inputs(e) \subseteq DOMAIN b.state
           /\ \A e \in Events : e < n /\ Cmd(e).guard # NoGuard =>
                 Cmd(e).guard.artifact \in DOMAIN b.state
           /\ \A k \in Nat : \A e \in CallsBefore(b.active, t, k) :
                 Cmd(e).policy.prompt \in DOMAIN b.state
  <1>1. b.active \subseteq Nat /\ \A e \in b.active : e \in Events /\ e \in Nat /\ e < n
    BY EventFacts DEF Ordered, TypeOK
  <1>2. \A e \in Nat : e <= n => Before(b.active, e) \subseteq DOMAIN b.state
    BY <1>1, BeforeNext DEF Ordered
  <1>3. \A e \in b.active : Out(e) \in DOMAIN b.state
    BY <1>1, BeforeFacts DEF Ordered
  <1>4. \A e \in b.active \ {t} : Inputs(e) \subseteq DOMAIN b.state
    BY <1>1, <1>2 DEF Ordered
  <1>5. \A e \in Events : e < n /\ Cmd(e).guard # NoGuard =>
            Cmd(e).guard.artifact \in DOMAIN b.state
    BY <1>2, EventFacts DEF Ordered, TypeOK
  <1>6. \A k \in Nat : \A e \in CallsBefore(b.active, t, k) :
            Cmd(e).policy.prompt \in DOMAIN b.state
    BY <1>4 DEF CallsBefore, Inputs
  <1> QED
    BY <1>1, <1>3, <1>4, <1>5, <1>6

(* The keys template n adds. *)
NewKeys(b, t, n) == IF IsPolicy(n) /\ n # t THEN {Key(n, b.state)} ELSE {}

(* w is b after template n, with value v.                                   *)
Grown(w, b, base, t, n, v) ==
    /\ w.state = Put(b.state, Out(n), v)
    /\ w.active = b.active \cup {n}
    /\ CacheIs(w.cache, base, KeysBefore(b.state, b.active, t, n) \cup NewKeys(b, t, n))
    /\ w.decisions = IF IsPolicy(n) THEN Put(b.decisions, n, Reason(b, base, t, n))
                                    ELSE b.decisions

LEMMA GrownState ==
    ASSUME NEW b, NEW w, NEW base, NEW t, NEW n, NEW v, Grown(w, b, base, t, n, v)
    PROVE  /\ IsDict(w.state) /\ DOMAIN w.state = DOMAIN b.state \cup {Out(n)}
           /\ w.state[Out(n)] = v
           /\ \A a \in DOMAIN b.state : a # Out(n) => w.state[a] = b.state[a]
  <1>1. w.state = Put(b.state, Out(n), v)
    BY DEF Grown
  <1> QED
    BY <1>1 DEF Put, IsDict

LEMMA GrownDecisions ==
    ASSUME NEW b, NEW w, NEW base, NEW t, NEW n, NEW v, Grown(w, b, base, t, n, v)
    PROVE  /\ IsPolicy(n) =>
                 /\ IsDict(w.decisions) /\ DOMAIN w.decisions = DOMAIN b.decisions \cup {n}
                 /\ w.decisions[n] = Reason(b, base, t, n)
                 /\ \A e \in DOMAIN b.decisions : e # n => w.decisions[e] = b.decisions[e]
           /\ ~IsPolicy(n) => w.decisions = b.decisions
  <1>1. IsPolicy(n) => w.decisions = Put(b.decisions, n, Reason(b, base, t, n))
    BY DEF Grown
  <1>2. ~IsPolicy(n) => w.decisions = b.decisions
    BY DEF Grown
  <1>3. CASE IsPolicy(n)
    BY <1>1, <1>3 DEF Put, IsDict
  <1>4. CASE ~IsPolicy(n)
    BY <1>2, <1>4
  <1> QED
    BY <1>3, <1>4

(* The templates of w before n are those of b.                              *)
LEMMA GrownBefore ==
    ASSUME NEW b, NEW w, NEW base, NEW t, NEW n, NEW v,
           n \in Nat, b.active \subseteq Nat, Grown(w, b, base, t, n, v)
    PROVE  /\ Before(w.active, n + 1) = Before(b.active, n) \cup {Out(n)}
           /\ \A e \in Nat : e <= n =>
                 /\ Before(w.active, e) = Before(b.active, e)
                 /\ CallsBefore(w.active, t, e) = CallsBefore(b.active, t, e)
  <1>1. w.active = b.active \cup {n}
    BY DEF Grown
  <1>2. Before(b.active \cup {n}, n + 1) = Before(b.active, n) \cup {Out(n)}
    BY BeforeNext
  <1>3. ASSUME NEW e \in Nat, e <= n
        PROVE  /\ Before(w.active, e) = Before(b.active, e)
               /\ CallsBefore(w.active, t, e) = CallsBefore(b.active, t, e)
    <2>1. \A d \in w.active : d < e <=> d \in b.active /\ d < e
      BY <1>1, <1>3
    <2>2. \A d \in b.active : d \in w.active
      BY <1>1
    <2> QED
      BY <2>1, <2>2 DEF Before, CallsBefore
  <1>4. Before(w.active, n + 1) = Before(b.active, n) \cup {Out(n)}
    BY <1>1, <1>2
  <1> QED
    BY <1>3, <1>4

LEMMA RunExtends ==
    ASSUME TypeOK, NEW b, NEW w, NEW base, NEW t, NEW n \in Events, NEW v,
           Run(b, base, t, n),
           IsActive(n, b.state), Out(n) \notin DOMAIN b.state,
           n # t => Value(n, b) # Raised /\ v = Value(n, b),
           Grown(w, b, base, t, n, v)
    PROVE  Run(w, base, t, n + 1)
  <1>1. /\ n \in Nat /\ Events \subseteq Nat /\ Ordered(b, t, n)
        /\ b.active \subseteq Nat /\ n \notin b.active
    BY EventFacts DEF Run, Ordered, TypeOK
  <1>2. /\ IsDict(w.state) /\ DOMAIN w.state = DOMAIN b.state \cup {Out(n)}
        /\ w.state[Out(n)] = v
        /\ \A a \in DOMAIN b.state : w.state[a] = b.state[a]
    BY GrownState
  <1>3. /\ \A e \in b.active : e \in Events /\ e \in Nat /\ e < n
        /\ \A e \in b.active : Out(e) \in DOMAIN b.state
        /\ \A e \in b.active \ {t} : Inputs(e) \subseteq DOMAIN b.state
        /\ \A e \in Events : e < n /\ Cmd(e).guard # NoGuard =>
              Cmd(e).guard.artifact \in DOMAIN b.state
        /\ \A k \in Nat : \A e \in CallsBefore(b.active, t, k) :
              Cmd(e).policy.prompt \in DOMAIN b.state
    BY <1>1, RunInputs
  <1>4. /\ Before(w.active, n + 1) = Before(b.active, n) \cup {Out(n)}
        /\ \A e \in Nat : e <= n => Before(w.active, e) = Before(b.active, e)
    <2>1. b.active \subseteq Nat
      BY <1>1
    <2>2. Before(w.active, n + 1) = Before(b.active, n) \cup {Out(n)}
      BY <1>1, <2>1, GrownBefore
    <2>3. \A e \in Nat : e <= n => Before(w.active, e) = Before(b.active, e)
      BY <1>1, <2>1, GrownBefore
    <2> QED
      BY <2>2, <2>3
  <1>5. /\ w.active \subseteq Nat
        /\ \A e : e \in w.active <=> e \in b.active \/ e = n
    <2>1. \A e : e \in w.active <=> e \in b.active \/ e = n
      BY DEF Grown
    <2> QED
      BY <1>1, <2>1
  <1>6. /\ IsPolicy(n) => /\ IsDict(w.decisions)
                          /\ DOMAIN w.decisions = DOMAIN b.decisions \cup {n}
                          /\ w.decisions[n] = Reason(b, base, t, n)
                          /\ \A e \in DOMAIN b.decisions :
                                e # n => w.decisions[e] = b.decisions[e]
        /\ ~IsPolicy(n) => w.decisions = b.decisions
    BY GrownDecisions
  <1>7. n # t => Inputs(n) \subseteq DOMAIN b.state
    BY EvaluatedInputs
  <1>8. Cmd(n).guard # NoGuard => Cmd(n).guard.artifact \in DOMAIN b.state
    BY DEF IsActive, GuardMissing
  <1>9. Ordered(w, t, n + 1)
    <2>1. DOMAIN w.state = Before(w.active, n + 1)
      BY <1>1, <1>2, <1>4 DEF Ordered
    <2>2. \A a \in DOMAIN program.initial : w.state[a] = program.initial[a]
      BY <1>1, <1>2, BeforeFacts DEF Ordered
    <2>3. w.active \subseteq {e \in Events : e < n + 1}
      BY <1>1, <1>3, <1>5
    <2>4. \A e, f \in w.active : Out(e) = Out(f) => e = f
      BY <1>1, <1>3, <1>5 DEF Ordered
    <2>5. ASSUME NEW e \in Events, e < n + 1, Cmd(e).guard # NoGuard
          PROVE  Cmd(e).guard.artifact \in Before(w.active, e)
      <3>1. (e < n \/ e = n) /\ e \in Nat /\ e <= n
        BY <1>1, <2>5
      <3>2. Before(w.active, e) = Before(b.active, e)
        BY <1>4, <3>1
      <3>3. Cmd(e).guard.artifact \in Before(b.active, e)
        BY <1>1, <1>8, <2>5, <3>1 DEF Ordered
      <3> QED
        BY <3>2, <3>3
    <2>6. ASSUME NEW e \in w.active \ {t}
          PROVE  Inputs(e) \subseteq Before(w.active, e)
      <3>1. e \in Nat /\ e <= n /\ (e \in b.active \/ e = n)
        BY <1>1, <1>3, <1>5
      <3>2. Before(w.active, e) = Before(b.active, e)
        BY <1>4, <3>1
      <3>3. Inputs(e) \subseteq Before(b.active, e)
        BY <1>1, <1>7, <3>1 DEF Ordered
      <3> QED
        BY <3>2, <3>3
    <2> QED
      BY <1>2, <2>1, <2>2, <2>3, <2>4, <2>5, <2>6 DEF Ordered
  <1>10. \A e \in Events : e < n + 1 => (e \in w.active <=> IsActive(e, w.state))
    <2> SUFFICES ASSUME NEW e \in Events, e < n + 1
                 PROVE  e \in w.active <=> IsActive(e, w.state)
      OBVIOUS
    <2>1. e < n \/ e = n
      BY <1>1
    <2>2. Cmd(e).guard # NoGuard =>
              /\ Cmd(e).guard.artifact \in DOMAIN b.state
              /\ Cmd(e).guard.artifact \in DOMAIN w.state
              /\ b.state[Cmd(e).guard.artifact] = w.state[Cmd(e).guard.artifact]
      BY <1>2, <1>3, <1>8, <2>1
    <2>3. IsActive(e, b.state) <=> IsActive(e, w.state)
      BY <2>2, SameActivity
    <2>4. e < n => (e \in b.active <=> IsActive(e, b.state)) /\ e # n
      BY <1>1 DEF Run
    <2>5. e = n => e \in w.active /\ IsActive(e, b.state)
      BY <1>5
    <2>6. e < n => (e \in w.active <=> e \in b.active)
      BY <1>5, <2>4
    <2> QED
      BY <2>1, <2>3, <2>4, <2>5, <2>6
  <1>11. \A e \in Nat : e <= n => CallsBefore(w.active, t, e) = CallsBefore(b.active, t, e)
    BY <1>1, GrownBefore
  <1>12. KeysBefore(w.state, b.active, t, n) = KeysBefore(b.state, b.active, t, n)
    BY <1>1, <1>2, <1>3, SameKeys
  <1>13. KeysBefore(w.state, w.active, t, n + 1)
            = KeysBefore(b.state, b.active, t, n) \cup NewKeys(b, t, n)
    <2>0. n \in w.active /\ w.active \subseteq Nat
      BY <1>5
    <2>1. CallsBefore(w.active, t, n) = CallsBefore(b.active, t, n)
      BY <1>1, <1>11
    <2>2. CASE IsPolicy(n) /\ n # t
      <3>0. CallsBefore(w.active, t, n + 1) = CallsBefore(w.active, t, n) \cup {n}
        BY <1>1, <2>0, <2>2, CallsNext
      <3>1. CallsBefore(w.active, t, n + 1) = CallsBefore(b.active, t, n) \cup {n}
        BY <2>1, <3>0
      <3>2. Cmd(n).policy.prompt \in DOMAIN b.state
        BY <1>7, <2>2 DEF Inputs
      <3>3. Key(n, w.state) = Key(n, b.state)
        BY <1>2, <3>2 DEF Key
      <3> QED
        BY <1>12, <2>2, <3>1, <3>3 DEF KeysBefore, NewKeys
    <2>3. CASE ~(IsPolicy(n) /\ n # t)
      <3>1. ~IsPolicy(n) \/ n = t =>
                CallsBefore(w.active, t, n + 1) = CallsBefore(w.active, t, n)
        BY <1>1, <2>0, CallsNext
      <3>1a. CallsBefore(w.active, t, n + 1) = CallsBefore(b.active, t, n)
        BY <2>1, <2>3, <3>1
      <3> QED
        BY <1>12, <2>3, <3>1a DEF KeysBefore, NewKeys
    <2> QED
      BY <2>2, <2>3
  <1>14. CacheIs(w.cache, base, KeysBefore(w.state, w.active, t, n + 1))
    BY <1>13 DEF Grown
  <1>15. \A e \in w.active \ {t} : Value(e, w) # Raised /\ w.state[Out(e)] = Value(e, w)
    <2> SUFFICES ASSUME NEW e \in w.active, e # t
                 PROVE  Value(e, w) # Raised /\ w.state[Out(e)] = Value(e, w)
      OBVIOUS
    <2>1. Inputs(e) \subseteq DOMAIN b.state
      BY <1>3, <1>7, <1>5
    <2>2. CacheIs(b.cache, base, KeysBefore(b.state, b.active, t, n))
      BY DEF Run
    <2>3. Value(e, w) = Value(e, b)
      BY <1>2, <1>14, <2>1, <2>2, SameValue
    <2>4. CASE e = n
      BY <1>2, <2>3, <2>4
    <2>5. CASE e # n
      BY <1>2, <1>3, <1>5, <2>3, <2>5 DEF Run
    <2> QED
      BY <2>4, <2>5
  <1>16. /\ IsDict(w.decisions) /\ DOMAIN w.decisions = {e \in w.active : IsPolicy(e)}
    <2>1. IsDict(b.decisions) /\ DOMAIN b.decisions = {e \in b.active : IsPolicy(e)}
      BY DEF Run
    <2> QED
      BY <1>5, <1>6, <2>1
  <1>17. ASSUME NEW e \in DOMAIN w.decisions
         PROVE  w.decisions[e] = Reason(w, base, t, e)
    <2>1. e \in w.active /\ IsPolicy(e)
      BY <1>16
    <2>2. e \in Nat /\ e <= n
      BY <1>1, <1>3, <1>5, <2>1
    <2>3. CallsBefore(w.active, t, e) = CallsBefore(b.active, t, e)
      BY <1>11, <2>2
    <2>4. KeysBefore(w.state, b.active, t, e) = KeysBefore(b.state, b.active, t, e)
      BY <1>2, <1>3, <2>2, SameKeys
    <2>5. KeysBefore(w.state, w.active, t, e) = KeysBefore(b.state, b.active, t, e)
      BY <2>3, <2>4 DEF KeysBefore
    <2>6. e # t => Key(e, w.state) = Key(e, b.state)
      <3>1. e # t => Cmd(e).policy.prompt \in DOMAIN b.state
        BY <1>3, <1>7, <1>5, <2>1 DEF Inputs
      <3> QED
        BY <1>2, <3>1 DEF Key
    <2>7. Reason(w, base, t, e) = Reason(b, base, t, e)
      BY <2>5, <2>6 DEF Reason
    <2>8. w.decisions[e] = Reason(b, base, t, e)
      <3>1. CASE e = n
        BY <1>6, <2>1, <3>1
      <3>2. CASE e # n
        <4>1. e \in DOMAIN b.decisions /\ b.decisions[e] = Reason(b, base, t, e)
          BY <1>5, <2>1, <3>2 DEF Run
        <4>2. w.decisions[e] = b.decisions[e]
          BY <1>6, <3>2, <4>1
        <4> QED
          BY <4>1, <4>2
      <3> QED
        BY <3>1, <3>2
    <2> QED
      BY <2>7, <2>8
  <1> QED
    BY <1>9, <1>10, <1>14, <1>15, <1>16, <1>17 DEF Run

LEMMA RunSkips ==
    ASSUME TypeOK, NEW b, NEW base, NEW t, NEW n \in Events,
           Run(b, base, t, n), IsInactive(n, b.state)
    PROVE  Run(b, base, t, n + 1)
  <1>1. /\ n \in Nat /\ Events \subseteq Nat /\ Ordered(b, t, n)
        /\ b.active \subseteq Nat /\ n \notin b.active
    BY EventFacts DEF Run, Ordered, TypeOK
  <1>2. Before(b.active, n + 1) = Before(b.active, n)
    BY <1>1, BeforeNext
  <1>3. CallsBefore(b.active, t, n + 1) = CallsBefore(b.active, t, n)
    <2>1. \A d \in b.active : d < n + 1 <=> d < n \/ d = n
      BY <1>1
    <2> QED
      BY <1>1, <2>1 DEF CallsBefore
  <1>4. \A e \in Events : e < n + 1 => e < n \/ e = n
    BY <1>1
  <1>5. \A e \in Events : e < n + 1 /\ Cmd(e).guard # NoGuard =>
            Cmd(e).guard.artifact \in Before(b.active, e)
    BY <1>1, <1>4 DEF Ordered, IsInactive, GuardMissing
  <1>6. b.active \subseteq {e \in Events : e < n + 1}
    BY <1>1 DEF Ordered
  <1>7. Ordered(b, t, n + 1)
    BY <1>1, <1>2, <1>5, <1>6 DEF Ordered
  <1>8. \A e \in Events : e < n + 1 => (e \in b.active <=> IsActive(e, b.state))
    BY <1>1, <1>4 DEF Run, IsInactive
  <1>9. KeysBefore(b.state, b.active, t, n + 1) = KeysBefore(b.state, b.active, t, n)
    BY <1>3 DEF KeysBefore
  <1> QED
    BY <1>7, <1>8, <1>9 DEF Run

-----------------------------------------------------------------------------
(* The loop body grows a trace. *)

LEMMA ResolvedFields ==
    ASSUME NEW b, IsTrace(b), NEW e
    PROVE  /\ DOMAIN b = {"state", "producer", "active", "cache", "decisions"}
           /\ Resolved(e, b).state = b.state
           /\ Resolved(e, b).producer = b.producer
           /\ Resolved(e, b).active = b.active
           /\ IsPolicy(e) =>
                 /\ Resolved(e, b).cache = Put(b.cache, Key(e, b.state),
                                               Action(b.cache, Key(e, b.state)))
                 /\ Resolved(e, b).decisions =
                       Put(b.decisions, e, IF Key(e, b.state) \in DOMAIN b.cache
                                           THEN "exact_key_match"
                                           ELSE "key_changed_or_missing")
           /\ ~IsPolicy(e) => Resolved(e, b) = b
           /\ DOMAIN Resolved(e, b) = DOMAIN b
  BY DEF Resolved, IsTrace

LEMMA WrittenFields ==
    ASSUME NEW b, NEW e, NEW v,
           DOMAIN b = {"state", "producer", "active", "cache", "decisions"}
    PROVE  /\ Written(b, e, v).state = Put(b.state, Out(e), v)
           /\ Written(b, e, v).producer = Put(b.producer, Out(e), e)
           /\ Written(b, e, v).active = b.active \cup {e}
           /\ Written(b, e, v).cache = b.cache
           /\ Written(b, e, v).decisions = b.decisions
  BY DEF Written

LEMMA ExecutionGrows ==
    ASSUME NEW b, NEW base, NEW t, NEW n, NEW v, IsTrace(b), Run(b, base, t, n), n # t
    PROVE  /\ Grown(Written(Resolved(n, b), n, v), b, base, t, n, v)
           /\ Written(Resolved(n, b), n, v).producer = Put(b.producer, Out(n), n)
  <1> DEFINE w == Written(Resolved(n, b), n, v)
             key == Key(n, b.state)
             keys == KeysBefore(b.state, b.active, t, n)
  <1>1. /\ w.state = Put(b.state, Out(n), v)
        /\ w.producer = Put(b.producer, Out(n), n)
        /\ w.active = b.active \cup {n}
        /\ w.cache = Resolved(n, b).cache
        /\ w.decisions = Resolved(n, b).decisions
    BY ResolvedFields, WrittenFields
  <1>2. CacheIs(b.cache, base, keys)
    BY DEF Run
  <1>3. CASE IsPolicy(n)
    <2>1. /\ w.cache = Put(b.cache, key, Action(b.cache, key))
          /\ w.decisions = Put(b.decisions, n, IF key \in DOMAIN b.cache
                                               THEN "exact_key_match"
                                               ELSE "key_changed_or_missing")
      BY <1>1, <1>3, ResolvedFields
    <2>2. Action(b.cache, key) = Action(base, key)
      BY <1>2, ActionIsPure
    <2>3. CacheIs(w.cache, base, keys \cup {key})
      BY <1>2, <2>1, <2>2 DEF CacheIs, Put, IsDict
    <2>4. Reason(b, base, t, n) = IF key \in DOMAIN b.cache THEN "exact_key_match"
                                                            ELSE "key_changed_or_missing"
      BY <1>2 DEF Reason, CacheIs
    <2> QED
      BY <1>1, <1>3, <2>1, <2>3, <2>4 DEF Grown, NewKeys
  <1>4. CASE ~IsPolicy(n)
    <2>1. w.cache = b.cache /\ w.decisions = b.decisions
      BY <1>1, <1>4, ResolvedFields
    <2> QED
      BY <1>1, <1>2, <1>4, <2>1 DEF Grown, NewKeys
  <1> QED
    BY <1>1, <1>3, <1>4

LEMMA ProducersGrow ==
    ASSUME TypeOK, NEW b, NEW w, NEW base, NEW t, NEW n \in Events, NEW v,
           Ordered(b, t, n), Grown(w, b, base, t, n, v), Out(n) \notin DOMAIN b.state,
           ProducersMatch(b), w.producer = Put(b.producer, Out(n), n)
    PROVE  ProducersMatch(w)
  <1>1. n \in Nat /\ Out(n) \notin DOMAIN program.initial
    BY EventFacts DEF TypeOK
  <1>2. \A e \in b.active : Out(e) \in DOMAIN b.state
    BY <1>1, RunInputs
  <1>3. w.active = b.active \cup {n}
    BY DEF Grown
  <1>4. DOMAIN w.state = DOMAIN b.state \cup {Out(n)}
    BY GrownState
  <1>5. /\ IsDict(w.producer) /\ DOMAIN w.producer = DOMAIN b.producer \cup {Out(n)}
        /\ w.producer[Out(n)] = n
        /\ \A a \in DOMAIN b.producer : a # Out(n) => w.producer[a] = b.producer[a]
    BY DEF Put, IsDict
  <1>6. \A a \in DOMAIN program.initial : a \in DOMAIN b.state
    BY BeforeFacts DEF Ordered
  <1>7. \A a \in DOMAIN program.initial : w.producer[a] = 0
    BY <1>1, <1>5, <1>6 DEF ProducersMatch
  <1>8. \A e \in w.active : w.producer[Out(e)] = e
    BY <1>2, <1>3, <1>5 DEF ProducersMatch
  <1> QED
    BY <1>4, <1>5, <1>7, <1>8 DEF ProducersMatch

LEMMA ReplacementGrows ==
    ASSUME NEW base, IsTrace(trace), Run(trace, base, request.target, request.target)
    PROVE  /\ Grown(Replaced, trace, base, request.target, request.target,
                    request.replacement)
           /\ Replaced.producer = Put(trace.producer, Out(request.target), request.target)
           /\ DOMAIN Replaced = DOMAIN trace
  <1> DEFINE t == request.target
             u == Written(trace, t, request.replacement)
  <1>1. DOMAIN trace = {"state", "producer", "active", "cache", "decisions"}
    BY DEF IsTrace
  <1>2. /\ u.state = Put(trace.state, Out(t), request.replacement)
        /\ u.producer = Put(trace.producer, Out(t), t)
        /\ u.active = trace.active \cup {t}
        /\ u.cache = trace.cache
        /\ u.decisions = trace.decisions
    BY <1>1, WrittenFields
  <1>3. DOMAIN u = DOMAIN trace
    BY DEF Written
  <1>4. Replaced = IF IsPolicy(t)
                   THEN [u EXCEPT !.decisions = Put(@, t, "intervention_action")] ELSE u
    BY DEF Replaced
  <1> HIDE DEF u
  <1>5. /\ Replaced.state = u.state /\ Replaced.producer = u.producer
        /\ Replaced.active = u.active /\ Replaced.cache = u.cache
        /\ Replaced.decisions = IF IsPolicy(t)
                                THEN Put(u.decisions, t, "intervention_action")
                                ELSE u.decisions
        /\ DOMAIN Replaced = DOMAIN u
    BY <1>1, <1>3, <1>4
  <1>6. CacheIs(trace.cache, base, KeysBefore(trace.state, trace.active, t, t) \cup {})
    <2>1. CacheIs(trace.cache, base, KeysBefore(trace.state, trace.active, t, t))
      BY DEF Run
    <2> QED
      BY <2>1 DEF CacheIs
  <1>7. NewKeys(trace, t, t) = {}
    BY DEF NewKeys
  <1>8. Reason(trace, base, t, t) = "intervention_action"
    BY DEF Reason
  <1> QED
    BY <1>2, <1>3, <1>5, <1>6, <1>7, <1>8 DEF Grown

-----------------------------------------------------------------------------
(* Following a branch.                                                     *)

LEMMA FollowActivity ==
    ASSUME TypeOK, NEW b, NEW F, NEW base, NEW t, NEW n \in Events, NEW m,
           m \in Nat, n < m, Run(F, base, t, m), Follows(b, F, n)
    PROVE  /\ ~GuardMissing(n, b.state)
           /\ IsActive(n, b.state) <=> n \in F.active
           /\ IsInactive(n, b.state) <=> ~IsActive(n, b.state)
  <1>1. Cmd(n).guard # NoGuard => Cmd(n).guard.artifact \in Before(F.active, n)
    BY DEF Run, Ordered
  <1>2. Cmd(n).guard # NoGuard => Cmd(n).guard.artifact \in DOMAIN F.state
    BY RunInputs DEF Run
  <1>3. Cmd(n).guard # NoGuard =>
            /\ Cmd(n).guard.artifact \in DOMAIN b.state
            /\ b.state[Cmd(n).guard.artifact] = F.state[Cmd(n).guard.artifact]
    BY <1>1 DEF Follows
  <1>4. /\ ~GuardMissing(n, b.state)
        /\ IsActive(n, b.state) <=> IsActive(n, F.state)
        /\ IsInactive(n, b.state) <=> ~IsActive(n, b.state)
    BY <1>2, <1>3, SameActivity
  <1>5. n \in F.active <=> IsActive(n, F.state)
    BY DEF Run
  <1> QED
    BY <1>4, <1>5

LEMMA FollowValue ==
    ASSUME TypeOK, NEW b, NEW F, NEW base, NEW t, NEW n \in Events, NEW m, NEW keys,
           m \in Nat, n < m, Run(F, base, t, m), Follows(b, F, n),
           n \in F.active, n # t, CacheIs(b.cache, base, keys)
    PROVE  /\ Value(n, b) # Raised
           /\ F.state[Out(n)] = Value(n, b)
           /\ Inputs(n) \subseteq Before(F.active, n)
           /\ IsPolicy(n) => Key(n, b.state) = Key(n, F.state)
  <1>1. Inputs(n) \subseteq Before(F.active, n)
    BY DEF Run, Ordered
  <1>2. Inputs(n) \subseteq DOMAIN F.state
    BY RunInputs DEF Run
  <1>3. Inputs(n) \subseteq DOMAIN b.state /\ \A a \in Inputs(n) : b.state[a] = F.state[a]
    BY <1>1 DEF Follows
  <1>4. CacheIs(F.cache, base, KeysBefore(F.state, F.active, t, m))
    BY DEF Run
  <1>5. /\ Value(n, b) = Value(n, F)
        /\ IsPolicy(n) => Key(n, b.state) = Key(n, F.state)
    BY <1>2, <1>3, <1>4, SameValue
  <1>6. Value(n, F) # Raised /\ F.state[Out(n)] = Value(n, F)
    BY DEF Run
  <1> QED
    BY <1>1, <1>5, <1>6

LEMMA FollowFresh ==
    ASSUME TypeOK, NEW b, NEW F, NEW base, NEW t, NEW n \in Events, NEW m,
           Run(F, base, t, m), Follows(b, F, n), n \in F.active
    PROVE  Out(n) \notin Before(b.active, n) /\ Out(n) \notin Before(F.active, n)
  <1>1. n \in Nat /\ Out(n) \notin DOMAIN program.initial
    BY EventFacts DEF TypeOK
  <1>2. \A d \in F.active : d < n => Out(d) # Out(n)
    BY <1>1 DEF Run, Ordered
  <1>3. \A d \in b.active : d \in F.active /\ d < n
    BY DEF Follows
  <1> QED
    BY <1>1, <1>2, <1>3 DEF Before

LEMMA FollowNext ==
    ASSUME TypeOK, NEW b, NEW w, NEW F, NEW base, NEW t, NEW n \in Events, NEW m,
           Run(F, base, t, m), Follows(b, F, n),
           w.active = IF n \in F.active THEN b.active \cup {n} ELSE b.active,
           \A a \in Before(F.active, n) : a \in DOMAIN w.state /\ w.state[a] = b.state[a],
           n \in F.active => Out(n) \in DOMAIN w.state /\ w.state[Out(n)] = F.state[Out(n)]
    PROVE  Follows(w, F, n + 1)
  <1>1. n \in Nat /\ F.active \subseteq Nat
    BY EventFacts DEF TypeOK, Run, Ordered
  <1>2. \A e \in Nat : e < n + 1 <=> e < n \/ e = n
    BY <1>1
  <1>3. \A e : e \in b.active <=> e \in F.active /\ e < n
    BY DEF Follows
  <1>4. \A e : e \in w.active <=> e \in F.active /\ e < n + 1
    BY <1>1, <1>2, <1>3
  <1>5. w.active = {e \in F.active : e < n + 1}
    <2>1. w.active \subseteq F.active
      BY <1>4
    <2> QED
      BY <1>4
  <1>6. \A a \in Before(F.active, n) : a \in DOMAIN w.state /\ w.state[a] = F.state[a]
    BY DEF Follows
  <1>7. CASE n \in F.active
    <2>1. Before(F.active, n + 1) = Before(F.active, n) \cup {Out(n)}
      BY <1>1, <1>7, BeforeNext
    <2> QED
      BY <1>5, <1>6, <1>7, <2>1 DEF Follows
  <1>8. CASE n \notin F.active
    <2>1. Before(F.active, n + 1) = Before(F.active, n)
      BY <1>1, <1>8, BeforeNext
    <2> QED
      BY <1>5, <1>6, <2>1 DEF Follows
  <1> QED
    BY <1>7, <1>8

-----------------------------------------------------------------------------
(* The original run is the branch that the no-op intervention makes.        *)
LEMMA NoOpIsBranch ==
    ASSUME TypeOK, OriginalIsRun, NEW t \in original.active
    PROVE  IsBranch(NoOp(t), t)
  <1> DEFINE F == NoOp(t)
             end == EventCount + 1
             base == original.cache
  <1>1. PICK first \in InitialCaches : Run(original, first, 0, end)
    BY DEF OriginalIsRun, MaterializedAt
  <1>2. /\ F.state = original.state /\ F.active = original.active /\ F.cache = base
        /\ F.decisions = [e \in {x \in original.active : IsPolicy(x)} |->
                              IF e = t THEN "intervention_action" ELSE "exact_key_match"]
    BY DEF NoOp
  <1> HIDE DEF F
  <1>3. /\ end \in Nat /\ Events \subseteq Nat
        /\ \A e \in original.active : e \in Events /\ e # 0 /\ e < end
    BY <1>1, EventFacts DEF TypeOK, Events, Run, Ordered
  <1>4. Ordered(F, t, end)
    BY <1>1, <1>2, <1>3 DEF Run, Ordered
  <1>5. \A e \in Events : e < end => (e \in F.active <=> IsActive(e, F.state))
    BY <1>1, <1>2 DEF Run
  <1>6. \A e \in F.active \ {t} : Value(e, F) # Raised /\ F.state[Out(e)] = Value(e, F)
    <2>1. \A e : Value(e, F) = Value(e, original)
      BY <1>2 DEF Value
    <2> QED
      BY <1>1, <1>2, <1>3, <2>1 DEF Run
  <1>7. \A e \in original.active : IsPolicy(e) => Key(e, original.state) \in DOMAIN base
    <2>1. \A e \in original.active : IsPolicy(e) => e \in CallsBefore(original.active, 0, end)
      BY <1>3 DEF CallsBefore
    <2> QED
      BY <1>1, <2>1 DEF Run, CacheIs, KeysBefore
  <1>8. CacheIs(F.cache, base, KeysBefore(F.state, F.active, t, end))
    <2>1. IsDict(base)
      BY <1>1 DEF Run, CacheIs
    <2>2. KeysBefore(F.state, F.active, t, end) \subseteq DOMAIN base
      BY <1>2, <1>7 DEF KeysBefore, CallsBefore
    <2> QED
      BY <1>2, <2>1, <2>2 DEF CacheIs, Action
  <1>9. IsDict(F.decisions) /\ DOMAIN F.decisions = {e \in F.active : IsPolicy(e)}
    BY <1>2 DEF IsDict
  <1>10. \A e \in DOMAIN F.decisions : F.decisions[e] = Reason(F, base, t, e)
    BY <1>2, <1>7 DEF Reason
  <1>11. program.terminal \in DOMAIN F.state
    BY <1>2 DEF OriginalIsRun
  <1>12. IsBranch(F, t)
    BY <1>2, <1>4, <1>5, <1>6, <1>8, <1>9, <1>10, <1>11 DEF IsBranch, Run
  <1> QED
    BY <1>12 DEF F

-----------------------------------------------------------------------------
(* The prefix. *)

(* Every branch of a run is a run to the end, and its templates are events. *)
LEMMA BranchFacts ==
    ASSUME TypeOK, NEW F, NEW t, IsBranch(F, t)
    PROVE  /\ EventCount + 1 \in Nat /\ Events \subseteq Nat
           /\ Run(F, original.cache, t, EventCount + 1)
           /\ t \in F.active /\ t \in Events
           /\ F.active \subseteq Events
           /\ \A e \in Events : e < EventCount + 1
  BY EventFacts DEF IsBranch, Run, Ordered, TypeOK, Events

(* The loop that has followed a branch does not raise at its next template. *)
LEMMA FollowingDoesNotRaise ==
    ASSUME TypeOK, NEW b, NEW F, NEW t, NEW n \in Events,
           Run(b, original.cache, t, n), IsBranch(F, t), Follows(b, F, n)
    PROVE  /\ ~GuardMissing(n, b.state)
           /\ IsActive(n, b.state) <=> n \in F.active
           /\ IsInactive(n, b.state) <=> ~IsActive(n, b.state)
           /\ IsActive(n, b.state) => Out(n) \notin DOMAIN b.state
           /\ IsActive(n, b.state) /\ n # t =>
                 Value(n, b) # Raised /\ F.state[Out(n)] = Value(n, b)
  <1> DEFINE end == EventCount + 1
  <1>1. end \in Nat /\ n < end /\ Run(F, original.cache, t, end)
    BY BranchFacts
  <1> HIDE DEF end
  <1>2. /\ ~GuardMissing(n, b.state)
        /\ IsActive(n, b.state) <=> n \in F.active
        /\ IsInactive(n, b.state) <=> ~IsActive(n, b.state)
    BY <1>1, FollowActivity
  <1>3. n \in F.active => Out(n) \notin DOMAIN b.state
    <2>1. DOMAIN b.state = Before(b.active, n)
      BY DEF Run, Ordered
    <2> QED
      BY <1>1, <2>1, FollowFresh
  <1>4. CacheIs(b.cache, original.cache, KeysBefore(b.state, b.active, t, n))
    BY DEF Run
  <1>5. n \in F.active /\ n # t => Value(n, b) # Raised /\ F.state[Out(n)] = Value(n, b)
    BY <1>1, <1>4, FollowValue
  <1> QED
    BY <1>2, <1>3, <1>5

LEMMA GrownFollows ==
    ASSUME TypeOK, NEW b, NEW w, NEW F, NEW base, NEW t, NEW n \in Events, NEW v,
           IsBranch(F, t), Follows(b, F, n), n \in F.active,
           Grown(w, b, base, t, n, v), F.state[Out(n)] = v
    PROVE  Follows(w, F, n + 1)
  <1> DEFINE end == EventCount + 1
  <1>1. Run(F, original.cache, t, end)
    BY BranchFacts
  <1> HIDE DEF end
  <1>2. w.active = b.active \cup {n}
    BY DEF Grown
  <1>3. Out(n) \notin Before(F.active, n)
    BY <1>1, FollowFresh
  <1>4. /\ Out(n) \in DOMAIN w.state /\ w.state[Out(n)] = v
        /\ \A a \in DOMAIN b.state : a # Out(n) => a \in DOMAIN w.state /\ w.state[a] = b.state[a]
    BY GrownState
  <1>5. \A a \in Before(F.active, n) : a \in DOMAIN w.state /\ w.state[a] = b.state[a]
    BY <1>3, <1>4 DEF Follows
  <1> QED
    BY <1>1, <1>2, <1>4, <1>5, FollowNext

LEMMA SkippedFollows ==
    ASSUME TypeOK, NEW b, NEW F, NEW t, NEW n \in Events,
           IsBranch(F, t), Follows(b, F, n), n \notin F.active
    PROVE  Follows(b, F, n + 1)
  <1> DEFINE end == EventCount + 1
  <1>1. Run(F, original.cache, t, end)
    BY BranchFacts
  <1> HIDE DEF end
  <1>2. \A a \in Before(F.active, n) : a \in DOMAIN b.state /\ b.state[a] = b.state[a]
    BY DEF Follows
  <1> QED
    BY <1>1, <1>2, FollowNext

LEMMA PrefixFollows ==
    ASSUME TypeOK, OriginalIsRun, NEW r, NEW n, NEW b, PrefixAt(r, n, b), n \in Events
    PROVE  /\ IsBranch(NoOp(r.target), r.target)
           /\ Follows(b, NoOp(r.target), n)
           /\ ~GuardMissing(n, b.state)
           /\ IsActive(n, b.state) <=> n \in original.active
           /\ IsInactive(n, b.state) <=> ~IsActive(n, b.state)
           /\ IsActive(n, b.state) => Out(n) \notin DOMAIN b.state
           /\ IsActive(n, b.state) /\ n # r.target => Value(n, b) # Raised
  <1> DEFINE F == NoOp(r.target)
  <1>1. IsBranch(F, r.target)
    BY NoOpIsBranch DEF PrefixAt, RequestAt
  <1>2. Follows(b, F, n) /\ Run(b, original.cache, r.target, n)
    BY <1>1 DEF PrefixAt
  <1>3. F.active = original.active
    BY DEF NoOp
  <1> HIDE DEF F
  <1>4. /\ ~GuardMissing(n, b.state)
        /\ IsActive(n, b.state) <=> n \in F.active
        /\ IsInactive(n, b.state) <=> ~IsActive(n, b.state)
        /\ IsActive(n, b.state) => Out(n) \notin DOMAIN b.state
        /\ IsActive(n, b.state) /\ n # r.target => Value(n, b) # Raised
    BY <1>1, <1>2, FollowingDoesNotRaise
  <1> QED
    BY <1>1, <1>2, <1>3, <1>4 DEF F

LEMMA PrefixExecutes ==
    ASSUME TypeOK, OriginalIsRun, NEW r, NEW n, NEW b, PrefixAt(r, n, b), IsTrace(b),
           n \in Events, n < r.target, IsActive(n, b.state)
    PROVE  PrefixAt(r, n + 1, Written(Resolved(n, b), n, Value(n, b)))
  <1> DEFINE v == Value(n, b)
             w == Written(Resolved(n, b), n, v)
             base == original.cache
             t == r.target
  <1>1. n \in Nat /\ t \in Nat /\ n + 1 <= t /\ n # t
    BY EventFacts DEF PrefixAt, RequestAt, OriginalIsRun, MaterializedAt, Run, Ordered, TypeOK
  <1>2. RequestAt(r) /\ Run(b, base, t, n) /\ ProducersMatch(b)
    BY DEF PrefixAt
  <1>3. Out(n) \notin DOMAIN b.state /\ v # Raised
    BY <1>1, PrefixFollows
  <1>4. /\ Grown(w, b, base, t, n, v)
        /\ w.producer = Put(b.producer, Out(n), n)
    BY <1>1, <1>2, ExecutionGrows
  <1> HIDE DEF w, v
  <1>5. v = Value(n, b)
    BY DEF v
  <1>6. Run(w, base, t, n + 1)
    BY <1>2, <1>3, <1>4, <1>5, RunExtends
  <1>7. ProducersMatch(w)
    BY <1>2, <1>3, <1>4, ProducersGrow DEF Run
  <1>8. ASSUME NEW F, IsBranch(F, t)
        PROVE  Follows(w, F, n + 1)
    <2>1. Follows(b, F, n)
      BY <1>8 DEF PrefixAt
    <2>2. n \in F.active /\ F.state[Out(n)] = v
      BY <1>1, <1>2, <1>5, <1>8, <2>1, FollowingDoesNotRaise
    <2> QED
      BY <1>4, <1>8, <2>1, <2>2, GrownFollows
  <1>9. PrefixAt(r, n + 1, w)
    BY <1>1, <1>2, <1>6, <1>7, <1>8 DEF PrefixAt
  <1> QED
    BY <1>9 DEF w, v

LEMMA PrefixSkips ==
    ASSUME TypeOK, NEW r, NEW n, NEW b, PrefixAt(r, n, b),
           n \in Events, n < r.target, IsInactive(n, b.state), OriginalIsRun
    PROVE  PrefixAt(r, n + 1, b)
  <1>1. n \in Nat /\ r.target \in Nat /\ n + 1 <= r.target
    BY EventFacts DEF PrefixAt, RequestAt, OriginalIsRun, MaterializedAt, Run, Ordered, TypeOK
  <1>2. RequestAt(r) /\ Run(b, original.cache, r.target, n) /\ ProducersMatch(b)
    BY DEF PrefixAt
  <1>3. Run(b, original.cache, r.target, n + 1)
    BY <1>2, RunSkips
  <1>4. ASSUME NEW F, IsBranch(F, r.target)
        PROVE  Follows(b, F, n + 1)
    <2>1. Follows(b, F, n)
      BY <1>4 DEF PrefixAt
    <2>2. n \notin F.active
      BY <1>2, <1>4, <2>1, FollowingDoesNotRaise
    <2> QED
      BY <1>4, <2>1, <2>2, SkippedFollows
  <1> QED
    BY <1>1, <1>2, <1>3, <1>4 DEF PrefixAt

LEMMA PrefixDecisions ==
    ASSUME TypeOK, OriginalIsRun, NEW r, NEW b, PrefixAt(r, r.target, b),
           NEW e \in DOMAIN b.decisions
    PROVE  b.decisions[e] = "exact_key_match"
  <1> DEFINE t == r.target
             F == NoOp(t)
             end == EventCount + 1
             base == original.cache
  <1>1. t \in Events /\ IsBranch(F, t) /\ Follows(b, F, t)
    BY PrefixFollows DEF PrefixAt, RequestAt, OriginalIsRun, MaterializedAt, Run, Ordered
  <1>2. F.cache = base
    BY DEF NoOp
  <1> HIDE DEF F
  <1>3. Run(b, base, t, t) /\ t \in Nat
    BY <1>1, EventFacts DEF PrefixAt, TypeOK
  <1>4. /\ end \in Nat /\ Run(F, base, t, end) /\ F.active \subseteq Events
        /\ Events \subseteq Nat /\ \A d \in Events : d < end
    BY <1>1, BranchFacts
  <1> HIDE DEF end
  <1>5. e \in b.active /\ IsPolicy(e) /\ b.decisions[e] = Reason(b, base, t, e)
    BY <1>3 DEF Run
  <1>6. e \in F.active /\ e < t /\ e \in Nat /\ e # t
    <2>1. e \in F.active /\ e < t
      BY <1>1, <1>5 DEF Follows
    <2>2. e \in Nat
      BY <1>4, <2>1
    <2> QED
      BY <1>3, <2>1, <2>2
  <1>7. Inputs(e) \subseteq DOMAIN b.state /\ Inputs(e) \subseteq Before(b.active, e)
    BY <1>3, <1>5, <1>6, RunInputs DEF Run, Ordered
  <1>8. Inputs(e) \subseteq DOMAIN F.state /\ Inputs(e) \subseteq Before(F.active, e)
    BY <1>4, <1>6, RunInputs DEF Run, Ordered
  <1>9. Before(F.active, e) \subseteq Before(F.active, t)
    <2>1. F.active \subseteq Nat
      BY <1>4
    <2>2. e <= t
      BY <1>6, <1>3
    <2> QED
      BY <1>3, <1>6, <2>1, <2>2, BeforeNext
  <1>10. \A a \in Inputs(e) : b.state[a] = F.state[a]
    BY <1>1, <1>8, <1>9 DEF Follows
  <1>11. Key(e, b.state) = Key(e, F.state)
    BY <1>5, <1>10 DEF Key, Inputs
  <1>12. e \in CallsBefore(F.active, t, end)
    BY <1>4, <1>5, <1>6 DEF CallsBefore
  <1>13. Key(e, F.state) \in DOMAIN base
    BY <1>2, <1>4, <1>12 DEF Run, CacheIs, KeysBefore
  <1> QED
    BY <1>5, <1>6, <1>11, <1>13 DEF Reason

LEMMA PrefixIsKept ==
    ASSUME TypeOK, OriginalIsRun, NEW r, NEW b, PrefixAt(r, r.target, b), NEW w,
           w.active = b.active \cup {r.target},
           \A a \in DOMAIN b.state :
              a # Out(r.target) => a \in DOMAIN w.state /\ w.state[a] = b.state[a],
           \A e \in DOMAIN w.decisions :
              e # r.target => e \in DOMAIN b.decisions /\ w.decisions[e] = b.decisions[e]
    PROVE  PrefixKept(w, r.target)
  <1> DEFINE t == r.target
             F == NoOp(t)
             end == EventCount + 1
             base == original.cache
  <1>1. t \in Events /\ IsBranch(F, t) /\ Follows(b, F, t)
    BY PrefixFollows DEF PrefixAt, RequestAt, OriginalIsRun, MaterializedAt, Run, Ordered
  <1>2. F.active = original.active /\ F.state = original.state
    BY DEF NoOp
  <1> HIDE DEF F
  <1>3. Run(b, base, t, t) /\ t \in Nat
    BY <1>1, EventFacts DEF PrefixAt, TypeOK
  <1>4. /\ end \in Nat /\ Run(F, base, t, end) /\ F.active \subseteq Events
        /\ Events \subseteq Nat /\ t \in F.active
    BY <1>1, BranchFacts
  <1> HIDE DEF end
  <1>5. b.active = {e \in original.active : e < t}
    BY <1>1, <1>2 DEF Follows
  <1>6. {e \in w.active : e < t} = {e \in original.active : e < t}
    BY <1>3, <1>5
  <1>7. Out(t) \notin Before(F.active, t)
    BY <1>1, <1>4, FollowFresh
  <1>8. ASSUME NEW e \in w.active, e < t
        PROVE  Out(e) \in DOMAIN w.state /\ w.state[Out(e)] = original.state[Out(e)]
    <2>1. e \in b.active /\ e \in F.active
      BY <1>2, <1>3, <1>5, <1>8
    <2>2. Out(e) \in Before(F.active, t)
      BY <1>8, <2>1, BeforeFacts
    <2>3. Out(e) \in DOMAIN b.state /\ b.state[Out(e)] = original.state[Out(e)]
      BY <1>1, <1>2, <2>2 DEF Follows
    <2> QED
      BY <1>7, <2>2, <2>3
  <1>9. ASSUME NEW e \in DOMAIN w.decisions, e < t
        PROVE  w.decisions[e] = "exact_key_match"
    BY <1>3, <1>9, PrefixDecisions
  <1> QED
    BY <1>6, <1>8, <1>9 DEF PrefixKept

(* What is done after the target leaves the prefix alone.                   *)
LEMMA SuffixKeepsPrefix ==
    ASSUME TypeOK, NEW t, NEW b, NEW w, NEW n \in Events, PrefixKept(b, t),
           n > t, t \in Nat,
           w.active = b.active \/ w.active = b.active \cup {n},
           \A e \in b.active : e < t => Out(e) \in DOMAIN w.state
                                        /\ w.state[Out(e)] = b.state[Out(e)],
           \A e \in DOMAIN w.decisions :
              e # n => e \in DOMAIN b.decisions /\ w.decisions[e] = b.decisions[e]
    PROVE  PrefixKept(w, t)
  <1>1. n \in Nat /\ ~(n < t)
    BY EventFacts DEF TypeOK
  <1>2. {e \in w.active : e < t} = {e \in b.active : e < t}
    BY <1>1
  <1>3. \A e \in w.active : e < t => e \in b.active
    BY <1>1
  <1>4. \A e \in w.active : e < t => /\ Out(e) \in DOMAIN w.state
                                     /\ w.state[Out(e)] = original.state[Out(e)]
    BY <1>3 DEF PrefixKept
  <1>5. \A e \in DOMAIN w.decisions : e < t => w.decisions[e] = "exact_key_match"
    BY <1>1 DEF PrefixKept
  <1> QED
    BY <1>2, <1>4, <1>5 DEF PrefixKept

-----------------------------------------------------------------------------
(* Full replay. *)

LEMMA RequestFacts ==
    ASSUME TypeOK, NEW r, RequestAt(r)
    PROVE  r.target \in Events /\ r.target \in Nat /\ Events \subseteq Nat
           /\ r.target \in original.active /\ EventCount + 1 \in Nat
  BY EventFacts DEF RequestAt, TypeOK

LEMMA FullBegins ==
    ASSUME TypeOK, OriginalIsRun, PrefixAt(request, pos, trace), pos = request.target,
           IsActive(pos, trace.state), request.mode = "full_suffix"
    PROVE  FullAt(request, pos + 1, Replaced)
  <1> DEFINE t == request.target
             base == original.cache
             v == request.replacement
             w == Replaced
  <1>1. RequestAt(request) /\ Run(trace, base, t, t) /\ ProducersMatch(trace)
    BY DEF PrefixAt
  <1>2. /\ Grown(w, trace, base, t, t, v)
        /\ w.producer = Put(trace.producer, Out(t), t)
    BY <1>1, ReplacementGrows DEF TypeOK
  <1> HIDE DEF w
  <1>3. t \in Events /\ t \in Nat /\ t + 1 > t
    BY <1>1, RequestFacts
  <1>4. Out(t) \notin DOMAIN trace.state
    BY <1>3, PrefixFollows
  <1>5. Run(w, base, t, t + 1)
    BY <1>1, <1>2, <1>3, <1>4, RunExtends
  <1>6. ProducersMatch(w)
    BY <1>1, <1>2, <1>3, <1>4, ProducersGrow DEF Run
  <1>7. /\ w.state[Out(t)] = v
        /\ \A a \in DOMAIN trace.state :
              a # Out(t) => a \in DOMAIN w.state /\ w.state[a] = trace.state[a]
    BY <1>2, GrownState
  <1>8. w.active = trace.active \cup {t}
    BY <1>2 DEF Grown
  <1>9. \A e \in DOMAIN w.decisions :
            e # t => e \in DOMAIN trace.decisions /\ w.decisions[e] = trace.decisions[e]
    BY <1>2, GrownDecisions
  <1>10. PrefixKept(w, t)
    BY <1>7, <1>8, <1>9, PrefixIsKept
  <1>11. ASSUME NEW F, Requested(request, F)
         PROVE  Follows(w, F, t + 1)
    <2>1. IsBranch(F, t) /\ F.state[Out(t)] = v /\ t \in F.active
      BY <1>11 DEF Requested, IsBranch
    <2>2. Follows(trace, F, t)
      BY <2>1 DEF PrefixAt
    <2> QED
      BY <1>2, <1>3, <2>1, <2>2, GrownFollows
  <1>12. FullAt(request, t + 1, w)
    BY <1>1, <1>3, <1>5, <1>6, <1>7, <1>8, <1>10, <1>11 DEF FullAt
  <1> QED
    BY <1>12 DEF w

LEMMA FullExecutes ==
    ASSUME TypeOK, NEW r, NEW n, NEW b, FullAt(r, n, b), IsTrace(b), n \in Events,
           IsActive(n, b.state), Out(n) \notin DOMAIN b.state, Value(n, b) # Raised
    PROVE  FullAt(r, n + 1, Written(Resolved(n, b), n, Value(n, b)))
  <1> DEFINE v == Value(n, b)
             w == Written(Resolved(n, b), n, v)
             base == original.cache
             t == r.target
  <1>1. /\ RequestAt(r) /\ r.mode = "full_suffix" /\ Run(b, base, t, n) /\ ProducersMatch(b)
        /\ t \in b.active /\ b.state[Out(t)] = r.replacement /\ PrefixKept(b, t)
    BY DEF FullAt
  <1>2. n \in Nat /\ t \in Nat /\ n > t /\ n + 1 > t /\ n # t
    BY <1>1, RequestFacts DEF FullAt
  <1>3. /\ Grown(w, b, base, t, n, v)
        /\ w.producer = Put(b.producer, Out(n), n)
    BY <1>1, <1>2, ExecutionGrows
  <1> HIDE DEF w, v
  <1>4. v = Value(n, b) /\ v # Raised
    BY DEF v
  <1>5. Run(w, base, t, n + 1)
    BY <1>1, <1>3, <1>4, RunExtends
  <1>6. ProducersMatch(w)
    BY <1>1, <1>3, ProducersGrow DEF Run
  <1>7. \A a \in DOMAIN b.state : a # Out(n) => a \in DOMAIN w.state /\ w.state[a] = b.state[a]
    BY <1>3, GrownState
  <1>8. \A e \in b.active : Out(e) \in DOMAIN b.state /\ Out(e) # Out(n)
    BY <1>1, <1>2, RunInputs DEF Run
  <1>9. w.active = b.active \cup {n}
    BY <1>3 DEF Grown
  <1>10. \A e \in DOMAIN w.decisions :
            e # n => e \in DOMAIN b.decisions /\ w.decisions[e] = b.decisions[e]
    BY <1>3, GrownDecisions
  <1>11. PrefixKept(w, t)
    BY <1>1, <1>2, <1>7, <1>8, <1>9, <1>10, SuffixKeepsPrefix
  <1>12. t \in w.active /\ w.state[Out(t)] = r.replacement
    BY <1>1, <1>7, <1>8, <1>9
  <1>13. ASSUME NEW F, Requested(r, F)
         PROVE  Follows(w, F, n + 1)
    <2>1. IsBranch(F, t) /\ Follows(b, F, n)
      BY <1>13 DEF Requested, FullAt
    <2>2. n \in F.active /\ F.state[Out(n)] = v
      BY <1>1, <1>2, <1>4, <2>1, FollowingDoesNotRaise
    <2> QED
      BY <1>3, <2>1, <2>2, GrownFollows
  <1>14. FullAt(r, n + 1, w)
    BY <1>1, <1>2, <1>5, <1>6, <1>11, <1>12, <1>13 DEF FullAt
  <1> QED
    BY <1>14 DEF w, v

LEMMA FullSkips ==
    ASSUME TypeOK, NEW r, NEW n, NEW b, FullAt(r, n, b), n \in Events,
           IsInactive(n, b.state)
    PROVE  FullAt(r, n + 1, b)
  <1>1. RequestAt(r) /\ Run(b, original.cache, r.target, n)
    BY DEF FullAt
  <1>2. n \in Nat /\ r.target \in Nat /\ n + 1 > r.target
    BY <1>1, RequestFacts DEF FullAt
  <1>3. Run(b, original.cache, r.target, n + 1)
    BY <1>1, RunSkips
  <1>4. ASSUME NEW F, Requested(r, F)
        PROVE  Follows(b, F, n + 1)
    <2>1. IsBranch(F, r.target) /\ Follows(b, F, n)
      BY <1>4 DEF Requested, FullAt
    <2>2. n \notin F.active
      BY <1>1, <2>1, FollowingDoesNotRaise
    <2> QED
      BY <2>1, <2>2, SkippedFollows
  <1> QED
    BY <1>2, <1>3, <1>4 DEF FullAt

(* Two complete runs that follow one another are one and the same.          *)
LEMMA FollowedToTheEnd ==
    ASSUME TypeOK, NEW b, NEW F, NEW t, IsBranch(F, t), Follows(b, F, EventCount + 1)
    PROVE  /\ b.active = F.active
           /\ \A a \in DOMAIN F.state : a \in DOMAIN b.state /\ b.state[a] = F.state[a]
           /\ program.terminal \in DOMAIN b.state
           /\ DOMAIN F.state = Before(F.active, EventCount + 1)
           /\ IsDict(F.state) /\ IsDict(F.cache) /\ IsDict(F.decisions)
           /\ DOMAIN F.decisions = {e \in F.active : IsPolicy(e)}
           /\ CacheIs(F.cache, original.cache,
                      KeysBefore(F.state, F.active, t, EventCount + 1))
  <1> DEFINE end == EventCount + 1
  <1>1. /\ Run(F, original.cache, t, end) /\ F.active \subseteq Events
        /\ \A e \in Events : e < end
    BY BranchFacts
  <1>2. program.terminal \in DOMAIN F.state
    BY DEF IsBranch
  <1> HIDE DEF end
  <1>3. Follows(b, F, end)
    BY DEF end
  <1>4. b.active = F.active
    <2>1. b.active = {e \in F.active : e < end}
      BY <1>3 DEF Follows
    <2>2. \A e \in F.active : e < end
      BY <1>1
    <2> QED
      BY <2>1, <2>2
  <1>5. DOMAIN F.state = Before(F.active, end)
    BY <1>1 DEF Run, Ordered
  <1>6. \A a \in DOMAIN F.state : a \in DOMAIN b.state /\ b.state[a] = F.state[a]
    BY <1>3, <1>5 DEF Follows
  <1>7. /\ IsDict(F.state) /\ IsDict(F.cache) /\ IsDict(F.decisions)
        /\ DOMAIN F.decisions = {e \in F.active : IsPolicy(e)}
        /\ CacheIs(F.cache, original.cache, KeysBefore(F.state, F.active, t, end))
    BY <1>1 DEF Run, Ordered, CacheIs
  <1> QED
    BY <1>2, <1>4, <1>5, <1>6, <1>7 DEF end

LEMMA SameRun ==
    ASSUME NEW b, NEW o, NEW base, NEW t, NEW n, Run(b, base, t, n),
           o.state = b.state, o.active = b.active, o.cache = b.cache,
           o.decisions = b.decisions
    PROVE  Run(o, base, t, n)
  <1>1. \A e : Value(e, o) = Value(e, b)
    BY DEF Value
  <1>2. \A e : Reason(o, base, t, e) = Reason(b, base, t, e)
    BY DEF Reason
  <1>3. Ordered(o, t, n)
    BY DEF Run, Ordered
  <1> QED
    BY <1>1, <1>2, <1>3 DEF Run

(* The dict and the templates of a complete run determine the rest of it.   *)
LEMMA SameStateSameRun ==
    ASSUME NEW b, NEW F, NEW base, NEW t, NEW n, Run(b, base, t, n), Run(F, base, t, n),
           b.state = F.state, b.active = F.active
    PROVE  b.cache = F.cache /\ b.decisions = F.decisions
  <1>1. KeysBefore(b.state, b.active, t, n) = KeysBefore(F.state, F.active, t, n)
    OBVIOUS
  <1>2. /\ CacheIs(b.cache, base, KeysBefore(F.state, F.active, t, n))
        /\ CacheIs(F.cache, base, KeysBefore(F.state, F.active, t, n))
    BY <1>1 DEF Run
  <1>3. b.cache = F.cache
    BY <1>2, SameDict DEF CacheIs
  <1>4. \A e : Reason(b, base, t, e) = Reason(F, base, t, e)
    BY DEF Reason
  <1>5. /\ IsDict(b.decisions) /\ IsDict(F.decisions)
        /\ DOMAIN b.decisions = DOMAIN F.decisions
        /\ \A e \in DOMAIN b.decisions : b.decisions[e] = F.decisions[e]
    BY <1>4 DEF Run
  <1> QED
    BY <1>3, <1>5, SameDict

LEMMA FullReturns ==
    ASSUME TypeOK, FullAt(request, EventCount + 1, trace), ~TerminalMissing
    PROVE  OutcomeAt(request, request.mode, Returned)
  <1> DEFINE o == Returned
             t == request.target
             end == EventCount + 1
             base == original.cache
  <1>1. /\ RequestAt(request) /\ request.mode = "full_suffix" /\ Run(trace, base, t, end)
        /\ t \in trace.active /\ trace.state[Out(t)] = request.replacement
        /\ PrefixKept(trace, t)
    BY DEF FullAt
  <1>2. /\ o.returned /\ o.state = trace.state /\ o.active = trace.active
        /\ o.cache = trace.cache /\ o.decisions = trace.decisions
        /\ o.reexecuted = {e \in trace.active : e > t}
    BY <1>1 DEF Returned, Suffix
  <1> HIDE DEF o
  <1>3. Run(o, base, t, end)
    BY <1>1, <1>2, SameRun
  <1>4. PrefixKept(o, t)
    BY <1>1, <1>2 DEF PrefixKept
  <1>5. /\ t \in Nat /\ Events \subseteq Nat /\ end \in Nat
        /\ \A e \in o.active : e \in Events /\ e \in Nat
    BY <1>1, <1>3, RequestFacts DEF Run, Ordered
  <1>6. ASSUME NEW e \in o.active \ (o.reexecuted \cup {t})
        PROVE  e \in original.active /\ o.state[Out(e)] = original.state[Out(e)]
    <2>1. e < t
      BY <1>2, <1>5, <1>6
    <2> QED
      BY <1>4, <1>6, <2>1 DEF PrefixKept
  <1>7. Requested(request, o)
    BY <1>1, <1>2, <1>3 DEF Requested, IsBranch, TerminalMissing
  <1>8. ASSUME NEW F, Requested(request, F)
        PROVE  SameBranch(o, F)
    <2>1. IsBranch(F, t) /\ Follows(trace, F, end)
      BY <1>8 DEF Requested, FullAt
    <2>2. /\ trace.active = F.active
          /\ \A a \in DOMAIN F.state : a \in DOMAIN trace.state /\ trace.state[a] = F.state[a]
          /\ DOMAIN F.state = Before(F.active, end) /\ IsDict(F.state)
      BY <2>1, FollowedToTheEnd
    <2>3. IsDict(trace.state) /\ DOMAIN trace.state = Before(trace.active, end)
      BY <1>1 DEF Run, Ordered
    <2>4. trace.state = F.state
      BY <2>2, <2>3, SameDict
    <2>5. Run(F, base, t, end)
      BY <2>1 DEF IsBranch
    <2>6. trace.cache = F.cache /\ trace.decisions = F.decisions
      BY <1>1, <2>2, <2>4, <2>5, SameStateSameRun
    <2> QED
      BY <1>2, <2>2, <2>4, <2>6 DEF SameBranch, SliceDecision
  <1>9. OutcomeAt(request, request.mode, o)
    BY <1>2, <1>4, <1>6, <1>7, <1>8 DEF OutcomeAt
  <1> QED
    BY <1>9 DEF o

(* If full replay raises, the program has no such branch.                   *)
LEMMA FullRaises ==
    ASSUME TypeOK, FullAt(request, pos, trace),
           \/ pos \in Events /\ CannotMaterialize
           \/ pos = EventCount + 1 /\ TerminalMissing
    PROVE  OutcomeAt(request, request.mode, Aborted)
  <1> DEFINE t == request.target
  <1>1. Aborted.returned = FALSE /\ Aborted.at > t
    BY DEF Aborted, FullAt
  <1>2. ASSUME NEW F, Requested(request, F)
        PROVE  FALSE
    <2>1. /\ Run(trace, original.cache, t, pos) /\ pos > t
          /\ IsBranch(F, t) /\ Follows(trace, F, pos)
      BY <1>2 DEF Requested, FullAt
    <2>2. CASE pos \in Events /\ CannotMaterialize
      <3>1. pos # t
        BY <2>1, <2>2, RequestFacts DEF FullAt
      <3>2. /\ ~GuardMissing(pos, trace.state)
            /\ IsActive(pos, trace.state) =>
                  Out(pos) \notin DOMAIN trace.state /\ Value(pos, trace) # Raised
        BY <2>1, <2>2, <3>1, FollowingDoesNotRaise
      <3> QED
        BY <2>2, <3>2 DEF CannotMaterialize
    <2>3. CASE pos = EventCount + 1 /\ TerminalMissing
      <3>1. program.terminal \in DOMAIN trace.state
        BY <2>1, <2>3, FollowedToTheEnd
      <3> QED
        BY <2>3, <3>1 DEF TerminalMissing
    <2> QED
      BY <2>2, <2>3
  <1> QED
    BY <1>1, <1>2 DEF OutcomeAt

-----------------------------------------------------------------------------
(* What a branch and its follower have in common. *)

LEMMA FollowBefore ==
    ASSUME NEW b, NEW F, NEW n, Follows(b, F, n)
    PROVE  Before(b.active, n) = Before(F.active, n)
  <1>1. \A e : e \in b.active /\ e < n <=> e \in F.active /\ e < n
    BY DEF Follows
  <1>2. {x \in b.active : x < n} = {x \in F.active : x < n}
    BY <1>1
  <1> QED
    BY <1>2 DEF Before

LEMMA FollowKeys ==
    ASSUME TypeOK, NEW b, NEW F, NEW base, NEW t, NEW n, NEW m, NEW k,
           n \in Nat, m \in Nat, k \in Nat, k <= n,
           Run(F, base, t, m), Follows(b, F, n)
    PROVE  KeysBefore(b.state, b.active, t, k) = KeysBefore(F.state, F.active, t, k)
  <1>1. F.active \subseteq Nat
    BY EventFacts DEF TypeOK, Run, Ordered
  <1>2. CallsBefore(b.active, t, k) = CallsBefore(F.active, t, k)
    <2>1. \A e \in F.active : e < k => e < n
      BY <1>1
    <2>2. \A e : e \in b.active <=> e \in F.active /\ e < n
      BY DEF Follows
    <2> QED
      BY <2>1, <2>2 DEF CallsBefore
  <1>3. ASSUME NEW e \in CallsBefore(F.active, t, k)
        PROVE  /\ Cmd(e).policy.prompt \in DOMAIN b.state
               /\ Cmd(e).policy.prompt \in DOMAIN F.state
               /\ b.state[Cmd(e).policy.prompt] = F.state[Cmd(e).policy.prompt]
    <2>1. e \in F.active /\ e # t /\ IsPolicy(e) /\ e \in Nat /\ e < k
      BY <1>1, <1>3 DEF CallsBefore
    <2>2. Cmd(e).policy.prompt \in Before(F.active, e)
      BY <2>1 DEF Run, Ordered, Inputs
    <2>3. Before(F.active, e) \subseteq Before(F.active, n)
      <3>1. e <= n
        BY <2>1
      <3> QED
        BY <1>1, <2>1, <3>1, BeforeNext
    <2>4. Cmd(e).policy.prompt \in DOMAIN F.state
      BY <1>3, RunInputs DEF Run
    <2> QED
      BY <2>2, <2>3, <2>4 DEF Follows
  <1>4. KeysBefore(b.state, F.active, t, k) = KeysBefore(F.state, F.active, t, k)
    BY <1>3, SameKeys
  <1> QED
    BY <1>2, <1>4 DEF KeysBefore

LEMMA FollowReasons ==
    ASSUME TypeOK, NEW b, NEW F, NEW t, NEW n,
           n \in Nat, Run(b, original.cache, t, n), IsBranch(F, t), Follows(b, F, n),
           NEW e \in DOMAIN b.decisions
    PROVE  e \in DOMAIN F.decisions /\ b.decisions[e] = F.decisions[e]
  <1> DEFINE end == EventCount + 1
             base == original.cache
  <1>1. /\ end \in Nat /\ Run(F, base, t, end) /\ F.active \subseteq Events
        /\ Events \subseteq Nat /\ \A d \in Events : d < end
    BY BranchFacts
  <1> HIDE DEF end
  <1>2. e \in b.active /\ IsPolicy(e) /\ b.decisions[e] = Reason(b, base, t, e)
    BY DEF Run
  <1>3. e \in F.active /\ e < n
    BY <1>2 DEF Follows
  <1>4. e \in Nat /\ e <= n
    <2>1. e \in Nat
      BY <1>1, <1>3
    <2> QED
      BY <1>3, <2>1
  <1>5. KeysBefore(b.state, b.active, t, e) = KeysBefore(F.state, F.active, t, e)
    BY <1>1, <1>4, FollowKeys
  <1>6. e # t => Key(e, b.state) = Key(e, F.state)
    <2>1. e # t => Cmd(e).policy.prompt \in Before(F.active, e)
      BY <1>1, <1>2, <1>3 DEF Run, Ordered, Inputs
    <2>2. F.active \subseteq Nat
      BY <1>1
    <2>3. Before(F.active, e) \subseteq Before(F.active, n)
      BY <1>4, <2>2, BeforeNext
    <2>4. e # t => b.state[Cmd(e).policy.prompt] = F.state[Cmd(e).policy.prompt]
      BY <2>1, <2>3 DEF Follows
    <2> QED
      BY <2>4 DEF Key
  <1>7. Reason(b, base, t, e) = Reason(F, base, t, e)
    BY <1>5, <1>6 DEF Reason
  <1> QED
    BY <1>1, <1>2, <1>3, <1>7 DEF Run

(* The keys of a branch as its slice meets them.                            *)
LEMMA BranchKeysNext ==
    ASSUME TypeOK, NEW F, NEW t, NEW n \in Events, IsBranch(F, t)
    PROVE  KeysBefore(F.state, F.active, t, n + 1)
              = KeysBefore(F.state, F.active, t, n)
                   \cup (IF n \in F.active THEN NewKeys(F, t, n) ELSE {})
  <1>1. n \in Nat /\ F.active \subseteq Nat
    BY BranchFacts, EventFacts DEF TypeOK
  <1>2. CASE n \in F.active /\ IsPolicy(n) /\ n # t
    <2>1. CallsBefore(F.active, t, n + 1) = CallsBefore(F.active, t, n) \cup {n}
      BY <1>1, <1>2, CallsNext
    <2> QED
      BY <1>2, <2>1 DEF KeysBefore, NewKeys
  <1>3. CASE ~(n \in F.active /\ IsPolicy(n) /\ n # t)
    <2>1. \A d \in F.active : d < n + 1 <=> d < n \/ d = n
      BY <1>1
    <2>2. CallsBefore(F.active, t, n + 1) = CallsBefore(F.active, t, n)
      BY <1>3, <2>1 DEF CallsBefore
    <2> QED
      BY <1>3, <2>2 DEF KeysBefore, NewKeys
  <1> QED
    BY <1>2, <1>3

-----------------------------------------------------------------------------
(* Sliced replay. *)

LEMMA TraceFacts ==
    ASSUME TypeOK
    PROVE  /\ IsDict(trace.state) /\ IsDict(trace.producer)
           /\ DOMAIN trace.producer = DOMAIN trace.state
           /\ \A a \in DOMAIN trace.state \ DOMAIN program.initial :
                 trace.producer[a] \in Events /\ Out(trace.producer[a]) = a
           /\ \A e \in Events : /\ e \in Nat /\ e # 0
                                /\ Out(e) \notin DOMAIN program.initial
                                /\ Producer(Out(e)) # 0 =>
                                      /\ Out(e) \in DOMAIN trace.state
                                      /\ Producer(Out(e)) = trace.producer[Out(e)]
  <1>1. /\ IsDict(trace.state) /\ IsDict(trace.producer)
        /\ DOMAIN trace.producer = DOMAIN trace.state
        /\ \A a \in DOMAIN trace.state \ DOMAIN program.initial :
              trace.producer[a] \in Events /\ Out(trace.producer[a]) = a
    BY DEF TypeOK, IsTrace
  <1>2. \A e \in Events : e \in Nat /\ e # 0 /\ Out(e) \notin DOMAIN program.initial
    BY EventFacts DEF TypeOK, Events
  <1> QED
    BY <1>1, <1>2 DEF Producer

(* The original run, overlaid with the prefix.                              *)
Overlaid == [Replaced EXCEPT !.state = Update(original.state, @),
                             !.producer = Update(original.producer, @)]

LEMMA OverlaidFacts ==
    ASSUME DOMAIN Replaced = DOMAIN trace, IsTrace(trace)
    PROVE  /\ Overlaid.active = Replaced.active
           /\ Overlaid.cache = Replaced.cache
           /\ Overlaid.decisions = Replaced.decisions
           /\ DOMAIN Overlaid.state = DOMAIN original.state \cup DOMAIN Replaced.state
           /\ \A a \in DOMAIN Replaced.state : Overlaid.state[a] = Replaced.state[a]
           /\ \A a \in DOMAIN original.state \ DOMAIN Replaced.state :
                 Overlaid.state[a] = original.state[a]
           /\ DOMAIN Overlaid.producer = DOMAIN original.producer \cup DOMAIN Replaced.producer
           /\ \A a \in DOMAIN Replaced.producer : Overlaid.producer[a] = Replaced.producer[a]
           /\ \A a \in DOMAIN original.producer \ DOMAIN Replaced.producer :
                 Overlaid.producer[a] = original.producer[a]
  <1>1. DOMAIN Replaced = {"state", "producer", "active", "cache", "decisions"}
    BY DEF IsTrace
  <1>2. /\ Overlaid.active = Replaced.active
        /\ Overlaid.cache = Replaced.cache
        /\ Overlaid.decisions = Replaced.decisions
        /\ Overlaid.state = Update(original.state, Replaced.state)
        /\ Overlaid.producer = Update(original.producer, Replaced.producer)
    BY <1>1 DEF Overlaid
  <1> QED
    BY <1>2 DEF Update

LEMMA SlicedBegins ==
    ASSUME TypeOK, OriginalIsRun, PrefixAt(request, pos, trace), pos = request.target,
           IsActive(pos, trace.state), request.mode = "sliced", NEW d,
           d = [artifacts |-> IF request.replacement = original.state[Out(pos)]
                              THEN {} ELSE {Out(pos)},
                events |-> {pos}]
    PROVE  SlicedAt(request, pos + 1, Overlaid, d)
  <1> DEFINE t == request.target
             base == original.cache
             v == request.replacement
             u == Replaced
             w == Overlaid
             end == EventCount + 1
  <1>1. RequestAt(request) /\ Run(trace, base, t, t) /\ ProducersMatch(trace)
    BY DEF PrefixAt
  <1>2. /\ Grown(u, trace, base, t, t, v)
        /\ u.producer = Put(trace.producer, Out(t), t)
        /\ DOMAIN u = DOMAIN trace
    BY <1>1, ReplacementGrows DEF TypeOK
  <1>3. /\ w.active = u.active /\ w.cache = u.cache /\ w.decisions = u.decisions
        /\ DOMAIN w.state = DOMAIN original.state \cup DOMAIN u.state
        /\ \A a \in DOMAIN u.state : w.state[a] = u.state[a]
        /\ \A a \in DOMAIN original.state \ DOMAIN u.state : w.state[a] = original.state[a]
        /\ \A a \in DOMAIN u.producer : w.producer[a] = u.producer[a]
        /\ \A a \in DOMAIN original.producer \ DOMAIN u.producer :
              w.producer[a] = original.producer[a]
    BY <1>2, OverlaidFacts DEF TypeOK
  <1> HIDE DEF u, w
  <1>4. t \in Events /\ t \in Nat /\ t + 1 > t /\ Events \subseteq Nat /\ t \in original.active
    BY <1>1, RequestFacts
  <1>5. Out(t) \notin DOMAIN trace.state
    BY <1>4, PrefixFollows
  <1>6. Run(u, base, t, t + 1)
    BY <1>1, <1>2, <1>4, <1>5, RunExtends
  <1>7. ProducersMatch(u)
    BY <1>1, <1>2, <1>4, <1>5, ProducersGrow DEF Run
  <1>8. /\ Out(t) \in DOMAIN u.state /\ u.state[Out(t)] = v
        /\ \A a \in DOMAIN trace.state :
              a # Out(t) => a \in DOMAIN u.state /\ u.state[a] = trace.state[a]
    BY <1>2, GrownState
  <1>9. u.active = trace.active \cup {t}
    BY <1>2 DEF Grown
  <1>10. PrefixKept(w, t)
    <2>1. \A e \in DOMAIN w.decisions :
              e # t => e \in DOMAIN trace.decisions /\ w.decisions[e] = trace.decisions[e]
      BY <1>2, <1>3, GrownDecisions
    <2>2. \A a \in DOMAIN trace.state :
              a # Out(t) => a \in DOMAIN w.state /\ w.state[a] = trace.state[a]
      BY <1>3, <1>8
    <2>3. w.active = trace.active \cup {t}
      BY <1>3, <1>9
    <2> QED
      BY <2>1, <2>2, <2>3, PrefixIsKept
  <1>11. /\ IsBranch(NoOp(t), t) /\ Follows(trace, NoOp(t), t)
         /\ NoOp(t).active = original.active /\ NoOp(t).state = original.state
    BY <1>4, PrefixFollows DEF NoOp
  <1>12. trace.active = {e \in original.active : e < t}
    BY <1>11 DEF Follows
  <1>13. PICK first \in InitialCaches : Run(original, first, 0, end) /\ ProducersMatch(original)
    BY DEF OriginalIsRun, MaterializedAt
  <1>14. \A e \in original.active : e \in Nat
    BY <1>4, <1>13 DEF Run, Ordered
  <1> HIDE DEF end
  <1>15. Slice(t + 1, w, d)
    <2>1. w.active \subseteq {e \in Events : e < t + 1}
      BY <1>3, <1>6 DEF Run, Ordered
    <2>2. DOMAIN program.initial \subseteq DOMAIN w.state
      BY <1>3, <1>6, BeforeFacts DEF Run, Ordered
    <2>3. \A e \in u.active : Out(e) \in DOMAIN u.state
      BY <1>4, <1>6, RunInputs DEF Run
    <2>4. DOMAIN u.producer = DOMAIN u.state /\ DOMAIN original.producer = DOMAIN original.state
      BY <1>7, <1>13 DEF ProducersMatch
    <2>5. \A e \in w.active : Out(e) \in DOMAIN w.state /\ w.producer[Out(e)] = e
      BY <1>3, <1>7, <2>3, <2>4 DEF ProducersMatch
    <2>6. ASSUME NEW a \in DOMAIN w.state \ DOMAIN program.initial, w.producer[a] \notin w.active
          PROVE  /\ w.producer[a] >= t + 1
                 /\ a \in DOMAIN original.state
                 /\ w.state[a] = original.state[a]
      <3>1. a \notin DOMAIN u.state
        <4>1. a \in DOMAIN u.state => \E e \in u.active : Out(e) = a
          BY <1>6, <2>6, BeforeFacts DEF Run, Ordered
        <4> QED
          BY <1>3, <2>3, <2>4, <2>5, <2>6, <4>1
      <3>2. a \in DOMAIN original.state
        BY <1>3, <2>6, <3>1
      <3>3. PICK e \in original.active : Out(e) = a
        BY <1>13, <2>6, <3>2, BeforeFacts DEF Run, Ordered
      <3>4. w.producer[a] = e
        BY <1>3, <1>13, <2>4, <3>1, <3>2, <3>3 DEF ProducersMatch
      <3>5. e \notin trace.active /\ e # t
        BY <1>3, <1>9, <2>6, <3>4
      <3>6. e >= t + 1
        BY <1>4, <1>12, <1>14, <3>5
      <3> QED
        BY <1>3, <3>1, <3>2, <3>4, <3>6
    <2>7. \A e \in w.active \ d.events :
              e \in original.active /\ w.state[Out(e)] = original.state[Out(e)]
      <3>1. d.events = {t}
        OBVIOUS
      <3>2. \A e \in w.active \ {t} : e < t
        BY <1>3, <1>9, <1>12
      <3> QED
        BY <1>3, <1>9, <1>10, <1>12, <3>1, <3>2 DEF PrefixKept
    <2>8. DOMAIN w.decisions = {e \in w.active : IsPolicy(e)}
      BY <1>3, <1>6 DEF Run
    <2> QED
      BY <2>1, <2>2, <2>5, <2>6, <2>7, <2>8 DEF Slice
  <1>16. ASSUME NEW F, Requested(request, F)
         PROVE  SliceFollows(request, t + 1, w, d, F)
    <2>1. IsBranch(F, t) /\ F.state[Out(t)] = v /\ t \in F.active
      BY <1>16 DEF Requested, IsBranch
    <2>2. Follows(trace, F, t)
      BY <2>1 DEF PrefixAt
    <2>3. Follows(u, F, t + 1)
      BY <1>2, <1>4, <2>1, <2>2, GrownFollows
    <2>4. Follows(w, F, t + 1)
      BY <1>3, <2>3 DEF Follows
    <2>5. end \in Nat /\ Run(F, base, t, end) /\ F.active \subseteq Events /\ t < end
      BY <2>1, BranchFacts DEF end
    <2>6. KeysBefore(u.state, u.active, t, t + 1) = KeysBefore(F.state, F.active, t, t + 1)
      <3>1. t + 1 \in Nat /\ t + 1 <= t + 1
        BY <1>4
      <3> QED
        BY <2>3, <2>5, <3>1, FollowKeys
    <2>7. CacheIs(w.cache, base, KeysBefore(F.state, F.active, t, t + 1))
      BY <1>3, <1>6, <2>6 DEF Run
    <2>8. \A e \in DOMAIN w.decisions : SliceDecision(w, F, e)
      <3>1. t + 1 \in Nat
        BY <1>4
      <3>2. \A e \in DOMAIN u.decisions : u.decisions[e] = F.decisions[e]
        BY <1>6, <2>1, <2>3, <3>1, FollowReasons
      <3> QED
        BY <1>3, <3>2 DEF SliceDecision
    <2>9. ASSUME NEW a \in Before(F.active, t + 1) \ d.artifacts
          PROVE  a \in DOMAIN original.state /\ original.state[a] = F.state[a]
      <3>1. Before(F.active, t + 1) = Before(F.active, t) \cup {Out(t)}
        <4>1. F.active \subseteq Nat
          BY <1>4, <2>5
        <4> QED
          BY <1>4, <2>1, <4>1, BeforeNext
      <3>2. CASE a \in Before(F.active, t)
        <4>1. Before(F.active, t) = Before(NoOp(t).active, t)
          BY <1>11, <2>2, FollowBefore
        <4>2. trace.state[a] = F.state[a]
          BY <2>2, <3>2 DEF Follows
        <4>3. trace.state[a] = original.state[a]
          BY <1>11, <3>2, <4>1 DEF Follows
        <4>4. a \in DOMAIN original.state
          <5>1. DOMAIN original.state = Before(original.active, end)
            BY <1>13 DEF Run, Ordered
          <5>2. Before(original.active, t) \subseteq Before(original.active, end)
            <6>1. original.active \subseteq Nat
              BY <1>14
            <6>2. t <= end
              BY <1>4, <2>5
            <6> QED
              BY <1>4, <2>5, <6>1, <6>2, BeforeNext
          <5> QED
            BY <1>11, <3>2, <4>1, <5>1, <5>2
        <4> QED
          BY <4>2, <4>3, <4>4
      <3>3. CASE a = Out(t)
        <4>1. v = original.state[Out(t)]
          BY <2>9, <3>3
        <4>2. Out(t) \in DOMAIN original.state
          BY <1>4, <1>13, <2>5, RunInputs DEF Run
        <4> QED
          BY <2>1, <3>3, <4>1, <4>2
      <3> QED
        BY <3>1, <3>2, <3>3
    <2> QED
      BY <2>4, <2>7, <2>8, <2>9 DEF SliceFollows
  <1>17. t \in w.active /\ t \in d.events
    BY <1>3, <1>9
  <1>18. SlicedAt(request, t + 1, w, d)
    BY <1>1, <1>4, <1>10, <1>15, <1>16, <1>17 DEF SlicedAt
  <1> QED
    BY <1>18 DEF w

(* What a step of the sliced loop starts from. *)
LEMMA SlicedFacts ==
    ASSUME TypeOK, SlicedAt(request, pos, trace, dirty)
    PROVE  /\ RequestAt(request) /\ request.mode = "sliced"
           /\ request.target \in Events /\ request.target \in Nat /\ Events \subseteq Nat
           /\ request.target \in original.active /\ pos \in Nat
           /\ pos > request.target /\ pos + 1 > request.target /\ pos # request.target
           /\ request.target \in trace.active /\ request.target \in dirty.events
           /\ Slice(pos, trace, dirty) /\ PrefixKept(trace, request.target)
           /\ \A e \in trace.active : e \in Events /\ e \in Nat /\ e < pos
  <1>1. /\ RequestAt(request) /\ request.mode = "sliced" /\ pos > request.target
        /\ request.target \in trace.active /\ request.target \in dirty.events
        /\ Slice(pos, trace, dirty) /\ PrefixKept(trace, request.target)
    BY DEF SlicedAt
  <1>2. /\ request.target \in Events /\ request.target \in Nat /\ Events \subseteq Nat
        /\ request.target \in original.active /\ EventCount + 1 \in Nat
    BY <1>1, RequestFacts
  <1>3. pos \in Nat
    BY <1>2 DEF TypeOK
  <1>4. \A e \in trace.active : e \in Events /\ e \in Nat /\ e < pos
    BY <1>1, <1>2 DEF Slice
  <1>5. pos + 1 > request.target /\ pos # request.target
    BY <1>1, <1>2, <1>3
  <1> QED
    BY <1>1, <1>2, <1>3, <1>4, <1>5

(* ... and what each branch the caller may mean does there.                 *)
LEMMA SlicedBranchFacts ==
    ASSUME TypeOK, SlicedAt(request, pos, trace, dirty), NEW F, Requested(request, F)
    PROVE  /\ IsBranch(F, request.target) /\ Follows(trace, F, pos)
           /\ SliceFollows(request, pos, trace, dirty, F)
           /\ CacheIs(trace.cache, original.cache,
                      KeysBefore(F.state, F.active, request.target, pos))
           /\ pos \in Events =>
                 /\ ~GuardMissing(pos, trace.state)
                 /\ IsActive(pos, trace.state) <=> pos \in F.active
                 /\ IsInactive(pos, trace.state) <=> ~IsActive(pos, trace.state)
                 /\ pos \in F.active =>
                       /\ Value(pos, trace) # Raised
                       /\ F.state[Out(pos)] = Value(pos, trace)
                       /\ Inputs(pos) \subseteq Before(F.active, pos)
                       /\ IsPolicy(pos) => Key(pos, trace.state) = Key(pos, F.state)
  <1> DEFINE t == request.target
             end == EventCount + 1
  <1>1. IsBranch(F, t)
    BY DEF Requested
  <1>2. SliceFollows(request, pos, trace, dirty, F)
    BY DEF SlicedAt
  <1>3. /\ Follows(trace, F, pos)
        /\ CacheIs(trace.cache, original.cache, KeysBefore(F.state, F.active, t, pos))
    BY <1>2 DEF SliceFollows
  <1>4. /\ end \in Nat /\ Run(F, original.cache, t, end)
        /\ \A e \in Events : e < end
    BY <1>1, BranchFacts
  <1>5. pos # t
    BY SlicedFacts
  <1> HIDE DEF end
  <1>6. ASSUME pos \in Events
        PROVE  /\ ~GuardMissing(pos, trace.state)
               /\ IsActive(pos, trace.state) <=> pos \in F.active
               /\ IsInactive(pos, trace.state) <=> ~IsActive(pos, trace.state)
    BY <1>3, <1>4, <1>6, FollowActivity
  <1>7. ASSUME pos \in Events, pos \in F.active
        PROVE  /\ Value(pos, trace) # Raised
               /\ F.state[Out(pos)] = Value(pos, trace)
               /\ Inputs(pos) \subseteq Before(F.active, pos)
               /\ IsPolicy(pos) => Key(pos, trace.state) = Key(pos, F.state)
    BY <1>3, <1>4, <1>5, <1>7, FollowValue
  <1> QED
    BY <1>1, <1>2, <1>3, <1>6, <1>7

LEMMA SlicedRemoves ==
    ASSUME TypeOK, SlicedAt(request, pos, trace, dirty), pos \in Events,
           IsInactive(pos, trace.state), NEW w,
           w.active = trace.active, w.cache = trace.cache, w.decisions = trace.decisions,
           Producer(Out(pos)) = pos =>
              /\ w.state = Without(trace.state, Out(pos))
              /\ w.producer = Without(trace.producer, Out(pos)),
           Producer(Out(pos)) # pos =>
              w.state = trace.state /\ w.producer = trace.producer
    PROVE  SlicedAt(request, pos + 1, w, dirty)
  <1> DEFINE t == request.target
             base == original.cache
             end == EventCount + 1
             n == pos
             d == dirty
  <1>1. /\ RequestAt(request) /\ request.mode = "sliced"
        /\ t \in Events /\ t \in Nat /\ Events \subseteq Nat /\ n \in Nat
        /\ n > t /\ n + 1 > t /\ t \in trace.active /\ t \in d.events
        /\ Slice(n, trace, d) /\ PrefixKept(trace, t)
        /\ \A e \in trace.active : e \in Events /\ e \in Nat /\ e < n
    BY SlicedFacts
  <1>2. /\ DOMAIN trace.producer = DOMAIN trace.state
        /\ \A a \in DOMAIN trace.state \ DOMAIN program.initial :
              trace.producer[a] \in Events /\ Out(trace.producer[a]) = a
        /\ Out(n) \notin DOMAIN program.initial
        /\ Producer(Out(n)) = n => trace.producer[Out(n)] = n
        /\ n # 0
    BY <1>1, TraceFacts
  (* Nothing but an output that n made in the original run is removed.      *)
  <1>3. /\ DOMAIN w.state \subseteq DOMAIN trace.state
        /\ \A a \in DOMAIN w.state : /\ w.state[a] = trace.state[a]
                                     /\ w.producer[a] = trace.producer[a]
        /\ \A a \in DOMAIN trace.state : trace.producer[a] # n => a \in DOMAIN w.state
        /\ Producer(Out(n)) = n => Out(n) \notin DOMAIN w.state
    <2>1. CASE Producer(Out(n)) = n
      <3>1. /\ w.state = Without(trace.state, Out(n))
            /\ w.producer = Without(trace.producer, Out(n))
        BY <2>1
      <3>2. /\ DOMAIN w.state = DOMAIN trace.state \ {Out(n)}
            /\ \A a \in DOMAIN w.state : w.state[a] = trace.state[a]
        BY <3>1 DEF Without, Restrict
      <3>3. \A a \in DOMAIN trace.state \ {Out(n)} : w.producer[a] = trace.producer[a]
        BY <1>2, <3>1 DEF Without, Restrict
      <3> QED
        BY <1>2, <2>1, <3>2, <3>3
    <2>2. CASE Producer(Out(n)) # n
      BY <2>2
    <2> QED
      BY <2>1, <2>2
  <1>4. \A e \in trace.active : /\ Out(e) \in DOMAIN trace.state
                                /\ trace.producer[Out(e)] = e
                                /\ Out(e) \in DOMAIN w.state
    BY <1>1, <1>3 DEF Slice
  <1>5. Slice(n + 1, w, d)
    <2>1. w.active \subseteq {e \in Events : e < n + 1}
      BY <1>1
    <2>2. DOMAIN program.initial \subseteq DOMAIN w.state
      <3>1. \A a \in DOMAIN program.initial : a \in DOMAIN trace.state
        BY <1>1 DEF Slice
      <3>2. \A a \in DOMAIN program.initial : trace.producer[a] = 0
        BY <3>1 DEF TypeOK, IsTrace
      <3> QED
        BY <1>2, <1>3, <3>1, <3>2
    <2>3. \A e \in w.active : Out(e) \in DOMAIN w.state /\ w.producer[Out(e)] = e
      BY <1>3, <1>4
    <2>4. ASSUME NEW a \in DOMAIN w.state \ DOMAIN program.initial, w.producer[a] \notin w.active
          PROVE  /\ w.producer[a] >= n + 1
                 /\ a \in DOMAIN original.state
                 /\ w.state[a] = original.state[a]
      <3>1. a \in DOMAIN trace.state /\ w.producer[a] = trace.producer[a]
        BY <1>3, <2>4
      <3>2. /\ trace.producer[a] >= n
            /\ a \in DOMAIN original.state
            /\ trace.state[a] = original.state[a]
        BY <1>1, <2>4, <3>1 DEF Slice
      <3>3. trace.producer[a] # n
        <4>1. SUFFICES ASSUME trace.producer[a] = n PROVE FALSE
          OBVIOUS
        <4>2. a = Out(n)
          BY <1>2, <2>4, <3>1, <4>1
        <4>3. Producer(Out(n)) = n
          BY <1>2, <3>1, <4>1, <4>2 DEF Producer
        <4> QED
          BY <1>3, <2>4, <4>2, <4>3
      <3>4. trace.producer[a] \in Nat
        BY <1>1, <1>2, <2>4, <3>1
      <3> QED
        BY <1>1, <1>3, <2>4, <3>1, <3>2, <3>3, <3>4
    <2>5. \A e \in w.active \ d.events :
              e \in original.active /\ w.state[Out(e)] = original.state[Out(e)]
      BY <1>1, <1>3, <1>4 DEF Slice
    <2>6. DOMAIN w.decisions = {e \in w.active : IsPolicy(e)}
      BY <1>1 DEF Slice
    <2> QED
      BY <2>1, <2>2, <2>3, <2>4, <2>5, <2>6 DEF Slice
  <1>6. PrefixKept(w, t)
    <2>1. \A e \in trace.active : Out(e) \in DOMAIN w.state
                                  /\ w.state[Out(e)] = trace.state[Out(e)]
      BY <1>3, <1>4
    <2> QED
      BY <1>1, <2>1, SuffixKeepsPrefix
  <1>7. ASSUME NEW F, Requested(request, F)
        PROVE  SliceFollows(request, n + 1, w, d, F)
    <2>1. /\ IsBranch(F, t) /\ Follows(trace, F, n) /\ n \notin F.active
          /\ SliceFollows(request, n, trace, d, F)
          /\ CacheIs(trace.cache, base, KeysBefore(F.state, F.active, t, n))
      BY <1>7, SlicedBranchFacts
    <2>2. Run(F, base, t, end) /\ F.active \subseteq Nat
      BY <1>1, <2>1, BranchFacts
    <2> HIDE DEF end
    <2>3. ASSUME NEW a \in Before(F.active, n)
          PROVE  a \in DOMAIN w.state /\ w.state[a] = trace.state[a]
      <3>1. a \in DOMAIN trace.state
        BY <2>1, <2>3 DEF Follows
      <3>2. CASE a \in DOMAIN program.initial
        <4>1. a \in DOMAIN w.state
          BY <1>5, <3>2 DEF Slice
        <4> QED
          BY <1>3, <4>1
      <3>3. CASE a \notin DOMAIN program.initial
        <4>1. PICK e \in F.active : e < n /\ Out(e) = a
          BY <2>3, <3>3, BeforeFacts
        <4>2. e \in trace.active
          BY <2>1, <4>1 DEF Follows
        <4> QED
          BY <1>3, <1>4, <4>1, <4>2
      <3> QED
        BY <3>2, <3>3
    <2>4. Follows(w, F, n + 1)
      <3>1. w.active = IF n \in F.active THEN trace.active \cup {n} ELSE trace.active
        BY <2>1
      <3> QED
        BY <2>1, <2>2, <2>3, <3>1, FollowNext
    <2>5. KeysBefore(F.state, F.active, t, n + 1) = KeysBefore(F.state, F.active, t, n)
      <3>1. KeysBefore(F.state, F.active, t, n + 1)
               = KeysBefore(F.state, F.active, t, n)
                    \cup (IF n \in F.active THEN NewKeys(F, t, n) ELSE {})
        BY <2>1, BranchKeysNext
      <3> QED
        BY <2>1, <3>1
    <2>6. CacheIs(w.cache, base, KeysBefore(F.state, F.active, t, n + 1))
      BY <2>1, <2>5
    <2>7. \A e \in DOMAIN w.decisions : SliceDecision(w, F, e)
      BY <2>1 DEF SliceFollows, SliceDecision
    <2>8. Before(F.active, n + 1) = Before(F.active, n)
      BY <1>1, <2>1, <2>2, BeforeNext
    <2>9. \A a \in Before(F.active, n + 1) \ d.artifacts :
              a \in DOMAIN original.state /\ original.state[a] = F.state[a]
      BY <2>1, <2>8 DEF SliceFollows
    <2> QED
      BY <2>4, <2>6, <2>7, <2>9 DEF SliceFollows
  <1> QED
    BY <1>1, <1>5, <1>6, <1>7 DEF SlicedAt

(* No two active templates of a slice write one artifact.                   *)
LEMMA SlicedExecutes ==
    ASSUME TypeOK, SlicedAt(request, pos, trace, dirty), pos \in Events,
           IsActive(pos, trace.state), ~HasRival(pos), NEW w, NEW d,
           w = Written(Resolved(pos, trace), pos, Value(pos, trace)),
           d.events = dirty.events \cup {pos},
           d.artifacts = dirty.artifacts \cup
                            (IF \/ Producer(Out(pos)) # pos
                                \/ trace.state[Out(pos)] # Value(pos, trace)
                             THEN {Out(pos)} ELSE {})
    PROVE  SlicedAt(request, pos + 1, w, d)
  <1> DEFINE t == request.target
             base == original.cache
             end == EventCount + 1
             n == pos
             v == Value(n, trace)
             key == Key(n, trace.state)
  <1>1. /\ RequestAt(request) /\ request.mode = "sliced"
        /\ t \in Events /\ t \in Nat /\ Events \subseteq Nat /\ n \in Nat
        /\ n > t /\ n + 1 > t /\ n # t /\ t \in trace.active /\ t \in dirty.events
        /\ Slice(n, trace, dirty) /\ PrefixKept(trace, t)
        /\ \A e \in trace.active : e \in Events /\ e \in Nat /\ e < n
    BY SlicedFacts
  <1>2. /\ DOMAIN trace.producer = DOMAIN trace.state
        /\ \A a \in DOMAIN trace.state \ DOMAIN program.initial :
              trace.producer[a] \in Events /\ Out(trace.producer[a]) = a
        /\ Out(n) \notin DOMAIN program.initial
        /\ Producer(Out(n)) = n => /\ Out(n) \in DOMAIN trace.state
                                   /\ trace.producer[Out(n)] = n
        /\ n # 0
    BY <1>1, TraceFacts
  <1>3. /\ w.state = Put(trace.state, Out(n), v)
        /\ w.producer = Put(trace.producer, Out(n), n)
        /\ w.active = trace.active \cup {n}
        /\ w.cache = Resolved(n, trace).cache
        /\ w.decisions = Resolved(n, trace).decisions
    BY ResolvedFields, WrittenFields DEF TypeOK
  <1>4. /\ IsPolicy(n) =>
              /\ w.cache = Put(trace.cache, key, Action(trace.cache, key))
              /\ w.decisions = Put(trace.decisions, n, IF key \in DOMAIN trace.cache
                                                       THEN "exact_key_match"
                                                       ELSE "key_changed_or_missing")
        /\ ~IsPolicy(n) => w.cache = trace.cache /\ w.decisions = trace.decisions
    BY <1>3, ResolvedFields DEF TypeOK
  <1>5. /\ DOMAIN w.state = DOMAIN trace.state \cup {Out(n)}
        /\ w.state[Out(n)] = v
        /\ \A a \in DOMAIN trace.state : a # Out(n) => w.state[a] = trace.state[a]
        /\ w.producer[Out(n)] = n
        /\ \A a \in DOMAIN trace.state : a # Out(n) => w.producer[a] = trace.producer[a]
    BY <1>2, <1>3 DEF Put
  <1> HIDE DEF v, key
  <1>6. ASSUME NEW e \in trace.active
        PROVE  Out(e) \in DOMAIN trace.state /\ trace.producer[Out(e)] = e /\ Out(e) # Out(n)
    <2>1. Out(e) \in DOMAIN trace.state /\ trace.producer[Out(e)] = e /\ e # n
      BY <1>1, <1>6 DEF Slice
    <2>2. Producer(Out(e)) = e
      BY <1>2, <2>1 DEF Producer
    <2> QED
      BY <2>1, <2>2 DEF HasRival
  <1>7. \A e \in DOMAIN w.decisions :
            e # n => e \in DOMAIN trace.decisions /\ w.decisions[e] = trace.decisions[e]
    <2>1. CASE IsPolicy(n)
      BY <1>4, <2>1 DEF Put
    <2>2. CASE ~IsPolicy(n)
      BY <1>4, <2>2
    <2> QED
      BY <2>1, <2>2
  <1>8. Slice(n + 1, w, d)
    <2>1. w.active \subseteq {e \in Events : e < n + 1}
      BY <1>1, <1>3
    <2>2. DOMAIN program.initial \subseteq DOMAIN w.state
      BY <1>1, <1>5 DEF Slice
    <2>3. \A e \in w.active : Out(e) \in DOMAIN w.state /\ w.producer[Out(e)] = e
      BY <1>3, <1>5, <1>6
    <2>4. ASSUME NEW a \in DOMAIN w.state \ DOMAIN program.initial, w.producer[a] \notin w.active
          PROVE  /\ w.producer[a] >= n + 1
                 /\ a \in DOMAIN original.state
                 /\ w.state[a] = original.state[a]
      <3>1. a # Out(n)
        BY <1>3, <1>5, <2>4
      <3>2. a \in DOMAIN trace.state /\ w.producer[a] = trace.producer[a]
        BY <1>5, <2>4, <3>1
      <3>3. trace.producer[a] \notin trace.active /\ trace.producer[a] # n
        BY <1>3, <2>4, <3>2
      <3>4. /\ trace.producer[a] >= n
            /\ a \in DOMAIN original.state
            /\ trace.state[a] = original.state[a]
        BY <1>1, <2>4, <3>2, <3>3 DEF Slice
      <3>5. trace.producer[a] \in Nat
        BY <1>1, <1>2, <2>4, <3>2
      <3> QED
        BY <1>1, <1>5, <3>1, <3>2, <3>3, <3>4, <3>5
    <2>5. \A e \in w.active \ d.events :
              e \in original.active /\ w.state[Out(e)] = original.state[Out(e)]
      <3>1. \A e \in w.active \ d.events : e \in trace.active \ dirty.events
        BY <1>3
      <3> QED
        BY <1>1, <1>5, <1>6, <3>1 DEF Slice
    <2>6. DOMAIN w.decisions = {e \in w.active : IsPolicy(e)}
      <3>1. CASE IsPolicy(n)
        BY <1>1, <1>3, <1>4, <3>1 DEF Slice, Put
      <3>2. CASE ~IsPolicy(n)
        BY <1>1, <1>3, <1>4, <3>2 DEF Slice
      <3> QED
        BY <3>1, <3>2
    <2> QED
      BY <2>1, <2>2, <2>3, <2>4, <2>5, <2>6 DEF Slice
  <1>9. PrefixKept(w, t)
    <2>1. \A e \in trace.active : Out(e) \in DOMAIN w.state
                                  /\ w.state[Out(e)] = trace.state[Out(e)]
      BY <1>5, <1>6
    <2> QED
      BY <1>1, <1>3, <1>7, <2>1, SuffixKeepsPrefix
  <1>10. ASSUME NEW F, Requested(request, F)
         PROVE  SliceFollows(request, n + 1, w, d, F)
    <2> DEFINE keys == KeysBefore(F.state, F.active, t, n)
    <2>1. /\ IsBranch(F, t) /\ Follows(trace, F, n) /\ n \in F.active
          /\ SliceFollows(request, n, trace, dirty, F)
          /\ CacheIs(trace.cache, base, keys)
      BY <1>10, SlicedBranchFacts
    <2>2. /\ F.state[Out(n)] = v
          /\ IsPolicy(n) => key = Key(n, F.state)
      BY <1>10, <2>1, SlicedBranchFacts DEF v, key
    <2>3. Run(F, base, t, end) /\ F.active \subseteq Nat
      BY <1>1, <2>1, BranchFacts
    <2> HIDE DEF end
    <2>4. Out(n) \notin Before(F.active, n)
      BY <2>1, <2>3, FollowFresh
    <2>5. Follows(w, F, n + 1)
      <3>1. \A a \in Before(F.active, n) : a \in DOMAIN w.state /\ w.state[a] = trace.state[a]
        BY <1>5, <2>1, <2>4 DEF Follows
      <3>2. w.active = IF n \in F.active THEN trace.active \cup {n} ELSE trace.active
        BY <1>3, <2>1
      <3>3. Out(n) \in DOMAIN w.state /\ w.state[Out(n)] = F.state[Out(n)]
        BY <1>5, <2>2
      <3> QED
        BY <2>1, <2>3, <3>1, <3>2, <3>3, FollowNext
    <2>6. KeysBefore(F.state, F.active, t, n + 1)
             = keys \cup (IF n \in F.active THEN NewKeys(F, t, n) ELSE {})
      BY <2>1, BranchKeysNext
    <2> HIDE DEF keys
    <2>7. CacheIs(w.cache, base, KeysBefore(F.state, F.active, t, n + 1))
      <3>1. CASE IsPolicy(n)
        <4>1. KeysBefore(F.state, F.active, t, n + 1) = keys \cup {key}
          BY <1>1, <2>1, <2>2, <2>6, <3>1 DEF NewKeys
        <4>2. Action(trace.cache, key) = Action(base, key)
          BY <2>1, ActionIsPure
        <4>3. CacheIs(w.cache, base, keys \cup {key})
          BY <1>4, <2>1, <3>1, <4>2 DEF CacheIs, Put, IsDict
        <4> QED
          BY <4>1, <4>3
      <3>2. CASE ~IsPolicy(n)
        <4>1. KeysBefore(F.state, F.active, t, n + 1) = keys
          BY <2>6, <3>2 DEF NewKeys
        <4> QED
          BY <1>4, <2>1, <3>2, <4>1
      <3> QED
        BY <3>1, <3>2
    <2>8. \A e \in DOMAIN w.decisions : SliceDecision(w, F, e)
      <3>1. ASSUME NEW e \in DOMAIN w.decisions, e # n
            PROVE  SliceDecision(w, F, e)
        <4>1. e \in DOMAIN trace.decisions /\ w.decisions[e] = trace.decisions[e]
          BY <1>7, <3>1
        <4> QED
          BY <2>1, <4>1 DEF SliceFollows, SliceDecision
      <3>2. ASSUME n \in DOMAIN w.decisions
            PROVE  w.decisions[n] = F.decisions[n]
        <4>1. IsPolicy(n)
          BY <1>8, <3>2 DEF Slice
        <4>2. F.decisions[n] = Reason(F, base, t, n)
          BY <2>1, <2>3, <4>1 DEF Run
        <4>3. w.decisions[n] = IF key \in DOMAIN trace.cache THEN "exact_key_match"
                                                             ELSE "key_changed_or_missing"
          BY <1>1, <1>4, <4>1 DEF Put
        <4>4. DOMAIN trace.cache = DOMAIN base \cup KeysBefore(F.state, F.active, t, n)
          BY <2>1 DEF CacheIs, keys
        <4> QED
          BY <1>1, <2>2, <4>1, <4>2, <4>3, <4>4 DEF Reason
      <3> QED
        BY <3>1, <3>2 DEF SliceDecision
    <2>9. ASSUME NEW a \in Before(F.active, n + 1) \ d.artifacts
          PROVE  a \in DOMAIN original.state /\ original.state[a] = F.state[a]
      <3>1. Before(F.active, n + 1) = Before(F.active, n) \cup {Out(n)}
        BY <1>1, <2>1, <2>3, BeforeNext
      <3>2. CASE a # Out(n)
        BY <2>1, <2>9, <3>1, <3>2 DEF SliceFollows
      <3>3. CASE a = Out(n)
        <4>1. Producer(Out(n)) = n /\ trace.state[Out(n)] = v
          BY <2>9, <3>3 DEF v
        <4>2. n \notin trace.active
          BY <1>1
        <4>3. a \in DOMAIN original.state /\ trace.state[a] = original.state[a]
          BY <1>1, <1>2, <3>3, <4>1, <4>2 DEF Slice
        <4> QED
          BY <2>2, <3>3, <4>1, <4>3
      <3> QED
        BY <3>2, <3>3
    <2> QED
      BY <2>5, <2>7, <2>8, <2>9 DEF SliceFollows
  <1> QED
    BY <1>1, <1>3, <1>8, <1>9, <1>10 DEF SlicedAt

(* What a slice reuses, the branch would have computed.                    *)
LEMMA SlicedReuses ==
    ASSUME TypeOK, OriginalIsRun, SlicedAt(request, pos, trace, dirty), pos \in Events,
           IsActive(pos, trace.state), ~ShouldExecute(pos), NEW w,
           w.state = trace.state, w.producer = trace.producer, w.cache = trace.cache,
           w.active = trace.active \cup {pos},
           w.decisions = IF IsPolicy(pos) THEN Put(trace.decisions, pos, "unchanged_event_reuse")
                                          ELSE trace.decisions
    PROVE  SlicedAt(request, pos + 1, w, dirty)
  <1> DEFINE t == request.target
             base == original.cache
             end == EventCount + 1
             n == pos
             d == dirty
  <1>1. /\ RequestAt(request) /\ request.mode = "sliced"
        /\ t \in Events /\ t \in Nat /\ Events \subseteq Nat /\ n \in Nat /\ t \in original.active
        /\ n > t /\ n + 1 > t /\ n # t /\ t \in trace.active /\ t \in d.events
        /\ Slice(n, trace, d) /\ PrefixKept(trace, t)
        /\ \A e \in trace.active : e \in Events /\ e \in Nat /\ e < n
    BY SlicedFacts
  <1>2. /\ DOMAIN trace.producer = DOMAIN trace.state
        /\ \A a \in DOMAIN trace.state \ DOMAIN program.initial :
              trace.producer[a] \in Events /\ Out(trace.producer[a]) = a
        /\ Out(n) \notin DOMAIN program.initial
        /\ Producer(Out(n)) = n => /\ Out(n) \in DOMAIN trace.state
                                   /\ trace.producer[Out(n)] = n
    BY <1>1, TraceFacts
  <1>3. /\ n \in original.active /\ Producer(Out(n)) = n
        /\ ReadSet(Cmd(n)) \cap d.artifacts = {}
    BY DEF ShouldExecute
  <1>4. /\ Out(n) \in DOMAIN trace.state /\ trace.producer[Out(n)] = n
        /\ n \notin trace.active
        /\ Out(n) \in DOMAIN original.state
        /\ trace.state[Out(n)] = original.state[Out(n)]
    BY <1>1, <1>2, <1>3 DEF Slice
  <1>5. \A e \in trace.active : Out(e) \in DOMAIN trace.state /\ trace.producer[Out(e)] = e
    BY <1>1 DEF Slice
  <1>6. \A e \in DOMAIN w.decisions :
            e # n => e \in DOMAIN trace.decisions /\ w.decisions[e] = trace.decisions[e]
    BY DEF Put
  <1>7. Slice(n + 1, w, d)
    <2>1. w.active \subseteq {e \in Events : e < n + 1}
      BY <1>1
    <2>2. DOMAIN program.initial \subseteq DOMAIN w.state
      BY <1>1 DEF Slice
    <2>3. \A e \in w.active : Out(e) \in DOMAIN w.state /\ w.producer[Out(e)] = e
      BY <1>4, <1>5
    <2>4. ASSUME NEW a \in DOMAIN w.state \ DOMAIN program.initial, w.producer[a] \notin w.active
          PROVE  /\ w.producer[a] >= n + 1
                 /\ a \in DOMAIN original.state
                 /\ w.state[a] = original.state[a]
      <3>1. trace.producer[a] \notin trace.active /\ trace.producer[a] # n
        BY <2>4
      <3>2. /\ trace.producer[a] >= n
            /\ a \in DOMAIN original.state
            /\ trace.state[a] = original.state[a]
        BY <1>1, <2>4, <3>1 DEF Slice
      <3>3. trace.producer[a] \in Nat
        BY <1>1, <1>2, <2>4
      <3> QED
        BY <1>1, <3>1, <3>2, <3>3
    <2>5. \A e \in w.active \ d.events :
              e \in original.active /\ w.state[Out(e)] = original.state[Out(e)]
      BY <1>1, <1>3, <1>4 DEF Slice
    <2>6. DOMAIN w.decisions = {e \in w.active : IsPolicy(e)}
      BY <1>1 DEF Slice, Put
    <2> QED
      BY <2>1, <2>2, <2>3, <2>4, <2>5, <2>6 DEF Slice
  <1>8. PrefixKept(w, t)
    <2>1. \A e \in trace.active : Out(e) \in DOMAIN w.state
                                  /\ w.state[Out(e)] = trace.state[Out(e)]
      BY <1>5
    <2> QED
      BY <1>1, <1>6, <2>1, SuffixKeepsPrefix
  <1>9. ASSUME NEW F, Requested(request, F)
        PROVE  SliceFollows(request, n + 1, w, d, F)
    <2> DEFINE keys == KeysBefore(F.state, F.active, t, n)
               G == NoOp(t)
    <2>1. /\ IsBranch(F, t) /\ Follows(trace, F, n) /\ n \in F.active
          /\ SliceFollows(request, n, trace, d, F)
          /\ CacheIs(trace.cache, base, keys)
          /\ Inputs(n) \subseteq Before(F.active, n)
      BY <1>9, SlicedBranchFacts
    <2>2. end \in Nat /\ Run(F, base, t, end) /\ F.active \subseteq Nat
      BY <1>1, <2>1, BranchFacts
    <2>3. /\ Run(G, base, t, end)
          /\ G.state = original.state /\ G.active = original.active /\ G.cache = base
      <3>1. IsBranch(G, t)
        BY <1>1, NoOpIsBranch
      <3> QED
        BY <3>1 DEF IsBranch, NoOp
    <2> HIDE DEF end, G, keys
    (* None of the inputs is dirty. *)
    <2>4. Inputs(n) \subseteq ReadSet(Cmd(n))
      BY EventFacts DEF TypeOK
    <2>5. \A a \in Inputs(n) : a \in DOMAIN G.state /\ G.state[a] = F.state[a]
      BY <1>3, <2>1, <2>3, <2>4 DEF SliceFollows
    <2>6. Inputs(n) \subseteq DOMAIN F.state
      BY <1>1, <2>1, <2>2, RunInputs DEF Run
    <2>7. /\ CacheIs(F.cache, base, KeysBefore(F.state, F.active, t, end))
          /\ CacheIs(G.cache, base, KeysBefore(G.state, G.active, t, end))
      BY <2>2, <2>3 DEF Run
    <2>8. /\ Value(n, G) = Value(n, F)
          /\ IsPolicy(n) => Key(n, G.state) = Key(n, F.state)
      BY <2>5, <2>6, <2>7, SameValue
    <2>9. F.state[Out(n)] = original.state[Out(n)]
      BY <1>1, <1>3, <2>1, <2>2, <2>3, <2>8 DEF Run
    <2>10. IsPolicy(n) => Key(n, F.state) \in DOMAIN base
      <3>1. IsPolicy(n) => n \in CallsBefore(G.active, t, end)
        BY <1>1, <1>3, <2>1, <2>3, BranchFacts DEF CallsBefore, end
      <3>2. IsPolicy(n) => Key(n, G.state) \in KeysBefore(G.state, G.active, t, end)
        BY <3>1 DEF KeysBefore
      <3> QED
        BY <2>3, <2>7, <2>8, <3>2 DEF CacheIs
    <2>11. Follows(w, F, n + 1)
      <3>1. \A a \in Before(F.active, n) : a \in DOMAIN w.state /\ w.state[a] = trace.state[a]
        BY <2>1 DEF Follows
      <3>2. w.active = IF n \in F.active THEN trace.active \cup {n} ELSE trace.active
        BY <2>1
      <3>3. Out(n) \in DOMAIN w.state /\ w.state[Out(n)] = F.state[Out(n)]
        BY <1>4, <2>9
      <3> QED
        BY <2>1, <2>2, <3>1, <3>2, <3>3, FollowNext
    <2>12. CacheIs(w.cache, base, KeysBefore(F.state, F.active, t, n + 1))
      <3>1. KeysBefore(F.state, F.active, t, n + 1)
               = KeysBefore(F.state, F.active, t, n)
                    \cup (IF n \in F.active THEN NewKeys(F, t, n) ELSE {})
        BY <2>1, BranchKeysNext
      <3>2. KeysBefore(F.state, F.active, t, n + 1)
               = KeysBefore(F.state, F.active, t, n) \cup NewKeys(F, t, n)
        BY <2>1, <3>1
      <3>3. NewKeys(F, t, n) \subseteq DOMAIN base
        BY <2>10 DEF NewKeys
      <3>4. /\ IsDict(trace.cache)
            /\ DOMAIN trace.cache = DOMAIN base \cup KeysBefore(F.state, F.active, t, n)
            /\ \A k \in DOMAIN trace.cache : trace.cache[k] = Action(base, k)
        BY <2>1 DEF CacheIs, keys
      <3>5. DOMAIN trace.cache = DOMAIN base \cup KeysBefore(F.state, F.active, t, n + 1)
        BY <3>2, <3>3, <3>4
      <3> QED
        BY <3>4, <3>5 DEF CacheIs
    <2>13. \A e \in DOMAIN w.decisions : SliceDecision(w, F, e)
      <3>1. ASSUME NEW e \in DOMAIN w.decisions, e # n
            PROVE  SliceDecision(w, F, e)
        <4>1. e \in DOMAIN trace.decisions /\ w.decisions[e] = trace.decisions[e]
          BY <1>6, <3>1
        <4> QED
          BY <2>1, <4>1 DEF SliceFollows, SliceDecision
      <3>2. ASSUME n \in DOMAIN w.decisions
            PROVE  SliceDecision(w, F, n)
        <4>1. IsPolicy(n)
          BY <1>7, <3>2 DEF Slice
        <4>2. F.decisions[n] = Reason(F, base, t, n)
          BY <2>1, <2>2, <4>1 DEF Run
        <4>3. F.decisions[n] = "exact_key_match"
          BY <1>1, <2>10, <4>1, <4>2 DEF Reason
        <4>4. w.decisions[n] = "unchanged_event_reuse"
          BY <4>1 DEF Put
        <4> QED
          BY <2>10, <4>1, <4>3, <4>4 DEF SliceDecision
      <3> QED
        BY <3>1, <3>2
    <2>14. \A a \in Before(F.active, n + 1) \ d.artifacts :
              a \in DOMAIN original.state /\ original.state[a] = F.state[a]
      <3>1. Before(F.active, n + 1) = Before(F.active, n) \cup {Out(n)}
        BY <1>1, <2>1, <2>2, BeforeNext
      <3> QED
        BY <1>4, <2>1, <2>9, <3>1 DEF SliceFollows
    <2> QED
      BY <2>11, <2>12, <2>13, <2>14 DEF SliceFollows
  <1> QED
    BY <1>1, <1>7, <1>8, <1>9 DEF SlicedAt

LEMMA SlicedReturns ==
    ASSUME TypeOK, SlicedAt(request, pos, trace, dirty), pos = EventCount + 1
    PROVE  OutcomeAt(request, request.mode, Returned)
  <1> DEFINE o == Returned
             t == request.target
             end == EventCount + 1
             base == original.cache
  <1>1. /\ request.mode = "sliced" /\ t \in Nat /\ end \in Nat
        /\ Slice(end, trace, dirty) /\ PrefixKept(trace, t)
        /\ \A e \in trace.active : e \in Events /\ e \in Nat /\ e < end
        /\ \A e \in Events : e \in Nat /\ e < end
    <2>1. end \in Nat /\ pos = end
      BY SlicedFacts, RequestFacts
    <2>2. \A e \in Events : e \in Nat /\ e < end
      BY <2>1, EventFacts DEF TypeOK, Events
    <2> HIDE DEF end
    <2> QED
      BY <2>1, <2>2, SlicedFacts
  <1>2. /\ o.returned /\ o.state = trace.state /\ o.active = trace.active
        /\ o.cache = trace.cache /\ o.decisions = trace.decisions
        /\ o.reexecuted = {e \in trace.active : e > t} \cap dirty.events
    BY <1>1 DEF Returned, Suffix
  <1> HIDE DEF o, end
  <1>3. PrefixKept(o, t)
    BY <1>1, <1>2 DEF PrefixKept
  <1>4. ASSUME NEW e \in o.active \ (o.reexecuted \cup {t})
        PROVE  e \in original.active /\ o.state[Out(e)] = original.state[Out(e)]
    <2>1. e < t \/ (e > t /\ e \notin dirty.events)
      BY <1>1, <1>2, <1>4
    <2>2. CASE e < t
      BY <1>3, <1>4, <2>2 DEF PrefixKept
    <2>3. CASE e \notin dirty.events
      BY <1>1, <1>2, <1>4, <2>3 DEF Slice
    <2> QED
      BY <2>1, <2>2, <2>3
  (* Every leftover of the original branch has been removed.                *)
  <1>5. DOMAIN trace.state = Before(trace.active, end)
    <2>1. ASSUME NEW a \in DOMAIN trace.state \ DOMAIN program.initial
          PROVE  \E e \in trace.active : e < end /\ Out(e) = a
      <3>1. trace.producer[a] \in Events /\ Out(trace.producer[a]) = a
        BY <2>1, TraceFacts
      <3>2. trace.producer[a] \in trace.active
        BY <1>1, <2>1, <3>1 DEF Slice
      <3> QED
        BY <1>1, <3>1, <3>2
    <2>2. \A e \in trace.active : Out(e) \in DOMAIN trace.state
      BY <1>1 DEF Slice
    <2>3. DOMAIN program.initial \subseteq DOMAIN trace.state
      BY <1>1 DEF Slice
    <2> QED
      BY <2>1, <2>2, <2>3 DEF Before
  <1>6. ASSUME NEW F, Requested(request, F)
        PROVE  SameBranch(o, F)
    <2>1. /\ IsBranch(F, t) /\ Follows(trace, F, end)
          /\ SliceFollows(request, end, trace, dirty, F)
          /\ CacheIs(trace.cache, base, KeysBefore(F.state, F.active, t, end))
      BY <1>6, SlicedBranchFacts DEF end
    <2>2. /\ trace.active = F.active
          /\ \A a \in DOMAIN F.state : a \in DOMAIN trace.state /\ trace.state[a] = F.state[a]
          /\ DOMAIN F.state = Before(F.active, end)
          /\ IsDict(F.state) /\ IsDict(F.cache)
          /\ DOMAIN F.decisions = {e \in F.active : IsPolicy(e)}
          /\ CacheIs(F.cache, base, KeysBefore(F.state, F.active, t, end))
      BY <2>1, FollowedToTheEnd DEF end
    <2>3. trace.state = F.state
      BY <1>5, <2>2, SameDict DEF TypeOK, IsTrace
    <2>4. trace.cache = F.cache
      <3>1. /\ IsDict(trace.cache) /\ DOMAIN trace.cache = DOMAIN F.cache
            /\ \A k \in DOMAIN trace.cache : trace.cache[k] = F.cache[k]
        BY <2>1, <2>2 DEF CacheIs
      <3> QED
        BY <2>2, <3>1, SameDict
    <2>5. DOMAIN trace.decisions = DOMAIN F.decisions
      BY <1>1, <2>2 DEF Slice
    <2>6. \A e \in DOMAIN F.decisions : SliceDecision(o, F, e)
      BY <1>2, <2>1, <2>5 DEF SliceFollows, SliceDecision
    <2> QED
      BY <1>2, <2>2, <2>3, <2>4, <2>5, <2>6 DEF SameBranch
  <1>7. OutcomeAt(request, request.mode, o)
    BY <1>1, <1>2, <1>3, <1>4, <1>6 DEF OutcomeAt
  <1> QED
    BY <1>7 DEF o

LEMMA SlicedRaises ==
    ASSUME TypeOK, SlicedAt(request, pos, trace, dirty),
           \/ pos \in Events /\ CannotSlice
           \/ pos = EventCount + 1 /\ TerminalMissing
    PROVE  OutcomeAt(request, request.mode, Aborted)
  <1> DEFINE t == request.target
  <1>1. Aborted.returned = FALSE /\ Aborted.at > t
    BY SlicedFacts DEF Aborted
  <1>2. ASSUME NEW F, Requested(request, F)
        PROVE  FALSE
    <2>1. IsBranch(F, t) /\ Follows(trace, F, pos)
      BY <1>2, SlicedBranchFacts
    <2>2. CASE pos \in Events /\ CannotSlice
      <3>1. /\ pos \in F.active
            /\ HasRival(pos)
        BY <1>2, <2>2, SlicedBranchFacts DEF CannotSlice
      <3>2. PICK d \in trace.active : d # pos /\ Producer(Out(pos)) = d
        BY <3>1 DEF HasRival
      <3>3. d \in F.active /\ d \in Events /\ d # 0
        BY <2>1, SlicedFacts, TraceFacts DEF Follows
      <3>4. Out(d) = Out(pos)
        BY <2>2, <3>2, <3>3, TraceFacts
      <3> QED
        BY <2>1, <3>1, <3>2, <3>3, <3>4 DEF IsBranch, Run, Ordered
    <2>3. CASE pos = EventCount + 1 /\ TerminalMissing
      <3>1. program.terminal \in DOMAIN trace.state
        BY <2>1, <2>3, FollowedToTheEnd
      <3> QED
        BY <2>3, <3>1 DEF TerminalMissing
    <2> QED
      BY <2>2, <2>3
  <1> QED
    BY <1>1, <1>2 DEF OutcomeAt

-----------------------------------------------------------------------------
(* The original run, and the start of a prefix. *)

LEMMA EmptyIsRun ==
    ASSUME TypeOK, NEW cache, NEW t, IsDict(cache)
    PROVE  /\ Run(EmptyTrace(cache), cache, t, 1)
           /\ ProducersMatch(EmptyTrace(cache))
  <1> DEFINE b == EmptyTrace(cache)
  <1>1. /\ b.state = program.initial /\ b.active = {} /\ b.cache = cache
        /\ b.decisions = EmptyDict /\ b.producer = [a \in DOMAIN program.initial |-> 0]
    BY DEF EmptyTrace
  <1> HIDE DEF b
  <1>2. \A e \in Events : e \in Nat /\ ~(e < 1)
    BY EventFacts DEF TypeOK, Events
  <1>3. Before(b.active, 1) = DOMAIN program.initial
    BY <1>1 DEF Before
  <1>4. Ordered(b, t, 1)
    BY <1>1, <1>2, <1>3, EventFacts DEF Ordered, TypeOK
  <1>5. KeysBefore(b.state, b.active, t, 1) = {}
    BY <1>1 DEF KeysBefore, CallsBefore
  <1>6. CacheIs(b.cache, cache, KeysBefore(b.state, b.active, t, 1))
    BY <1>1, <1>5 DEF CacheIs, Action
  <1>7. IsDict(b.decisions) /\ DOMAIN b.decisions = {}
    BY <1>1 DEF EmptyDict, IsDict
  <1>8. Run(b, cache, t, 1)
    BY <1>1, <1>2, <1>4, <1>6, <1>7 DEF Run
  <1>9. ProducersMatch(b)
    BY <1>1 DEF ProducersMatch, IsDict
  <1> QED
    BY <1>8, <1>9 DEF b

LEMMA OriginalExecutes ==
    ASSUME TypeOK, NEW n \in Events, NEW b, MaterializedAt(n, b), IsTrace(b),
           IsActive(n, b.state), Out(n) \notin DOMAIN b.state, Value(n, b) # Raised
    PROVE  MaterializedAt(n + 1, Written(Resolved(n, b), n, Value(n, b)))
  <1> DEFINE v == Value(n, b)
             w == Written(Resolved(n, b), n, v)
  <1>1. PICK base \in InitialCaches : Run(b, base, 0, n) /\ ProducersMatch(b)
    BY DEF MaterializedAt
  <1>2. n # 0
    BY EventFacts DEF TypeOK, Events
  <1>3. /\ Grown(w, b, base, 0, n, v)
        /\ w.producer = Put(b.producer, Out(n), n)
    BY <1>1, <1>2, ExecutionGrows
  <1> HIDE DEF w, v
  <1>4. v = Value(n, b)
    BY DEF v
  <1>5. Run(w, base, 0, n + 1)
    BY <1>1, <1>3, <1>4, RunExtends
  <1>6. ProducersMatch(w)
    BY <1>1, <1>3, ProducersGrow DEF Run
  <1>7. MaterializedAt(n + 1, w)
    BY <1>5, <1>6 DEF MaterializedAt
  <1> QED
    BY <1>7 DEF w, v

LEMMA OriginalSkips ==
    ASSUME TypeOK, NEW n \in Events, NEW b, MaterializedAt(n, b), IsInactive(n, b.state)
    PROVE  MaterializedAt(n + 1, b)
  <1>1. PICK base \in InitialCaches : Run(b, base, 0, n) /\ ProducersMatch(b)
    BY DEF MaterializedAt
  <1>2. Run(b, base, 0, n + 1)
    BY <1>1, RunSkips
  <1> QED
    BY <1>1, <1>2 DEF MaterializedAt

LEMMA PrefixBegins ==
    ASSUME TypeOK, OriginalIsRun, NEW r, RequestAt(r)
    PROVE  PrefixAt(r, 1, EmptyTrace(original.cache))
  <1> DEFINE b == EmptyTrace(original.cache)
             t == r.target
  <1>1. Run(b, original.cache, t, 1) /\ ProducersMatch(b)
    BY EmptyIsRun DEF TypeOK, IsTrace
  <1>2. b.active = {} /\ b.state = program.initial
    BY DEF EmptyTrace
  <1> HIDE DEF b
  <1>3. ASSUME NEW F, IsBranch(F, t)
        PROVE  Follows(b, F, 1)
    <2>1. /\ \A e \in F.active : e \in Nat /\ ~(e < 1)
          /\ \A a \in DOMAIN program.initial : F.state[a] = program.initial[a]
      BY <1>3, EventFacts DEF TypeOK, Events, IsBranch, Run, Ordered
    <2>2. {e \in F.active : e < 1} = {}
      BY <2>1
    <2>3. Before(F.active, 1) = DOMAIN program.initial
      BY <2>2 DEF Before
    <2> QED
      BY <1>2, <2>1, <2>2, <2>3 DEF Follows
  <1>4. t \in Nat /\ 1 <= t
    BY RequestFacts DEF Events
  <1>5. PrefixAt(r, 1, b)
    BY <1>1, <1>3, <1>4 DEF PrefixAt
  <1> QED
    BY <1>5 DEF b

-----------------------------------------------------------------------------
(* Types. *)

LEMMA Outputs ==
    ASSUME TypeOK
    PROVE  \A e \in Events : Out(e) \in Available(program, EventCount + 1)
  <1>1. EventCount \in Nat
    BY EventFacts DEF TypeOK
  <1>2. \A k : \A e \in 1..(k - 1) : program.commands[e].output \in Available(program, k)
    BY DEF Available
  <1>3. PICK k \in Int : k = EventCount + 1
    BY <1>1
  <1>4. k - 1 = EventCount
    BY <1>1, <1>3
  <1>5. \A e \in Events : Out(e) \in Available(program, k)
    BY <1>2, <1>4 DEF Events, Out
  <1> QED
    BY <1>3, <1>5

LEMMA WrittenIsTrace ==
    ASSUME TypeOK, NEW b, IsTrace(b), NEW e \in Events, NEW v
    PROVE  IsTrace(Written(b, e, v))
  <1> DEFINE w == Written(b, e, v)
  <1>1. /\ w.state = Put(b.state, Out(e), v)
        /\ w.producer = Put(b.producer, Out(e), e)
        /\ w.active = b.active \cup {e} /\ w.cache = b.cache /\ w.decisions = b.decisions
    BY WrittenFields DEF IsTrace
  <1>2. w = [state |-> w.state, producer |-> w.producer, active |-> w.active,
             cache |-> w.cache, decisions |-> w.decisions]
    <2> DEFINE s == Put(b.state, Out(e), v)
               p == Put(b.producer, Out(e), e)
    <2>1. w = [b EXCEPT !.state = s, !.producer = p, !.active = b.active \cup {e}]
      BY DEF Written
    <2>2. b = [state |-> b.state, producer |-> b.producer, active |-> b.active,
               cache |-> b.cache, decisions |-> b.decisions]
      BY DEF IsTrace
    <2> HIDE DEF w, s, p
    <2> QED
      BY <2>1, <2>2
  <1> HIDE DEF w
  <1>3. /\ DOMAIN w.state = DOMAIN b.state \cup {Out(e)}
        /\ DOMAIN w.producer = DOMAIN b.producer \cup {Out(e)}
        /\ w.producer[Out(e)] = e
        /\ \A a \in DOMAIN b.producer : a # Out(e) => w.producer[a] = b.producer[a]
        /\ IsDict(w.state) /\ IsDict(w.producer)
    BY <1>1 DEF Put, IsDict
  <1>4. /\ Out(e) \in Available(program, EventCount + 1)
        /\ Out(e) \notin DOMAIN program.initial
    BY Outputs, EventFacts DEF TypeOK
  <1>5. IsTrace(w)
    BY <1>1, <1>2, <1>3, <1>4 DEF IsTrace
  <1> QED
    BY <1>5 DEF w

LEMMA ResolvedIsTrace ==
    ASSUME NEW b, IsTrace(b), NEW e \in Events
    PROVE  IsTrace(Resolved(e, b))
  <1>1. CASE ~IsPolicy(e)
    BY <1>1 DEF Resolved
  <1>2. CASE IsPolicy(e)
    <2> DEFINE w == Resolved(e, b)
               key == Key(e, b.state)
               act == Action(b.cache, key)
               why == IF key \in DOMAIN b.cache THEN "exact_key_match"
                                                ELSE "key_changed_or_missing"
    <2>1. w = [b EXCEPT !.cache = Put(b.cache, key, act),
                        !.decisions = Put(b.decisions, e, why)]
      BY <1>2 DEF Resolved
    <2> HIDE DEF w, key, act, why
    <2>2. b = [state |-> b.state, producer |-> b.producer, active |-> b.active,
               cache |-> b.cache, decisions |-> b.decisions]
      BY DEF IsTrace
    <2>3. /\ w = [state |-> w.state, producer |-> w.producer, active |-> w.active,
                  cache |-> w.cache, decisions |-> w.decisions]
          /\ w.state = b.state /\ w.producer = b.producer /\ w.active = b.active
          /\ w.cache = Put(b.cache, key, act)
          /\ w.decisions = Put(b.decisions, e, why)
      BY <2>1, <2>2
    <2>4. IsDict(w.cache) /\ IsDict(w.decisions) /\ DOMAIN w.decisions = DOMAIN b.decisions \cup {e}
      BY <2>3 DEF Put, IsDict
    <2>5. IsTrace(w)
      BY <1>2, <2>3, <2>4 DEF IsTrace
    <2> QED
      BY <2>5 DEF w
  <1> QED
    BY <1>1, <1>2

LEMMA EmptyIsTrace ==
    ASSUME NEW cache, IsDict(cache), program \in Programs
    PROVE  IsTrace(EmptyTrace(cache))
  <1> DEFINE b == EmptyTrace(cache)
  <1>1. /\ b.state = program.initial /\ b.active = {} /\ b.cache = cache
        /\ b.decisions = EmptyDict /\ b.producer = [a \in DOMAIN program.initial |-> 0]
        /\ b = [state |-> b.state, producer |-> b.producer, active |-> b.active,
                cache |-> b.cache, decisions |-> b.decisions]
    BY DEF EmptyTrace
  <1> HIDE DEF b
  <1>2. IsDict(program.initial) /\ IsDict(b.producer) /\ IsDict(EmptyDict) /\ DOMAIN EmptyDict = {}
    BY <1>1, ProgramsAssumption DEF IsDict, EmptyDict
  <1>3. DOMAIN program.initial \subseteq Available(program, EventCount + 1)
    BY DEF Available
  <1>4. IsTrace(b)
    BY <1>1, <1>2, <1>3 DEF IsTrace
  <1> QED
    BY <1>4 DEF b

LEMMA ReplacedIsTrace ==
    ASSUME TypeOK, request.target \in Events
    PROVE  IsTrace(Replaced)
  <1> DEFINE t == request.target
             u == Written(trace, t, request.replacement)
             w == Replaced
  <1>1. IsTrace(u)
    BY WrittenIsTrace DEF TypeOK
  <1>2. w = IF IsPolicy(t) THEN [u EXCEPT !.decisions = Put(@, t, "intervention_action")] ELSE u
    BY DEF Replaced
  <1> HIDE DEF u, w
  <1>3. CASE IsPolicy(t)
    <2>1. w = [u EXCEPT !.decisions = Put(u.decisions, t, "intervention_action")]
      BY <1>2, <1>3
    <2>2. u = [state |-> u.state, producer |-> u.producer, active |-> u.active,
               cache |-> u.cache, decisions |-> u.decisions]
      BY <1>1 DEF IsTrace
    <2>3. /\ w = [state |-> w.state, producer |-> w.producer, active |-> w.active,
                  cache |-> w.cache, decisions |-> w.decisions]
          /\ w.state = u.state /\ w.producer = u.producer /\ w.active = u.active
          /\ w.cache = u.cache
          /\ w.decisions = Put(u.decisions, t, "intervention_action")
      BY <2>1, <2>2
    <2>4. IsDict(w.decisions) /\ DOMAIN w.decisions = DOMAIN u.decisions \cup {t}
      BY <2>3 DEF Put, IsDict
    <2>5. IsTrace(w)
      BY <1>1, <1>3, <2>3, <2>4 DEF IsTrace
    <2> QED
      BY <2>5 DEF w
  <1>4. CASE ~IsPolicy(t)
    BY <1>1, <1>2, <1>4 DEF w
  <1> QED
    BY <1>3, <1>4

LEMMA OverlaidIsTrace ==
    ASSUME TypeOK, request.target \in Events
    PROVE  IsTrace(Overlaid)
  <1> DEFINE u == Replaced
             w == Overlaid
  <1>1. IsTrace(u) /\ IsTrace(original)
    BY ReplacedIsTrace DEF TypeOK
  <1>2. w = [u EXCEPT !.state = Update(original.state, u.state),
                      !.producer = Update(original.producer, u.producer)]
    BY <1>1 DEF Overlaid, IsTrace
  <1> HIDE DEF u, w
  <1>3. /\ w.state = Update(original.state, u.state)
        /\ w.producer = Update(original.producer, u.producer)
        /\ w.active = u.active /\ w.cache = u.cache /\ w.decisions = u.decisions
        /\ w = [state |-> w.state, producer |-> w.producer, active |-> w.active,
                cache |-> w.cache, decisions |-> w.decisions]
    <2> DEFINE s == Update(original.state, u.state)
               p == Update(original.producer, u.producer)
    <2>1. w = [u EXCEPT !.state = s, !.producer = p]
      BY <1>2
    <2>2. u = [state |-> u.state, producer |-> u.producer, active |-> u.active,
               cache |-> u.cache, decisions |-> u.decisions]
      BY <1>1 DEF IsTrace
    <2> HIDE DEF s, p
    <2>3. /\ w.state = s /\ w.producer = p
          /\ w.active = u.active /\ w.cache = u.cache /\ w.decisions = u.decisions
          /\ w = [state |-> w.state, producer |-> w.producer, active |-> w.active,
                  cache |-> w.cache, decisions |-> w.decisions]
      BY <2>1, <2>2
    <2> QED
      BY <2>3 DEF s, p
  <1>4. /\ IsDict(w.state) /\ DOMAIN w.state = DOMAIN original.state \cup DOMAIN u.state
        /\ IsDict(w.producer)
        /\ DOMAIN w.producer = DOMAIN original.producer \cup DOMAIN u.producer
        /\ \A a \in DOMAIN w.producer :
              w.producer[a] = IF a \in DOMAIN u.producer THEN u.producer[a]
                                                         ELSE original.producer[a]
    BY <1>3 DEF Update, IsDict
  <1>5. IsTrace(w)
    BY <1>1, <1>3, <1>4 DEF IsTrace
  <1> QED
    BY <1>5 DEF w

(* What RemoveInactive and ReuseClean leave. *)
Stripped == [trace EXCEPT !.state = Without(@, Out(pos)), !.producer = Without(@, Out(pos))]

Reused == [trace EXCEPT !.active = @ \cup {pos},
                        !.decisions = IF IsPolicy(pos)
                                      THEN Put(@, pos, "unchanged_event_reuse") ELSE @]

LEMMA RemovedIsTrace ==
    ASSUME TypeOK
    PROVE  /\ IsTrace(Stripped)
           /\ Stripped.state = Without(trace.state, Out(pos))
           /\ Stripped.producer = Without(trace.producer, Out(pos))
           /\ Stripped.active = trace.active /\ Stripped.cache = trace.cache
           /\ Stripped.decisions = trace.decisions
  <1> DEFINE w == Stripped
             s == Without(trace.state, Out(pos))
             p == Without(trace.producer, Out(pos))
  <1>1. IsTrace(trace)
    BY DEF TypeOK
  <1>2. w = [trace EXCEPT !.state = s, !.producer = p]
    BY DEF Stripped
  <1>3. trace = [state |-> trace.state, producer |-> trace.producer, active |-> trace.active,
                 cache |-> trace.cache, decisions |-> trace.decisions]
    BY <1>1 DEF IsTrace
  <1>4. /\ IsDict(s) /\ DOMAIN s = DOMAIN trace.state \ {Out(pos)}
        /\ IsDict(p) /\ DOMAIN p = DOMAIN trace.producer \ {Out(pos)}
        /\ \A a \in DOMAIN p : p[a] = trace.producer[a]
    BY DEF Without, Restrict, IsDict
  <1> HIDE DEF w, s, p
  <1>5. /\ w.state = s /\ w.producer = p
        /\ w.active = trace.active /\ w.cache = trace.cache /\ w.decisions = trace.decisions
        /\ w = [state |-> w.state, producer |-> w.producer, active |-> w.active,
                cache |-> w.cache, decisions |-> w.decisions]
    BY <1>2, <1>3
  <1>6. IsTrace(w)
    BY <1>1, <1>4, <1>5 DEF IsTrace
  <1> QED
    BY <1>5, <1>6 DEF w, s, p

LEMMA ReusedIsTrace ==
    ASSUME TypeOK, pos \in Events
    PROVE  /\ IsTrace(Reused)
           /\ Reused.state = trace.state /\ Reused.producer = trace.producer
           /\ Reused.active = trace.active \cup {pos} /\ Reused.cache = trace.cache
           /\ Reused.decisions = IF IsPolicy(pos)
                                 THEN Put(trace.decisions, pos, "unchanged_event_reuse")
                                 ELSE trace.decisions
  <1> DEFINE w == Reused
             s == IF IsPolicy(pos) THEN Put(trace.decisions, pos, "unchanged_event_reuse")
                                   ELSE trace.decisions
             x == trace.active \cup {pos}
  <1>1. IsTrace(trace)
    BY DEF TypeOK
  <1>2. w = [trace EXCEPT !.active = x, !.decisions = s]
    BY DEF Reused
  <1>3. trace = [state |-> trace.state, producer |-> trace.producer, active |-> trace.active,
                 cache |-> trace.cache, decisions |-> trace.decisions]
    BY <1>1 DEF IsTrace
  <1>4. /\ IsDict(s) /\ DOMAIN s \subseteq {e \in Events : IsPolicy(e)}
        /\ x \subseteq Events
    BY <1>1 DEF Put, IsDict, IsTrace
  <1> HIDE DEF w, s, x
  <1>5. /\ w.state = trace.state /\ w.producer = trace.producer
        /\ w.active = x /\ w.cache = trace.cache /\ w.decisions = s
        /\ w = [state |-> w.state, producer |-> w.producer, active |-> w.active,
                cache |-> w.cache, decisions |-> w.decisions]
    BY <1>2, <1>3
  <1>6. IsTrace(w)
    BY <1>1, <1>4, <1>5 DEF IsTrace
  <1> QED
    BY <1>5, <1>6 DEF w, s, x

(* What an operator says of the values of the next state, it says in it.    *)
LEMMA TypesPrimed ==
    ASSUME program \in Programs, WellFormed(program), UNCHANGED program,
           phase' \in {"original", "idle", "prefix", "full", "sliced", "failed"},
           pos' \in 1..(EventCount + 1),
           IsTrace(trace'), IsTrace(original'),
           request' = NoRequest \/
              request' \in [target : Events, replacement : Replacements, mode : Modes],
           dirty'.artifacts \subseteq Available(program, EventCount + 1),
           dirty'.events \subseteq Events,
           IsDict(results'), DOMAIN results' \subseteq Modes
    PROVE  TypeOK'
  BY DEF TypeOK, IsTrace, Events, EventCount, Out, IsPolicy, Cmd

LEMMA InitIsTyped == Init => TypeOK
  <1> SUFFICES ASSUME Init PROVE TypeOK
    OBVIOUS
  <1>1. program \in Programs /\ WellFormed(program)
    BY DEF Init
  <1>2. IsTrace(trace)
    BY <1>1, EmptyIsTrace, CachesAssumption DEF Init
  <1>3. pos \in 1..(EventCount + 1)
    BY <1>1, EventFacts DEF Init
  <1>4. IsDict(results) /\ DOMAIN results = {}
    BY DEF Init, EmptyDict, IsDict
  <1> QED
    BY <1>1, <1>2, <1>3, <1>4 DEF Init, TypeOK, Clean

(* Where the loops are. *)
LEMMA Positions ==
    ASSUME TypeOK
    PROVE  /\ EventCount \in Nat /\ pos \in Nat /\ Events \subseteq 1..(EventCount + 1)
           /\ pos \in Events => pos + 1 \in 1..(EventCount + 1)
           /\ Materializing => pos \in Events
           /\ phase = "prefix" /\ pos = request.target => pos \in Events
  <1>1. EventCount \in Nat
    BY EventFacts DEF TypeOK
  <1>2. pos \in Nat /\ pos >= 1 /\ Events = 1..EventCount
    BY <1>1 DEF TypeOK, Events
  <1>3. request.target \in Events \/ request.target = 0
    BY DEF TypeOK, NoRequest
  <1>4. Materializing => pos \in Events
    BY <1>1, <1>2, <1>3 DEF Materializing
  <1> QED
    BY <1>1, <1>2, <1>3, <1>4

LEMMA StepIsTyped == TypeOK /\ [Next]_vars => TypeOK'
  <1> SUFFICES ASSUME TypeOK, [Next]_vars PROVE TypeOK'
    OBVIOUS
  <1>1. /\ program \in Programs /\ WellFormed(program)
        /\ phase \in {"original", "idle", "prefix", "full", "sliced", "failed"}
        /\ pos \in 1..(EventCount + 1)
        /\ IsTrace(trace) /\ IsTrace(original)
        /\ request = NoRequest \/
              request \in [target : Events, replacement : Replacements, mode : Modes]
        /\ dirty.artifacts \subseteq Available(program, EventCount + 1)
        /\ dirty.events \subseteq Events
        /\ IsDict(results) /\ DOMAIN results \subseteq Modes
        /\ request.mode \in Modes
    BY DEF TypeOK, NoRequest, Modes
  <1>2. /\ EventCount \in Nat /\ pos \in Nat /\ 1 \in 1..(EventCount + 1)
        /\ pos \in Events => pos + 1 \in 1..(EventCount + 1)
        /\ Materializing => pos \in Events
        /\ phase = "prefix" /\ pos = request.target => pos \in Events
    BY Positions
  <1>3. CASE SkipInactive
    BY <1>1, <1>2, <1>3, TypesPrimed DEF SkipInactive
  <1>4. CASE ExecuteActive
    <2>1. pos \in Events /\ IsTrace(trace')
      BY <1>1, <1>2, <1>4, ResolvedIsTrace, WrittenIsTrace DEF ExecuteActive
    <2> QED
      BY <1>1, <1>2, <1>4, <2>1, TypesPrimed DEF ExecuteActive
  <1>5. CASE OriginalRaises
    BY <1>1, <1>5, TypesPrimed DEF OriginalRaises
  <1>6. CASE FinishOriginal
    BY <1>1, <1>6, TypesPrimed DEF FinishOriginal
  <1>7. ASSUME NEW target \in Events, NEW replacement \in Replacements, NEW mode \in Modes,
               Replay(target, replacement, mode)
        PROVE  TypeOK'
    <2>1. IsTrace(trace')
      BY <1>1, <1>7, EmptyIsTrace DEF Replay, IsTrace
    <2>2. request' \in [target : Events, replacement : Replacements, mode : Modes]
      BY <1>7 DEF Replay
    <2>3. IsDict(results') /\ DOMAIN results' \subseteq Modes
      BY <1>1, <1>7 DEF Replay, EmptyDict, IsDict
    <2> QED
      BY <1>1, <1>2, <1>7, <2>1, <2>2, <2>3, TypesPrimed DEF Replay, Clean
  <1>8. CASE BeginFull
    <2>1. pos \in Events /\ IsTrace(trace')
      BY <1>2, <1>8, ReplacedIsTrace DEF BeginFull
    <2> QED
      BY <1>1, <1>2, <1>8, <2>1, TypesPrimed DEF BeginFull
  <1>9. CASE BeginSliced
    <2>1. pos \in Events /\ IsTrace(trace')
      BY <1>2, <1>9, OverlaidIsTrace DEF BeginSliced, Overlaid
    <2>2. /\ dirty'.artifacts \subseteq Available(program, EventCount + 1)
          /\ dirty'.events \subseteq Events
      BY <1>9, <2>1, Outputs DEF BeginSliced
    <2> QED
      BY <1>1, <1>2, <1>9, <2>1, <2>2, TypesPrimed DEF BeginSliced
  <1>10. CASE RemoveInactive
    <2>1. IsTrace(trace')
      BY <1>1, <1>10, RemovedIsTrace DEF RemoveInactive, Stripped
    <2> QED
      BY <1>1, <1>2, <1>10, <2>1, TypesPrimed DEF RemoveInactive
  <1>11. CASE ExecuteDirty
    <2>1. pos \in Events /\ IsTrace(trace')
      BY <1>1, <1>11, ResolvedIsTrace, WrittenIsTrace DEF ExecuteDirty
    <2>2. /\ dirty'.artifacts \subseteq Available(program, EventCount + 1)
          /\ dirty'.events \subseteq Events
      BY <1>1, <1>11, <2>1, Outputs DEF ExecuteDirty
    <2> QED
      BY <1>1, <1>2, <1>11, <2>1, <2>2, TypesPrimed DEF ExecuteDirty
  <1>12. CASE ReuseClean
    <2>1. pos \in Events /\ IsTrace(trace')
      BY <1>12, ReusedIsTrace DEF ReuseClean, Reused
    <2> QED
      BY <1>1, <1>2, <1>12, <2>1, TypesPrimed DEF ReuseClean
  <1>13. CASE Return
    <2>1. IsDict(results') /\ DOMAIN results' \subseteq Modes
      BY <1>1, <1>13 DEF Return, Put, IsDict
    <2> QED
      BY <1>1, <1>13, <2>1, TypesPrimed DEF Return
  <1>14. CASE ReplayRaises
    <2>1. IsDict(results') /\ DOMAIN results' \subseteq Modes
      BY <1>1, <1>14 DEF ReplayRaises, Put, IsDict
    <2> QED
      BY <1>1, <1>14, <2>1, TypesPrimed DEF ReplayRaises
  <1>15. CASE UNCHANGED vars
    BY <1>1, <1>15, TypesPrimed DEF vars
  <1> QED
    BY <1>3, <1>4, <1>5, <1>6, <1>7, <1>8, <1>9, <1>10, <1>11, <1>12, <1>13, <1>14, <1>15
       DEF Next

(* The engine's fields keep their types, and a trace records a producer     *)
(* for every artifact it holds and for no other.                           *)
THEOREM TypeCorrect == Spec => []TypeOK
  <1>1. TypeOK /\ [Next]_vars => TypeOK'
    BY StepIsTyped
  <1> QED
    BY InitIsTyped, <1>1, PTL DEF Spec

-----------------------------------------------------------------------------
(* The invariant of the next state, from the values of the next state.      *)

LEMMA ProgramPrimed ==
    ASSUME UNCHANGED program
    PROVE  /\ Events' = Events
           /\ \A e : IsPolicy(e)' <=> IsPolicy(e)
           /\ \A e, d : IsActive(e, d)' <=> IsActive(e, d)
           /\ \A e, b : Value(e, b)' = Value(e, b)
           /\ \A e : Out(e)' = Out(e)
           /\ \A e, d : Key(e, d)' = Key(e, d)
           /\ \A active, n : Before(active, n)' = Before(active, n)
           /\ \A d, active, t, n :
                 KeysBefore(d, active, t, n)' = KeysBefore(d, active, t, n)
  <1>1. /\ Events' = Events
        /\ \A e : IsPolicy(e)' <=> IsPolicy(e)
        /\ \A e, d : IsActive(e, d)' <=> IsActive(e, d)
        /\ \A e, b : Value(e, b)' = Value(e, b)
        /\ \A e : Out(e)' = Out(e)
        /\ \A e, d : Key(e, d)' = Key(e, d)
    BY DEF Events, EventCount, Out, IsPolicy, IsActive, GuardMissing, Value, Key,
           PromptReady, Cmd
  <1>2. \A active, n : Before(active, n)' = Before(active, n)
    BY DEF Before, Out
  <1>3. \A d, active, t, n : KeysBefore(d, active, t, n)' = KeysBefore(d, active, t, n)
    BY DEF KeysBefore, CallsBefore, Key, IsPolicy, Cmd
  <1> QED
    BY <1>1, <1>2, <1>3

LEMMA RunPrimed ==
    ASSUME UNCHANGED program
    PROVE  \A b, base, t, n : Run(b, base, t, n)' <=> Run(b, base, t, n)
  <1>1. \A b, base, t, e : Reason(b, base, t, e)' = Reason(b, base, t, e)
    BY ProgramPrimed DEF Reason
  <1>2. \A b, t, n : Ordered(b, t, n)' <=> Ordered(b, t, n)
    BY DEF Ordered, Before, Events, EventCount, Out, Cmd, Inputs, IsPolicy
  <1> QED
    BY <1>1, <1>2, ProgramPrimed DEF Run

LEMMA MaterializedPrimed ==
    ASSUME UNCHANGED program
    PROVE  /\ \A b : ProducersMatch(b)' <=> ProducersMatch(b)
           /\ \A n, b : MaterializedAt(n, b)' <=> MaterializedAt(n, b)
  <1>1. \A b : ProducersMatch(b)' <=> ProducersMatch(b)
    BY DEF ProducersMatch, Out
  <1> QED
    BY <1>1, RunPrimed DEF MaterializedAt

LEMMA BranchPrimed ==
    ASSUME UNCHANGED program, UNCHANGED original
    PROVE  /\ \A F, t : IsBranch(F, t)' <=> IsBranch(F, t)
           /\ \A b, F, n : Follows(b, F, n)' <=> Follows(b, F, n)
           /\ \A r, F : Requested(r, F)' <=> Requested(r, F)
           /\ \A r : RequestAt(r)' <=> RequestAt(r)
           /\ \A b, t : PrefixKept(b, t)' <=> PrefixKept(b, t)
           /\ \A b, F, e : SliceDecision(b, F, e)' <=> SliceDecision(b, F, e)
           /\ OriginalIsRun' <=> OriginalIsRun
  <1>1. EventCount' = EventCount
    BY DEF EventCount
  <1>2. \A F, t : IsBranch(F, t)' <=> IsBranch(F, t)
    BY <1>1, RunPrimed DEF IsBranch
  <1>3. \A b, F, n : Follows(b, F, n)' <=> Follows(b, F, n)
    BY ProgramPrimed DEF Follows
  <1>4. \A r, F : Requested(r, F)' <=> Requested(r, F)
    BY <1>2, ProgramPrimed DEF Requested
  <1>5. \A r : RequestAt(r)' <=> RequestAt(r)
    BY ProgramPrimed DEF RequestAt
  <1>6. \A b, t : PrefixKept(b, t)' <=> PrefixKept(b, t)
    BY ProgramPrimed DEF PrefixKept
  <1>7. \A b, F, e : SliceDecision(b, F, e)' <=> SliceDecision(b, F, e)
    BY ProgramPrimed DEF SliceDecision
  <1>8. OriginalIsRun' <=> OriginalIsRun
    BY <1>1, MaterializedPrimed DEF OriginalIsRun
  <1> QED
    BY <1>2, <1>3, <1>4, <1>5, <1>6, <1>7, <1>8

LEMMA PhasesPrimed ==
    ASSUME UNCHANGED program, UNCHANGED original
    PROVE  /\ \A r, n, b : PrefixAt(r, n, b)' <=> PrefixAt(r, n, b)
           /\ \A r, n, b : FullAt(r, n, b)' <=> FullAt(r, n, b)
           /\ \A r, n, b, d : SlicedAt(r, n, b, d)' <=> SlicedAt(r, n, b, d)
           /\ \A r, res : ResultsAt(r, res)' <=> ResultsAt(r, res)
  <1>1. \A r, n, b : PrefixAt(r, n, b)' <=> PrefixAt(r, n, b)
    BY BranchPrimed, RunPrimed, MaterializedPrimed DEF PrefixAt
  <1>2. \A r, n, b : FullAt(r, n, b)' <=> FullAt(r, n, b)
    BY BranchPrimed, RunPrimed, MaterializedPrimed, ProgramPrimed DEF FullAt
  <1>3. \A n, b, d : Slice(n, b, d)' <=> Slice(n, b, d)
    BY ProgramPrimed DEF Slice
  <1>4. \A r, n, b, d, F : SliceFollows(r, n, b, d, F)' <=> SliceFollows(r, n, b, d, F)
    BY BranchPrimed, ProgramPrimed DEF SliceFollows
  <1>5. \A r, n, b, d : SlicedAt(r, n, b, d)' <=> SlicedAt(r, n, b, d)
    BY <1>3, <1>4, BranchPrimed DEF SlicedAt
  <1>6. \A o, F : SameBranch(o, F)' <=> SameBranch(o, F)
    BY BranchPrimed DEF SameBranch
  <1>7. \A r, m, o : OutcomeAt(r, m, o)' <=> OutcomeAt(r, m, o)
    BY <1>6, BranchPrimed, ProgramPrimed DEF OutcomeAt
  <1>8. \A r, res : ResultsAt(r, res)' <=> ResultsAt(r, res)
    BY <1>7, BranchPrimed DEF ResultsAt
  <1> QED
    BY <1>1, <1>2, <1>5, <1>8

LEMMA InvariantPrimed ==
    ASSUME UNCHANGED program, UNCHANGED original, TypeOK',
           phase' \in {"original", "failed"} => results' = EmptyDict /\ request' = NoRequest,
           phase' = "original" => MaterializedAt(pos', trace'),
           phase' \notin {"original", "failed"} => OriginalIsRun,
           phase' = "prefix" => PrefixAt(request', pos', trace'),
           phase' = "full" => FullAt(request', pos', trace'),
           phase' = "sliced" => SlicedAt(request', pos', trace', dirty'),
           ResultsAt(request', results')
    PROVE  IInv'
  <1>1. MaterializedAt(pos, trace)' <=> MaterializedAt(pos', trace')
    BY MaterializedPrimed
  <1>2. OriginalIsRun' <=> OriginalIsRun
    BY BranchPrimed
  <1>3. PrefixAt(request, pos, trace)' <=> PrefixAt(request', pos', trace')
    BY PhasesPrimed
  <1>4. FullAt(request, pos, trace)' <=> FullAt(request', pos', trace')
    BY PhasesPrimed
  <1>5. SlicedAt(request, pos, trace, dirty)' <=> SlicedAt(request', pos', trace', dirty')
    BY PhasesPrimed
  <1>6. ResultsAt(request, results)' <=> ResultsAt(request', results')
    BY PhasesPrimed
  <1> QED
    BY <1>1, <1>2, <1>3, <1>4, <1>5, <1>6 DEF IInv, NoRequest

LEMMA InitIsInvariant == Init => IInv
  <1> SUFFICES ASSUME Init PROVE IInv
    OBVIOUS
  <1>1. TypeOK
    BY InitIsTyped
  <1>2. PICK cache \in InitialCaches : trace = EmptyTrace(cache)
    BY DEF Init
  <1>3. Run(trace, cache, 0, 1) /\ ProducersMatch(trace)
    BY <1>1, <1>2, EmptyIsRun, CachesAssumption
  <1>4. MaterializedAt(1, trace)
    BY <1>2, <1>3 DEF MaterializedAt
  <1>5. DOMAIN results = {}
    BY DEF Init, EmptyDict
  <1> QED
    BY <1>1, <1>4, <1>5 DEF Init, IInv, ResultsAt

-----------------------------------------------------------------------------
(* Outcomes.                                                               *)

LEMMA SameRequest ==
    ASSUME NEW r, NEW q, RequestAt(r), RequestAt(q), NEW res, ResultsAt(r, res),
           q.target = r.target, q.replacement = r.replacement
    PROVE  ResultsAt(q, res)
  <1>1. \A F : Requested(q, F) <=> Requested(r, F)
    BY DEF Requested
  <1>2. \A m, o : OutcomeAt(r, m, o) => OutcomeAt(q, m, o)
    BY <1>1 DEF OutcomeAt
  <1> QED
    BY <1>2 DEF ResultsAt

LEMMA OneMoreResult ==
    ASSUME NEW r, RequestAt(r), NEW res, IsDict(res), ResultsAt(r, res), NEW m, NEW o,
           OutcomeAt(r, m, o)
    PROVE  ResultsAt(r, Put(res, m, o))
  <1> DEFINE new == Put(res, m, o)
  <1>1. /\ DOMAIN new = DOMAIN res \cup {m}
        /\ new[m] = o
        /\ \A k \in DOMAIN res : k # m => new[k] = res[k]
    BY DEF Put
  <1> HIDE DEF new
  <1>2. \A k \in DOMAIN res : OutcomeAt(r, k, res[k])
    BY DEF ResultsAt
  <1>3. \A k \in DOMAIN new : OutcomeAt(r, k, new[k])
    BY <1>1, <1>2
  <1>4. ResultsAt(r, new)
    BY <1>3 DEF ResultsAt
  <1> QED
    BY <1>4 DEF new

LEMMA PrefixDoesNotRaise ==
    ASSUME TypeOK, OriginalIsRun, PrefixAt(request, pos, trace), pos \in Events
    PROVE  /\ pos # request.target => ~CannotMaterialize
           /\ pos = request.target => IsActive(pos, trace.state)
  <1>1. /\ ~GuardMissing(pos, trace.state)
        /\ IsActive(pos, trace.state) <=> pos \in original.active
        /\ IsActive(pos, trace.state) => Out(pos) \notin DOMAIN trace.state
        /\ IsActive(pos, trace.state) /\ pos # request.target => Value(pos, trace) # Raised
    BY PrefixFollows
  <1>2. request.target \in original.active
    BY DEF PrefixAt, RequestAt
  <1> QED
    BY <1>1, <1>2 DEF CannotMaterialize

(***************************************************************************)
(* Every step keeps the invariant.  Each case establishes the phase's      *)
(* predicate for the values of the next state; InvariantPrimed does the    *)
(* rest.                                                                   *)
(***************************************************************************)
LEMMA StepKeepsInvariant == IInv /\ [Next]_vars => IInv'
  <1> SUFFICES ASSUME IInv, [Next]_vars PROVE IInv'
    OBVIOUS
  <1>1. /\ TypeOK /\ IsTrace(trace) /\ IsDict(results)
        /\ phase \in {"original", "failed"} => results = EmptyDict /\ request = NoRequest
        /\ phase = "original" => MaterializedAt(pos, trace)
        /\ phase \notin {"original", "failed"} => OriginalIsRun
        /\ phase = "prefix" => PrefixAt(request, pos, trace)
        /\ phase = "full" => FullAt(request, pos, trace)
        /\ phase = "sliced" => SlicedAt(request, pos, trace, dirty)
        /\ ResultsAt(request, results)
    BY DEF IInv, TypeOK
  <1>2. TypeOK'
    BY <1>1, StepIsTyped
  <1>3. /\ Materializing => pos \in Events /\ phase \in {"original", "prefix", "full"}
        /\ phase = "prefix" /\ Materializing => pos < request.target /\ pos # request.target
        /\ phase = "prefix" /\ pos = request.target => pos \in Events
    <2>1. request.target \in Nat /\ pos \in Nat
      BY <1>1, Positions, EventFacts DEF TypeOK, NoRequest
    <2>2. pos < request.target => pos # request.target
      BY <2>1
    <2>3. phase = "prefix" /\ Materializing => pos < request.target
      BY DEF Materializing
    <2> QED
      BY <1>1, <2>2, <2>3, Positions DEF Materializing
  <1>4. CASE SkipInactive
    <2>1. /\ UNCHANGED <<program, original, phase, trace, request, dirty, results>>
          /\ pos' = pos + 1 /\ pos \in Events
          /\ phase \in {"original", "prefix", "full"}
          /\ IsInactive(pos, trace.state)
      BY <1>3, <1>4 DEF SkipInactive
    <2>2. CASE phase = "original"
      <3>1. MaterializedAt(pos + 1, trace)
        BY <1>1, <2>1, <2>2, OriginalSkips
      <3> QED
        BY <1>1, <1>2, <2>1, <2>2, <3>1, InvariantPrimed
    <2>3. CASE phase = "prefix"
      <3>1. pos < request.target
        BY <1>3, <1>4, <2>3 DEF SkipInactive
      <3>2. PrefixAt(request, pos + 1, trace)
        BY <1>1, <2>1, <2>3, <3>1, PrefixSkips
      <3> QED
        BY <1>1, <1>2, <2>1, <2>3, <3>2, InvariantPrimed
    <2>4. CASE phase = "full"
      <3>1. FullAt(request, pos + 1, trace)
        BY <1>1, <2>1, <2>4, FullSkips
      <3> QED
        BY <1>1, <1>2, <2>1, <2>4, <3>1, InvariantPrimed
    <2> QED
      BY <2>1, <2>2, <2>3, <2>4
  <1>5. CASE ExecuteActive
    <2>1. /\ UNCHANGED <<program, original, phase, request, dirty, results>>
          /\ trace' = Written(Resolved(pos, trace), pos, Value(pos, trace))
          /\ pos' = pos + 1 /\ pos \in Events
          /\ phase \in {"original", "prefix", "full"}
          /\ IsActive(pos, trace.state)
          /\ Out(pos) \notin DOMAIN trace.state
          /\ Value(pos, trace) # Raised
      BY <1>3, <1>5 DEF ExecuteActive
    <2>2. CASE phase = "original"
      <3>1. MaterializedAt(pos + 1, trace')
        BY <1>1, <2>1, <2>2, OriginalExecutes
      <3> QED
        BY <1>1, <1>2, <2>1, <2>2, <3>1, InvariantPrimed
    <2>3. CASE phase = "prefix"
      <3>1. pos < request.target
        BY <1>3, <1>5, <2>3 DEF ExecuteActive
      <3>2. PrefixAt(request, pos + 1, trace')
        BY <1>1, <2>1, <2>3, <3>1, PrefixExecutes
      <3> QED
        BY <1>1, <1>2, <2>1, <2>3, <3>2, InvariantPrimed
    <2>4. CASE phase = "full"
      <3>1. FullAt(request, pos + 1, trace')
        BY <1>1, <2>1, <2>4, FullExecutes
      <3> QED
        BY <1>1, <1>2, <2>1, <2>4, <3>1, InvariantPrimed
    <2> QED
      BY <2>1, <2>2, <2>3, <2>4
  <1>6. CASE OriginalRaises
    BY <1>1, <1>2, <1>6, InvariantPrimed DEF OriginalRaises
  <1>7. CASE FinishOriginal
    <2>1. /\ UNCHANGED <<program, request, results>>
          /\ original' = trace /\ phase' = "idle"
          /\ phase = "original" /\ pos = EventCount + 1
          /\ program.terminal \in DOMAIN trace.state
      BY <1>7 DEF FinishOriginal, TerminalMissing
    <2>2. MaterializedAt(EventCount + 1, original')
      BY <1>1, <2>1
    <2>3. MaterializedAt(EventCount + 1, original)' <=> MaterializedAt(EventCount' + 1, original')
      BY <2>1, MaterializedPrimed
    <2>4. EventCount' = EventCount
      BY <2>1 DEF EventCount
    <2>5. OriginalIsRun'
      BY <2>1, <2>2, <2>3, <2>4 DEF OriginalIsRun
    <2>6. results' = EmptyDict
      BY <1>1, <2>1
    <2>7. ResultsAt(request, results)'
      BY <2>6 DEF ResultsAt, EmptyDict
    <2> QED
      BY <1>2, <2>1, <2>5, <2>7 DEF IInv
  <1>8. ASSUME NEW target \in Events, NEW replacement \in Replacements, NEW mode \in Modes,
               Replay(target, replacement, mode)
        PROVE  IInv'
    <2>1. /\ UNCHANGED <<program, original>>
          /\ phase = "idle" /\ phase' = "prefix" /\ pos' = 1
          /\ trace' = EmptyTrace(original.cache)
          /\ request' = [target |-> target, replacement |-> replacement, mode |-> mode]
          /\ target \in original.active
      BY <1>8 DEF Replay
    <2>2. RequestAt(request')
      BY <2>1 DEF RequestAt
    <2>3. PrefixAt(request', pos', trace')
      BY <1>1, <2>1, <2>2, PrefixBegins
    <2>4. \/ results' = results /\ request.target = target /\ request.replacement = replacement
          \/ results' = EmptyDict
      BY <1>8 DEF Replay
    <2>5. ResultsAt(request', results')
      <3>1. CASE results' = EmptyDict
        BY <3>1 DEF ResultsAt, EmptyDict
      <3>2. CASE results' # EmptyDict
        <4>1. results' = results /\ request'.target = request.target
                /\ request'.replacement = request.replacement
          BY <2>1, <2>4, <3>2
        <4>2. CASE DOMAIN results = {}
          BY <4>1, <4>2 DEF ResultsAt
        <4>3. CASE DOMAIN results # {}
          <5>1. RequestAt(request)
            BY <1>1, <4>3 DEF ResultsAt
          <5> QED
            BY <1>1, <2>2, <4>1, <5>1, SameRequest
        <4> QED
          BY <4>2, <4>3
      <3> QED
        BY <3>1, <3>2
    <2> QED
      BY <1>1, <1>2, <2>1, <2>3, <2>5, InvariantPrimed
  <1>9. CASE BeginFull
    <2>1. /\ UNCHANGED <<program, original, request, dirty, results>>
          /\ phase = "prefix" /\ phase' = "full" /\ pos' = pos + 1
          /\ trace' = Replaced
          /\ pos = request.target /\ IsActive(pos, trace.state)
          /\ request.mode = "full_suffix"
      BY <1>9 DEF BeginFull
    <2>2. FullAt(request, pos + 1, Replaced)
      BY <1>1, <2>1, FullBegins
    <2> QED
      BY <1>1, <1>2, <2>1, <2>2, InvariantPrimed
  <1>10. CASE BeginSliced
    <2>1. /\ UNCHANGED <<program, original, request, results>>
          /\ phase = "prefix" /\ phase' = "sliced" /\ pos' = pos + 1
          /\ trace' = Overlaid
          /\ dirty' = [artifacts |-> IF request.replacement = original.state[Out(pos)]
                                     THEN {} ELSE {Out(pos)},
                       events |-> {pos}]
          /\ pos = request.target /\ IsActive(pos, trace.state)
          /\ request.mode = "sliced"
      BY <1>10 DEF BeginSliced, Overlaid
    <2>2. SlicedAt(request, pos + 1, Overlaid, dirty')
      BY <1>1, <2>1, SlicedBegins
    <2> QED
      BY <1>1, <1>2, <2>1, <2>2, InvariantPrimed
  <1>11. CASE RemoveInactive
    <2>1. /\ UNCHANGED <<program, original, phase, request, dirty, results>>
          /\ phase = "sliced" /\ pos' = pos + 1 /\ pos \in Events
          /\ IsInactive(pos, trace.state)
          /\ trace' = IF Producer(Out(pos)) = pos THEN Stripped ELSE trace
      BY <1>11 DEF RemoveInactive, Stripped
    <2>2. SlicedAt(request, pos + 1, trace', dirty)
      <3>1. CASE Producer(Out(pos)) = pos
        BY <1>1, <2>1, <3>1, RemovedIsTrace, SlicedRemoves
      <3>2. CASE Producer(Out(pos)) # pos
        BY <1>1, <2>1, <3>2, SlicedRemoves
      <3> QED
        BY <3>1, <3>2
    <2> QED
      BY <1>1, <1>2, <2>1, <2>2, InvariantPrimed
  <1>12. CASE ExecuteDirty
    <2>1. /\ UNCHANGED <<program, original, phase, request, results>>
          /\ phase = "sliced" /\ pos' = pos + 1 /\ pos \in Events
          /\ IsActive(pos, trace.state)
          /\ ~HasRival(pos)
          /\ trace' = Written(Resolved(pos, trace), pos, Value(pos, trace))
          /\ dirty'.events = dirty.events \cup {pos}
          /\ dirty'.artifacts = dirty.artifacts \cup
                                   (IF \/ Producer(Out(pos)) # pos
                                       \/ trace.state[Out(pos)] # Value(pos, trace)
                                    THEN {Out(pos)} ELSE {})
      BY <1>12 DEF ExecuteDirty
    <2>2. SlicedAt(request, pos + 1, trace', dirty')
      BY <1>1, <2>1, SlicedExecutes
    <2> QED
      BY <1>1, <1>2, <2>1, <2>2, InvariantPrimed
  <1>13. CASE ReuseClean
    <2>1. /\ UNCHANGED <<program, original, phase, request, dirty, results>>
          /\ phase = "sliced" /\ pos' = pos + 1 /\ pos \in Events
          /\ IsActive(pos, trace.state)
          /\ ~ShouldExecute(pos)
          /\ trace' = Reused
      BY <1>13 DEF ReuseClean, Reused
    <2>2. SlicedAt(request, pos + 1, Reused, dirty)
      BY <1>1, <2>1, ReusedIsTrace, SlicedReuses
    <2> QED
      BY <1>1, <1>2, <2>1, <2>2, InvariantPrimed
  <1>14. CASE Return
    <2>1. /\ UNCHANGED <<program, original, request>>
          /\ phase \in {"full", "sliced"} /\ phase' = "idle"
          /\ pos = EventCount + 1 /\ ~TerminalMissing
          /\ results' = Put(results, request.mode, Returned)
      BY <1>14 DEF Return
    <2>2. RequestAt(request) /\ OutcomeAt(request, request.mode, Returned)
      <3>1. CASE phase = "full"
        BY <1>1, <2>1, <3>1, FullReturns DEF FullAt
      <3>2. CASE phase = "sliced"
        BY <1>1, <2>1, <3>2, SlicedReturns DEF SlicedAt
      <3> QED
        BY <2>1, <3>1, <3>2
    <2>3. ResultsAt(request, results')
      BY <1>1, <2>1, <2>2, OneMoreResult
    <2> QED
      BY <1>1, <1>2, <2>1, <2>3, InvariantPrimed
  <1>15. CASE ReplayRaises
    <2>1. /\ UNCHANGED <<program, original, request>>
          /\ phase' = "idle"
          /\ results' = Put(results, request.mode, Aborted)
      BY <1>15 DEF ReplayRaises
    <2>2. \/ phase \in {"prefix", "full"} /\ Materializing /\ CannotMaterialize
          \/ phase = "prefix" /\ pos = request.target /\ ~IsActive(pos, trace.state)
          \/ phase = "sliced" /\ pos \in Events /\ CannotSlice
          \/ phase \in {"full", "sliced"} /\ pos = EventCount + 1 /\ TerminalMissing
      BY <1>15 DEF ReplayRaises
    <2>3. phase # "prefix"
      BY <1>1, <1>3, <2>2, PrefixDoesNotRaise
    <2>4. /\ phase \in {"full", "sliced"}
          /\ RequestAt(request) /\ OutcomeAt(request, request.mode, Aborted)
      <3>1. CASE phase = "full"
        BY <1>1, <1>3, <2>2, <3>1, FullRaises DEF FullAt
      <3>2. CASE phase = "sliced"
        BY <1>1, <2>2, <3>2, SlicedRaises DEF SlicedAt
      <3> QED
        BY <2>2, <2>3, <3>1, <3>2
    <2>5. ResultsAt(request, results')
      BY <1>1, <2>1, <2>4, OneMoreResult
    <2> QED
      BY <1>1, <1>2, <2>1, <2>4, <2>5, InvariantPrimed
  <1>16. CASE UNCHANGED vars
    BY <1>1, <1>2, <1>16, InvariantPrimed DEF vars
  <1> QED
    BY <1>4, <1>5, <1>6, <1>7, <1>8, <1>9, <1>10, <1>11, <1>12, <1>13, <1>14, <1>15, <1>16
       DEF Next

LEMMA AlwaysInvariant == Spec => []IInv
  <1>1. IInv /\ [Next]_vars => IInv'
    BY StepKeepsInvariant
  <1> QED
    BY InitIsInvariant, <1>1, PTL DEF Spec

-----------------------------------------------------------------------------
(* What the invariant says of the outcomes.                                *)

LEMMA OutcomeFacts ==
    ASSUME IInv, DOMAIN results # {}
    PROVE  /\ TypeOK
           /\ RequestAt(request) /\ OriginalIsRun
           /\ \A m \in DOMAIN results : OutcomeAt(request, m, results[m])
  <1>1. RequestAt(request) /\ \A m \in DOMAIN results : OutcomeAt(request, m, results[m])
    BY DEF IInv, ResultsAt
  <1>2. results # EmptyDict
    BY DEF EmptyDict
  <1>3. OriginalIsRun
    BY <1>2 DEF IInv
  <1> QED
    BY <1>1, <1>3 DEF IInv

LEMMA FullIsRequested ==
    ASSUME IInv, FullReturned
    PROVE  Requested(request, results["full_suffix"])
  BY OutcomeFacts DEF FullReturned, OutcomeAt

LEMMA InvariantIsCoherent == IInv => BranchIsCoherent
  <1> SUFFICES ASSUME IInv, FullReturned
               PROVE  LET o == results["full_suffix"]
                      IN  /\ \A e \in Events :
                                e \in o.active <=> IsActive(e, o.state)
                          /\ \A e, f \in o.active : Out(e) = Out(f) => e = f
                          /\ DOMAIN o.state = DOMAIN program.initial \cup {Out(e) : e \in o.active}
                          /\ \A e \in o.active :
                                o.state[Out(e)] = IF e = request.target
                                                  THEN request.replacement ELSE Value(e, o)
    BY DEF BranchIsCoherent
  <1> DEFINE o == results["full_suffix"]
  <1>1. TypeOK /\ IsBranch(o, request.target) /\ o.state[Out(request.target)] = request.replacement
    BY FullIsRequested DEF IInv, Requested
  <1> HIDE DEF o
  <1>2. /\ \A e \in Events : e < EventCount + 1
        /\ o.active \subseteq Events
        /\ Run(o, original.cache, request.target, EventCount + 1)
    BY <1>1, BranchFacts
  <1>3. \A e \in Events : e \in o.active <=> IsActive(e, o.state)
    BY <1>2 DEF Run
  <1>4. \A e, f \in o.active : Out(e) = Out(f) => e = f
    BY <1>2 DEF Run, Ordered
  <1>5. DOMAIN o.state = DOMAIN program.initial \cup {Out(e) : e \in o.active}
    <2>1. {x \in o.active : x < EventCount + 1} = o.active
      BY <1>2
    <2> QED
      BY <1>2, <2>1 DEF Run, Ordered, Before
  <1>6. \A e \in o.active \ {request.target} : o.state[Out(e)] = Value(e, o)
    BY <1>2 DEF Run
  <1>7. \A e \in o.active : o.state[Out(e)] = IF e = request.target
                                              THEN request.replacement ELSE Value(e, o)
    BY <1>1, <1>6
  <1> QED
    BY <1>3, <1>4, <1>5, <1>7 DEF o

LEMMA InvariantIsExact == IInv => SlicedEqualsFull
  <1> SUFFICES ASSUME IInv, FullReturned, "sliced" \in DOMAIN results
               PROVE  SlicedEqualsFull
    BY DEF SlicedEqualsFull
  <1> DEFINE full == results["full_suffix"]
             o == results["sliced"]
             Sampled(b) == {e \in DOMAIN b.decisions :
                                   b.decisions[e] = "key_changed_or_missing"}
  <1>1. SameBranch(o, full)
    BY FullIsRequested, OutcomeFacts DEF OutcomeAt
  <1>2. \A e \in DOMAIN full.decisions :
           o.decisions[e] = "key_changed_or_missing"
              <=> full.decisions[e] = "key_changed_or_missing"
    <2>1. \A e \in DOMAIN full.decisions : SliceDecision(o, full, e)
      BY <1>1 DEF SameBranch
    <2> QED
      BY <2>1 DEF SliceDecision
  <1>3. Sampled(o) = Sampled(full)
    BY <1>1, <1>2 DEF SameBranch
  <1> QED
    BY <1>1, <1>3 DEF SameBranch, SlicedEqualsFull

LEMMA InvariantKeepsOriginal == IInv => ReplayKeepsOriginal
  <1> SUFFICES ASSUME IInv, NEW m \in DOMAIN results
               PROVE  /\ request.replacement = original.state[Out(request.target)] =>
                            LET o == results[m]
                            IN  /\ o.returned
                                /\ o.state = original.state
                                /\ o.active = original.active
                                /\ o.cache = original.cache
                                /\ \A e \in DOMAIN o.decisions :
                                      o.decisions[e] # "key_changed_or_missing"
                      /\ LET o == results[m]
                             t == request.target
                         IN  IF ~o.returned THEN o.at > t
                             ELSE /\ {e \in o.active : e < t} = {e \in original.active : e < t}
                                  /\ \A e \in DOMAIN o.decisions :
                                        e < t => o.decisions[e] = "exact_key_match"
                                  /\ \A e \in o.active \ (o.reexecuted \cup {t}) :
                                        /\ e \in original.active
                                        /\ o.state[Out(e)] = original.state[Out(e)]
    BY DEF ReplayKeepsOriginal, ReplayOfOriginalIsIdentity, UntouchedEventsAreOriginal
  <1> DEFINE o == results[m]
             t == request.target
             F == NoOp(t)
  <1>1. TypeOK /\ RequestAt(request) /\ OriginalIsRun /\ OutcomeAt(request, m, o)
    BY OutcomeFacts
  <1> HIDE DEF o
  <1>2. ASSUME request.replacement = original.state[Out(t)]
        PROVE  /\ o.returned
               /\ o.state = original.state
               /\ o.active = original.active
               /\ o.cache = original.cache
               /\ \A e \in DOMAIN o.decisions : o.decisions[e] # "key_changed_or_missing"
    <2>1. IsBranch(F, t)
      BY <1>1, NoOpIsBranch DEF RequestAt
    <2>2. /\ F.state = original.state /\ F.active = original.active
          /\ F.cache = original.cache
          /\ \A e \in DOMAIN F.decisions :
                F.decisions[e] \in {"intervention_action", "exact_key_match"}
      BY DEF NoOp
    <2> HIDE DEF F
    <2>3. SameBranch(o, F)
      BY <1>1, <1>2, <2>1, <2>2 DEF OutcomeAt, Requested
    <2>4. \A e \in DOMAIN o.decisions : o.decisions[e] # "key_changed_or_missing"
      BY <2>2, <2>3 DEF SameBranch, SliceDecision
    <2> QED
      BY <2>2, <2>3, <2>4 DEF SameBranch
  <1>3. CASE ~o.returned
    BY <1>1, <1>2, <1>3 DEF OutcomeAt, o
  <1>4. CASE o.returned
    <2>1. /\ PrefixKept(o, t)
          /\ \A e \in o.active \ (o.reexecuted \cup {t}) :
                e \in original.active /\ o.state[Out(e)] = original.state[Out(e)]
      BY <1>1, <1>4 DEF OutcomeAt
    <2> QED
      BY <1>2, <1>4, <2>1 DEF PrefixKept, o
  <1> QED
    BY <1>3, <1>4

-----------------------------------------------------------------------------
(***************************************************************************)
(* Reuse by exact key.  The invariant compares a replay with the branches  *)
(* of returned full replays only; what a slice decides about a policy      *)
(* event has to be followed by itself, since it stands whether or not the  *)
(* full replay returns.  KeyInv says, of a slice under way, that what is   *)
(* not dirty is original and that no cached action is lost, and of a slice *)
(* and of every returned outcome that its decisions go by key.             *)
(***************************************************************************)
DecidedByKey(e, o) ==
    LET key == Key(e, o.state)
    IN  PromptIsProduced(e, o) =>
           /\ o.decisions[e] = "key_changed_or_missing" => key \notin DOMAIN original.cache
           /\ o.decisions[e] = "unchanged_event_reuse" =>
                 /\ key \in DOMAIN original.cache
                 /\ o.state[Out(e)] = JList(original.cache[key])

DecisionsByKey(o) == \A e \in DOMAIN o.decisions : DecidedByKey(e, o)

SliceByKey(b, d) ==
    /\ \A a \in DOMAIN b.state \ d.artifacts :
          a \in DOMAIN original.state /\ b.state[a] = original.state[a]
    /\ DOMAIN original.cache \subseteq DOMAIN b.cache
    /\ DecisionsByKey(b)

KeyInv ==
    /\ phase = "sliced" => SliceByKey(trace, dirty)
    /\ \A m \in DOMAIN results : results[m].returned => DecisionsByKey(results[m])

(* The original run recorded the action of each of its policy events.       *)
LEMMA OriginalActions ==
    ASSUME TypeOK, OriginalIsRun, NEW e \in original.active, IsPolicy(e)
    PROVE  /\ Key(e, original.state) \in DOMAIN original.cache
           /\ original.state[Out(e)] = JList(original.cache[Key(e, original.state)])
  <1> DEFINE key == Key(e, original.state)
  <1>1. PICK base \in InitialCaches : Run(original, base, 0, EventCount + 1)
    BY DEF OriginalIsRun, MaterializedAt
  <1>2. e \in Events /\ e < EventCount + 1 /\ e # 0
    BY <1>1, EventFacts DEF Run, Ordered, TypeOK, Events
  <1>3. CacheIs(original.cache, base, KeysBefore(original.state, original.active, 0,
                                                 EventCount + 1))
    BY <1>1 DEF Run
  <1>4. key \in KeysBefore(original.state, original.active, 0, EventCount + 1)
    BY <1>2 DEF KeysBefore, CallsBefore
  <1>5. key \in DOMAIN original.cache
    BY <1>3, <1>4 DEF CacheIs
  <1>6. Value(e, original) # Raised /\ original.state[Out(e)] = Value(e, original)
    BY <1>1, <1>2 DEF Run
  <1>7. Value(e, original) = JList(Action(original.cache, key))
    BY <1>6 DEF Value
  <1> QED
    BY <1>5, <1>6, <1>7 DEF Action

(* A decision stands when template n comes after it: neither its prompt nor *)
(* its output is touched.                                                  *)
LEMMA DecisionStands ==
    ASSUME NEW b, NEW w, NEW n, NEW e \in b.active, ~(n < e), DecidedByKey(e, b),
           w.decisions[e] = b.decisions[e],
           w.active \subseteq b.active \cup {n},
           \A a \in DOMAIN program.initial : w.state[a] = b.state[a],
           \A x \in b.active : w.state[Out(x)] = b.state[Out(x)]
    PROVE  DecidedByKey(e, w)
  <1> SUFFICES ASSUME PromptIsProduced(e, w)
               PROVE  DecidedByKey(e, w)
    BY DEF DecidedByKey
  <1>1. PromptIsProduced(e, b)
    BY DEF PromptIsProduced
  <1>2. w.state[Cmd(e).policy.prompt] = b.state[Cmd(e).policy.prompt]
    BY <1>1 DEF PromptIsProduced
  <1>3. Key(e, w.state) = Key(e, b.state)
    BY <1>2 DEF Key
  <1> QED
    BY <1>1, <1>3 DEF DecidedByKey

(* The slice begins with original outputs, but for the target's.            *)
LEMMA KeysBegin ==
    ASSUME TypeOK, OriginalIsRun, PrefixAt(request, pos, trace), pos = request.target,
           IsActive(pos, trace.state), request.mode = "sliced", NEW d,
           d = [artifacts |-> IF request.replacement = original.state[Out(pos)]
                              THEN {} ELSE {Out(pos)},
                events |-> {pos}]
    PROVE  SliceByKey(Overlaid, d)
  <1> DEFINE t == request.target
             w == Overlaid
  <1>1. /\ RequestAt(request) /\ Run(trace, original.cache, t, t)
        /\ t \in Events /\ t \in Nat /\ Events \subseteq Nat /\ t \in original.active
    BY RequestFacts DEF PrefixAt
  <1>2. SlicedAt(request, pos + 1, w, d)
    BY SlicedBegins
  <1>3. Slice(t + 1, w, d) /\ PrefixKept(w, t)
    BY <1>2 DEF SlicedAt
  <1>4. IsTrace(w)
    BY <1>1, OverlaidIsTrace
  <1>5. /\ Grown(Replaced, trace, original.cache, t, t, request.replacement)
        /\ DOMAIN Replaced = DOMAIN trace
    BY <1>1, ReplacementGrows DEF TypeOK
  <1>6. /\ w.cache = Replaced.cache /\ w.decisions = Replaced.decisions
        /\ \A a \in DOMAIN Replaced.state : w.state[a] = Replaced.state[a]
    BY <1>5, OverlaidFacts DEF TypeOK
  <1>7. PICK base \in InitialCaches : Run(original, base, 0, EventCount + 1)
    BY DEF OriginalIsRun, MaterializedAt
  <1>8. w.active \subseteq {e \in Events : e < t + 1}
    BY <1>3 DEF Slice
  <1>9. ASSUME NEW a \in DOMAIN w.state \ d.artifacts
        PROVE  a \in DOMAIN original.state /\ w.state[a] = original.state[a]
    <2>1. CASE a \in DOMAIN program.initial
      <3>1. /\ a \in DOMAIN trace.state /\ trace.state[a] = program.initial[a]
            /\ a \in DOMAIN original.state /\ original.state[a] = program.initial[a]
        BY <1>1, <1>7, <2>1 DEF Run, Ordered, Before
      <3>2. a # Out(t)
        BY <1>1, <2>1, EventFacts DEF TypeOK
      <3> QED
        BY <1>5, <1>6, <3>1, <3>2, GrownState
    <2>2. CASE a \notin DOMAIN program.initial /\ w.producer[a] \notin w.active
      BY <1>3, <1>9, <2>2 DEF Slice
    <2>3. CASE a \notin DOMAIN program.initial /\ w.producer[a] \in w.active
      <3>1. PICK e \in w.active : Out(e) = a
        BY <1>4, <1>9, <2>3 DEF IsTrace
      <3>2. e \in Nat /\ e < t + 1
        BY <1>1, <1>8
      <3>3. CASE e = t
        <4>1. request.replacement = original.state[Out(t)]
          BY <1>9, <3>1, <3>3
        <4>2. Out(t) \in DOMAIN Replaced.state /\ Replaced.state[Out(t)] = request.replacement
          BY <1>5, GrownState
        <4>3. Out(t) \in DOMAIN original.state
          BY <1>1, <1>7, RunInputs, BranchFacts, EventFacts DEF Run, TypeOK
        <4> QED
          BY <1>6, <3>1, <3>3, <4>1, <4>2, <4>3
      <3>4. CASE e # t
        <4>1. e < t
          BY <1>1, <3>2, <3>4
        <4>2. w.state[a] = original.state[a] /\ e \in original.active
          BY <1>3, <3>1, <4>1 DEF PrefixKept
        <4>3. a \in DOMAIN original.state
          BY <1>7, <3>1, <4>2, RunInputs, EventFacts DEF Run, TypeOK
        <4> QED
          BY <4>2, <4>3
      <3> QED
        BY <3>3, <3>4
    <2> QED
      BY <2>1, <2>2, <2>3
  <1>10. DOMAIN original.cache \subseteq DOMAIN w.cache
    BY <1>5, <1>6 DEF Grown, CacheIs
  <1>11. ASSUME NEW e \in DOMAIN w.decisions
         PROVE  w.decisions[e] \in {"exact_key_match", "intervention_action"}
    <2>1. e \in w.active /\ IsPolicy(e) /\ e \in Nat /\ e < t + 1
      BY <1>1, <1>3, <1>8 DEF Slice
    <2>2. CASE e = t
      <3>1. w.decisions = Put(trace.decisions, t, Reason(trace, original.cache, t, t))
        BY <1>5, <1>6, <2>1, <2>2 DEF Grown
      <3> QED
        BY <2>2, <3>1, PutFacts DEF Reason
    <2>3. CASE e # t
      <3>1. e < t
        BY <1>1, <2>1, <2>3
      <3> QED
        BY <1>3, <3>1 DEF PrefixKept
    <2> QED
      BY <2>2, <2>3
  <1>12. DecisionsByKey(w)
    BY <1>11 DEF DecisionsByKey, DecidedByKey
  <1> QED
    BY <1>9, <1>10, <1>12 DEF SliceByKey

LEMMA KeysRemoved ==
    ASSUME TypeOK, SlicedAt(request, pos, trace, dirty), pos \in Events,
           SliceByKey(trace, dirty), NEW w,
           w = IF Producer(Out(pos)) = pos THEN Stripped ELSE trace
    PROVE  SliceByKey(w, dirty)
  <1>1. CASE Producer(Out(pos)) # pos
    BY <1>1
  <1>2. CASE Producer(Out(pos)) = pos
    <2>1. /\ w.state = Without(trace.state, Out(pos)) /\ w.active = trace.active
          /\ w.cache = trace.cache /\ w.decisions = trace.decisions
      BY <1>2, RemovedIsTrace
    <2>2. /\ DOMAIN w.state = DOMAIN trace.state \ {Out(pos)}
          /\ \A a \in DOMAIN trace.state \ {Out(pos)} : w.state[a] = trace.state[a]
      BY <2>1 DEF Without, Restrict
    <2>3. /\ Slice(pos, trace, dirty) /\ pos \in Nat
          /\ \A e \in trace.active : e \in Events /\ e \in Nat /\ e < pos
      BY SlicedFacts
    <2>4. trace.producer[Out(pos)] = pos /\ Out(pos) \notin DOMAIN program.initial
      BY <1>2, TraceFacts
    <2>5. \A e \in trace.active : w.state[Out(e)] = trace.state[Out(e)]
      <3> SUFFICES ASSUME NEW e \in trace.active PROVE w.state[Out(e)] = trace.state[Out(e)]
        OBVIOUS
      <3>1. Out(e) \in DOMAIN trace.state /\ trace.producer[Out(e)] = e /\ e # pos
        BY <2>3 DEF Slice
      <3> QED
        BY <2>2, <2>4, <3>1
    <2>6. \A a \in DOMAIN program.initial : w.state[a] = trace.state[a]
      BY <2>2, <2>3, <2>4 DEF Slice
    <2>7. ASSUME NEW e \in DOMAIN w.decisions PROVE DecidedByKey(e, w)
      <3>1. e \in trace.active /\ DecidedByKey(e, trace)
        BY <2>1, <2>3, <2>7 DEF Slice, SliceByKey, DecisionsByKey
      <3>2. ~(pos < e)
        BY <2>3, <3>1
      <3>3. w.decisions[e] = trace.decisions[e] /\ w.active \subseteq trace.active \cup {pos}
        BY <2>1
      <3> QED
        BY <2>5, <2>6, <3>1, <3>2, <3>3, DecisionStands
    <2> QED
      BY <2>1, <2>2, <2>7 DEF SliceByKey, DecisionsByKey
  <1> QED
    BY <1>1, <1>2

LEMMA KeysExecuted ==
    ASSUME TypeOK, SlicedAt(request, pos, trace, dirty), pos \in Events, ~HasRival(pos),
           SliceByKey(trace, dirty), NEW w, NEW d,
           w = Written(Resolved(pos, trace), pos, Value(pos, trace)),
           d.artifacts = dirty.artifacts \cup
                            (IF \/ Producer(Out(pos)) # pos
                                \/ trace.state[Out(pos)] # Value(pos, trace)
                             THEN {Out(pos)} ELSE {})
    PROVE  SliceByKey(w, d)
  <1> DEFINE n == pos
             v == Value(n, trace)
             key == Key(n, trace.state)
  <1>1. /\ n \in Nat /\ Slice(n, trace, dirty)
        /\ \A e \in trace.active : e \in Events /\ e \in Nat /\ e < n
    BY SlicedFacts
  <1>2. /\ DOMAIN trace.producer = DOMAIN trace.state
        /\ Out(n) \notin DOMAIN program.initial
        /\ Producer(Out(n)) = n => Out(n) \in DOMAIN trace.state
    BY <1>1, TraceFacts
  <1>3. /\ w.state = Put(trace.state, Out(n), v)
        /\ w.active = trace.active \cup {n}
        /\ w.cache = Resolved(n, trace).cache
        /\ w.decisions = Resolved(n, trace).decisions
    BY ResolvedFields, WrittenFields DEF TypeOK
  <1>4. /\ IsPolicy(n) =>
              /\ w.cache = Put(trace.cache, key, Action(trace.cache, key))
              /\ w.decisions = Put(trace.decisions, n, IF key \in DOMAIN trace.cache
                                                       THEN "exact_key_match"
                                                       ELSE "key_changed_or_missing")
        /\ ~IsPolicy(n) => w.cache = trace.cache /\ w.decisions = trace.decisions
    BY <1>3, ResolvedFields DEF TypeOK
  <1>5. /\ DOMAIN w.state = DOMAIN trace.state \cup {Out(n)}
        /\ w.state[Out(n)] = v
        /\ \A a \in DOMAIN trace.state : a # Out(n) => w.state[a] = trace.state[a]
    BY <1>3 DEF Put
  <1> HIDE DEF v, key
  <1>6. ASSUME NEW e \in trace.active
        PROVE  Out(e) \in DOMAIN trace.state /\ Out(e) # Out(n)
    <2>1. Out(e) \in DOMAIN trace.state /\ trace.producer[Out(e)] = e /\ e # n
      BY <1>1, <1>6 DEF Slice
    <2>2. Producer(Out(e)) = e
      BY <1>2, <2>1 DEF Producer
    <2> QED
      BY <2>1, <2>2 DEF HasRival
  <1>7. /\ \A a \in DOMAIN program.initial : a \in DOMAIN trace.state /\ w.state[a] = trace.state[a]
        /\ \A e \in trace.active : w.state[Out(e)] = trace.state[Out(e)]
    BY <1>1, <1>2, <1>5, <1>6 DEF Slice
  <1>8. ASSUME NEW a \in DOMAIN w.state \ d.artifacts
        PROVE  a \in DOMAIN original.state /\ w.state[a] = original.state[a]
    <2>1. a \in DOMAIN trace.state \ dirty.artifacts /\ w.state[a] = trace.state[a]
      <3>1. CASE a = Out(n)
        BY <1>2, <1>5, <1>8, <3>1 DEF v
      <3>2. CASE a # Out(n)
        BY <1>5, <1>8, <3>2
      <3> QED
        BY <3>1, <3>2
    <2> QED
      BY <2>1 DEF SliceByKey
  <1>9. DOMAIN original.cache \subseteq DOMAIN w.cache
    <2>1. DOMAIN trace.cache \subseteq DOMAIN w.cache
      BY <1>4 DEF Put
    <2> QED
      BY <2>1 DEF SliceByKey
  <1>10. ASSUME NEW e \in DOMAIN w.decisions PROVE DecidedByKey(e, w)
    <2>1. CASE e # n
      <3>1. e \in DOMAIN trace.decisions /\ w.decisions[e] = trace.decisions[e]
        BY <1>4, <1>10, <2>1 DEF Put
      <3>2. e \in trace.active /\ DecidedByKey(e, trace)
        BY <1>1, <3>1 DEF Slice, SliceByKey, DecisionsByKey
      <3>3. ~(n < e)
        BY <1>1, <3>2
      <3>4. w.active \subseteq trace.active \cup {n}
        BY <1>3
      <3> QED
        BY <1>7, <3>1, <3>2, <3>3, <3>4, DecisionStands
    <2>2. CASE e = n
      <3>1. IsPolicy(n)
        <4>1. n \notin DOMAIN trace.decisions
          BY <1>1 DEF Slice
        <4> QED
          BY <1>4, <1>10, <2>2, <4>1
      <3>2. w.decisions[n] = IF key \in DOMAIN trace.cache THEN "exact_key_match"
                                                           ELSE "key_changed_or_missing"
        BY <1>4, <3>1 DEF Put
      <3>3. ASSUME PromptIsProduced(n, w) PROVE Key(n, w.state) = key
        <4>1. \/ Cmd(n).policy.prompt \in DOMAIN program.initial
              \/ \E x \in trace.active : Out(x) = Cmd(n).policy.prompt
          <5>1. ~(n < n)
            BY <1>1
          <5> QED
            BY <1>3, <3>3, <5>1 DEF PromptIsProduced
        <4>2. w.state[Cmd(n).policy.prompt] = trace.state[Cmd(n).policy.prompt]
          BY <1>7, <4>1
        <4> QED
          BY <4>2 DEF Key, key
      <3> QED
        BY <2>2, <3>2, <3>3 DEF DecidedByKey, SliceByKey
    <2> QED
      BY <2>1, <2>2
  <1> QED
    BY <1>8, <1>9, <1>10 DEF SliceByKey, DecisionsByKey

(* A reused call has the prompt, hence the key and the action, it had.      *)
LEMMA KeysReused ==
    ASSUME TypeOK, OriginalIsRun, SlicedAt(request, pos, trace, dirty), pos \in Events,
           ~ShouldExecute(pos), SliceByKey(trace, dirty)
    PROVE  SliceByKey(Reused, dirty)
  <1> DEFINE n == pos
             w == Reused
  <1>1. /\ n \in Nat /\ Slice(n, trace, dirty)
        /\ \A e \in trace.active : e \in Events /\ e \in Nat /\ e < n
    BY SlicedFacts
  <1>2. /\ w.state = trace.state /\ w.active = trace.active \cup {n} /\ w.cache = trace.cache
        /\ w.decisions = IF IsPolicy(n) THEN Put(trace.decisions, n, "unchanged_event_reuse")
                                        ELSE trace.decisions
    BY ReusedIsTrace
  <1> HIDE DEF w
  <1>3. /\ n \in original.active /\ Producer(Out(n)) = n
        /\ ReadSet(Cmd(n)) \cap dirty.artifacts = {}
    BY DEF ShouldExecute
  <1>4. trace.state[Out(n)] = original.state[Out(n)]
    <2>1. /\ Out(n) \in DOMAIN trace.state \ DOMAIN program.initial
          /\ trace.producer[Out(n)] = n /\ n \notin trace.active
      BY <1>1, <1>3, TraceFacts
    <2> QED
      BY <1>1, <2>1 DEF Slice
  <1>5. ASSUME NEW e \in DOMAIN w.decisions PROVE DecidedByKey(e, w)
    <2>1. CASE e # n
      <3>1. e \in DOMAIN trace.decisions /\ w.decisions[e] = trace.decisions[e]
        BY <1>2, <1>5, <2>1 DEF Put
      <3>2. e \in trace.active /\ DecidedByKey(e, trace)
        BY <1>1, <3>1 DEF Slice, SliceByKey, DecisionsByKey
      <3>3. ~(n < e)
        BY <1>1, <3>2
      <3>4. w.active \subseteq trace.active \cup {n}
        BY <1>2
      <3>5. /\ \A a \in DOMAIN program.initial : w.state[a] = trace.state[a]
            /\ \A x \in trace.active : w.state[Out(x)] = trace.state[Out(x)]
        BY <1>2
      <3> QED
        BY <3>1, <3>2, <3>3, <3>4, <3>5, DecisionStands
    <2>2. CASE e = n
      <3>1. IsPolicy(n)
        <4>1. n \notin DOMAIN trace.decisions
          BY <1>1 DEF Slice
        <4> QED
          BY <1>2, <1>5, <2>2, <4>1
      <3>2. w.decisions[n] = "unchanged_event_reuse"
        BY <1>2, <3>1 DEF Put
      <3>3. ASSUME PromptIsProduced(n, w) PROVE Key(n, w.state) = Key(n, original.state)
        <4>1. Cmd(n).policy.prompt \in DOMAIN trace.state
          BY <1>1, <1>2, <3>3 DEF PromptIsProduced, Slice
        <4>2. Cmd(n).policy.prompt \in ReadSet(Cmd(n))
          BY <3>1, EventFacts DEF Inputs, TypeOK
        <4>3. trace.state[Cmd(n).policy.prompt] = original.state[Cmd(n).policy.prompt]
          BY <1>3, <4>1, <4>2 DEF SliceByKey
        <4> QED
          BY <1>2, <4>3 DEF Key
      <3>4. /\ Key(n, original.state) \in DOMAIN original.cache
            /\ original.state[Out(n)] = JList(original.cache[Key(n, original.state)])
        BY <1>3, <3>1, OriginalActions
      <3> QED
        BY <1>2, <1>4, <2>2, <3>2, <3>3, <3>4 DEF DecidedByKey
    <2> QED
      BY <2>1, <2>2
  <1> QED
    BY <1>2, <1>5 DEF SliceByKey, DecisionsByKey, w

(* A run asks the cache every time, so it reuses by key whatever it runs.   *)
LEMMA RunDecidesByKey ==
    ASSUME NEW b, NEW t, NEW n, Run(b, original.cache, t, n)
    PROVE  DecisionsByKey(b)
  <1> SUFFICES ASSUME NEW e \in DOMAIN b.decisions PROVE DecidedByKey(e, b)
    BY DEF DecisionsByKey
  <1>1. b.decisions[e] = Reason(b, original.cache, t, e)
    BY DEF Run
  <1> QED
    BY <1>1 DEF DecidedByKey, Reason

LEMMA KeysPrimed ==
    ASSUME UNCHANGED <<program, original>>,
           phase' = "sliced" => SliceByKey(trace', dirty'),
           \A m \in DOMAIN results' : results'[m].returned => DecisionsByKey(results'[m])
    PROVE  KeyInv'
  <1>1. DecisionsByKey(trace)' <=> DecisionsByKey(trace')
    BY DEF DecisionsByKey, DecidedByKey, PromptIsProduced, Key, Cmd, Out
  <1>2. SliceByKey(trace, dirty)' <=> SliceByKey(trace', dirty')
    BY <1>1 DEF SliceByKey
  <1>3. ASSUME NEW m
        PROVE  DecisionsByKey(results[m])' <=> DecisionsByKey(results'[m])
    BY DEF DecisionsByKey, DecidedByKey, PromptIsProduced, Key, Cmd, Out
  <1> QED
    BY <1>2, <1>3 DEF KeyInv

LEMMA StepKeepsKeys == IInv /\ KeyInv /\ [Next]_vars => KeyInv'
  <1> SUFFICES ASSUME IInv, KeyInv, [Next]_vars PROVE KeyInv'
    OBVIOUS
  <1>1. /\ TypeOK
        /\ phase \in {"original", "failed"} => results = EmptyDict /\ request = NoRequest
        /\ phase \notin {"original", "failed"} => OriginalIsRun
        /\ phase = "prefix" => PrefixAt(request, pos, trace)
        /\ phase = "full" => FullAt(request, pos, trace)
        /\ phase = "sliced" => SlicedAt(request, pos, trace, dirty)
    BY DEF IInv
  <1>2. ASSUME UNCHANGED <<program, original, results>>, phase' # "sliced" PROVE KeyInv'
    BY <1>2, KeysPrimed DEF KeyInv
  <1>3. ASSUME UNCHANGED <<program, original, results>>, SliceByKey(trace', dirty')
        PROVE  KeyInv'
    BY <1>3, KeysPrimed DEF KeyInv
  <1>4. ASSUME UNCHANGED <<program, original>>, phase' = "idle", NEW o,
               results' = Put(results, request.mode, o), o.returned => DecisionsByKey(o)
        PROVE  KeyInv'
    <2>1. \A m \in DOMAIN results' : \/ (m = request.mode /\ results'[m] = o)
                                     \/ (m \in DOMAIN results /\ results'[m] = results[m])
      BY <1>4 DEF Put
    <2>2. \A m \in DOMAIN results' : results'[m].returned => DecisionsByKey(results'[m])
      BY <1>4, <2>1 DEF KeyInv
    <2> QED
      BY <1>4, <2>2, KeysPrimed
  <1>5. CASE SkipInactive
    BY <1>2, <1>5 DEF SkipInactive, Materializing
  <1>6. CASE ExecuteActive
    BY <1>2, <1>6 DEF ExecuteActive, Materializing
  <1>7. CASE OriginalRaises
    BY <1>2, <1>7 DEF OriginalRaises
  <1>8. CASE FinishOriginal
    <2>1. phase' = "idle" /\ results' = EmptyDict
      BY <1>1, <1>8 DEF FinishOriginal
    <2> QED
      BY <2>1 DEF KeyInv, EmptyDict
  <1>9. ASSUME NEW target \in Events, NEW replacement \in Replacements, NEW mode \in Modes,
                Replay(target, replacement, mode)
         PROVE  KeyInv'
    <2>1. phase' = "prefix" /\ UNCHANGED <<program, original>>
      BY <1>9 DEF Replay
    <2>2. CASE results' = EmptyDict
      BY <2>1, <2>2 DEF KeyInv, EmptyDict
    <2>3. CASE results' # EmptyDict
      <3>1. results' = results
        BY <1>9, <2>3 DEF Replay
      <3> QED
        BY <1>2, <2>1, <3>1
    <2> QED
      BY <2>2, <2>3
  <1>10. CASE BeginFull
    BY <1>2, <1>10 DEF BeginFull
  <1>11. CASE BeginSliced
    <2>1. /\ UNCHANGED <<program, original, results>> /\ trace' = Overlaid
          /\ phase = "prefix" /\ pos = request.target /\ IsActive(pos, trace.state)
          /\ request.mode = "sliced"
          /\ dirty' = [artifacts |-> IF request.replacement = original.state[Out(pos)]
                                     THEN {} ELSE {Out(pos)},
                       events |-> {pos}]
      BY <1>11 DEF BeginSliced, Overlaid
    <2>2. SliceByKey(Overlaid, dirty')
      BY <1>1, <2>1, KeysBegin
    <2> QED
      BY <1>3, <2>1, <2>2
  <1>12. CASE RemoveInactive
    <2>1. /\ UNCHANGED <<program, original, dirty, results>> /\ phase = "sliced" /\ pos \in Events
          /\ trace' = IF Producer(Out(pos)) = pos THEN Stripped ELSE trace
      BY <1>12 DEF RemoveInactive, Stripped
    <2>2. SliceByKey(trace', dirty)
      BY <1>1, <2>1, KeysRemoved DEF KeyInv
    <2> QED
      BY <1>3, <2>1, <2>2
  <1>13. CASE ExecuteDirty
    <2>1. /\ UNCHANGED <<program, original, results>> /\ phase = "sliced" /\ pos \in Events
          /\ ~HasRival(pos)
          /\ trace' = Written(Resolved(pos, trace), pos, Value(pos, trace))
          /\ dirty'.artifacts = dirty.artifacts \cup
                                   (IF \/ Producer(Out(pos)) # pos
                                       \/ trace.state[Out(pos)] # Value(pos, trace)
                                    THEN {Out(pos)} ELSE {})
      BY <1>13 DEF ExecuteDirty
    <2>2. SliceByKey(trace', dirty')
      BY <1>1, <2>1, KeysExecuted DEF KeyInv
    <2> QED
      BY <1>3, <2>1, <2>2
  <1>14. CASE ReuseClean
    <2>1. /\ UNCHANGED <<program, original, dirty, results>> /\ phase = "sliced" /\ pos \in Events
          /\ ~ShouldExecute(pos) /\ trace' = Reused
      BY <1>14 DEF ReuseClean, Reused
    <2>2. SliceByKey(Reused, dirty)
      BY <1>1, <2>1, KeysReused DEF KeyInv
    <2> QED
      BY <1>3, <2>1, <2>2
  <1>15. CASE Return
    <2>1. /\ UNCHANGED <<program, original>> /\ phase' = "idle" /\ phase \in {"full", "sliced"}
          /\ results' = Put(results, request.mode, Returned)
      BY <1>15 DEF Return
    <2>2. /\ Returned.state = trace.state /\ Returned.active = trace.active
          /\ Returned.decisions = trace.decisions
      BY DEF Returned
    <2>3. DecisionsByKey(trace)
      <3>1. CASE phase = "full"
        BY <1>1, <3>1, RunDecidesByKey DEF FullAt
      <3>2. CASE phase = "sliced"
        BY <3>2 DEF KeyInv, SliceByKey
      <3> QED
        BY <2>1, <3>1, <3>2
    <2>4. DecisionsByKey(Returned)
      BY <2>2, <2>3 DEF DecisionsByKey, DecidedByKey, PromptIsProduced
    <2> QED
      BY <1>4, <2>1, <2>4
  <1>16. CASE ReplayRaises
    <2>1. /\ UNCHANGED <<program, original>> /\ phase' = "idle"
          /\ results' = Put(results, request.mode, Aborted) /\ ~Aborted.returned
      BY <1>16 DEF ReplayRaises, Aborted
    <2> QED
      BY <1>4, <2>1
  <1>17. CASE UNCHANGED vars
    BY <1>17, KeysPrimed DEF vars, KeyInv
  <1> QED
    BY <1>5, <1>6, <1>7, <1>8, <1>9, <1>10, <1>11, <1>12, <1>13, <1>14, <1>15, <1>16, <1>17
       DEF Next

LEMMA AlwaysByKey == Spec => [](IInv /\ KeyInv)
  <1>1. Init => KeyInv
    BY DEF Init, KeyInv, EmptyDict
  <1>2. IInv /\ KeyInv /\ [Next]_vars => (IInv /\ KeyInv)'
    BY StepKeepsInvariant, StepKeepsKeys
  <1> QED
    BY InitIsInvariant, <1>1, <1>2, PTL DEF Spec

(* When the full replay returns, no prompt is missing from either outcome.  *)
LEMMA PromptsAreProduced ==
    ASSUME IInv, FullReturned, NEW m \in DOMAIN results, NEW e \in DOMAIN results[m].decisions
    PROVE  PromptIsProduced(e, results[m])
  <1> DEFINE o == results[m]
             F == results["full_suffix"]
             t == request.target
             prompt == Cmd(e).policy.prompt
  <1>1. /\ TypeOK /\ OutcomeAt(request, m, o) /\ Requested(request, F)
        /\ RequestAt(request) /\ OriginalIsRun /\ e \in DOMAIN o.decisions
    BY FullIsRequested, OutcomeFacts
  <1> HIDE DEF o, F
  <1>2. SameBranch(o, F) /\ Run(F, original.cache, t, EventCount + 1)
    BY <1>1 DEF OutcomeAt, Requested, IsBranch
  <1>3. e \in F.active /\ IsPolicy(e) /\ o.active = F.active
    BY <1>1, <1>2 DEF SameBranch, Run
  <1>4. CASE e # t
    <2>1. prompt \in Before(F.active, e)
      BY <1>2, <1>3, <1>4 DEF Run, Ordered, Inputs
    <2> QED
      BY <1>3, <2>1, BeforeFacts DEF PromptIsProduced, o
  <1>5. CASE e = t
    <2>1. t \in original.active /\ t # 0
      BY <1>1, EventFacts DEF RequestAt, TypeOK, Events
    <2>2. PICK base \in InitialCaches : Run(original, base, 0, EventCount + 1)
      BY <1>1 DEF OriginalIsRun, MaterializedAt
    <2>3. prompt \in Before(original.active, t)
      BY <1>3, <1>5, <2>1, <2>2 DEF Run, Ordered, Inputs
    <2>4. {x \in o.active : x < t} = {x \in original.active : x < t}
      BY <1>1, <1>2 DEF OutcomeAt, SameBranch, PrefixKept
    <2>5. prompt \in Before(o.active, t)
      BY <2>3, <2>4 DEF Before
    <2> QED
      BY <1>5, <2>5, BeforeFacts DEF PromptIsProduced, o
  <1> QED
    BY <1>4, <1>5

LEMMA InvariantReusesByKey == IInv /\ KeyInv => ReuseIsByExactKey
  <1> SUFFICES ASSUME IInv, KeyInv, NEW m \in DOMAIN results, results[m].returned,
                      NEW e \in DOMAIN results[m].decisions
               PROVE  /\ FullReturned => PromptIsProduced(e, results[m])
                      /\ DecidedByKey(e, results[m])
    BY DEF ReuseIsByExactKey, DecidedByKey
  <1>1. DecidedByKey(e, results[m])
    BY DEF KeyInv, DecisionsByKey
  <1> QED
    BY <1>1, PromptsAreProduced

-----------------------------------------------------------------------------
(***************************************************************************)
(* Whatever the program, the intervention, the caches and the sampler: a    *)
(* full replay that returns is a branch of the program.                    *)
(***************************************************************************)
THEOREM BranchesAreCoherent == Spec => []BranchIsCoherent
  BY AlwaysInvariant, InvariantIsCoherent, PTL

(***************************************************************************)
(* The sliced replay of an intervention returns what its full replay does. *)
(***************************************************************************)
THEOREM SlicedReplayIsExact == Spec => []SlicedEqualsFull
  BY AlwaysInvariant, InvariantIsExact, PTL

(***************************************************************************)
(* A replay keeps the prefix and what it did not re-execute, and the no-op *)
(* intervention reproduces the original branch in both modes.              *)
(***************************************************************************)
THEOREM OriginalIsKept == Spec => []ReplayKeepsOriginal
  BY AlwaysInvariant, InvariantKeepsOriginal, PTL

(***************************************************************************)
(* In a replay of either mode that returns, whether or not the full replay *)
(* does: a policy call whose prompt the branch produces is sampled only    *)
(* when the original run has no action for its key, and if it is reused it *)
(* has the action cached for its key.  When the full replay returns, the   *)
(* branch produces the prompt of every policy call.                        *)
(***************************************************************************)
THEOREM ReuseByExactKey == Spec => []ReuseIsByExactKey
  BY AlwaysByKey, InvariantReusesByKey, PTL

-----------------------------------------------------------------------------
(***************************************************************************)
(* The programs of a campaign: their templates by position, which of them  *)
(* are active on which route, and that no draw is refused.                 *)
(***************************************************************************)

(* A sequence of n values. *)
HasLength(s, n) == n \in Nat /\ (\E S : s \in Seq(S)) /\ Len(s) = n

LEMMA FunctionIsSequence ==
    ASSUME NEW n \in Nat, NEW s, DOMAIN s = 1..n, s = [k \in 1..n |-> s[k]]
    PROVE  HasLength(s, n)
  <1> DEFINE S == {s[k] : k \in 1..n}
  <1>1. s \in [1..n -> S]
    OBVIOUS
  <1>2. s \in Seq(S) /\ Len(s) = n
    BY <1>1
  <1> QED
    BY <1>2 DEF HasLength

(* w is a, which has n values, and then b, which has m. *)
Concatenated(w, a, n, b, m) ==
    /\ HasLength(w, n + m)
    /\ \A k \in 1..n : w[k] = a[k]
    /\ \A k \in (n + 1)..(n + m) : w[k] = b[k - n]

LEMMA ConcatenationFacts ==
    ASSUME NEW a, NEW b, NEW n, NEW m, HasLength(a, n), HasLength(b, m)
    PROVE  Concatenated(a \o b, a, n, b, m)
  <1>1. PICK S : a \in Seq(S)
    BY DEF HasLength
  <1>2. PICK T : b \in Seq(T)
    BY DEF HasLength
  <1> DEFINE U == S \cup T
  <1>3. a \in Seq(U) /\ b \in Seq(U)
    BY <1>1, <1>2
  <1> HIDE DEF U
  <1>4. n \in Nat /\ m \in Nat /\ Len(a) = n /\ Len(b) = m
    BY DEF HasLength
  <1>5. a \o b \in Seq(U) /\ Len(a \o b) = n + m
    BY <1>3, <1>4
  <1>6. HasLength(a \o b, n + m)
    BY <1>4, <1>5 DEF HasLength
  <1> QED
    BY <1>3, <1>4, <1>6 DEF Concatenated

(* The commands w of a program of which the children take n templates. *)
ThreeParts(w, a, b, n, c) ==
    /\ Len(w) = n + 9 /\ DOMAIN w = 1..(n + 9)
    /\ \A e \in 1..5 : w[e] = a[e]
    /\ \A e \in 6..(n + 5) : w[e] = b[e - 5]
    /\ \A e \in (n + 6)..(n + 9) : w[e] = c[e - (n + 5)]

LEMMA ThreePartsFacts ==
    ASSUME NEW a, NEW b, NEW c, NEW n, HasLength(a, 5), HasLength(b, n), HasLength(c, 4)
    PROVE  ThreeParts((a \o b) \o c, a, b, n, c)
  <1>1. n \in Nat
    BY DEF HasLength
  <1>2. Concatenated(a \o b, a, 5, b, n)
    BY ConcatenationFacts
  <1>3. HasLength(a \o b, 5 + n)
    BY <1>2 DEF Concatenated
  <1>4. Concatenated((a \o b) \o c, a \o b, 5 + n, c, 4)
    BY <1>3, ConcatenationFacts
  <1>5. PICK v : v = a \o b
    OBVIOUS
  <1>6. PICK w : w = (a \o b) \o c
    OBVIOUS
  <1>7. Concatenated(v, a, 5, b, n) /\ Concatenated(w, v, 5 + n, c, 4)
    BY <1>2, <1>4, <1>5, <1>6
  <1>8. Len(w) = n + 9 /\ DOMAIN w = 1..(n + 9)
    BY <1>1, <1>7 DEF Concatenated, HasLength
  <1>9. /\ \A e \in 1..5 : w[e] = a[e]
        /\ \A e \in 6..(n + 5) : w[e] = b[e - 5]
        /\ \A e \in (n + 6)..(n + 9) : w[e] = c[e - (n + 5)]
    BY <1>1, <1>7 DEF Concatenated
  <1> QED
    BY <1>6, <1>8, <1>9 DEF ThreeParts

LEMMA ProgramShape ==
    ASSUME NEW i, NEW r, NEW d, Len(d.children) \in Nat
    PROVE  ThreeParts(ProgramOf(i, r, d).commands, Opening(i, d),
                      Subcalls(i, d), 2 * ChildCalls(d), Closing(i, d))
  <1>1. HasLength(Opening(i, d), 5)
    <2>1. PICK x1, x2, x3, x4, x5 : Opening(i, d) = <<x1, x2, x3, x4, x5>>
      BY DEF Opening
    <2>2. Opening(i, d) \in Seq({x1, x2, x3, x4, x5}) /\ Len(Opening(i, d)) = 5
      BY <2>1
    <2> QED
      BY <2>2 DEF HasLength
  <1>2. HasLength(Subcalls(i, d), 2 * ChildCalls(d))
    <2>1. 2 * ChildCalls(d) \in Nat
      BY DEF ChildCalls
    <2> QED
      BY <2>1, FunctionIsSequence DEF Subcalls
  <1>3. HasLength(Closing(i, d), 4)
    <2> DEFINE judge == [Step("contains", JInt(1), <<<<"answer">>>>, <<"reward">>, NoGuard,
                              NoWork)
                            EXCEPT !.role = "judge",
                                   !.work = [Tokens(d.judge) EXCEPT !.judge_calls = 1]]
               aggregate == Step("list_concat", None,
                                 [c \in 1..ChildCalls(d) |-> <<"normalized", c>>],
                                 <<"aggregate">>, Deep, Cpu(ChildCalls(d)))
               answer == Turn(<<"aggregate">>, <<"answer">>, 40000 + i, {}, Deep,
                              "root_policy", d.recursive)
               finish == Step("final", None, <<<<"reward">>>>, <<"final">>, NoGuard, Cpu(1))
    <2>3. Closing(i, d) = <<aggregate, answer, judge, finish>>
      BY DEF Closing
    <2> HIDE DEF aggregate, answer, judge, finish
    <2>1. PICK x1, x2, x3, x4 : Closing(i, d) = <<x1, x2, x3, x4>>
      BY <2>3
    <2>2. Closing(i, d) \in Seq({x1, x2, x3, x4}) /\ Len(Closing(i, d)) = 4
      BY <2>1
    <2> QED
      BY <2>2 DEF HasLength
  <1>4. ProgramOf(i, r, d).commands
           = (Opening(i, d) \o Subcalls(i, d)) \o Closing(i, d)
    BY DEF ProgramOf
  <1> QED
    BY <1>1, <1>2, <1>3, <1>4, ThreePartsFacts

(* A template that is no policy call, and one that is. *)
IsStep(c, inputs, output, guard) ==
    /\ c.inputs = inputs /\ c.output = output /\ c.guard = guard
    /\ c.policy = NoPolicy /\ c.dependencies = {}

IsTurn(c, prompt, output, guard, dependencies) ==
    /\ c.inputs = <<prompt>> /\ c.output = output /\ c.guard = guard
    /\ c.policy # NoPolicy /\ c.policy.prompt = prompt /\ c.dependencies = dependencies
    /\ c.role \in PolicyRoles

LEMMA TurnFacts ==
    ASSUME NEW prompt, NEW output, NEW seed, NEW dependencies, NEW guard,
           NEW role \in PolicyRoles, NEW tokens
    PROVE  LET c == Turn(prompt, output, seed, dependencies, guard, role, tokens)
           IN  IsTurn(c, prompt, output, guard, dependencies) /\ c.policy.seed = seed
  <1>1. [prompt |-> prompt, config |-> "sample-proxy", seed |-> seed] # NoPolicy
    <2>1. "seed" \in DOMAIN [prompt |-> prompt, config |-> "sample-proxy", seed |-> seed]
      OBVIOUS
    <2>2. "seed" \notin DOMAIN NoPolicy
      BY DEF NoPolicy
    <2> QED
      BY <2>1, <2>2
  <1> QED
    BY <1>1 DEF Turn, IsTurn

LEMMA OpeningFacts ==
    ASSUME NEW i, NEW d
    PROVE  /\ IsTurn(Opening(i, d)[1], <<"route_prompt">>, <<"route">>, NoGuard, {})
           /\ Opening(i, d)[1].policy.seed = 10000 + i
           /\ IsStep(Opening(i, d)[2], <<<<"route">>>>, <<"is_recursive">>, NoGuard)
           /\ Opening(i, d)[2].kind = "contains"
           /\ Opening(i, d)[2].param = JInt(NeedleOfRecursion)
           /\ IsStep(Opening(i, d)[3], <<<<"task_text">>>>, <<"chunks">>, NoGuard)
           /\ IsStep(Opening(i, d)[4], <<<<"chunks">>>>, <<"first_chunk">>, NoGuard)
           /\ IsTurn(Opening(i, d)[5], <<"base_prompt">>, <<"answer">>, Direct, {4})
  <1>1. /\ IsTurn(Opening(i, d)[1], <<"route_prompt">>, <<"route">>, NoGuard, {})
        /\ Opening(i, d)[1].policy.seed = 10000 + i
    BY TurnFacts DEF Opening, PolicyRoles
  <1>2. /\ IsStep(Opening(i, d)[2], <<<<"route">>>>, <<"is_recursive">>, NoGuard)
        /\ Opening(i, d)[2].kind = "contains"
        /\ Opening(i, d)[2].param = JInt(NeedleOfRecursion)
    BY DEF Opening, Step, IsStep
  <1>3. /\ IsStep(Opening(i, d)[3], <<<<"task_text">>>>, <<"chunks">>, NoGuard)
        /\ IsStep(Opening(i, d)[4], <<<<"chunks">>>>, <<"first_chunk">>, NoGuard)
    BY DEF Opening, Step, IsStep
  <1>4. IsTurn(Opening(i, d)[5], <<"base_prompt">>, <<"answer">>, Direct, {4})
    BY TurnFacts DEF Opening, InspectContext, PolicyRoles
  <1> QED
    BY <1>1, <1>2, <1>3, <1>4

LEMMA SubcallFacts ==
    ASSUME NEW i, NEW d, ChildCalls(d) \in Nat, NEW k \in 1..ChildCalls(d)
    PROVE  /\ IsTurn(Subcalls(i, d)[2 * k - 1], <<"child_prompt", k>>, <<"child", k>>, Deep, {4})
           /\ IsStep(Subcalls(i, d)[2 * k], <<<<"child", k>>>>, <<"normalized", k>>, Deep)
  <1>1. /\ 2 * k - 1 \in 1..(2 * ChildCalls(d)) /\ 2 * k \in 1..(2 * ChildCalls(d))
        /\ (2 * k - 1 + 1) \div 2 = k /\ (2 * k + 1) \div 2 = k
        /\ (2 * k - 1) % 2 = 1 /\ (2 * k) % 2 = 0
    OBVIOUS
  <1>2. /\ Subcalls(i, d)[2 * k - 1] = Child(i, d, k)[1]
        /\ Subcalls(i, d)[2 * k] = Child(i, d, k)[2]
    BY <1>1 DEF Subcalls
  <1>3. IsTurn(Child(i, d, k)[1], <<"child_prompt", k>>, <<"child", k>>, Deep, {4})
    BY TurnFacts DEF Child, InspectContext, PolicyRoles
  <1>4. IsStep(Child(i, d, k)[2], <<<<"child", k>>>>, <<"normalized", k>>, Deep)
    BY DEF Child, Step, IsStep
  <1> QED
    BY <1>2, <1>3, <1>4

LEMMA ClosingFacts ==
    ASSUME NEW i, NEW d
    PROVE  /\ IsStep(Closing(i, d)[1], [k \in 1..ChildCalls(d) |-> <<"normalized", k>>],
                     <<"aggregate">>, Deep)
           /\ IsTurn(Closing(i, d)[2], <<"aggregate">>, <<"answer">>, Deep, {})
           /\ IsStep(Closing(i, d)[3], <<<<"answer">>>>, <<"reward">>, NoGuard)
           /\ IsStep(Closing(i, d)[4], <<<<"reward">>>>, <<"final">>, NoGuard)
  <1>1. Closing(i, d)[1] = Step("list_concat", None,
                                [k \in 1..ChildCalls(d) |-> <<"normalized", k>>],
                                <<"aggregate">>, Deep, Cpu(ChildCalls(d)))
    BY DEF Closing
  <1>2. IsTurn(Closing(i, d)[2], <<"aggregate">>, <<"answer">>, Deep, {})
    BY TurnFacts DEF Closing, PolicyRoles
  <1>3. Closing(i, d)[3] = [Step("contains", JInt(1), <<<<"answer">>>>, <<"reward">>, NoGuard,
                                 NoWork)
                            EXCEPT !.role = "judge",
                                   !.work = [Tokens(d.judge) EXCEPT !.judge_calls = 1]]
    BY DEF Closing
  <1>4. IsStep(Closing(i, d)[4], <<<<"reward">>>>, <<"final">>, NoGuard)
    BY DEF Closing, Step, IsStep
  <1>5. IsStep(Closing(i, d)[1], [k \in 1..ChildCalls(d) |-> <<"normalized", k>>],
               <<"aggregate">>, Deep)
    BY <1>1 DEF Step, IsStep
  <1>6. IsStep(Closing(i, d)[3], <<<<"answer">>>>, <<"reward">>, NoGuard)
    BY <1>3 DEF Step, IsStep
  <1> QED
    BY <1>2, <1>4, <1>5, <1>6

(* The templates w of a program with n children, by their positions. *)
LaidOut(w, i, d, n) ==
    /\ n \in Nat /\ n = ChildCalls(d)
    /\ Len(w) = 2 * n + 9 /\ DOMAIN w = 1..(2 * n + 9)
    /\ \A e \in 1..5 : w[e] = Opening(i, d)[e]
    /\ \A c \in 1..n : /\ w[2 * c + 4] = Subcalls(i, d)[2 * c - 1]
                       /\ w[2 * c + 5] = Subcalls(i, d)[2 * c]
    /\ \A k \in 1..4 : w[2 * n + 5 + k] = Closing(i, d)[k]
    /\ \A e \in 1..(2 * n + 9) :
          \/ e \in 1..5
          \/ \E c \in 1..n : e = 2 * c + 4 \/ e = 2 * c + 5
          \/ \E k \in 1..4 : e = 2 * n + 5 + k

LEMMA Templates ==
    ASSUME NEW i, NEW r, NEW d, Len(d.children) \in Nat
    PROVE  LaidOut(ProgramOf(i, r, d).commands, i, d, ChildCalls(d))
  <1>1. PICK n \in Nat : n = ChildCalls(d)
    BY DEF ChildCalls
  <1>2. PICK w : w = ProgramOf(i, r, d).commands
    OBVIOUS
  <1>3. ThreeParts(w, Opening(i, d), Subcalls(i, d), 2 * n, Closing(i, d))
    BY <1>1, <1>2, ProgramShape
  <1>4. /\ Len(w) = 2 * n + 9 /\ DOMAIN w = 1..(2 * n + 9)
        /\ \A e \in 1..5 : w[e] = Opening(i, d)[e]
    BY <1>3 DEF ThreeParts
  <1>5. ASSUME NEW c \in 1..n
        PROVE  w[2 * c + 4] = Subcalls(i, d)[2 * c - 1] /\ w[2 * c + 5] = Subcalls(i, d)[2 * c]
    <2>1. 2 * c + 4 \in 6..(2 * n + 5) /\ 2 * c + 5 \in 6..(2 * n + 5)
      OBVIOUS
    <2>2. 2 * c + 4 - 5 = 2 * c - 1 /\ 2 * c + 5 - 5 = 2 * c
      OBVIOUS
    <2> QED
      BY <1>3, <2>1, <2>2 DEF ThreeParts
  <1>6. ASSUME NEW k \in 1..4 PROVE w[2 * n + 5 + k] = Closing(i, d)[k]
    <2>1. 2 * n + 5 + k \in (2 * n + 6)..(2 * n + 9) /\ 2 * n + 5 + k - (2 * n + 5) = k
      OBVIOUS
    <2> QED
      BY <1>3, <2>1 DEF ThreeParts
  <1>7. ASSUME NEW e \in 1..(2 * n + 9)
        PROVE  \/ e \in 1..5
               \/ \E c \in 1..n : e = 2 * c + 4 \/ e = 2 * c + 5
               \/ \E k \in 1..4 : e = 2 * n + 5 + k
    <2>1. CASE e <= 5
      BY <2>1
    <2>2. CASE e > 2 * n + 5
      <3>1. e - (2 * n + 5) \in 1..4 /\ e = 2 * n + 5 + (e - (2 * n + 5))
        BY <2>2
      <3> QED
        BY <3>1
    <2>3. CASE 5 < e /\ e <= 2 * n + 5
      <3>1. (e - 4) \div 2 \in 1..n
            /\ (e = 2 * ((e - 4) \div 2) + 4 \/ e = 2 * ((e - 4) \div 2) + 5)
        BY <2>3
      <3> QED
        BY <3>1
    <2> QED
      BY <2>1, <2>2, <2>3
  <1> QED
    BY <1>1, <1>2, <1>4, <1>5, <1>6, <1>7 DEF LaidOut

(* Some templates only run where the root calls children, some only where *)
(* it does not, and no template has another guard.                         *)
LEMMA Guards ==
    ASSUME NEW i, NEW r, NEW d, Len(d.children) \in Nat
    PROVE  LET w == ProgramOf(i, r, d).commands
           IN  /\ \A e \in DOMAIN w : w[e].guard \in {NoGuard, Deep, Direct}
               /\ \E e \in DOMAIN w : w[e].guard = Deep
  <1>1. PICK n \in Nat : n = ChildCalls(d)
    BY DEF ChildCalls
  <1>2. PICK w : w = ProgramOf(i, r, d).commands
    OBVIOUS
  <1>3. LaidOut(w, i, d, n)
    BY <1>1, <1>2, Templates
  <1>4. ASSUME NEW e \in 1..5 PROVE w[e].guard \in {NoGuard, Deep, Direct}
    <2>1. e = 1 \/ e = 2 \/ e = 3 \/ e = 4 \/ e = 5
      OBVIOUS
    <2>2. w[e] = Opening(i, d)[e]
      BY <1>3 DEF LaidOut
    <2> QED
      BY <2>1, <2>2, OpeningFacts DEF IsTurn, IsStep
  <1>5. ASSUME NEW c \in 1..n PROVE w[2 * c + 4].guard = Deep /\ w[2 * c + 5].guard = Deep
    <2>1. /\ w[2 * c + 4] = Subcalls(i, d)[2 * c - 1]
          /\ w[2 * c + 5] = Subcalls(i, d)[2 * c]
      BY <1>3 DEF LaidOut
    <2>2. /\ IsTurn(Subcalls(i, d)[2 * c - 1], <<"child_prompt", c>>, <<"child", c>>, Deep, {4})
          /\ IsStep(Subcalls(i, d)[2 * c], <<<<"child", c>>>>, <<"normalized", c>>, Deep)
      BY <1>1, SubcallFacts
    <2> QED
      BY <2>1, <2>2 DEF IsTurn, IsStep
  <1>6. /\ Closing(i, d)[1].guard = Deep /\ Closing(i, d)[2].guard = Deep
        /\ Closing(i, d)[3].guard = NoGuard /\ Closing(i, d)[4].guard = NoGuard
    <2>1. /\ IsStep(Closing(i, d)[1], [k \in 1..ChildCalls(d) |-> <<"normalized", k>>],
                    <<"aggregate">>, Deep)
          /\ IsTurn(Closing(i, d)[2], <<"aggregate">>, <<"answer">>, Deep, {})
          /\ IsStep(Closing(i, d)[3], <<<<"answer">>>>, <<"reward">>, NoGuard)
          /\ IsStep(Closing(i, d)[4], <<<<"reward">>>>, <<"final">>, NoGuard)
      BY ClosingFacts
    <2> QED
      BY <2>1 DEF IsTurn, IsStep
  <1>7. ASSUME NEW k \in 1..4 PROVE w[2 * n + 5 + k].guard \in {NoGuard, Deep}
    <2>1. k = 1 \/ k = 2 \/ k = 3 \/ k = 4
      OBVIOUS
    <2>2. w[2 * n + 5 + k] = Closing(i, d)[k]
      BY <1>3 DEF LaidOut
    <2> QED
      BY <1>6, <2>1, <2>2
  <1>8. 2 * n + 5 + 1 \in DOMAIN w /\ w[2 * n + 5 + 1].guard = Deep
    BY <1>3, <1>6 DEF LaidOut
  <1>9. \A e \in DOMAIN w : w[e].guard \in {NoGuard, Deep, Direct}
    <2> SUFFICES ASSUME NEW e \in DOMAIN w PROVE w[e].guard \in {NoGuard, Deep, Direct}
      OBVIOUS
    <2>1. \/ e \in 1..5
          \/ \E c \in 1..n : e = 2 * c + 4 \/ e = 2 * c + 5
          \/ \E k \in 1..4 : e = 2 * n + 5 + k
      BY <1>3 DEF LaidOut
    <2> QED
      BY <2>1, <1>4, <1>5, <1>7
  <1> QED
    BY <1>2, <1>8, <1>9

LEMMA InitialFacts ==
    ASSUME NEW i, NEW r, NEW d
    PROVE  LET s == ProgramOf(i, r, d).initial
           IN  /\ IsDict(s)
               /\ DOMAIN s = {<<"route_prompt">>, <<"task_text">>, <<"base_prompt">>}
                                \cup {<<"child_prompt", c>> : c \in 1..ChildCalls(d)}
               /\ s[<<"route_prompt">>] = RoutePrompt(i, r)
  <1>1. ProgramOf(i, r, d).initial = InitialState(i, r, d)
    BY DEF ProgramOf
  <1>2. IsDict(InitialState(i, r, d))
    BY DEF InitialState, IsDict
  <1>3. DOMAIN InitialState(i, r, d)
           = {<<"route_prompt">>, <<"task_text">>, <<"base_prompt">>}
                \cup {<<"child_prompt", c>> : c \in 1..ChildCalls(d)}
    BY DEF InitialState
  <1>4. InitialState(i, r, d)[<<"route_prompt">>] = RoutePrompt(i, r)
    BY DEF InitialState
  <1> QED
    BY <1>1, <1>2, <1>3, <1>4

(* What DynamicProgram.__post_init__ asks of one template. *)
Accepted(p, e) ==
    LET c == p.commands[e]
    IN  /\ c.policy = NoPolicy \/ c.policy.prompt \in ReadSet(c)
        /\ c.policy = NoPolicy \/ c.role \in PolicyRoles
        /\ c.guard = NoGuard \/ c.guard.artifact \in Available(p, e)
        /\ ReadSet(c) \subseteq Available(p, e)
        /\ c.dependencies \subseteq 1..(e - 1)
        /\ c.output \notin DOMAIN p.initial

LEMMA StepIsAccepted ==
    ASSUME NEW p, NEW e \in Nat, NEW inputs, NEW output, NEW guard,
           IsStep(p.commands[e], inputs, output, guard),
           \A k \in DOMAIN inputs : inputs[k] \in Available(p, e),
           guard = NoGuard \/ guard.artifact \in Available(p, e),
           output \notin DOMAIN p.initial
    PROVE  Accepted(p, e)
  BY DEF IsStep, Accepted, ReadSet

LEMMA OneInputIsAccepted ==
    ASSUME NEW p, NEW e \in Nat, NEW input, NEW output, NEW guard,
           IsStep(p.commands[e], <<input>>, output, guard),
           input \in Available(p, e),
           guard = NoGuard \/ guard.artifact \in Available(p, e),
           output \notin DOMAIN p.initial
    PROVE  Accepted(p, e)
  <1>1. p.commands[e].inputs = <<input>>
    BY DEF IsStep
  <1>2. ReadSet(p.commands[e]) = {input}
    BY <1>1 DEF ReadSet
  <1> QED
    BY <1>2 DEF IsStep, Accepted

LEMMA AvailableFacts ==
    ASSUME NEW p, NEW e \in Nat
    PROVE  /\ \A a \in DOMAIN p.initial : a \in Available(p, e)
           /\ \A j \in Nat : 1 <= j /\ j < e => p.commands[j].output \in Available(p, e)
  BY DEF Available

LEMMA TurnIsAccepted ==
    ASSUME NEW p, NEW e \in Nat, NEW prompt, NEW output, NEW guard, NEW dependencies,
           IsTurn(p.commands[e], prompt, output, guard, dependencies),
           prompt \in Available(p, e),
           guard = NoGuard \/ guard.artifact \in Available(p, e),
           dependencies \subseteq 1..(e - 1),
           output \notin DOMAIN p.initial
    PROVE  Accepted(p, e)
  <1>1. p.commands[e].inputs = <<prompt>>
    BY DEF IsTurn
  <1>2. ReadSet(p.commands[e]) = {prompt}
    BY <1>1 DEF ReadSet
  <1> QED
    BY <1>2 DEF IsTurn, Accepted

LEMMA GuardArtifacts ==
    Deep.artifact = <<"is_recursive">> /\ Direct.artifact = <<"is_recursive">>
  BY DEF Deep, Direct, When

(***************************************************************************)
(* No program the generator can draw is refused: every template reads, and *)
(* is guarded by, artifacts there are before it.                           *)
(***************************************************************************)
THEOREM EveryDrawIsWellFormed ==
    ASSUME NEW i, NEW r, NEW d, Len(d.children) \in Nat
    PROVE  WellFormed(ProgramOf(i, r, d))
  <1>1. PICK n \in Nat : n = ChildCalls(d)
    BY DEF ChildCalls
  <1>2. PICK p : p = ProgramOf(i, r, d)
    OBVIOUS
  <1>3. LaidOut(p.commands, i, d, n)
    BY <1>1, <1>2, Templates
  <1>4. /\ \A e \in 1..5 : p.commands[e] = Opening(i, d)[e]
        /\ \A c \in 1..n : /\ p.commands[2 * c + 4] = Subcalls(i, d)[2 * c - 1]
                           /\ p.commands[2 * c + 5] = Subcalls(i, d)[2 * c]
        /\ \A k \in 1..4 : p.commands[2 * n + 5 + k] = Closing(i, d)[k]
        /\ Len(p.commands) = 2 * n + 9
    BY <1>3 DEF LaidOut
  <1>5. DOMAIN p.initial = {<<"route_prompt">>, <<"task_text">>, <<"base_prompt">>}
                              \cup {<<"child_prompt", c>> : c \in 1..n}
    BY <1>1, <1>2, InitialFacts
  <1>6. /\ IsTurn(p.commands[1], <<"route_prompt">>, <<"route">>, NoGuard, {})
        /\ IsStep(p.commands[2], <<<<"route">>>>, <<"is_recursive">>, NoGuard)
        /\ IsStep(p.commands[3], <<<<"task_text">>>>, <<"chunks">>, NoGuard)
        /\ IsStep(p.commands[4], <<<<"chunks">>>>, <<"first_chunk">>, NoGuard)
        /\ IsTurn(p.commands[5], <<"base_prompt">>, <<"answer">>, Direct, {4})
    BY <1>4, OpeningFacts
  <1>7. /\ p.commands[1].output = <<"route">> /\ p.commands[2].output = <<"is_recursive">>
        /\ p.commands[3].output = <<"chunks">>
    BY <1>6 DEF IsTurn, IsStep
  <1>8. ASSUME NEW e \in Nat, e > 2 PROVE <<"is_recursive">> \in Available(p, e)
    <2>1. p.commands[2].output \in Available(p, e)
      BY <1>8, AvailableFacts
    <2> QED
      BY <1>7, <2>1
  <1>9. ASSUME NEW c \in 1..n
        PROVE  /\ IsTurn(p.commands[2 * c + 4], <<"child_prompt", c>>, <<"child", c>>, Deep, {4})
               /\ IsStep(p.commands[2 * c + 5], <<<<"child", c>>>>, <<"normalized", c>>, Deep)
    BY <1>1, <1>4, SubcallFacts
  <1>10. PICK m \in Nat : m = 2 * n + 6
    OBVIOUS
  <1>11. /\ IsStep(p.commands[m], [k \in 1..n |-> <<"normalized", k>>], <<"aggregate">>, Deep)
         /\ IsTurn(p.commands[m + 1], <<"aggregate">>, <<"answer">>, Deep, {})
         /\ IsStep(p.commands[m + 2], <<<<"answer">>>>, <<"reward">>, NoGuard)
         /\ IsStep(p.commands[m + 3], <<<<"reward">>>>, <<"final">>, NoGuard)
    <2>1. /\ p.commands[2 * n + 5 + 1] = Closing(i, d)[1]
          /\ p.commands[2 * n + 5 + 2] = Closing(i, d)[2]
          /\ p.commands[2 * n + 5 + 3] = Closing(i, d)[3]
          /\ p.commands[2 * n + 5 + 4] = Closing(i, d)[4]
      BY <1>4
    <2>2. /\ 2 * n + 5 + 1 = m /\ 2 * n + 5 + 2 = m + 1
          /\ 2 * n + 5 + 3 = m + 2 /\ 2 * n + 5 + 4 = m + 3
      BY <1>10
    <2> QED
      BY <1>1, <2>1, <2>2, ClosingFacts
  <1>12. /\ p.commands[m].output = <<"aggregate">> /\ p.commands[m + 1].output = <<"answer">>
         /\ p.commands[m + 2].output = <<"reward">> /\ p.commands[m + 3].output = <<"final">>
    BY <1>11 DEF IsTurn, IsStep
  <1>13. Accepted(p, 1) /\ Accepted(p, 2) /\ Accepted(p, 3) /\ Accepted(p, 4) /\ Accepted(p, 5)
    <2>1. /\ <<"route_prompt">> \in Available(p, 1) /\ <<"route">> \in Available(p, 2)
          /\ <<"task_text">> \in Available(p, 3) /\ <<"chunks">> \in Available(p, 4)
          /\ <<"base_prompt">> \in Available(p, 5) /\ <<"is_recursive">> \in Available(p, 5)
      BY <1>5, <1>7, AvailableFacts
    <2>2. {<<"route">>, <<"is_recursive">>, <<"chunks">>, <<"first_chunk">>, <<"answer">>}
             \cap DOMAIN p.initial = {}
      BY <1>5
    <2>3. Accepted(p, 1)
      BY <1>6, <2>1, <2>2, TurnIsAccepted
    <2>4. Accepted(p, 2) /\ Accepted(p, 3) /\ Accepted(p, 4)
      BY <1>6, <2>1, <2>2, OneInputIsAccepted
    <2>5. PICK deps : deps = {4}
      OBVIOUS
    <2>6. Accepted(p, 5)
      <3>1. IsTurn(p.commands[5], <<"base_prompt">>, <<"answer">>, Direct, deps)
        BY <1>6, <2>5
      <3>2. deps \subseteq 1..(5 - 1)
        BY <2>5
      <3> QED
        BY ONLY <3>1, <3>2, <2>1, <2>2, TurnIsAccepted, GuardArtifacts
    <2> QED
      BY <2>3, <2>4, <2>6
  <1>14. ASSUME NEW c \in 1..n
         PROVE  Accepted(p, 2 * c + 4) /\ Accepted(p, 2 * c + 5)
    <2>1. PICK s \in Nat : s = 2 * c + 4
      OBVIOUS
    <2>2. /\ IsTurn(p.commands[s], <<"child_prompt", c>>, <<"child", c>>, Deep, {4})
          /\ IsStep(p.commands[s + 1], <<<<"child", c>>>>, <<"normalized", c>>, Deep)
      BY <1>9, <2>1
    <2>3. <<"is_recursive">> \in Available(p, s) /\ <<"is_recursive">> \in Available(p, s + 1)
      BY <1>8, <2>1
    <2>4. <<"child", c>> \notin DOMAIN p.initial /\ <<"normalized", c>> \notin DOMAIN p.initial
      BY <1>5
    <2>5. Accepted(p, s)
      <3>1. <<"child_prompt", c>> \in Available(p, s)
        BY <1>5, AvailableFacts
      <3>2. PICK deps : deps = {4}
        OBVIOUS
      <3>3. IsTurn(p.commands[s], <<"child_prompt", c>>, <<"child", c>>, Deep, deps)
        BY <2>2, <3>2
      <3>4. deps \subseteq 1..(s - 1)
        BY <2>1, <3>2
      <3> QED
        BY ONLY s \in Nat, <3>3, <3>4, <2>3, <2>4, <3>1, TurnIsAccepted, GuardArtifacts
    <2>6. Accepted(p, s + 1)
      <3>1. p.commands[s].output = <<"child", c>>
        BY <2>2 DEF IsTurn
      <3>2. <<"child", c>> \in Available(p, s + 1)
        BY <2>1, <3>1, AvailableFacts
      <3> QED
        <4>1. PICK t \in Nat : t = s + 1
          OBVIOUS
        <4>2. PICK output : output = <<"normalized", c>>
          OBVIOUS
        <4>3. PICK input : input = <<"child", c>>
          OBVIOUS
        <4>4. IsStep(p.commands[t], <<input>>, output, Deep)
          BY <2>2, <4>1, <4>2, <4>3
        <4>5. /\ input \in Available(p, t) /\ Deep.artifact \in Available(p, t)
              /\ output \notin DOMAIN p.initial
          BY <2>3, <2>4, <3>2, <4>1, <4>2, <4>3, GuardArtifacts
        <4>6. Accepted(p, t)
          BY ONLY t \in Nat, <4>4, <4>5, OneInputIsAccepted
        <4> QED
          BY <4>1, <4>6
    <2> QED
      BY <2>1, <2>5, <2>6
  <1>15. Accepted(p, m) /\ Accepted(p, m + 1) /\ Accepted(p, m + 2) /\ Accepted(p, m + 3)
    <2>1. {<<"aggregate">>, <<"answer">>, <<"reward">>, <<"final">>} \cap DOMAIN p.initial = {}
      BY <1>5
    <2>2. <<"is_recursive">> \in Available(p, m) /\ <<"is_recursive">> \in Available(p, m + 1)
      BY <1>8, <1>10
    <2>3. /\ <<"aggregate">> \in Available(p, m + 1) /\ <<"answer">> \in Available(p, m + 2)
          /\ <<"reward">> \in Available(p, m + 3)
      <3>1. ASSUME NEW j \in Nat, j >= 1 PROVE p.commands[j].output \in Available(p, j + 1)
        BY <3>1, AvailableFacts
      <3>2. m >= 1 /\ (m + 1) + 1 = m + 2 /\ (m + 2) + 1 = m + 3
        BY <1>10
      <3>3. /\ p.commands[m].output \in Available(p, m + 1)
            /\ p.commands[m + 1].output \in Available(p, (m + 1) + 1)
            /\ p.commands[m + 2].output \in Available(p, (m + 2) + 1)
        BY ONLY m \in Nat, <3>1, <3>2
      <3> QED
        BY <1>12, <3>2, <3>3
    <2>4. Accepted(p, m)
      <3>1. PICK inputs : inputs = [k \in 1..n |-> <<"normalized", k>>]
        OBVIOUS
      <3>2. ASSUME NEW c \in 1..n PROVE <<"normalized", c>> \in Available(p, m)
        <4>1. PICK s \in Nat : s = 2 * c + 5
          OBVIOUS
        <4>2. p.commands[s].output = <<"normalized", c>>
          BY <1>9, <4>1 DEF IsStep
        <4>3. 1 <= s /\ s < m
          BY <1>10, <4>1
        <4> QED
          BY <4>2, <4>3, AvailableFacts
      <3>3. \A k \in DOMAIN inputs : inputs[k] \in Available(p, m)
        BY <3>1, <3>2
      <3>4. PICK output : output = <<"aggregate">>
        OBVIOUS
      <3>5. IsStep(p.commands[m], inputs, output, Deep)
        BY <1>11, <3>1, <3>4
      <3>6. Deep.artifact \in Available(p, m) /\ output \notin DOMAIN p.initial
        BY <2>1, <2>2, <3>4, GuardArtifacts
      <3> QED
        BY ONLY m \in Nat, <3>3, <3>5, <3>6, StepIsAccepted
    <2>5. Accepted(p, m + 1)
      <3>1. PICK f \in Nat : f = m + 1
        OBVIOUS
      <3>2. PICK output : output = <<"answer">>
        OBVIOUS
      <3>3. PICK prompt : prompt = <<"aggregate">>
        OBVIOUS
      <3>4. PICK deps : deps = {}
        OBVIOUS
      <3>5. IsTurn(p.commands[f], prompt, output, Deep, deps)
        BY <1>11, <3>1, <3>2, <3>3, <3>4
      <3>6. /\ prompt \in Available(p, f) /\ Deep.artifact \in Available(p, f)
            /\ output \notin DOMAIN p.initial /\ deps \subseteq 1..(f - 1)
        BY <2>1, <2>2, <2>3, <3>1, <3>2, <3>3, <3>4, GuardArtifacts
      <3>7. Accepted(p, f)
        BY ONLY f \in Nat, <3>5, <3>6, TurnIsAccepted
      <3> QED
        BY <3>1, <3>7
    <2>6. Accepted(p, m + 2) /\ Accepted(p, m + 3)
      <3>1. PICK f \in Nat : f = m + 2
        OBVIOUS
      <3>2. PICK g \in Nat : g = m + 3
        OBVIOUS
      <3> QED
        BY <1>11, <2>1, <2>3, <3>1, <3>2, OneInputIsAccepted
    <2> QED
      BY <2>4, <2>5, <2>6
  <1>16. ASSUME NEW e \in 1..Len(p.commands) PROVE Accepted(p, e)
    <2>1. \/ e \in 1..5
          \/ \E c \in 1..n : e = 2 * c + 4 \/ e = 2 * c + 5
          \/ \E k \in 1..4 : e = 2 * n + 5 + k
      BY <1>3, <1>4 DEF LaidOut
    <2>2. CASE e \in 1..5
      <3>1. e = 1 \/ e = 2 \/ e = 3 \/ e = 4 \/ e = 5
        BY <2>2
      <3> QED
        BY <3>1, <1>13
    <2>3. CASE \E c \in 1..n : e = 2 * c + 4 \/ e = 2 * c + 5
      BY <2>3, <1>14
    <2>4. CASE \E k \in 1..4 : e = 2 * n + 5 + k
      <3>1. e = m \/ e = m + 1 \/ e = m + 2 \/ e = m + 3
        BY <2>4, <1>10
      <3> QED
        BY <3>1, <1>15
    <2> QED
      BY <2>1, <2>2, <2>3, <2>4
  <1>17. p.terminal \in Available(p, Len(p.commands) + 1)
    <2>1. p.terminal = <<"final">>
      BY <1>2 DEF ProgramOf
    <2>2. PICK f \in Nat : f = m + 3
      OBVIOUS
    <2>3. p.commands[f].output = <<"final">> /\ Len(p.commands) + 1 = f + 1 /\ 1 <= f
      BY <1>4, <1>10, <1>12, <2>2
    <2> QED
      BY <2>1, <2>3, AvailableFacts
  <1> QED
    BY <1>2, <1>16, <1>17 DEF WellFormed, Accepted

-----------------------------------------------------------------------------
(* The route a run takes.                                                  *)

(* The contains command of the route check.                                *)
CallsForRecursion(list) == \E k \in DOMAIN list : PyEqual(list[k], JInt(NeedleOfRecursion))

(* The templates of the branch that is, or is not, recursive.              *)
Branch(recursive) == {e \in Events : Cmd(e).guard = NoGuard \/ Cmd(e).guard = When(recursive)}

(* The engine runs program i of the campaign, drawn with this route.       *)
RunsDraw(i, r, d) ==
    /\ program = ProgramOf(i, r, d) /\ Len(d.children) \in Nat
    /\ program \in Programs /\ WellFormed(program)

LEMMA IntsCompare ==
    ASSUME NEW a, NEW b
    PROVE  PyEqual(JInt(a), JInt(b)) <=> a = b
  BY DEF PyEqual, PyValue, ScalarOf, JInt, IsList, IsBool

LEMMA GuardsDiffer ==
    /\ Deep # NoGuard /\ Direct # NoGuard /\ Deep # Direct
    /\ \A x \in BOOLEAN : When(x) = IF x THEN Deep ELSE Direct
  <1>1. "equals" \in DOMAIN Deep /\ "equals" \in DOMAIN Direct
    BY DEF Deep, Direct, When
  <1>2. "equals" \notin DOMAIN NoGuard
    BY DEF NoGuard
  <1>3. Deep.equals = JBool(TRUE) /\ Direct.equals = JBool(FALSE)
    BY DEF Deep, Direct, When
  <1>4. JBool(TRUE)[2] = TRUE /\ JBool(FALSE)[2] = FALSE
    BY DEF JBool
  <1>5. Deep # Direct
    BY <1>3, <1>4
  <1>6. \A x \in BOOLEAN : When(x) = IF x THEN Deep ELSE Direct
    <2> SUFFICES ASSUME NEW x \in BOOLEAN PROVE When(x) = IF x THEN Deep ELSE Direct
      OBVIOUS
    <2>1. CASE x = TRUE
      BY <2>1 DEF Deep
    <2>2. CASE x = FALSE
      BY <2>2 DEF Direct
    <2> QED
      BY <2>1, <2>2
  <1> QED
    BY <1>1, <1>2, <1>5, <1>6

(* The first two templates of a program run in every branch.               *)
LEMMA RouteTemplates ==
    ASSUME NEW i, NEW r, NEW d, RunsDraw(i, r, d)
    PROVE  /\ 1 \in Events /\ 2 \in Events /\ EventCount \in Nat
           /\ Out(1) = <<"route">> /\ Out(2) = <<"is_recursive">>
           /\ Cmd(1).guard = NoGuard /\ Cmd(2).guard = NoGuard
           /\ IsPolicy(1) /\ Cmd(1).policy.prompt = <<"route_prompt">>
           /\ Cmd(1).policy.seed = 10000 + i
           /\ ~IsPolicy(2) /\ Cmd(2).kind = "contains" /\ Cmd(2).inputs = <<<<"route">>>>
           /\ Cmd(2).param = JInt(NeedleOfRecursion)
  <1>1. PICK n : LaidOut(program.commands, i, d, n)
    BY Templates DEF RunsDraw
  <1>2. /\ EventCount \in Nat /\ 1 \in Events /\ 2 \in Events
        /\ program.commands[1] = Opening(i, d)[1]
        /\ program.commands[2] = Opening(i, d)[2]
    <2>1. /\ n \in Nat /\ Len(program.commands) = 2 * n + 9
          /\ \A e \in 1..5 : program.commands[e] = Opening(i, d)[e]
      BY <1>1 DEF LaidOut
    <2> QED
      BY <2>1 DEF Events, EventCount
  <1>3. /\ IsTurn(program.commands[1], <<"route_prompt">>, <<"route">>, NoGuard, {})
        /\ program.commands[1].policy.seed = 10000 + i
        /\ IsStep(program.commands[2], <<<<"route">>>>, <<"is_recursive">>, NoGuard)
        /\ program.commands[2].kind = "contains"
        /\ program.commands[2].param = JInt(NeedleOfRecursion)
    BY <1>2, OpeningFacts
  <1> QED
    BY <1>2, <1>3 DEF IsTurn, IsStep, Cmd, Out, IsPolicy

LEMMA RouteIsChecked ==
    ASSUME NEW i, NEW r, NEW d, RunsDraw(i, r, d), NEW state, NEW list,
           state[<<"route">>] = JList(list), ExecuteCommand(Cmd(2), state) # Raised
    PROVE  ExecuteCommand(Cmd(2), state) = JBool(CallsForRecursion(list))
  <1>1. /\ Cmd(2).kind = "contains" /\ Cmd(2).inputs = <<<<"route">>>>
        /\ Cmd(2).param = JInt(NeedleOfRecursion)
    BY RouteTemplates
  <1>2. PICK values : values = [k \in DOMAIN Cmd(2).inputs |-> state[Cmd(2).inputs[k]]]
    OBVIOUS
  <1>3. values[1] = JList(list)
    BY <1>1, <1>2
  <1>4. ~IsStr(values[1]) /\ values[1][2] = list
    BY <1>3 DEF IsStr, JList
  <1>5. ExecuteCommand(Cmd(2), state) = Result(Cmd(2), values)
    BY <1>2 DEF ExecuteCommand
  <1>6. Result(Cmd(2), values) = JBool(\E k \in DOMAIN list : PyEqual(list[k], Cmd(2).param))
    BY <1>1, <1>4 DEF Result
  <1> QED
    BY <1>1, <1>5, <1>6 DEF CallsForRecursion

(***************************************************************************)
(* A complete run activates the templates of the branch that the value of  *)
(* its root turn asks for.                                                 *)
(***************************************************************************)
LEMMA RouteDecidesRun ==
    ASSUME NEW i, NEW r, NEW d, RunsDraw(i, r, d),
           NEW b, NEW base, NEW t, t # 2, Run(b, base, t, EventCount + 1),
           NEW list, b.state[<<"route">>] = JList(list)
    PROVE  b.active = Branch(CallsForRecursion(list))
  <1>1. /\ 1 \in Events /\ 2 \in Events /\ EventCount \in Nat
        /\ Out(2) = <<"is_recursive">> /\ Cmd(2).guard = NoGuard /\ ~IsPolicy(2)
    BY RouteTemplates
  <1>2. \A e \in Events : e < EventCount + 1
    BY <1>1 DEF Events
  <1>3. /\ \A e \in Events : e \in b.active <=> IsActive(e, b.state)
        /\ \A e \in b.active \ {t} : Value(e, b) # Raised /\ b.state[Out(e)] = Value(e, b)
        /\ DOMAIN b.state = Before(b.active, EventCount + 1)
        /\ b.active \subseteq Events
    BY <1>2 DEF Run, Ordered
  <1>4. 2 \in b.active
    BY <1>1, <1>3 DEF IsActive
  <1>5. PICK recursive \in BOOLEAN : recursive = CallsForRecursion(list)
    BY DEF CallsForRecursion
  <1>6. b.state[<<"is_recursive">>] = JBool(recursive)
    <2>1. ExecuteCommand(Cmd(2), b.state) # Raised
          /\ b.state[<<"is_recursive">>] = ExecuteCommand(Cmd(2), b.state)
      BY <1>1, <1>3, <1>4 DEF Value
    <2> QED
      BY <1>5, <2>1, RouteIsChecked
  <1>7. <<"is_recursive">> \in DOMAIN b.state
    BY <1>1, <1>2, <1>3, <1>4 DEF Before
  <1>8. ASSUME NEW e \in Events PROVE e \in b.active <=> e \in Branch(recursive)
    <2>1. e \in b.active <=> IsActive(e, b.state)
      BY <1>3
    <2>2. Cmd(e).guard \in {NoGuard, Deep, Direct}
      <3>1. \A f \in DOMAIN program.commands :
               program.commands[f].guard \in {NoGuard, Deep, Direct}
        BY Guards DEF RunsDraw
      <3>2. e \in DOMAIN program.commands
        BY ProgramsAssumption DEF RunsDraw, Events, EventCount
      <3> QED
        BY <3>1, <3>2 DEF Cmd
    <2>3. CASE Cmd(e).guard = NoGuard
      BY <2>1, <2>3 DEF IsActive, Branch
    <2>4. CASE Cmd(e).guard = Deep \/ Cmd(e).guard = Direct
      <3>1. PICK x \in BOOLEAN : Cmd(e).guard = When(x)
        BY <2>4 DEF Deep, Direct
      <3>2. Cmd(e).guard.artifact = <<"is_recursive">> /\ Cmd(e).guard.equals = JBool(x)
        BY <3>1 DEF When
      <3>3. Cmd(e).guard # NoGuard
        BY <2>4, GuardsDiffer
      <3>4. IsActive(e, b.state) <=> JBool(recursive) = JBool(x)
        BY <1>6, <1>7, <3>2, <3>3 DEF IsActive, GuardMissing
      <3>5. JBool(recursive) = JBool(x) <=> recursive = x
        BY Zenon DEF JBool
      <3>6. When(recursive) = When(x) <=> recursive = x
        BY GuardsDiffer
      <3> QED
        BY <2>1, <3>1, <3>3, <3>4, <3>5, <3>6 DEF Branch
    <2> QED
      BY <2>2, <2>3, <2>4
  <1>9. b.active = Branch(recursive)
    BY <1>3, <1>8 DEF Branch
  <1> QED
    BY <1>5, <1>9

LEMMA BranchesDiffer ==
    ASSUME NEW i, NEW r, NEW d, RunsDraw(i, r, d), NEW x \in BOOLEAN, NEW y \in BOOLEAN
    PROVE  /\ Branch(x) = Branch(y) <=> x = y
           /\ TakesRecursiveRoute(Branch(x)) <=> x
  <1>1. PICK e \in DOMAIN program.commands : program.commands[e].guard = Deep
    BY Guards DEF RunsDraw
  <1>2. e \in Events /\ Cmd(e).guard = Deep
    BY <1>1, ProgramsAssumption DEF RunsDraw, Events, EventCount, Cmd
  <1>3. e \in Branch(TRUE) /\ e \notin Branch(FALSE)
    BY <1>2, GuardsDiffer DEF Branch, Deep
  <1>4. TakesRecursiveRoute(Branch(TRUE))
    BY <1>2, <1>3 DEF TakesRecursiveRoute
  <1>5. ~TakesRecursiveRoute(Branch(FALSE))
    BY GuardsDiffer DEF TakesRecursiveRoute, Branch
  <1> QED
    BY <1>3, <1>4, <1>5

-----------------------------------------------------------------------------
(* The routes of the original run and of the interventions.                *)

LEMMA PairFacts ==
    ASSUME NEW a, NEW b
    PROVE  LET list == Ints(<<a, b>>)[2]
           IN  /\ HasLength(list, 2)
               /\ list[1] = JInt(a) /\ list[2] = JInt(b) /\ DOMAIN list = 1..2
               /\ Ints(<<a, b>>) = JList(list)
  <1>1. PICK list : list = [k \in DOMAIN <<a, b>> |-> JInt(<<a, b>>[k])]
    OBVIOUS
  <1>2. DOMAIN list = 1..2 /\ list = [k \in 1..2 |-> list[k]]
    BY <1>1
  <1>3. list[1] = JInt(a) /\ list[2] = JInt(b)
    BY <1>1
  <1>4. HasLength(list, 2)
    BY <1>2, FunctionIsSequence
  <1>5. Ints(<<a, b>>) = JList(list) /\ Ints(<<a, b>>)[2] = list
    BY <1>1 DEF Ints, JList
  <1> QED
    BY <1>2, <1>3, <1>4, <1>5

(* The first token of a pair is the needle or not, and the second never is. *)
LEMMA PairRecurses ==
    ASSUME NEW a, NEW b, b # NeedleOfRecursion
    PROVE  CallsForRecursion(Ints(<<a, b>>)[2]) <=> a = NeedleOfRecursion
  <1>1. PICK list : list = Ints(<<a, b>>)[2]
    OBVIOUS
  <1>2. DOMAIN list = 1..2 /\ list[1] = JInt(a) /\ list[2] = JInt(b)
    BY <1>1, PairFacts
  <1>3. /\ PyEqual(list[1], JInt(NeedleOfRecursion)) <=> a = NeedleOfRecursion
        /\ ~PyEqual(list[2], JInt(NeedleOfRecursion))
    BY <1>2, IntsCompare
  <1> QED
    BY <1>1, <1>2, <1>3 DEF CallsForRecursion

LEMMA PromptRecurses ==
    ASSUME NEW i \in Nat, NEW r \in Routes
    PROVE  CallsForRecursion(DeterministicSampler(RoutePrompt(i, r), 10000 + i)) <=> r = "recurse"
  <1>1. PICK a, b : /\ RoutePrompt(i, r) = Ints(<<a, b>>)
                    /\ a = NeedleOfRecursion <=> r = "recurse"
                    /\ b # NeedleOfRecursion \/ r = "recurse"
    <2>1. CASE r = "recurse"
      BY <2>1 DEF RoutePrompt
    <2>2. CASE r # "recurse"
      <3>1. RoutePrompt(i, r) = Ints(<<0, 100 + (i % 101)>>)
        BY <2>2 DEF RoutePrompt
      <3>2. 0 # NeedleOfRecursion /\ 100 + (i % 101) # NeedleOfRecursion
        BY DEF NeedleOfRecursion
      <3> QED
        BY <2>2, <3>1, <3>2
    <2> QED
      BY <2>1, <2>2
  <1>2. PICK list : list = Ints(<<a, b>>)[2]
    OBVIOUS
  <1>3. HasLength(list, 2) /\ list[1] = JInt(a) /\ list[2] = JInt(b)
    BY <1>2, PairFacts
  <1>4. PICK w : w = list \o <<JInt(1), JInt(2)>>
    OBVIOUS
  <1>5. HasLength(<<JInt(1), JInt(2)>>, 2)
    <2>1. <<JInt(1), JInt(2)>> \in Seq({JInt(1), JInt(2)}) /\ Len(<<JInt(1), JInt(2)>>) = 2
      OBVIOUS
    <2> QED
      BY <2>1 DEF HasLength
  <1>6. Concatenated(w, list, 2, <<JInt(1), JInt(2)>>, 2)
    BY <1>3, <1>4, <1>5, ConcatenationFacts
  <1>7. /\ DOMAIN w = 1..4 /\ w[1] = JInt(a) /\ w[2] = JInt(b)
        /\ w[3] = JInt(1) /\ w[4] = JInt(2)
    <2>1. DOMAIN w = 1..4
      BY <1>6 DEF Concatenated, HasLength
    <2>2. w[1] = JInt(a) /\ w[2] = JInt(b)
      BY <1>3, <1>6 DEF Concatenated
    <2>3. w[3] = <<JInt(1), JInt(2)>>[3 - 2] /\ w[4] = <<JInt(1), JInt(2)>>[4 - 2]
      BY <1>6 DEF Concatenated
    <2> QED
      BY <2>1, <2>2, <2>3
  <1>8. CallsForRecursion(w) <=> r = "recurse"
    <2>1. /\ PyEqual(w[1], JInt(NeedleOfRecursion)) <=> r = "recurse"
          /\ PyEqual(w[2], JInt(NeedleOfRecursion)) => r = "recurse"
          /\ ~PyEqual(w[3], JInt(NeedleOfRecursion))
          /\ ~PyEqual(w[4], JInt(NeedleOfRecursion))
      <3>1. 1 # NeedleOfRecursion /\ 2 # NeedleOfRecursion
        BY DEF NeedleOfRecursion
      <3> QED
        BY <1>1, <1>7, <3>1, IntsCompare
    <2>2. \A k \in 1..4 : k = 1 \/ k = 2 \/ k = 3 \/ k = 4
      OBVIOUS
    <2> QED
      BY <1>7, <2>1, <2>2 DEF CallsForRecursion
  <1> QED
    BY <1>1, <1>2, <1>4, <1>8 DEF DeterministicSampler

LEMMA ReplacementRecurses ==
    ASSUME NEW r \in Routes, NEW k \in Nat
    PROVE  /\ ReplacementAction(r, k) = JList(ReplacementAction(r, k)[2])
           /\ CallsForRecursion(ReplacementAction(r, k)[2])
                 <=> ((r = "recurse") # Leaves(k))
  <1> DEFINE recurses == (r = "recurse") # Leaves(k)
             a == IF recurses THEN NeedleOfRecursion ELSE 0
  <1>1. ReplacementAction(r, k) = Ints(<<a, 200 + k>>)
    BY DEF ReplacementAction
  <1>2. 200 + k # NeedleOfRecursion
    BY DEF NeedleOfRecursion
  <1>3. a = NeedleOfRecursion <=> recurses
    BY DEF NeedleOfRecursion
  <1> HIDE DEF a, recurses
  <1>4. CallsForRecursion(Ints(<<a, 200 + k>>)[2]) <=> recurses
    BY <1>2, <1>3, PairRecurses
  <1>5. Ints(<<a, 200 + k>>) = JList(Ints(<<a, 200 + k>>)[2])
    BY PairFacts
  <1> QED
    BY <1>1, <1>4, <1>5 DEF recurses

-----------------------------------------------------------------------------
(* What an intervention of the campaign does.                              *)

LEMMA OriginalRoute ==
    ASSUME NEW i \in 0..(ProgramCount - 1), NEW r \in Routes, NEW d, RunsDraw(i, r, d),
           CampaignSetting, OriginalIsRun
    PROVE  original.active = Branch(r = "recurse")
  <1>1. PICK base \in InitialCaches : Run(original, base, 0, EventCount + 1)
    BY DEF OriginalIsRun, MaterializedAt
  <1>2. base = EmptyDict
    BY <1>1 DEF CampaignSetting
  <1>3. /\ 1 \in Events /\ EventCount \in Nat /\ Out(1) = <<"route">>
        /\ Cmd(1).guard = NoGuard /\ IsPolicy(1)
        /\ Cmd(1).policy.prompt = <<"route_prompt">> /\ Cmd(1).policy.seed = 10000 + i
    BY RouteTemplates
  <1>4. /\ IsActive(1, original.state) => 1 \in original.active
        /\ 1 \in original.active => /\ Value(1, original) # Raised
                                    /\ original.state[Out(1)] = Value(1, original)
        /\ \A a \in DOMAIN program.initial : original.state[a] = program.initial[a]
        /\ \A k \in DOMAIN original.cache : original.cache[k] = Action(base, k)
    <2>1. 1 < EventCount + 1
      BY <1>3 DEF Events
    <2> QED
      BY <1>1, <1>3, <2>1 DEF Run, Ordered, CacheIs
  <1>5. 1 \in original.active
    BY <1>3, <1>4 DEF IsActive
  <1>6. original.state[<<"route">>] = JList(Action(original.cache, Key(1, original.state)))
    BY <1>3, <1>4, <1>5 DEF Value
  <1>7. /\ Key(1, original.state).prompt = RoutePrompt(i, r)
        /\ Key(1, original.state).seed = 10000 + i
    <2>1. original.state[<<"route_prompt">>] = RoutePrompt(i, r)
      BY <1>4, InitialFacts DEF RunsDraw
    <2> QED
      BY <1>3, <2>1 DEF Key
  <1>8. Action(original.cache, Key(1, original.state)) = Sampler(RoutePrompt(i, r), 10000 + i)
    <2>1. PICK key : key = Key(1, original.state)
      OBVIOUS
    <2>2. Action(EmptyDict, key) = Sampler(key.prompt, key.seed)
      BY DEF Action, EmptyDict
    <2>3. Action(original.cache, key) = Sampler(key.prompt, key.seed)
      BY <1>2, <1>4, <2>2 DEF Action
    <2> QED
      BY <1>7, <2>1, <2>3
  <1>9. PICK list : /\ list = DeterministicSampler(RoutePrompt(i, r), 10000 + i)
                    /\ original.state[<<"route">>] = JList(list)
    BY <1>6, <1>8 DEF CampaignSetting
  <1>10. original.active = Branch(CallsForRecursion(list))
    BY <1>1, <1>9, RouteDecidesRun
  <1>11. CallsForRecursion(list) <=> r = "recurse"
    BY <1>9, PromptRecurses
  <1>12. CallsForRecursion(list) \in BOOLEAN
    BY DEF CallsForRecursion
  <1>13. CallsForRecursion(list) = (r = "recurse")
    BY <1>11, <1>12
  <1> QED
    BY <1>10, <1>13

LEMMA InterventionRoute ==
    ASSUME NEW i \in 0..(ProgramCount - 1), NEW r \in Routes, NEW d, RunsDraw(i, r, d),
           NEW k \in Nat, TypeOK, NEW F, IsBranch(F, Target),
           F.state[Out(Target)] = ReplacementAction(r, k)
    PROVE  F.active = Branch((r = "recurse") # Leaves(k))
  <1>1. Run(F, original.cache, 1, EventCount + 1)
    BY BranchFacts DEF Target
  <1>2. Out(Target) = <<"route">>
    BY RouteTemplates DEF Target
  <1>3. PICK list : list = ReplacementAction(r, k)[2]
    OBVIOUS
  <1>4. /\ F.state[<<"route">>] = JList(list)
        /\ CallsForRecursion(list) <=> ((r = "recurse") # Leaves(k))
    BY <1>2, <1>3, ReplacementRecurses
  <1>5. F.active = Branch(CallsForRecursion(list))
    BY <1>1, <1>4, RouteDecidesRun
  <1>6. CallsForRecursion(list) = ((r = "recurse") # Leaves(k))
    BY <1>4 DEF CallsForRecursion
  <1> QED
    BY <1>5, <1>6

(* The partition of the task text, which no replay of a root turn repeats.  *)
Partition == 3

LEMMA PartitionFacts ==
    ASSUME NEW i, NEW r, NEW d, RunsDraw(i, r, d)
    PROVE  /\ Partition \in Events /\ Cmd(Partition).guard = NoGuard
           /\ Out(Partition) = <<"chunks">> /\ ReadSet(Cmd(Partition)) = {<<"task_text">>}
           /\ Cmd(Partition).dependencies = {}
           /\ \A e \in Events : Out(e) = <<"chunks">> => e = Partition
           /\ \A e \in Events : Out(e) # <<"task_text">>
  <1>1. PICK n : LaidOut(program.commands, i, d, n)
    BY Templates DEF RunsDraw
  <1>2. /\ n \in Nat /\ n = ChildCalls(d) /\ Len(program.commands) = 2 * n + 9
        /\ \A e \in 1..5 : program.commands[e] = Opening(i, d)[e]
        /\ \A c \in 1..n : /\ program.commands[2 * c + 4] = Subcalls(i, d)[2 * c - 1]
                           /\ program.commands[2 * c + 5] = Subcalls(i, d)[2 * c]
        /\ \A k \in 1..4 : program.commands[2 * n + 5 + k] = Closing(i, d)[k]
        /\ \A e \in 1..(2 * n + 9) :
              \/ e \in 1..5
              \/ \E c \in 1..n : e = 2 * c + 4 \/ e = 2 * c + 5
              \/ \E k \in 1..4 : e = 2 * n + 5 + k
    BY <1>1 DEF LaidOut
  <1>3. EventCount \in Nat /\ Events = 1..(2 * n + 9) /\ 3 \in Events
    <2>1. n \in Nat /\ Len(program.commands) = 2 * n + 9
      BY <1>2
    <2>2. EventCount = 2 * n + 9
      BY <2>1 DEF EventCount
    <2> QED
      BY ONLY <2>1, <2>2 DEF Events
  <1>4. IsStep(Cmd(3), <<<<"task_text">>>>, <<"chunks">>, NoGuard)
    BY <1>2, OpeningFacts DEF Cmd
  <1>5. /\ Cmd(3).guard = NoGuard /\ Out(3) = <<"chunks">> /\ Cmd(3).dependencies = {}
        /\ Cmd(3).inputs = <<<<"task_text">>>>
    BY <1>4 DEF IsStep, Cmd, Out
  <1>6. ReadSet(Cmd(3)) = {<<"task_text">>}
    BY <1>5 DEF ReadSet
  <1>7. /\ Opening(i, d)[1].output = <<"route">> /\ Opening(i, d)[2].output = <<"is_recursive">>
        /\ Opening(i, d)[4].output = <<"first_chunk">> /\ Opening(i, d)[5].output = <<"answer">>
    <2>1. /\ IsTurn(Opening(i, d)[1], <<"route_prompt">>, <<"route">>, NoGuard, {})
          /\ IsStep(Opening(i, d)[2], <<<<"route">>>>, <<"is_recursive">>, NoGuard)
          /\ IsStep(Opening(i, d)[4], <<<<"chunks">>>>, <<"first_chunk">>, NoGuard)
          /\ IsTurn(Opening(i, d)[5], <<"base_prompt">>, <<"answer">>, Direct, {4})
      BY OpeningFacts
    <2> QED
      BY <2>1 DEF IsTurn, IsStep
  <1>8. ASSUME NEW c \in 1..n
        PROVE  Out(2 * c + 4) = <<"child", c>> /\ Out(2 * c + 5) = <<"normalized", c>>
    <2>1. /\ IsTurn(Subcalls(i, d)[2 * c - 1], <<"child_prompt", c>>, <<"child", c>>, Deep, {4})
          /\ IsStep(Subcalls(i, d)[2 * c], <<<<"child", c>>>>, <<"normalized", c>>, Deep)
      BY <1>2, SubcallFacts
    <2> QED
      BY <1>2, <2>1 DEF IsTurn, IsStep, Out
  <1>9. /\ Closing(i, d)[1].output = <<"aggregate">> /\ Closing(i, d)[2].output = <<"answer">>
        /\ Closing(i, d)[3].output = <<"reward">> /\ Closing(i, d)[4].output = <<"final">>
    <2>1. /\ IsStep(Closing(i, d)[1], [k \in 1..ChildCalls(d) |-> <<"normalized", k>>],
                    <<"aggregate">>, Deep)
          /\ IsTurn(Closing(i, d)[2], <<"aggregate">>, <<"answer">>, Deep, {})
          /\ IsStep(Closing(i, d)[3], <<<<"answer">>>>, <<"reward">>, NoGuard)
          /\ IsStep(Closing(i, d)[4], <<<<"reward">>>>, <<"final">>, NoGuard)
      BY ClosingFacts
    <2> QED
      BY <2>1 DEF IsTurn, IsStep
  <1>10. ASSUME NEW e \in Events, Out(e) = <<"chunks">> PROVE e = 3
    <2>1. CASE e \in 1..5
      <3>1. e = 1 \/ e = 2 \/ e = 3 \/ e = 4 \/ e = 5
        BY <2>1
      <3>2. Out(e) = Opening(i, d)[e].output
        BY <1>2, <2>1 DEF Out
      <3> QED
        BY <1>7, <1>10, <3>1, <3>2
    <2>2. ASSUME NEW c \in 1..n, e = 2 * c + 4 \/ e = 2 * c + 5 PROVE FALSE
      BY <1>8, <1>10, <2>2
    <2>3. ASSUME NEW k \in 1..4, e = 2 * n + 5 + k PROVE FALSE
      <3>1. k = 1 \/ k = 2 \/ k = 3 \/ k = 4
        OBVIOUS
      <3>2. Out(e) = Closing(i, d)[k].output
        BY <1>2, <2>3 DEF Out
      <3> QED
        BY <1>9, <1>10, <3>1, <3>2
    <2> QED
      BY <1>2, <1>3, <2>1, <2>2, <2>3
  <1>11. \A e \in Events : Out(e) # <<"task_text">>
    <2>1. <<"task_text">> \in DOMAIN program.initial
      BY InitialFacts DEF RunsDraw
    <2> QED
      BY <2>1, EventFacts DEF RunsDraw
  <1> QED
    BY <1>3, <1>5, <1>6, <1>10, <1>11 DEF Partition

(* A root turn that leaves its route adds templates to the branch and takes *)
(* others away.                                                            *)
LEMMA BranchesExchange ==
    ASSUME NEW i, NEW r, NEW d, RunsDraw(i, r, d), NEW x \in BOOLEAN
    PROVE  Branch(x) \ Branch(~x) # {}
  <1>1. PICK e \in DOMAIN program.commands : program.commands[e].guard = Deep
    BY Guards DEF RunsDraw
  <1>2. e \in Events /\ Cmd(e).guard = Deep
    BY <1>1, ProgramsAssumption DEF RunsDraw, Events, EventCount, Cmd
  <1>3. 5 \in Events /\ Cmd(5).guard = Direct
    <2>1. PICK n : LaidOut(program.commands, i, d, n)
      BY Templates DEF RunsDraw
    <2>2. /\ n \in Nat /\ Len(program.commands) = 2 * n + 9
          /\ \A j \in 1..5 : program.commands[j] = Opening(i, d)[j]
      BY <2>1 DEF LaidOut
    <2>3. IsTurn(Opening(i, d)[5], <<"base_prompt">>, <<"answer">>, Direct, {4})
      BY OpeningFacts
    <2> QED
      BY <2>2, <2>3 DEF Events, EventCount, Cmd, IsTurn
  <1>4. CASE x = TRUE
    BY <1>2, <1>4, GuardsDiffer DEF Branch
  <1>5. CASE x = FALSE
    BY <1>3, <1>5, GuardsDiffer DEF Branch
  <1> QED
    BY <1>4, <1>5

-----------------------------------------------------------------------------
(***************************************************************************)
(* What a replay runs again: in full mode everything after the target, in  *)
(* sliced mode part of it, of which are all the calls it samples.          *)
(***************************************************************************)
SuffixOf(o) == {e \in o.active : e > request.target}

Resampled(decisions) ==
    {e \in DOMAIN decisions :
        e > request.target /\ decisions[e] = "key_changed_or_missing"}

WorkOf(m, o) ==
    /\ m = "full_suffix" => o.reexecuted = SuffixOf(o)
    /\ m = "sliced" => /\ o.reexecuted \subseteq SuffixOf(o)
                       /\ Resampled(o.decisions) \subseteq o.reexecuted

WorkInv ==
    /\ phase = "sliced" => Resampled(trace.decisions) \subseteq dirty.events
    /\ \A m \in DOMAIN results : results[m].returned => WorkOf(m, results[m])

LEMMA ResampledGrows ==
    ASSUME NEW d, NEW e, NEW v, NEW dirtied,
           Resampled(d) \subseteq dirtied,
           v = "key_changed_or_missing" => e \in dirtied
    PROVE  Resampled(Put(d, e, v)) \subseteq dirtied
  <1>1. \A x \in DOMAIN Put(d, e, v) : x = e \/ (x \in DOMAIN d /\ Put(d, e, v)[x] = d[x])
    BY DEF Put
  <1>2. Put(d, e, v)[e] = v
    BY DEF Put
  <1> QED
    BY <1>1, <1>2 DEF Resampled

LEMMA StepKeepsWork == IInv /\ WorkInv /\ [Next]_vars => WorkInv'
  <1> SUFFICES ASSUME IInv, WorkInv, [Next]_vars PROVE WorkInv'
    OBVIOUS
  <1>1. /\ TypeOK /\ IsTrace(trace) /\ IsDict(results)
        /\ DOMAIN trace = {"state", "producer", "active", "cache", "decisions"}
        /\ IsDict(trace.decisions) /\ trace.active \subseteq Events
        /\ phase \in {"original", "failed"} => results = EmptyDict /\ request = NoRequest
        /\ phase = "prefix" => PrefixAt(request, pos, trace)
        /\ phase = "full" => FullAt(request, pos, trace)
        /\ phase = "sliced" => SlicedAt(request, pos, trace, dirty)
    BY DEF IInv, TypeOK, IsTrace
  <1>2. ASSUME UNCHANGED <<request, results>>, phase' # "sliced" PROVE WorkInv'
    BY <1>2 DEF WorkInv, WorkOf, SuffixOf, Resampled
  <1>3. ASSUME UNCHANGED <<request, results>>, Resampled(trace'.decisions) \subseteq dirty'.events
        PROVE  WorkInv'
    BY <1>3 DEF WorkInv, WorkOf, SuffixOf, Resampled
  <1>4. ASSUME UNCHANGED request, phase' = "idle", NEW o, results' = Put(results, request.mode, o),
               o.returned => WorkOf(request.mode, o)
        PROVE  WorkInv'
    <2>1. \A m \in DOMAIN results' : \/ (m = request.mode /\ results'[m] = o)
                                     \/ (m \in DOMAIN results /\ results'[m] = results[m])
      BY <1>4 DEF Put
    <2>2. \A m \in DOMAIN results' : results'[m].returned => WorkOf(m, results'[m])
      BY <1>4, <2>1 DEF WorkInv
    <2>3. \A m, x : WorkOf(m, x) => WorkOf(m, x)'
      BY <1>4 DEF WorkOf, SuffixOf, Resampled
    <2>4. (\A m \in DOMAIN results : results[m].returned => WorkOf(m, results[m]))'
      BY <1>4, <2>2 DEF WorkOf, SuffixOf, Resampled
    <2> QED
      BY <1>4, <2>4 DEF WorkInv
  <1>5. CASE SkipInactive
    BY <1>2, <1>5 DEF SkipInactive, Materializing
  <1>6. CASE ExecuteActive
    BY <1>2, <1>6 DEF ExecuteActive, Materializing
  <1>7. CASE OriginalRaises
    BY <1>2, <1>7 DEF OriginalRaises
  <1>8. CASE FinishOriginal
    BY <1>2, <1>8 DEF FinishOriginal
  <1>9. ASSUME NEW target \in Events, NEW replacement \in Replacements, NEW mode \in Modes,
               Replay(target, replacement, mode)
        PROVE  WorkInv'
    <2>1. phase' = "prefix"
      BY <1>9 DEF Replay
    <2>2. CASE results' = EmptyDict
      BY <2>1, <2>2 DEF WorkInv, EmptyDict
    <2>3. CASE results' # EmptyDict
      <3>1. results' = results /\ request'.target = request.target
        BY <1>9, <2>3 DEF Replay
      <3> QED
        BY <2>1, <3>1 DEF WorkInv, WorkOf, SuffixOf, Resampled
    <2> QED
      BY <2>2, <2>3
  <1>10. CASE BeginFull
    BY <1>2, <1>10 DEF BeginFull
  <1>11. CASE BeginSliced
    <2>1. /\ UNCHANGED <<request, results>> /\ trace' = Overlaid
          /\ phase = "prefix" /\ pos = request.target
      BY <1>11 DEF BeginSliced, Overlaid
    <2>2. Run(trace, original.cache, request.target, pos)
      BY <1>1, <2>1 DEF PrefixAt
    <2>3. \A e \in DOMAIN trace.decisions : e \in Events /\ e < pos
      BY <1>1, <2>2 DEF Run, Ordered
    <2>4. Events \subseteq Nat /\ pos \in Nat
      BY <1>1, EventFacts DEF TypeOK, Events
    <2>5. Resampled(trace.decisions) = {}
      <3>1. \A e \in DOMAIN trace.decisions : ~(e > request.target)
        <4> SUFFICES ASSUME NEW e \in DOMAIN trace.decisions PROVE ~(e > pos)
          BY <2>1
        <4>1. e \in Nat /\ e < pos
          BY <2>3, <2>4
        <4> QED
          BY <4>1, <2>4
      <3> QED
        BY <3>1 DEF Resampled
    <2>6. DOMAIN Replaced = DOMAIN trace
      BY <1>1 DEF Replaced, Written
    <2>7. Overlaid.decisions = Replaced.decisions
      BY <1>1, <2>6, OverlaidFacts
    <2>8. /\ IsPolicy(request.target) =>
                Replaced.decisions = Put(trace.decisions, request.target, "intervention_action")
          /\ ~IsPolicy(request.target) => Replaced.decisions = trace.decisions
      BY <1>1 DEF Replaced, Written
    <2>9. Resampled(Replaced.decisions) \subseteq dirty'.events
      <3>1. CASE IsPolicy(request.target)
        <4>1. Replaced.decisions = Put(trace.decisions, request.target, "intervention_action")
          BY <2>8, <3>1
        <4> QED
          BY <2>5, <4>1, ResampledGrows
      <3>2. CASE ~IsPolicy(request.target)
        BY <2>5, <2>8, <3>2
      <3> QED
        BY <3>1, <3>2
    <2> QED
      BY <1>3, <2>1, <2>7, <2>9
  <1>12. CASE RemoveInactive
    <2>1. /\ UNCHANGED <<request, dirty, results>> /\ phase = "sliced"
          /\ trace' = IF Producer(Out(pos)) = pos THEN Stripped ELSE trace
      BY <1>12 DEF RemoveInactive, Stripped
    <2>2. trace'.decisions = trace.decisions
      BY <1>1, <2>1, RemovedIsTrace
    <2> QED
      BY <1>3, <2>1, <2>2 DEF WorkInv
  <1>13. CASE ExecuteDirty
    <2>1. /\ UNCHANGED <<request, results>> /\ phase = "sliced"
          /\ trace' = Written(Resolved(pos, trace), pos, Value(pos, trace))
          /\ dirty'.events = dirty.events \cup {pos}
      BY <1>13 DEF ExecuteDirty
    <2>2. trace'.decisions = Resolved(pos, trace).decisions
      BY <1>1, <2>1, ResolvedFields, WrittenFields
    <2>3. Resampled(trace.decisions) \subseteq dirty'.events /\ pos \in dirty'.events
      BY <2>1 DEF WorkInv
    <2>4. Resampled(Resolved(pos, trace).decisions) \subseteq dirty'.events
      <3>1. CASE IsPolicy(pos)
        <4>1. PICK v : Resolved(pos, trace).decisions = Put(trace.decisions, pos, v)
          BY <1>1, <3>1, ResolvedFields
        <4> QED
          BY <1>1, <2>3, <4>1, ResampledGrows
      <3>2. CASE ~IsPolicy(pos)
        BY <1>1, <2>3, <3>2, ResolvedFields
      <3> QED
        BY <3>1, <3>2
    <2> QED
      BY <1>3, <2>1, <2>2, <2>4
  <1>14. CASE ReuseClean
    <2>1. /\ UNCHANGED <<request, dirty, results>> /\ phase = "sliced" /\ pos \in Events
          /\ trace' = Reused
      BY <1>14 DEF ReuseClean, Reused
    <2>2. trace'.decisions = IF IsPolicy(pos)
                             THEN Put(trace.decisions, pos, "unchanged_event_reuse")
                             ELSE trace.decisions
      BY <1>1, <2>1, ReusedIsTrace
    <2>3. Resampled(trace.decisions) \subseteq dirty'.events
      BY <2>1 DEF WorkInv
    <2>4. Resampled(trace'.decisions) \subseteq dirty'.events
      <3>1. CASE IsPolicy(pos)
        <4>1. trace'.decisions = Put(trace.decisions, pos, "unchanged_event_reuse")
          BY <2>2, <3>1
        <4>2. PICK v : v = "unchanged_event_reuse"
          OBVIOUS
        <4>3. v # "key_changed_or_missing"
          BY <4>2
        <4>4. Resampled(Put(trace.decisions, pos, v)) \subseteq dirty'.events
          BY <2>3, <4>3, ResampledGrows
        <4> QED
          BY <4>1, <4>2, <4>4
      <3>2. CASE ~IsPolicy(pos)
        BY <2>2, <2>3, <3>2
      <3> QED
        BY <3>1, <3>2
    <2> QED
      BY <1>3, <2>1, <2>4
  <1>15. CASE Return
    <2>1. /\ UNCHANGED request /\ phase' = "idle" /\ phase \in {"full", "sliced"}
          /\ results' = Put(results, request.mode, Returned)
      BY <1>15 DEF Return
    <2>2. /\ Returned.active = trace.active /\ Returned.decisions = trace.decisions
          /\ Returned.reexecuted =
                IF request.mode = "sliced" THEN Suffix \cap dirty.events ELSE Suffix
          /\ Suffix = SuffixOf(Returned)
      BY DEF Returned, Suffix, SuffixOf
    <2>3. WorkOf(request.mode, Returned)
      <3>1. CASE phase = "full"
        BY <1>1, <2>2, <3>1 DEF FullAt, WorkOf
      <3>2. CASE phase = "sliced"
        <4>1. request.mode = "sliced" /\ Resampled(trace.decisions) \subseteq dirty.events
          BY <1>1, <3>2 DEF SlicedAt, WorkInv
        <4>2. Resampled(trace.decisions) \subseteq Suffix
          <5>1. DOMAIN trace.decisions = {e \in trace.active : IsPolicy(e)}
            BY <1>1, <3>2 DEF SlicedAt, Slice
          <5> QED
            BY <5>1 DEF Resampled, Suffix
        <4> QED
          BY <2>2, <4>1, <4>2 DEF WorkOf
      <3> QED
        BY <2>1, <3>1, <3>2
    <2> QED
      BY <1>4, <2>1, <2>3
  <1>16. CASE ReplayRaises
    <2>1. /\ UNCHANGED request /\ phase' = "idle"
          /\ results' = Put(results, request.mode, Aborted) /\ ~Aborted.returned
      BY <1>16 DEF ReplayRaises, Aborted
    <2> QED
      BY <1>4, <2>1
  <1>17. CASE UNCHANGED vars
    BY <1>17 DEF vars, WorkInv, WorkOf, SuffixOf, Resampled
  <1> QED
    BY <1>5, <1>6, <1>7, <1>8, <1>9, <1>10, <1>11, <1>12, <1>13, <1>14, <1>15, <1>16, <1>17
       DEF Next

-----------------------------------------------------------------------------
(***************************************************************************)
(* Sums over finite sets, by induction over the subsets of the set, as in  *)
(* CreditProofs.                                                           *)
(***************************************************************************)

(* A set of subsets of a finite set has a smallest element. *)
LEMMA SmallestSubset ==
    ASSUME NEW S, IsFiniteSet(S), NEW Family, Family \subseteq SUBSET S, Family # {}
    PROVE  \E T \in Family : \A U \in Family : U \subseteq T => U = T
  <1>1. IsWellFoundedOn(StrictSubsetOrdering(S), FiniteSubsetsOf(S))
    BY FS_StrictSubsetOrderingWellFounded
  <1>2. FiniteSubsetsOf(S) = SUBSET S
    BY FS_FiniteSubsetsOfFinite
  <1>3. Family \subseteq FiniteSubsetsOf(S)
    BY <1>2
  <1>4. PICK T \in Family : \A U \in Family : ~(<<U, T>> \in StrictSubsetOrdering(S))
    BY <1>1, <1>3, WFMin
  <1>5. ASSUME NEW U \in Family, U \subseteq T
        PROVE  U = T
    BY <1>4, <1>5 DEF StrictSubsetOrdering
  <1> QED
    BY <1>5

(* Induction over a finite set, for a family of sets in place of a predicate. *)
LEMMA SetInduction ==
    ASSUME NEW S, IsFiniteSet(S), NEW Family,
           {} \in Family,
           \A T \in SUBSET S : \A x \in T : T \ {x} \in Family => T \in Family
    PROVE  S \in Family
  <1> DEFINE Bad == {T \in SUBSET S : T \notin Family}
  <1> SUFFICES ASSUME S \notin Family PROVE FALSE
    OBVIOUS
  <1>1. Bad \subseteq SUBSET S /\ Bad # {}
    OBVIOUS
  <1>2. PICK T \in Bad : \A U \in Bad : U \subseteq T => U = T
    <2> HIDE DEF Bad
    <2> QED
      BY <1>1, SmallestSubset
  <1>3. PICK x \in T : TRUE
    <2>1. T # {}
      BY <1>2
    <2> QED
      BY <2>1
  <1>4. T \ {x} \in SUBSET S /\ T \ {x} \subseteq T /\ T \ {x} # T
    BY <1>2, <1>3
  <1>5. T \ {x} \in Family
    BY <1>2, <1>4
  <1> QED
    BY <1>2, <1>3, <1>5

(* SumFunctionOnSet is a fold, which takes the elements in some order. *)

First(s) == CHOOSE x \in s : TRUE

IsFold(g, f, S) ==
    g = [s \in SUBSET S |-> IF s = {} THEN 0 ELSE f[First(s)] + g[s \ {First(s)}]]

FoldOf(f, S) == CHOOSE g : IsFold(g, f, S)

LEMMA SumIsFold ==
    ASSUME NEW f, NEW S
    PROVE  SumFunctionOnSet(f, S) = FoldOf(f, S)[S]
  BY DEF SumFunctionOnSet, FoldFunctionOnSet, MapThenFoldSet, FoldOf, IsFold, First

LEMMA FirstOf ==
    ASSUME NEW s, s # {}
    PROVE  First(s) \in s
  BY DEF First

LEMMA FoldsAgree ==
    ASSUME NEW S, IsFiniteSet(S), NEW f, NEW T, NEW U, NEW g, NEW h,
           IsFold(g, f, T), IsFold(h, f, U), S \subseteq T, S \subseteq U
    PROVE  g[S] = h[S]
  <1> DEFINE Bad == {s \in SUBSET S : g[s] # h[s]}
  <1> SUFFICES ASSUME g[S] # h[S] PROVE FALSE
    OBVIOUS
  <1>1. Bad \subseteq SUBSET S /\ Bad # {}
    OBVIOUS
  <1>2. PICK s \in Bad : \A r \in Bad : r \subseteq s => r = s
    <2> HIDE DEF Bad
    <2> QED
      BY <1>1, SmallestSubset
  <1>3. s \in SUBSET S /\ s \in SUBSET T /\ s \in SUBSET U /\ s # {}
    BY <1>2 DEF IsFold
  <1>4. First(s) \in s
    BY <1>3, FirstOf
  <1>5. g[s \ {First(s)}] = h[s \ {First(s)}]
    BY <1>2, <1>3, <1>4
  <1>6. /\ g[s] = f[First(s)] + g[s \ {First(s)}]
        /\ h[s] = f[First(s)] + h[s \ {First(s)}]
    BY <1>3 DEF IsFold
  <1> QED
    BY <1>2, <1>5, <1>6

LEMMA FoldExists ==
    ASSUME NEW S, IsFiniteSet(S), NEW f
    PROVE  IsFold(FoldOf(f, S), f, S)
  <1> DEFINE Bad == {T \in SUBSET S : ~\E g : IsFold(g, f, T)}
  <1> SUFFICES ASSUME S \in Bad PROVE FALSE
    BY DEF FoldOf
  <1>1. Bad \subseteq SUBSET S /\ Bad # {}
    OBVIOUS
  <1>2. PICK T \in Bad : \A U \in Bad : U \subseteq T => U = T
    <2> HIDE DEF Bad
    <2> QED
      BY <1>1, SmallestSubset
  <1>3. T \in SUBSET S /\ IsFiniteSet(T) /\ ~\E g : IsFold(g, f, T)
    BY <1>2, FS_Subset
  <1>4. ASSUME NEW U \in SUBSET T, U # T
        PROVE  IsFold(FoldOf(f, U), f, U)
    BY <1>2, <1>4 DEF FoldOf
  <1> DEFINE value(s) == FoldOf(f, s)[s]
             h == [s \in SUBSET T |-> IF s = {} THEN 0 ELSE f[First(s)] + value(s \ {First(s)})]
  <1>5. ASSUME NEW s \in SUBSET T, s # T
        PROVE  h[s] = value(s)
    <2>1. IsFold(FoldOf(f, s), f, s)
      BY <1>4, <1>5
    <2>2. CASE s = {}
      BY <2>1, <2>2 DEF IsFold
    <2>3. CASE s # {}
      <3> DEFINE r == s \ {First(s)}
      <3>1. First(s) \in s
        BY <2>3, FirstOf
      <3>2. r \in SUBSET s /\ r \in SUBSET T /\ r # T
        BY <1>5, <3>1
      <3>3. IsFold(FoldOf(f, r), f, r) /\ IsFiniteSet(r)
        BY <1>3, <1>4, <3>2, FS_Subset
      <3>4. FoldOf(f, s)[r] = FoldOf(f, r)[r]
        <4> HIDE DEF r
        <4> QED
          BY <2>1, <3>2, <3>3, FoldsAgree
      <3>5. FoldOf(f, s)[s] = f[First(s)] + FoldOf(f, s)[r]
        BY <2>1, <2>3 DEF IsFold
      <3> QED
        BY <2>3, <3>4, <3>5
    <2> QED
      BY <2>2, <2>3
  <1>6. IsFold(h, f, T)
    <2>1. ASSUME NEW s \in SUBSET T, s # {}
          PROVE  h[s] = f[First(s)] + h[s \ {First(s)}]
      <3>1. First(s) \in s
        BY <2>1, FirstOf
      <3>2. h[s \ {First(s)}] = value(s \ {First(s)})
        BY <1>5, <3>1
      <3> QED
        BY <2>1, <3>2
    <2>2. h[{}] = 0 /\ h = [s \in SUBSET T |-> h[s]]
      OBVIOUS
    <2> HIDE DEF h
    <2> QED
      BY <2>1, <2>2 DEF IsFold
  <1> QED
    BY <1>3, <1>6

(* The sum of integers f[x] over a finite set. *)

IsSummable(f, S) == IsFiniteSet(S) /\ \A x \in S : f[x] \in Int

LEMMA SumOfNothing == \A f : SumFunctionOnSet(f, {}) = 0
  <1> TAKE f
  <1>1. IsFold(FoldOf(f, {}), f, {})
    BY FoldExists, FS_EmptySet
  <1>2. FoldOf(f, {})[{}] = 0
    BY <1>1 DEF IsFold
  <1> QED
    BY <1>2, SumIsFold

LEMMA SumByFirst ==
    ASSUME NEW S, IsFiniteSet(S), NEW f, S # {}
    PROVE  /\ First(S) \in S
           /\ SumFunctionOnSet(f, S) = f[First(S)] + SumFunctionOnSet(f, S \ {First(S)})
  <1> DEFINE r == S \ {First(S)}
  <1>1. IsFold(FoldOf(f, S), f, S)
    BY FoldExists
  <1>2. r \subseteq S /\ IsFiniteSet(r)
    BY FS_Subset
  <1>3. IsFold(FoldOf(f, r), f, r)
    BY <1>2, FoldExists
  <1>4. FoldOf(f, S)[r] = FoldOf(f, r)[r]
    <2> HIDE DEF r
    <2> QED
      BY <1>1, <1>2, <1>3, FoldsAgree
  <1>5. FoldOf(f, S)[S] = f[First(S)] + FoldOf(f, S)[r]
    BY <1>1 DEF IsFold
  <1>6. /\ SumFunctionOnSet(f, S) = FoldOf(f, S)[S]
        /\ SumFunctionOnSet(f, r) = FoldOf(f, r)[r]
    BY SumIsFold
  <1> QED
    BY <1>4, <1>5, <1>6, FirstOf

LEMMA SumType ==
    ASSUME NEW S, NEW f, IsSummable(f, S)
    PROVE  SumFunctionOnSet(f, S) \in Int
  <1> DEFINE Bad == {T \in SUBSET S : SumFunctionOnSet(f, T) \notin Int}
  <1> SUFFICES ASSUME S \in Bad PROVE FALSE
    OBVIOUS
  <1>1. Bad \subseteq SUBSET S /\ Bad # {} /\ IsFiniteSet(S)
    BY DEF IsSummable
  <1>2. PICK T \in Bad : \A U \in Bad : U \subseteq T => U = T
    <2> HIDE DEF Bad
    <2> QED
      BY <1>1, SmallestSubset
  <1>3. T # {} /\ IsFiniteSet(T) /\ T \in SUBSET S
    <2>1. T \in SUBSET S /\ SumFunctionOnSet(f, T) \notin Int
      BY <1>2
    <2>2. IsFiniteSet(T)
      BY <1>1, <2>1, FS_Subset
    <2> QED
      BY <2>1, <2>2, SumOfNothing
  <1>4. /\ First(T) \in T
        /\ SumFunctionOnSet(f, T) = f[First(T)] + SumFunctionOnSet(f, T \ {First(T)})
    BY <1>3, SumByFirst
  <1>5. SumFunctionOnSet(f, T \ {First(T)}) \in Int
    BY <1>2, <1>3, <1>4
  <1>6. f[First(T)] \in Int
    BY <1>3, <1>4 DEF IsSummable
  <1> QED
    BY <1>2, <1>4, <1>5, <1>6

LEMMA SumTakesOut ==
    ASSUME NEW S, NEW f, IsSummable(f, S), NEW x \in S
    PROVE  SumFunctionOnSet(f, S) = f[x] + SumFunctionOnSet(f, S \ {x})
  <1> DEFINE Takes(T, y) == SumFunctionOnSet(f, T) = f[y] + SumFunctionOnSet(f, T \ {y})
             Bad == {T \in SUBSET S : \E y \in T : ~Takes(T, y)}
  <1> SUFFICES ASSUME S \in Bad PROVE FALSE
    OBVIOUS
  <1>1. Bad \subseteq SUBSET S /\ Bad # {} /\ IsFiniteSet(S)
    BY DEF IsSummable
  <1>2. PICK T \in Bad : \A U \in Bad : U \subseteq T => U = T
    <2> HIDE DEF Bad
    <2> QED
      BY <1>1, SmallestSubset
  <1>3. T \in SUBSET S /\ IsFiniteSet(T) /\ \A z \in T : f[z] \in Int
    BY <1>1, <1>2, FS_Subset DEF IsSummable
  <1>4. PICK y \in T : ~Takes(T, y)
    BY <1>2
  <1> DEFINE c == First(T)
  <1>5. c \in T /\ Takes(T, c)
    BY <1>3, <1>4, SumByFirst
  <1> HIDE DEF c
  <1>6. y # c
    BY <1>4, <1>5
  <1>7. Takes(T \ {c}, y) /\ Takes(T \ {y}, c)
    <2>1. T \ {c} \in SUBSET S /\ T \ {c} # T /\ y \in T \ {c}
      BY <1>3, <1>5, <1>6
    <2>2. T \ {y} \in SUBSET S /\ T \ {y} # T /\ c \in T \ {y}
      BY <1>3, <1>4, <1>5, <1>6
    <2>3. T \ {c} \notin Bad
      BY <1>2, <2>1
    <2>4. T \ {y} \notin Bad
      BY <1>2, <2>2
    <2> QED
      BY <2>1, <2>2, <2>3, <2>4
  <1>8. (T \ {c}) \ {y} = (T \ {y}) \ {c}
    OBVIOUS
  <1>9. IsSummable(f, (T \ {y}) \ {c})
    BY <1>3, FS_Subset DEF IsSummable
  <1>10. SumFunctionOnSet(f, (T \ {y}) \ {c}) \in Int /\ f[c] \in Int /\ f[y] \in Int
    BY <1>3, <1>4, <1>5, <1>9, SumType
  <1>11. Takes(T, y)
    BY <1>5, <1>7, <1>8, <1>10
  <1> QED
    BY <1>4, <1>11

LEMMA SumSame ==
    ASSUME NEW S, NEW f, IsSummable(f, S), NEW g, \A x \in S : g[x] = f[x]
    PROVE  IsSummable(g, S) /\ SumFunctionOnSet(g, S) = SumFunctionOnSet(f, S)
  <1> DEFINE Family == {T \in SUBSET S : SumFunctionOnSet(g, T) = SumFunctionOnSet(f, T)}
  <1>1. {} \in Family
    BY SumOfNothing
  <1>2. ASSUME NEW T \in SUBSET S, NEW x \in T, T \ {x} \in Family
        PROVE  T \in Family
    <2>1. IsSummable(f, T) /\ IsSummable(g, T)
      BY FS_Subset DEF IsSummable
    <2>2. /\ SumFunctionOnSet(f, T) = f[x] + SumFunctionOnSet(f, T \ {x})
          /\ SumFunctionOnSet(g, T) = g[x] + SumFunctionOnSet(g, T \ {x})
      BY <1>2, <2>1, SumTakesOut
    <2> QED
      BY <1>2, <2>2
  <1>3. S \in Family
    <2> HIDE DEF Family
    <2> QED
      BY <1>1, <1>2, SetInduction DEF IsSummable
  <1> QED
    BY <1>3 DEF IsSummable

(* More terms that are not negative make a sum no smaller, and terms that   *)
(* are 0 leave it as it is.                                                *)
LEMMA SumOfMore ==
    ASSUME NEW T, NEW S, S \subseteq T, NEW f, IsSummable(f, T), \A x \in T \ S : f[x] >= 0
    PROVE  /\ SumFunctionOnSet(f, S) \in Int /\ SumFunctionOnSet(f, T) \in Int
           /\ SumFunctionOnSet(f, S) <= SumFunctionOnSet(f, T)
           /\ (\A x \in T \ S : f[x] = 0) => SumFunctionOnSet(f, S) = SumFunctionOnSet(f, T)
  <1> DEFINE R == T \ S
             Family == {U \in SUBSET R :
                           /\ SumFunctionOnSet(f, S) <= SumFunctionOnSet(f, S \cup U)
                           /\ (\A x \in U : f[x] = 0) =>
                                 SumFunctionOnSet(f, S) = SumFunctionOnSet(f, S \cup U)}
  <1>1. IsFiniteSet(T) /\ IsFiniteSet(R) /\ IsSummable(f, S)
    BY FS_Subset DEF IsSummable
  <1>2. SumFunctionOnSet(f, S) \in Int /\ SumFunctionOnSet(f, T) \in Int
    BY <1>1, SumType
  <1>3. {} \in Family
    <2>1. S \cup {} = S
      OBVIOUS
    <2> QED
      BY <1>2, <2>1
  <1>4. ASSUME NEW U \in SUBSET R, NEW x \in U, U \ {x} \in Family
        PROVE  U \in Family
    <2>1. S \cup U \subseteq T /\ S \cup (U \ {x}) \subseteq T /\ x \in T \ S /\ x \in S \cup U
      OBVIOUS
    <2>2. IsSummable(f, S \cup U) /\ IsSummable(f, S \cup (U \ {x}))
      BY <1>1, <2>1, FS_Subset DEF IsSummable
    <2>3. (S \cup U) \ {x} = S \cup (U \ {x})
      BY <2>1
    <2>4. SumFunctionOnSet(f, S \cup U) = f[x] + SumFunctionOnSet(f, S \cup (U \ {x}))
      BY <2>1, <2>2, <2>3, SumTakesOut
    <2>5. SumFunctionOnSet(f, S \cup (U \ {x})) \in Int /\ f[x] \in Int /\ f[x] >= 0
      BY <2>1, <2>2, SumType DEF IsSummable
    <2>6. /\ SumFunctionOnSet(f, S) <= SumFunctionOnSet(f, S \cup (U \ {x}))
          /\ (\A y \in U \ {x} : f[y] = 0) =>
                SumFunctionOnSet(f, S) = SumFunctionOnSet(f, S \cup (U \ {x}))
      BY <1>4
    <2> QED
      BY <1>2, <2>4, <2>5, <2>6
  <1>5. R \in Family
    <2> HIDE DEF Family, R
    <2> QED
      BY <1>1, <1>3, <1>4, SetInduction
  <1>6. S \cup R = T
    OBVIOUS
  <1> QED
    BY <1>2, <1>5, <1>6

-----------------------------------------------------------------------------
(* What the templates of a program cost.                                   *)

Estimates == {"cpu_units", "generated_tokens", "judge_calls"}

Priced(c) ==
    /\ \A m \in Estimates : c.work[m] \in Nat
    /\ c.role \in {"root_policy", "subcall_policy"} => c.policy # NoPolicy
    /\ c.role = "environment" => c.work.generated_tokens = 0

LEMMA WorkFacts ==
    ASSUME NEW n \in Nat
    PROVE  /\ \A m \in Estimates : Cpu(n)[m] \in Nat /\ Tokens(n)[m] \in Nat
           /\ Cpu(n).generated_tokens = 0
  BY DEF Cpu, Tokens, NoWork, Estimates

LEMMA StepIsPriced ==
    ASSUME NEW kind, NEW param, NEW inputs, NEW output, NEW guard, NEW n \in Nat
    PROVE  Priced(Step(kind, param, inputs, output, guard, Cpu(n)))
  <1>1. PICK w : w = Cpu(n)
    OBVIOUS
  <1>2. (\A m \in Estimates : w[m] \in Nat) /\ w.generated_tokens = 0
    BY <1>1, WorkFacts
  <1>3. PICK c : c = Step(kind, param, inputs, output, guard, Cpu(n))
    OBVIOUS
  <1>4. c.role = "environment" /\ c.work = w
    BY <1>1, <1>3 DEF Step
  <1> QED
    BY <1>2, <1>3, <1>4 DEF Priced

LEMMA TurnIsPriced ==
    ASSUME NEW prompt, NEW output, NEW seed, NEW dependencies, NEW guard, NEW n \in Nat,
           NEW role \in {"root_policy", "subcall_policy"}
    PROVE  Priced(Turn(prompt, output, seed, dependencies, guard, role, n))
  <1>1. PICK w : w = Tokens(n)
    OBVIOUS
  <1>2. \A m \in Estimates : w[m] \in Nat
    BY <1>1, WorkFacts
  <1>3. PICK c : c = Turn(prompt, output, seed, dependencies, guard, role, n)
    OBVIOUS
  <1>4. c.role = role /\ c.work = w
    BY <1>1, <1>3 DEF Turn
  <1>5. c.policy # NoPolicy
    BY <1>3, TurnFacts DEF IsTurn, PolicyRoles
  <1> QED
    BY <1>2, <1>3, <1>4, <1>5 DEF Priced

LEMMA TemplatesArePriced ==
    ASSUME NEW i, NEW r, NEW d, RunsDraw(i, r, d),
           d \in [children : Seq(Nat), target : Nat, direct : Nat, recursive : Nat, judge : Nat],
           NEW e \in Events
    PROVE  Priced(Cmd(e))
  <1>1. PICK n : LaidOut(program.commands, i, d, n)
    BY Templates DEF RunsDraw
  <1>2. /\ n \in Nat /\ n = ChildCalls(d) /\ Len(program.commands) = 2 * n + 9
        /\ \A k \in 1..5 : program.commands[k] = Opening(i, d)[k]
        /\ \A c \in 1..n : /\ program.commands[2 * c + 4] = Subcalls(i, d)[2 * c - 1]
                           /\ program.commands[2 * c + 5] = Subcalls(i, d)[2 * c]
        /\ \A k \in 1..4 : program.commands[2 * n + 5 + k] = Closing(i, d)[k]
        /\ \A k \in 1..(2 * n + 9) :
              \/ k \in 1..5
              \/ \E c \in 1..n : k = 2 * c + 4 \/ k = 2 * c + 5
              \/ \E m \in 1..4 : k = 2 * n + 5 + m
    BY <1>1 DEF LaidOut
  <1>3. e \in 1..(2 * n + 9)
    <2>1. EventCount = 2 * n + 9
      BY <1>2 DEF EventCount
    <2> QED
      BY ONLY <2>1, e \in Events DEF Events
  <1>4. /\ d.target \in Nat /\ d.direct \in Nat /\ d.recursive \in Nat /\ d.judge \in Nat
        /\ \A c \in 1..n : d.children[c] \in Nat
    <2>1. d.children \in Seq(Nat) /\ Len(d.children) = n
      BY <1>2 DEF ChildCalls
    <2> QED
      BY <2>1
  <1>5. \A k \in 1..5 : Priced(Opening(i, d)[k])
    <2>1. Priced(Opening(i, d)[1])
      BY <1>4, TurnIsPriced DEF Opening
    <2>2. Priced(Opening(i, d)[2])
      BY StepIsPriced DEF Opening
    <2>3. Priced(Opening(i, d)[3])
      BY StepIsPriced DEF Opening
    <2>4. Priced(Opening(i, d)[4])
      BY StepIsPriced DEF Opening
    <2>5. Priced(Opening(i, d)[5])
      BY <1>4, TurnIsPriced DEF Opening
    <2>6. \A k \in 1..5 : k = 1 \/ k = 2 \/ k = 3 \/ k = 4 \/ k = 5
      OBVIOUS
    <2> QED
      BY <2>1, <2>2, <2>3, <2>4, <2>5, <2>6
  <1>6. ASSUME NEW c \in 1..n
        PROVE  Priced(Subcalls(i, d)[2 * c - 1]) /\ Priced(Subcalls(i, d)[2 * c])
    <2>1. /\ 2 * c - 1 \in 1..(2 * n) /\ 2 * c \in 1..(2 * n)
          /\ (2 * c - 1 + 1) \div 2 = c /\ (2 * c + 1) \div 2 = c
          /\ (2 * c - 1) % 2 = 1 /\ (2 * c) % 2 = 0
      <3>1. n \in Nat /\ c \in 1..n
        BY <1>2
      <3> QED
        BY ONLY <3>1
    <2>2. /\ Subcalls(i, d)[2 * c - 1] = Child(i, d, c)[1]
          /\ Subcalls(i, d)[2 * c] = Child(i, d, c)[2]
      BY <1>2, <2>1 DEF Subcalls
    <2>3. Priced(Child(i, d, c)[1])
      BY <1>4, TurnIsPriced DEF Child
    <2>4. Priced(Child(i, d, c)[2])
      BY StepIsPriced DEF Child
    <2> QED
      BY <2>2, <2>3, <2>4
  <1>7. \A k \in 1..4 : Priced(Closing(i, d)[k])
    <2>1. Priced(Closing(i, d)[1])
      <3>1. Closing(i, d)[1] = Step("list_concat", None,
                                    [c \in 1..n |-> <<"normalized", c>>],
                                    <<"aggregate">>, Deep, Cpu(n))
        BY <1>2 DEF Closing
      <3> QED
        BY <1>2, <3>1, StepIsPriced
    <2>2. Priced(Closing(i, d)[2])
      BY <1>4, TurnIsPriced DEF Closing
    <2>3. Priced(Closing(i, d)[3])
      <3>1. PICK c : c = Step("contains", JInt(1), <<<<"answer">>>>, <<"reward">>, NoGuard, NoWork)
        OBVIOUS
      <3>2. PICK w : w = Tokens(d.judge)
        OBVIOUS
      <3>3. Closing(i, d)[3] = [c EXCEPT !.role = "judge", !.work = [w EXCEPT !.judge_calls = 1]]
        BY <3>1, <3>2 DEF Closing
      <3>4. DOMAIN c = {"kind", "param", "inputs", "output", "dependencies", "guard", "policy",
                        "role", "work"}
        BY <3>1 DEF Step
      <3>5. \A m \in Estimates : [w EXCEPT !.judge_calls = 1][m] \in Nat
        <4>1. DOMAIN w = Estimates
          BY <3>2 DEF Tokens, NoWork, Estimates
        <4>2. \A m \in Estimates : w[m] \in Nat
          BY <1>4, <3>2, WorkFacts
        <4> QED
          BY <4>1, <4>2
      <3>6. PICK x : x = [w EXCEPT !.judge_calls = 1]
        OBVIOUS
      <3>7. Closing(i, d)[3].role = "judge" /\ Closing(i, d)[3].work = x
        BY <3>3, <3>4, <3>6
      <3> QED
        BY <3>5, <3>6, <3>7 DEF Priced
    <2>4. Priced(Closing(i, d)[4])
      BY StepIsPriced DEF Closing
    <2>5. \A k \in 1..4 : k = 1 \/ k = 2 \/ k = 3 \/ k = 4
      OBVIOUS
    <2> QED
      BY <2>1, <2>2, <2>3, <2>4, <2>5
  <1>8. \/ e \in 1..5
        \/ \E c \in 1..n : e = 2 * c + 4 \/ e = 2 * c + 5
        \/ \E k \in 1..4 : e = 2 * n + 5 + k
    BY <1>2, <1>3
  <1>9. CASE e \in 1..5
    BY <1>2, <1>5, <1>9 DEF Cmd
  <1>10. ASSUME NEW c \in 1..n, e = 2 * c + 4 \/ e = 2 * c + 5 PROVE Priced(Cmd(e))
    <2>1. CASE e = 2 * c + 4
      BY <1>2, <1>6, <2>1 DEF Cmd
    <2>2. CASE e = 2 * c + 5
      BY <1>2, <1>6, <2>2 DEF Cmd
    <2> QED
      BY <1>10, <2>1, <2>2
  <1>11. ASSUME NEW k \in 1..4, e = 2 * n + 5 + k PROVE Priced(Cmd(e))
    BY <1>2, <1>7, <1>11 DEF Cmd
  <1> QED
    BY ONLY <1>8, <1>9, <1>10, <1>11

-----------------------------------------------------------------------------
(* What the two replays of an alternative are charged for.                 *)

RanAs(r, o) == {e \in o.reexecuted : Cmd(e).role = r}

Charges(r, m, o) == [e \in RanAs(r, o) |-> EventMetric(e, m, o)]

(* sliced ran part of what full ran, and paid for the same policy calls.    *)
Spares(sliced, full) ==
    /\ IsFiniteSet(full.reexecuted) /\ full.reexecuted \subseteq Events
    /\ sliced.reexecuted \subseteq full.reexecuted
    /\ Regenerated(sliced) = Regenerated(full)
    /\ Regenerated(full) \cap full.reexecuted \subseteq sliced.reexecuted

LEMMA ChargesCompare ==
    ASSUME NEW full, NEW sliced, Spares(sliced, full), \A e \in Events : Priced(Cmd(e)),
           NEW r \in Roles, NEW m \in Metrics
    PROVE  /\ SumFunction(Charges(r, m, sliced)) \in Int
           /\ SumFunction(Charges(r, m, full)) \in Int
           /\ SumFunction(Charges(r, m, sliced)) <= SumFunction(Charges(r, m, full))
           /\ m = "generated_tokens" /\ r # "judge" =>
                 SumFunction(Charges(r, m, sliced)) = SumFunction(Charges(r, m, full))
  <1> DEFINE S == RanAs(r, sliced)
             T == RanAs(r, full)
             f == Charges(r, m, full)
             g == Charges(r, m, sliced)
  <1>1. S \subseteq T /\ T \subseteq Events /\ T \subseteq full.reexecuted /\ IsFiniteSet(T)
    <2>1. S \subseteq T /\ T \subseteq Events /\ T \subseteq full.reexecuted
      BY DEF Spares, RanAs
    <2> QED
      BY <2>1, FS_Subset DEF Spares
  <1>2. \A e : EventMetric(e, m, sliced) = EventMetric(e, m, full)
    BY DEF Spares, EventMetric, PaysTokens
  <1>3. \A e \in T : EventMetric(e, m, full) \in Nat
    <2> SUFFICES ASSUME NEW e \in T PROVE EventMetric(e, m, full) \in Nat
      OBVIOUS
    <2>1. \A k \in Estimates : Cmd(e).work[k] \in Nat
      BY <1>1 DEF Priced
    <2> QED
      BY <2>1 DEF EventMetric, Metrics, Estimates
  <1>4. /\ f = [e \in T |-> EventMetric(e, m, full)] /\ g = [e \in S |-> EventMetric(e, m, sliced)]
        /\ DOMAIN f = T /\ DOMAIN g = S
    BY DEF Charges
  <1>5. \A e \in T : f[e] \in Nat /\ f[e] = EventMetric(e, m, full)
    BY <1>3, <1>4
  <1>6. \A e \in S : g[e] = f[e]
    BY <1>1, <1>2, <1>4
  <1>7. ASSUME m = "generated_tokens", r # "judge", NEW e \in T \ S PROVE f[e] = 0
    <2>1. e \in full.reexecuted /\ Cmd(e).role = r /\ e \notin sliced.reexecuted
      BY <1>7 DEF RanAs
    <2>2. e \notin Regenerated(full)
      BY <2>1 DEF Spares
    <2>3. Priced(Cmd(e)) /\ f[e] = IF PaysTokens(e, full) THEN Cmd(e).work.generated_tokens ELSE 0
      BY <1>1, <1>5, <1>7 DEF EventMetric
    <2>4. CASE r = "environment"
      BY <2>1, <2>3, <2>4 DEF Priced
    <2>5. CASE r \in {"root_policy", "subcall_policy"}
      BY <2>1, <2>2, <2>3, <2>5 DEF Priced, PaysTokens, IsPolicy
    <2> QED
      BY <1>7, <2>4, <2>5 DEF Roles
  <1> HIDE DEF S, T, f, g
  <1>8. IsSummable(f, T) /\ IsSummable(f, S)
    <2>1. IsFiniteSet(S)
      BY <1>1, FS_Subset
    <2> QED
      BY <1>1, <1>5, <2>1 DEF IsSummable
  <1>9. SumFunctionOnSet(g, S) = SumFunctionOnSet(f, S)
    BY <1>6, <1>8, SumSame
  <1>10. \A x \in T \ S : f[x] >= 0
    BY <1>5
  <1>11. /\ SumFunctionOnSet(f, S) \in Int /\ SumFunctionOnSet(f, T) \in Int
         /\ SumFunctionOnSet(f, S) <= SumFunctionOnSet(f, T)
         /\ (\A x \in T \ S : f[x] = 0) => SumFunctionOnSet(f, S) = SumFunctionOnSet(f, T)
    BY <1>1, <1>8, <1>10, SumOfMore
  <1>12. SumFunction(f) = SumFunctionOnSet(f, T) /\ SumFunction(g) = SumFunctionOnSet(g, S)
    BY <1>4 DEF SumFunction
  <1>13. /\ SumFunction(g) \in Int /\ SumFunction(f) \in Int /\ SumFunction(g) <= SumFunction(f)
         /\ m = "generated_tokens" /\ r # "judge" => SumFunction(g) = SumFunction(f)
    BY <1>7, <1>9, <1>11, <1>12
  <1> QED
    BY <1>13 DEF f, g

-----------------------------------------------------------------------------
(***************************************************************************)
(* The campaign's inductive invariant: where the loop over programs and    *)
(* alternatives is, what its slices leave alone, and what it has counted.  *)
(***************************************************************************)

Asked(mode) ==
    request = [target |-> Target, replacement |-> ReplacementAction(route, alternative),
               mode |-> mode]

LoopInv ==
    /\ index \in 0..(ProgramCount - 1) /\ alternative \in 0..Alternatives /\ route \in Routes
    /\ \E d \in Draws : program = ProgramOf(index, route, d)
    /\ arm \in Modes \cup {"account", "report"}
    /\ phase \in {"original", "failed"} => arm = "full_suffix" /\ alternative = 0
    /\ arm \in {"full_suffix", "report"} =>
          phase \in {"original", "failed", "idle"} /\ DOMAIN results \in {{}, Modes}
    /\ arm = "sliced" => /\ alternative < Alternatives
                         /\ Asked("full_suffix")
                         /\ DOMAIN results = IF phase = "idle" THEN {"full_suffix"} ELSE {}
    /\ arm = "account" => /\ alternative < Alternatives
                          /\ Asked("sliced")
                          /\ FullReturned
                          /\ DOMAIN results = IF phase = "idle" THEN Modes ELSE {"full_suffix"}
    /\ arm = "report" => alternative = Alternatives /\ index + 1 = ProgramCount

(* No slice partitions the task text again. *)
SparesPartition ==
    /\ phase = "sliced" =>
          /\ Partition \notin dirty.events
          /\ <<"task_text">> \notin dirty.artifacts
          /\ pos <= Partition => <<"chunks">> \in DOMAIN trace.state
    /\ "sliced" \in DOMAIN results /\ results["sliced"].returned =>
          Partition \notin results["sliced"].reexecuted

(* The branches of the campaign that have left their route, by the time     *)
(* alternative k of program i is the next.                                 *)
LeftRoute(i, k) ==
    {b \in (0..i) \X (0..(Alternatives - 1)) : Leaves(b[2]) /\ (b[1] < i \/ b[2] < k)}

TotalsInv ==
    /\ {"failures", "divergences", "added", "removed", "events"} \subseteq DOMAIN totals
    /\ totals.failures = 0
    /\ totals.divergences = Cardinality(LeftRoute(index, alternative))
    /\ totals.added \in Nat /\ totals.removed \in Nat /\ totals.events \in [Modes -> Nat]
    /\ totals.events["sliced"] <= totals.events["full_suffix"]
    /\ index > 0 \/ alternative > 0 =>
          /\ totals.added > 0 /\ totals.removed > 0
          /\ totals.events["sliced"] < totals.events["full_suffix"]

(* What the campaign has spent in each mode.                               *)

SpendInv ==
    /\ "work" \in DOMAIN totals
    /\ totals.work \in [Modes -> [Roles -> [Metrics -> Int]]]
    /\ \A r \in Roles, m \in Metrics :
          /\ totals.work["sliced"][r][m] <= totals.work["full_suffix"][r][m]
          /\ m = "generated_tokens" /\ r # "judge" =>
                totals.work["sliced"][r][m] = totals.work["full_suffix"][r][m]

CampaignInv ==
    /\ CampaignSetting /\ IInv /\ WorkInv
    /\ LoopInv /\ SparesPartition /\ TotalsInv /\ SpendInv

-----------------------------------------------------------------------------
LEMMA DrawnProgram ==
    ASSUME CampaignSetting, TypeOK, NEW d \in Draws, program = ProgramOf(index, route, d)
    PROVE  RunsDraw(index, route, d)
  <1>1. Len(d.children) \in Nat
    BY DEF CampaignSetting
  <1> QED
    BY <1>1 DEF CampaignSetting, TypeOK, RunsDraw

LEMMA InitPrimed == Init' => IInv'
  BY InitIsInvariant, PTL

(* A program of the campaign starts as an engine's. *)
LEMMA NextProgramIsInit ==
    ASSUME CampaignSetting, LoopInv, NextProgram
    PROVE  Init'
  <1>1. /\ index' \in 0..(ProgramCount - 1) /\ route' \in Routes
        /\ phase' = "original" /\ pos' = 1 /\ trace' = (EmptyTrace(EmptyDict))'
        /\ original' = trace' /\ request' = NoRequest /\ dirty' = Clean /\ results' = EmptyDict
    BY CampaignAssumption DEF NextProgram, LoopInv
  <1>2. PICK d \in Draws : program' = ProgramOf(index', route', d)
    BY DEF NextProgram
  <1>3. PICK p : p = ProgramOf(index', route', d)
    OBVIOUS
  <1>4. p \in CampaignPrograms
    BY <1>1, <1>3 DEF CampaignPrograms
  <1>5. p \in Programs /\ EmptyDict \in InitialCaches
    BY <1>4 DEF CampaignSetting
  <1>6. WellFormed(p)
    <2>1. Len(d.children) \in Nat
      BY DEF CampaignSetting
    <2> QED
      BY <1>3, <2>1, EveryDrawIsWellFormed
  <1>7. program' = p
    BY <1>2, <1>3
  <1>8. (\E cache \in InitialCaches : trace = EmptyTrace(cache))'
    BY <1>1, <1>5 DEF EmptyTrace
  <1>9. (program \in {q \in Programs : WellFormed(q)})'
    BY <1>5, <1>6, <1>7
  <1> QED
    BY <1>1, <1>8, <1>9 DEF Init, NoRequest, Clean, EmptyDict

LEMMA AskedIsStep ==
    ASSUME CampaignSetting, IInv, LoopInv, ReplayAlternative
    PROVE  Next
  <1>1. /\ Replay(Target, ReplacementAction(route, alternative), arm)
        /\ arm \in Modes /\ alternative < Alternatives
    BY DEF ReplayAlternative
  <1>2. ReplacementAction(route, alternative) \in Replacements
    <2>1. alternative \in 0..(Alternatives - 1) /\ route \in Routes
      BY <1>1, CampaignAssumption DEF LoopInv
    <2>2. ReplacementAction(route, alternative) \in CampaignReplacements
      BY <2>1 DEF CampaignReplacements
    <2> QED
      BY <2>2 DEF CampaignSetting
  <1>3. Target \in Events
    BY <1>1 DEF Replay, IInv, TypeOK, IsTrace
  <1> QED
    BY <1>1, <1>2, <1>3 DEF Next

LEMMA CampaignKeepsEngine ==
    ASSUME CampaignInv, [CampaignNext]_<<vars, campaign>>
    PROVE  IInv' /\ WorkInv'
  <1>1. /\ CampaignSetting /\ IInv /\ WorkInv /\ LoopInv
    BY DEF CampaignInv
  <1>2. CASE NextProgram
    <2>1. phase' = "original" /\ results' = EmptyDict
      BY <1>2 DEF NextProgram
    <2>2. WorkInv'
      BY <2>1 DEF WorkInv, EmptyDict
    <2> QED
      BY <1>1, <1>2, <2>2, NextProgramIsInit, InitPrimed
  <1>3. CASE [Next]_vars
    BY <1>1, <1>3, StepKeepsInvariant, StepKeepsWork
  <1>4. CASE EngineBuilt
    BY <1>3, <1>4 DEF EngineBuilt, Next
  <1>5. CASE EngineRuns
    BY <1>3, <1>5 DEF EngineRuns, Next
  <1>6. CASE ReplayAlternative
    BY <1>1, <1>3, <1>6, AskedIsStep
  <1>7. CASE Account \/ Report \/ UNCHANGED <<vars, campaign>>
    <2>1. UNCHANGED vars
      BY <1>7 DEF Account, Report, vars, campaign
    <2> QED
      BY <1>3, <2>1
  <1> QED
    BY <1>2, <1>4, <1>5, <1>6, <1>7 DEF CampaignNext

(* What a step of the engine leaves to the campaign. *)
LEMMA EngineMoves ==
    ASSUME IInv, EngineRuns
    PROVE  /\ UNCHANGED <<program, original, request, campaign>>
           /\ \/ /\ UNCHANGED results /\ phase # "idle" /\ phase' # "idle"
                 /\ phase' \in {"original", "failed"} <=> phase \in {"original", "failed"}
              \/ /\ phase \notin {"original", "failed", "idle"} /\ phase' = "idle"
                 /\ \E o : results' = Put(results, request.mode, o)
                 /\ Return \/ ReplayRaises
  <1>1. UNCHANGED campaign
    BY DEF EngineRuns
  <1>2. CASE SkipInactive
    BY <1>1, <1>2 DEF SkipInactive, Materializing
  <1>3. CASE ExecuteActive
    BY <1>1, <1>3 DEF ExecuteActive, Materializing
  <1>4. CASE OriginalRaises
    BY <1>1, <1>4 DEF OriginalRaises
  <1>5. CASE BeginFull
    BY <1>1, <1>5 DEF BeginFull
  <1>6. CASE BeginSliced
    BY <1>1, <1>6 DEF BeginSliced
  <1>7. CASE RemoveInactive
    BY <1>1, <1>7 DEF RemoveInactive
  <1>8. CASE ExecuteDirty
    BY <1>1, <1>8 DEF ExecuteDirty
  <1>9. CASE ReuseClean
    BY <1>1, <1>9 DEF ReuseClean
  <1>10. CASE Return
    BY <1>1, <1>10 DEF Return
  <1>11. CASE ReplayRaises
    <2>1. /\ UNCHANGED <<program, original, request>> /\ phase' = "idle"
          /\ results' = Put(results, request.mode, Aborted)
      BY <1>11 DEF ReplayRaises
    <2>2. phase \notin {"original", "failed", "idle"}
      BY <1>11 DEF ReplayRaises
    <2> QED
      BY <1>1, <1>11, <2>1, <2>2
  <1> QED
    BY <1>2, <1>3, <1>4, <1>5, <1>6, <1>7, <1>8, <1>9, <1>10, <1>11 DEF EngineRuns

LEMMA SettingPrimed == CampaignSetting => CampaignSetting'
  BY DEF CampaignSetting

LEMMA SpendingStarts == totals = NoTotals => SpendInv
  <1> SUFFICES ASSUME totals = NoTotals PROVE SpendInv
    OBVIOUS
  <1>1. /\ "work" \in DOMAIN totals
        /\ totals.work = [k \in Modes |-> [r \in Roles |-> [m \in Metrics |-> 0]]]
    BY DEF NoTotals
  <1>2. totals.work \in [Modes -> [Roles -> [Metrics -> Int]]]
    BY <1>1
  <1>3. \A k \in Modes, r \in Roles, m \in Metrics : totals.work[k][r][m] = 0
    BY <1>1
  <1> QED
    BY <1>1, <1>2, <1>3 DEF SpendInv, Modes

LEMMA CampaignStarts == CampaignSetting /\ CampaignInit => CampaignInv
  <1> SUFFICES ASSUME CampaignSetting, CampaignInit PROVE CampaignInv
    OBVIOUS
  <1>1. Init /\ results = EmptyDict /\ phase = "original" /\ DOMAIN results = {}
    BY DEF CampaignInit, Init, EmptyDict
  <1>2. IInv
    BY <1>1, InitIsInvariant
  <1>3. WorkInv /\ SparesPartition
    BY <1>1 DEF WorkInv, SparesPartition
  <1>4. LoopInv
    <2>1. index = 0 /\ alternative = 0 /\ arm = "full_suffix" /\ route \in Routes
      BY DEF CampaignInit
    <2>2. \E d \in Draws : program = ProgramOf(index, route, d)
      BY <2>1 DEF CampaignInit
    <2> QED
      BY <1>1, <2>1, <2>2, CampaignAssumption DEF LoopInv, Modes
  <1>5. TotalsInv
    <2>1. index = 0 /\ alternative = 0 /\ totals = NoTotals
      BY DEF CampaignInit
    <2>2. LeftRoute(0, 0) = {}
      BY DEF LeftRoute
    <2>3. Cardinality(LeftRoute(index, alternative)) = 0
      BY <2>1, <2>2, FS_EmptySet
    <2>4. /\ {"failures", "divergences", "added", "removed", "events"} \subseteq DOMAIN totals
          /\ totals.failures = 0 /\ totals.divergences = 0
          /\ totals.added = 0 /\ totals.removed = 0 /\ totals.events = [m \in Modes |-> 0]
      BY <2>1 DEF NoTotals
    <2>5. totals.events["sliced"] = 0 /\ totals.events["full_suffix"] = 0
      BY <2>4 DEF Modes
    <2> QED
      BY <2>1, <2>3, <2>4, <2>5 DEF TotalsInv
  <1>6. SpendInv
    BY SpendingStarts DEF CampaignInit
  <1> QED
    BY <1>2, <1>3, <1>4, <1>5, <1>6 DEF CampaignInv

LEMMA LoopAdvances ==
    ASSUME CampaignInv, [CampaignNext]_<<vars, campaign>>
    PROVE  LoopInv'
  <1>1. IInv /\ LoopInv
    BY DEF CampaignInv
  <1>2. /\ index \in Nat /\ alternative \in Nat
        /\ ProgramCount \in Nat \ {0} /\ Alternatives \in Nat \ {0}
    BY <1>1, CampaignAssumption DEF LoopInv
  <1>3. CASE NextProgram
    <2>1. /\ phase' = "original" /\ results' = EmptyDict /\ arm' = "full_suffix"
          /\ alternative' = 0 /\ index' = index + 1 /\ index + 1 < ProgramCount
          /\ route' \in Routes
          /\ \E d \in Draws : program' = ProgramOf(index', route', d)
      BY <1>3 DEF NextProgram
    <2>2. DOMAIN results' = {} /\ index' \in 0..(ProgramCount - 1) /\ 0 \in 0..Alternatives
      BY <1>2, <2>1 DEF EmptyDict
    <2>3. (\E d \in Draws : program = ProgramOf(index, route, d))'
      BY <2>1
    <2> QED
      BY <2>1, <2>2, <2>3 DEF LoopInv, Modes
  <1> DEFINE same == UNCHANGED <<program, index, route>>
  <1>4. ASSUME same PROVE (\E d \in Draws : program = ProgramOf(index, route, d))'
    BY <1>1, <1>4 DEF LoopInv
  <1>5. CASE EngineBuilt
    <2>1. /\ same /\ UNCHANGED <<alternative, arm, results>>
          /\ phase = "original" /\ phase' = "idle"
      BY <1>5 DEF EngineBuilt, FinishOriginal
    <2>2. results' = EmptyDict
      BY <1>1, <2>1 DEF IInv
    <2>3. DOMAIN results' = {}
      BY <2>2 DEF EmptyDict
    <2> QED
      BY <1>1, <1>4, <2>1, <2>3 DEF LoopInv
  <1>6. CASE EngineRuns
    <2>1. same /\ UNCHANGED <<request, alternative, arm>>
      BY <1>1, <1>6, EngineMoves DEF campaign
    <2>2. CASE /\ UNCHANGED results /\ phase # "idle" /\ phase' # "idle"
               /\ phase' \in {"original", "failed"} <=> phase \in {"original", "failed"}
      BY <1>1, <1>4, <2>1, <2>2 DEF LoopInv, Asked, FullReturned
    <2>3. CASE /\ phase \notin {"original", "failed", "idle"} /\ phase' = "idle"
               /\ \E o : results' = Put(results, request.mode, o)
      <3>1. /\ DOMAIN results' = DOMAIN results \cup {request.mode}
            /\ \A m \in DOMAIN results : m # request.mode => results'[m] = results[m]
        <4>1. PICK o : results' = Put(results, request.mode, o)
          BY <2>3
        <4> QED
          BY <4>1 DEF Put
      <3>2. arm \in {"sliced", "account"}
        BY <1>1, <2>3 DEF LoopInv, Modes
      <3>3. CASE arm = "sliced"
        <4>1. request.mode = "full_suffix" /\ DOMAIN results = {}
          BY <1>1, <2>3, <3>3 DEF LoopInv, Asked
        <4>2. DOMAIN results' = {"full_suffix"}
          BY <3>1, <4>1
        <4> QED
          BY <1>1, <1>4, <2>1, <2>3, <3>3, <4>2 DEF LoopInv, Asked
      <3>4. CASE arm = "account"
        <4>1. request.mode = "sliced" /\ DOMAIN results = {"full_suffix"} /\ FullReturned
          BY <1>1, <2>3, <3>4 DEF LoopInv, Asked
        <4>2. /\ DOMAIN results' = Modes
              /\ "full_suffix" \in DOMAIN results'
              /\ results'["full_suffix"] = results["full_suffix"]
          BY <3>1, <4>1 DEF Modes
        <4>3. FullReturned'
          BY <4>1, <4>2 DEF FullReturned
        <4> QED
          BY <1>1, <1>4, <2>1, <2>3, <3>4, <4>2, <4>3 DEF LoopInv, Asked
      <3> QED
        BY <3>2, <3>3, <3>4
    <2> QED
      BY <1>1, <1>6, <2>2, <2>3, EngineMoves
  <1>7. CASE ReplayAlternative
    <2>1. /\ same /\ UNCHANGED alternative
          /\ alternative < Alternatives /\ arm \in Modes
          /\ \A m \in DOMAIN results : results[m].returned
          /\ phase = "idle" /\ phase' = "prefix"
          /\ request' = [target |-> Target, replacement |-> ReplacementAction(route, alternative),
                         mode |-> arm]
          /\ results' = IF /\ request.target = Target
                           /\ request.replacement = ReplacementAction(route, alternative)
                           /\ arm \notin DOMAIN results
                        THEN results ELSE EmptyDict
          /\ arm' = IF arm = "full_suffix" THEN "sliced" ELSE "account"
      BY <1>7 DEF ReplayAlternative, Replay
    <2>3. CASE arm = "full_suffix"
      <3>1. DOMAIN results' = {}
        <4>1. DOMAIN results \in {{}, Modes} /\ DOMAIN EmptyDict = {}
          BY <1>1, <2>3 DEF LoopInv, EmptyDict
        <4> QED
          BY <2>1, <2>3, <4>1 DEF Modes
      <3>2. Asked("full_suffix")'
        <4>1. request'.mode = "full_suffix"
          BY <2>1, <2>3
        <4> QED
          BY <2>1, <2>3 DEF Asked
      <3> QED
        BY <1>1, <1>4, <2>1, <2>3, <3>1, <3>2 DEF LoopInv, Modes
    <2>4. CASE arm = "sliced"
      <3>1. /\ request.target = Target
            /\ request.replacement = ReplacementAction(route, alternative)
            /\ DOMAIN results = {"full_suffix"}
        BY <1>1, <2>1, <2>4 DEF LoopInv, Asked
      <3>2. results' = results
        BY <2>1, <2>4, <3>1
      <3>3. DOMAIN results' = {"full_suffix"} /\ FullReturned'
        BY <2>1, <3>1, <3>2 DEF FullReturned
      <3>4. Asked("sliced")'
        BY <2>1, <2>4 DEF Asked
      <3> QED
        BY <1>1, <1>4, <2>1, <2>4, <3>3, <3>4 DEF LoopInv
    <2> QED
      BY <2>1, <2>3, <2>4 DEF Modes
  <1>8. CASE Account
    <2>1. /\ same /\ UNCHANGED <<phase, results>> /\ phase = "idle" /\ arm = "account"
          /\ alternative' = alternative + 1 /\ arm' = "full_suffix"
      BY <1>8 DEF Account, vars
    <2>2. DOMAIN results = Modes /\ alternative < Alternatives
      BY <1>1, <2>1 DEF LoopInv
    <2>3. alternative' \in 0..Alternatives
      BY <1>2, <2>1, <2>2
    <2> QED
      BY <1>1, <1>4, <2>1, <2>2, <2>3 DEF LoopInv, Modes
  <1>9. CASE Report
    <2>1. /\ same /\ UNCHANGED <<phase, results, alternative>> /\ phase = "idle"
          /\ arm = "full_suffix" /\ arm' = "report"
          /\ alternative = Alternatives /\ index + 1 = ProgramCount
      BY <1>9 DEF Report, vars
    <2> QED
      BY <1>1, <1>4, <2>1 DEF LoopInv
  <1>10. CASE UNCHANGED <<vars, campaign>>
    BY <1>1, <1>4, <1>10 DEF vars, campaign, LoopInv, Asked, FullReturned
  <1> QED
    BY <1>3, <1>5, <1>6, <1>7, <1>8, <1>9, <1>10 DEF CampaignNext

(* Every replay of the campaign is of the root turn. *)
LEMMA TargetIsAsked ==
    ASSUME LoopInv, phase \in {"prefix", "full", "sliced"}
    PROVE  request.target = Target
  BY DEF LoopInv, Asked, Modes

LEMMA OriginalPartitions ==
    ASSUME NEW i, NEW r, NEW d, RunsDraw(i, r, d), OriginalIsRun
    PROVE  Partition \in original.active /\ <<"chunks">> \in DOMAIN original.state
  <1>1. PICK base \in InitialCaches : Run(original, base, 0, EventCount + 1)
    BY DEF OriginalIsRun, MaterializedAt
  <1>2. /\ Partition \in Events /\ Cmd(Partition).guard = NoGuard
        /\ Out(Partition) = <<"chunks">>
    BY PartitionFacts
  <1>3. EventCount \in Nat
    BY RouteTemplates
  <1>4. Partition < EventCount + 1
    BY <1>2, <1>3 DEF Events
  <1>5. Partition \in original.active
    <2>1. IsActive(Partition, original.state)
      BY <1>2 DEF IsActive
    <2> QED
      BY <1>1, <1>2, <1>4, <2>1 DEF Run
  <1>6. Out(Partition) \in Before(original.active, EventCount + 1)
    BY <1>4, <1>5 DEF Before
  <1> QED
    BY <1>1, <1>2, <1>5, <1>6 DEF Run, Ordered

LEMMA StepSparesPartition ==
    ASSUME CampaignSetting, IInv, LoopInv, SparesPartition, EngineRuns \/ FinishOriginal
    PROVE  SparesPartition'
  <1>1. PICK d \in Draws : program = ProgramOf(index, route, d)
    BY DEF LoopInv
  <1>2. RunsDraw(index, route, d)
    BY <1>1, DrawnProgram DEF IInv
  <1>3. /\ TypeOK /\ IsTrace(trace)
        /\ DOMAIN trace = {"state", "producer", "active", "cache", "decisions"}
        /\ phase \notin {"original", "failed"} => OriginalIsRun
        /\ phase = "sliced" => SlicedAt(request, pos, trace, dirty)
        /\ phase = "full" => FullAt(request, pos, trace)
    BY DEF IInv, TypeOK, IsTrace
  <1>4. /\ Partition \in Events /\ Cmd(Partition).guard = NoGuard
        /\ Out(Partition) = <<"chunks">> /\ ReadSet(Cmd(Partition)) = {<<"task_text">>}
        /\ Cmd(Partition).dependencies = {}
        /\ \A e \in Events : Out(e) = <<"chunks">> => e = Partition
        /\ \A e \in Events : Out(e) # <<"task_text">>
    BY <1>2, PartitionFacts
  <1>5. OriginalIsRun => Partition \in original.active /\ <<"chunks">> \in DOMAIN original.state
    BY <1>2, OriginalPartitions
  <1>6. ASSUME UNCHANGED results, phase' # "sliced" PROVE SparesPartition'
    BY <1>6 DEF SparesPartition
  <1>7. pos \in Nat
    BY <1>3, Positions
  <1>8. ASSUME phase = "sliced", UNCHANGED results, pos' = pos + 1,
               Partition \notin dirty'.events, <<"task_text">> \notin dirty'.artifacts,
               <<"chunks">> \in DOMAIN trace.state => <<"chunks">> \in DOMAIN trace'.state
        PROVE  SparesPartition'
    <2>1. pos' <= Partition => pos <= Partition
      BY <1>7, <1>8 DEF Partition
    <2> QED
      BY <1>8, <2>1 DEF SparesPartition
  <1>9. CASE SkipInactive
    <2>1. phase' # "sliced"
      BY <1>9 DEF SkipInactive, Materializing
    <2> QED
      BY <1>6, <1>9, <2>1 DEF SkipInactive
  <1>10. CASE ExecuteActive
    <2>1. phase' # "sliced"
      BY <1>10 DEF ExecuteActive, Materializing
    <2> QED
      BY <1>6, <1>10, <2>1 DEF ExecuteActive
  <1>11. CASE OriginalRaises \/ FinishOriginal \/ BeginFull
    BY <1>6, <1>11 DEF OriginalRaises, FinishOriginal, BeginFull
  <1>12. CASE BeginSliced
    <2>1. /\ UNCHANGED results /\ trace' = Overlaid /\ phase = "prefix"
          /\ pos = request.target
          /\ dirty'.events = {pos} /\ dirty'.artifacts \subseteq {Out(pos)}
      BY <1>12 DEF BeginSliced, Overlaid
    <2>2. pos = Target /\ pos \in Events
      BY <1>3, <2>1, TargetIsAsked, Positions
    <2>3. Partition \notin dirty'.events /\ <<"task_text">> \notin dirty'.artifacts
      BY <1>4, <2>1, <2>2 DEF Target, Partition
    <2>4. DOMAIN Replaced = DOMAIN trace
      BY <1>3 DEF Replaced, Written
    <2>5. DOMAIN original.state \subseteq DOMAIN Overlaid.state
      BY <1>3, <2>4, OverlaidFacts
    <2>6. <<"chunks">> \in DOMAIN trace'.state
      BY <1>3, <1>5, <2>1, <2>5
    <2> QED
      BY <2>1, <2>3, <2>6 DEF SparesPartition
  <1>13. CASE RemoveInactive
    <2>1. /\ UNCHANGED <<results, dirty>> /\ phase = "sliced" /\ pos \in Events
          /\ pos' = pos + 1 /\ IsInactive(pos, trace.state)
          /\ trace' = IF Producer(Out(pos)) = pos THEN Stripped ELSE trace
      BY <1>13 DEF RemoveInactive, Stripped
    <2>2. pos # Partition
      BY <1>4, <2>1 DEF IsInactive, IsActive
    <2>3. Out(pos) # <<"chunks">>
      BY <1>4, <2>1, <2>2
    <2>4. DOMAIN Stripped.state = DOMAIN trace.state \ {Out(pos)}
      BY <1>3, RemovedIsTrace, WithoutFacts
    <2> QED
      BY <1>8, <2>1, <2>3, <2>4 DEF SparesPartition
  <1>14. CASE ExecuteDirty
    <2>1. /\ UNCHANGED results /\ phase = "sliced" /\ pos \in Events /\ pos' = pos + 1
          /\ ShouldExecute(pos)
          /\ trace' = Written(Resolved(pos, trace), pos, Value(pos, trace))
          /\ dirty'.events = dirty.events \cup {pos}
          /\ dirty'.artifacts \subseteq dirty.artifacts \cup {Out(pos)}
      BY <1>14 DEF ExecuteDirty
    <2>2. pos # Partition
      <3> SUFFICES ASSUME pos = Partition PROVE FALSE
        OBVIOUS
      <3>1. <<"chunks">> \in DOMAIN trace.state /\ <<"task_text">> \notin dirty.artifacts
        BY <2>1 DEF SparesPartition, Partition
      <3>2. Producer(<<"chunks">>) = trace.producer[<<"chunks">>]
        BY <1>3, <3>1, TraceFacts DEF Producer
      <3>3. <<"chunks">> \notin DOMAIN program.initial
        BY <1>3, <1>4, TraceFacts
      <3>4. trace.producer[<<"chunks">>] = Partition
        BY <1>3, <1>4, <3>1, <3>3, TraceFacts
      <3>5. Partition \in original.active
        BY <1>3, <1>5, <2>1
      <3> QED
        BY <1>4, <2>1, <3>1, <3>2, <3>4, <3>5 DEF ShouldExecute
    <2>3. Partition \notin dirty'.events /\ <<"task_text">> \notin dirty'.artifacts
      BY <1>4, <2>1, <2>2 DEF SparesPartition
    <2>4. trace'.state = Put(trace.state, Out(pos), Value(pos, trace))
      BY <1>3, <2>1, ResolvedFields, WrittenFields
    <2>5. DOMAIN trace.state \subseteq DOMAIN trace'.state
      BY <2>4 DEF Put
    <2> QED
      BY <1>8, <2>1, <2>3, <2>5
  <1>15. CASE ReuseClean
    <2>1. /\ UNCHANGED <<results, dirty>> /\ phase = "sliced" /\ pos' = pos + 1
          /\ pos \in Events /\ trace' = Reused
      BY <1>15 DEF ReuseClean, Reused
    <2>2. Reused.state = trace.state
      BY <1>3, <2>1, ReusedIsTrace
    <2> QED
      BY <1>8, <2>1, <2>2 DEF SparesPartition
  <1>16. ASSUME phase' = "idle", NEW o, results' = Put(results, request.mode, o),
                request.mode = "sliced" /\ o.returned => Partition \notin o.reexecuted
         PROVE  SparesPartition'
    <2>1. "sliced" \in DOMAIN results' =>
             \/ request.mode = "sliced" /\ results'["sliced"] = o
             \/ "sliced" \in DOMAIN results /\ results'["sliced"] = results["sliced"]
      BY <1>16 DEF Put
    <2> QED
      BY <1>16, <2>1 DEF SparesPartition
  <1>17. CASE Return
    <2>1. /\ phase' = "idle" /\ phase \in {"full", "sliced"}
          /\ results' = Put(results, request.mode, Returned)
      BY <1>17 DEF Return
    <2>2. ASSUME request.mode = "sliced" PROVE Partition \notin Returned.reexecuted
      <3>1. phase = "sliced"
        BY <1>3, <2>1, <2>2 DEF FullAt
      <3> QED
        BY <2>2, <3>1 DEF Returned, SparesPartition
    <2> QED
      BY <1>16, <2>1, <2>2
  <1>18. CASE ReplayRaises
    <2>1. /\ phase' = "idle" /\ results' = Put(results, request.mode, Aborted)
          /\ ~Aborted.returned
      BY <1>18 DEF ReplayRaises, Aborted
    <2> QED
      BY <1>16, <2>1
  <1> QED
    BY <1>9, <1>10, <1>11, <1>12, <1>13, <1>14, <1>15, <1>17, <1>18 DEF EngineRuns

LEMMA CampaignSparesPartition ==
    ASSUME CampaignInv, [CampaignNext]_<<vars, campaign>>
    PROVE  SparesPartition'
  <1>1. CampaignSetting /\ IInv /\ LoopInv /\ SparesPartition
    BY DEF CampaignInv
  <1>2. CASE NextProgram
    <2>1. phase' = "original" /\ DOMAIN results' = {}
      BY <1>2 DEF NextProgram, EmptyDict
    <2> QED
      BY <2>1 DEF SparesPartition
  <1>3. CASE EngineBuilt \/ EngineRuns
    BY <1>1, <1>3, StepSparesPartition DEF EngineBuilt
  <1>4. CASE ReplayAlternative
    <2>1. phase' = "prefix" /\ (results' = results \/ results' = EmptyDict)
      BY <1>4 DEF ReplayAlternative, Replay
    <2>2. results' = EmptyDict => DOMAIN results' = {}
      BY DEF EmptyDict
    <2> QED
      BY <1>1, <2>1, <2>2 DEF SparesPartition
  <1>5. CASE Account \/ Report \/ UNCHANGED <<vars, campaign>>
    <2>1. UNCHANGED <<phase, results, dirty, pos, trace>>
      BY <1>5 DEF Account, Report, vars, campaign
    <2> QED
      BY <1>1, <2>1 DEF SparesPartition
  <1> QED
    BY <1>2, <1>3, <1>4, <1>5 DEF CampaignNext

(* What is there to count when both replays of an alternative are in.       *)
LEMMA AccountFacts ==
    ASSUME CampaignInv, phase = "idle", arm = "account", NEW full, NEW sliced,
           full = results["full_suffix"], sliced = results["sliced"]
    PROVE  /\ DOMAIN results = Modes /\ alternative < Alternatives
           /\ full.state = sliced.state
           /\ Diverged(sliced) <=> Leaves(alternative)
           /\ IsFiniteSet(Added(sliced)) /\ IsFiniteSet(Removed(sliced))
           /\ Leaves(alternative) => Added(sliced) # {} /\ Removed(sliced) # {}
           /\ IsFiniteSet(full.reexecuted)
           /\ sliced.reexecuted \subseteq full.reexecuted
           /\ sliced.reexecuted # full.reexecuted
  <1>1. CampaignSetting /\ IInv /\ TypeOK /\ WorkInv /\ LoopInv /\ SparesPartition
    BY DEF CampaignInv, IInv
  <1>2. PICK d \in Draws : RunsDraw(index, route, d)
    BY <1>1, DrawnProgram DEF LoopInv
  <1>3. /\ DOMAIN results = Modes /\ alternative < Alternatives /\ FullReturned
        /\ request.target = Target /\ request.replacement = ReplacementAction(route, alternative)
        /\ index \in 0..(ProgramCount - 1) /\ alternative \in Nat /\ route \in Routes
    BY <1>1 DEF LoopInv, Asked
  <1>4. /\ sliced.returned /\ sliced.state = full.state /\ sliced.active = full.active
    BY <1>1, <1>3, InvariantIsExact DEF SlicedEqualsFull, Modes
  <1>5. OriginalIsRun
    BY <1>1 DEF IInv
  <1>6. IsBranch(full, Target) /\ full.state[Out(Target)] = ReplacementAction(route, alternative)
    BY <1>1, <1>3, FullIsRequested DEF Requested
  <1> DEFINE x == (route = "recurse") # Leaves(alternative)
             y == route = "recurse"
  <1>7. full.active = Branch(x)
    BY <1>1, <1>2, <1>3, <1>6, InterventionRoute
  <1>8. original.active = Branch(y)
    BY <1>1, <1>2, <1>3, <1>5, OriginalRoute
  <1>9. x \in BOOLEAN /\ y \in BOOLEAN /\ (x = ~y <=> Leaves(alternative)) /\ (x = y <=> ~Leaves(alternative))
    BY DEF Leaves
  <1> HIDE DEF x, y
  <1>10. Diverged(sliced) <=> Leaves(alternative)
    <2>1. Branch(x) = Branch(y) <=> x = y
      BY <1>2, <1>9, BranchesDiffer
    <2> QED
      BY <1>4, <1>7, <1>8, <1>9, <2>1 DEF Diverged
  <1>11. Branch(x) \subseteq Events /\ Branch(y) \subseteq Events /\ IsFiniteSet(Events)
    <2>1. EventCount \in Nat
      BY <1>2, RouteTemplates
    <2> QED
      BY <2>1, FS_Interval DEF Events, Branch
  <1>12. IsFiniteSet(Added(sliced)) /\ IsFiniteSet(Removed(sliced))
    <2>1. Added(sliced) \subseteq Events /\ Removed(sliced) \subseteq Events
      BY <1>4, <1>7, <1>8, <1>11 DEF Added, Removed
    <2> QED
      BY <1>11, <2>1, FS_Subset
  <1>13. ASSUME Leaves(alternative) PROVE Added(sliced) # {} /\ Removed(sliced) # {}
    <2>1. x = ~y /\ y = ~x
      BY <1>9, <1>13
    <2>2. Branch(x) \ Branch(~x) # {} /\ Branch(y) \ Branch(~y) # {}
      BY <1>2, <1>9, BranchesExchange
    <2> QED
      BY <1>4, <1>7, <1>8, <2>1, <2>2 DEF Added, Removed
  <1>14. full.reexecuted = SuffixOf(full) /\ sliced.reexecuted \subseteq SuffixOf(full)
    <2>1. WorkOf("full_suffix", full) /\ WorkOf("sliced", sliced)
      BY <1>1, <1>3, <1>4 DEF WorkInv, FullReturned, Modes
    <2> QED
      BY <1>4, <2>1 DEF WorkOf, SuffixOf
  <1>15. SuffixOf(full) \subseteq Events
    BY <1>7, <1>11 DEF SuffixOf
  <1>16. Partition \in SuffixOf(full) /\ Partition \notin sliced.reexecuted
    <2>1. Partition \in Events /\ Cmd(Partition).guard = NoGuard
      BY <1>2, PartitionFacts
    <2>2. Partition \in full.active
      BY <1>7, <2>1 DEF Branch
    <2>3. Partition > request.target
      BY <1>3 DEF Partition, Target
    <2>4. Partition \notin sliced.reexecuted
      BY <1>1, <1>3, <1>4 DEF SparesPartition, Modes
    <2> QED
      BY <2>2, <2>3, <2>4 DEF SuffixOf
  <1>17. IsFiniteSet(full.reexecuted)
    BY <1>11, <1>14, <1>15, FS_Subset
  <1> QED
    BY <1>3, <1>4, <1>10, <1>12, <1>13, <1>14, <1>16, <1>17

(* The branches that have left their route, an alternative or a program     *)
(* later.                                                                  *)
LEMMA LeftRouteFacts ==
    ASSUME NEW i \in Nat, NEW k \in 0..Alternatives
    PROVE  /\ IsFiniteSet(LeftRoute(i, k))
           /\ LeftRoute(i + 1, 0) = LeftRoute(i, Alternatives)
           /\ k < Alternatives =>
                 /\ Leaves(k) => /\ LeftRoute(i, k + 1) = LeftRoute(i, k) \cup {<<i, k>>}
                                 /\ <<i, k>> \notin LeftRoute(i, k)
                 /\ ~Leaves(k) => LeftRoute(i, k + 1) = LeftRoute(i, k)
  <1>1. Alternatives \in Nat \ {0} /\ k \in Nat
    BY CampaignAssumption
  <1>2. IsFiniteSet((0..i) \X (0..(Alternatives - 1)))
    <2>1. i \in Int /\ 0 \in Int /\ Alternatives - 1 \in Int
      BY <1>1
    <2>2. IsFiniteSet(0..i) /\ IsFiniteSet(0..(Alternatives - 1))
      BY <2>1, FS_Interval
    <2> QED
      BY <2>2, FS_Product
  <1>3. IsFiniteSet(LeftRoute(i, k))
    <2>1. LeftRoute(i, k) \subseteq (0..i) \X (0..(Alternatives - 1))
      BY DEF LeftRoute
    <2> QED
      BY <1>2, <2>1, FS_Subset
  <1>4. \A j \in Nat, m \in Nat : \A b : b \in LeftRoute(j, m) <=>
           /\ b = <<b[1], b[2]>> /\ b[1] \in Nat /\ b[2] \in Nat
           /\ b[1] <= j /\ b[2] < Alternatives /\ Leaves(b[2]) /\ (b[1] < j \/ b[2] < m)
    BY <1>1 DEF LeftRoute
  <1>5. LeftRoute(i + 1, 0) = LeftRoute(i, Alternatives)
    <2>1. \A b : b \in LeftRoute(i + 1, 0) <=> b \in LeftRoute(i, Alternatives)
      BY <1>1, <1>4
    <2> QED
      BY <2>1
  <1>6. ASSUME k < Alternatives, Leaves(k)
        PROVE  LeftRoute(i, k + 1) = LeftRoute(i, k) \cup {<<i, k>>} /\ <<i, k>> \notin LeftRoute(i, k)
    <2>1. \A b : b \in LeftRoute(i, k + 1) <=> (b \in LeftRoute(i, k) \/ b = <<i, k>>)
      BY <1>1, <1>4, <1>6
    <2>2. <<i, k>> \notin LeftRoute(i, k)
      BY <1>1, <1>4
    <2> QED
      BY <2>1, <2>2
  <1>7. ASSUME k < Alternatives, ~Leaves(k) PROVE LeftRoute(i, k + 1) = LeftRoute(i, k)
    <2>1. \A b : b \in LeftRoute(i, k + 1) <=> b \in LeftRoute(i, k)
      BY <1>1, <1>4, <1>7
    <2> QED
      BY <2>1
  <1> QED
    BY <1>3, <1>5, <1>6, <1>7

LEMMA SlicesSpare ==
    ASSUME CampaignInv, phase = "idle", arm = "account", NEW full, NEW sliced,
           full = results["full_suffix"], sliced = results["sliced"]
    PROVE  Spares(sliced, full)
  <1>1. IInv /\ WorkInv /\ LoopInv /\ DOMAIN results = Modes /\ FullReturned
    BY DEF CampaignInv, LoopInv
  <1>2. /\ IsFiniteSet(full.reexecuted) /\ sliced.reexecuted \subseteq full.reexecuted
    BY AccountFacts
  <1>3. /\ sliced.returned /\ Regenerated(sliced) = Regenerated(full)
    BY <1>1, InvariantIsExact DEF SlicedEqualsFull, Modes, Regenerated
  <1>4. WorkOf("full_suffix", full) /\ WorkOf("sliced", sliced)
    BY <1>1, <1>3 DEF WorkInv, FullReturned, Modes
  <1>5. full.reexecuted = SuffixOf(full) /\ Resampled(sliced.decisions) \subseteq sliced.reexecuted
    BY <1>4 DEF WorkOf
  <1>6. Regenerated(full) \cap full.reexecuted \subseteq Resampled(sliced.decisions)
    BY <1>3, <1>5 DEF SuffixOf, Resampled, Regenerated
  <1>7. full.reexecuted \subseteq Events
    <2>1. IsBranch(full, request.target) /\ TypeOK
      BY <1>1, FullIsRequested DEF Requested, IInv
    <2>2. full.active \subseteq Events
      BY <2>1, BranchFacts
    <2> QED
      BY <1>5, <2>2 DEF SuffixOf
  <1> QED
    BY <1>2, <1>3, <1>5, <1>6, <1>7 DEF Spares

LEMMA AccountCounts ==
    ASSUME CampaignInv, Account
    PROVE  TotalsInv'
  <1> DEFINE full == results["full_suffix"]
             sliced == results["sliced"]
             more == Cardinality(full.reexecuted)
             less == Cardinality(sliced.reexecuted)
             added == Cardinality(Added(sliced))
             removed == Cardinality(Removed(sliced))
             left == Cardinality(LeftRoute(index, alternative))
  <1>1. /\ LoopInv /\ TotalsInv /\ index \in Nat /\ alternative \in Nat
        /\ phase = "idle" /\ arm = "account"
        /\ alternative' = alternative + 1 /\ index' = index
    BY DEF CampaignInv, LoopInv, Account
  <1>2. /\ DOMAIN results = Modes /\ alternative < Alternatives
        /\ full.state = sliced.state
        /\ Diverged(sliced) <=> Leaves(alternative)
        /\ IsFiniteSet(Added(sliced)) /\ IsFiniteSet(Removed(sliced))
        /\ Leaves(alternative) => Added(sliced) # {} /\ Removed(sliced) # {}
        /\ IsFiniteSet(full.reexecuted)
        /\ sliced.reexecuted \subseteq full.reexecuted
        /\ sliced.reexecuted # full.reexecuted
    BY <1>1, AccountFacts
  <1>3. /\ totals'.failures = totals.failures + (IF full.state # sliced.state THEN 1 ELSE 0)
        /\ totals'.divergences = totals.divergences + (IF Diverged(sliced) THEN 1 ELSE 0)
        /\ totals'.added = totals.added + added
        /\ totals'.removed = totals.removed + removed
        /\ totals'.events = [m \in Modes |->
                                totals.events[m] + Cardinality(results[m].reexecuted)]
        /\ DOMAIN totals' = DOMAIN totals
    BY <1>1 DEF Account, TotalsInv
  <1>4. /\ totals'.events["full_suffix"] = totals.events["full_suffix"] + more
        /\ totals'.events["sliced"] = totals.events["sliced"] + less
    BY <1>3 DEF Modes
  <1>5. less \in Nat /\ more \in Nat /\ less < more
    <2>1. /\ IsFiniteSet(sliced.reexecuted) /\ less <= more
          /\ less = more => sliced.reexecuted = full.reexecuted
      BY <1>2, FS_Subset
    <2>2. less \in Nat /\ more \in Nat
      BY <1>2, <2>1, FS_CardinalityType
    <2> QED
      BY <1>2, <2>1, <2>2
  <1>6. /\ added \in Nat /\ removed \in Nat
        /\ Leaves(alternative) => added > 0 /\ removed > 0
    <2>1. added \in Nat /\ removed \in Nat
      BY <1>2, FS_CardinalityType
    <2>2. Leaves(alternative) => added # 0 /\ removed # 0
      BY <1>2, FS_EmptySet
    <2> QED
      BY <2>1, <2>2
  <1>7. left \in Nat
    BY <1>1, <1>2, CampaignAssumption, LeftRouteFacts, FS_CardinalityType DEF LoopInv
  <1>8. Cardinality(LeftRoute(index, alternative + 1))
           = left + (IF Leaves(alternative) THEN 1 ELSE 0)
    <2>1. alternative \in 0..Alternatives
      BY <1>1 DEF LoopInv
    <2>2. IsFiniteSet(LeftRoute(index, alternative))
      BY <1>1, <2>1, LeftRouteFacts
    <2>3. CASE Leaves(alternative)
      <3>1. /\ LeftRoute(index, alternative + 1)
                  = LeftRoute(index, alternative) \cup {<<index, alternative>>}
            /\ <<index, alternative>> \notin LeftRoute(index, alternative)
        BY <1>1, <1>2, <2>1, <2>3, LeftRouteFacts
      <3>2. PICK b, s : b = <<index, alternative>> /\ s = LeftRoute(index, alternative)
        OBVIOUS
      <3>3. Cardinality(s \cup {b}) = Cardinality(s) + 1
        BY <2>2, <3>1, <3>2, FS_AddElement
      <3> QED
        BY <2>3, <3>1, <3>2, <3>3
    <2>4. CASE ~Leaves(alternative)
      <3>1. LeftRoute(index, alternative + 1) = LeftRoute(index, alternative)
        BY <1>1, <1>2, <2>1, <2>4, LeftRouteFacts
      <3> QED
        BY <1>7, <2>4, <3>1
    <2> QED
      BY <2>3, <2>4
  <1>9. (Cardinality(LeftRoute(index, alternative)))'
           = Cardinality(LeftRoute(index, alternative + 1))
    BY <1>1 DEF LeftRoute
  <1> HIDE DEF more, less, added, removed, left
  <1>10. alternative = 0 => Leaves(alternative)
    BY DEF Leaves
  <1>11. /\ totals.failures = 0 /\ totals.divergences = left
         /\ totals.added \in Nat /\ totals.removed \in Nat /\ totals.events \in [Modes -> Nat]
         /\ totals.events["sliced"] <= totals.events["full_suffix"]
         /\ alternative > 0 => totals.added > 0 /\ totals.removed > 0
         /\ {"failures", "divergences", "added", "removed", "events"} \subseteq DOMAIN totals
    BY <1>1 DEF TotalsInv, left
  <1>12. totals.events["sliced"] \in Nat /\ totals.events["full_suffix"] \in Nat
    BY <1>11 DEF Modes
  <1>13. totals'.failures = 0
    BY <1>2, <1>3, <1>11
  <1>14. totals'.divergences = (Cardinality(LeftRoute(index, alternative)))'
    BY <1>2, <1>3, <1>8, <1>9, <1>11
  <1>15. /\ totals'.added \in Nat /\ totals'.removed \in Nat
         /\ totals'.added > 0 /\ totals'.removed > 0
    BY <1>1, <1>3, <1>6, <1>10, <1>11
  <1>16. totals'.events["sliced"] < totals'.events["full_suffix"]
    BY <1>4, <1>5, <1>11, <1>12
  <1>17. totals'.events \in [Modes -> Nat]
    <2>1. \A m \in Modes : totals'.events[m] \in Nat
      BY <1>4, <1>5, <1>12 DEF Modes
    <2> QED
      BY <1>3, <2>1
  <1>18. totals'.events["sliced"] <= totals'.events["full_suffix"]
    <2>1. totals'.events["sliced"] \in Nat /\ totals'.events["full_suffix"] \in Nat
      BY <1>17 DEF Modes
    <2> QED
      BY <1>16, <2>1
  <1> QED
    BY <1>3, <1>11, <1>13, <1>14, <1>15, <1>16, <1>17, <1>18 DEF TotalsInv

LEMMA CampaignCounts ==
    ASSUME CampaignInv, [CampaignNext]_<<vars, campaign>>
    PROVE  TotalsInv'
  <1>1. LoopInv /\ TotalsInv /\ index \in Nat
    BY DEF CampaignInv, LoopInv
  <1>2. CASE NextProgram
    <2>1. /\ totals' = totals /\ index' = index + 1 /\ alternative' = 0
          /\ alternative = Alternatives
      BY <1>2 DEF NextProgram
    <2>2. Alternatives \in Nat \ {0}
      BY CampaignAssumption
    <2>3. Alternatives \in 0..Alternatives /\ Alternatives > 0
      BY <2>2
    <2>4. LeftRoute(index + 1, 0) = LeftRoute(index, Alternatives)
      BY <1>1, <2>3, LeftRouteFacts
    <2>5. (Cardinality(LeftRoute(index, alternative)))' = Cardinality(LeftRoute(index + 1, 0))
      BY <2>1 DEF LeftRoute
    <2>6. totals'.divergences = (Cardinality(LeftRoute(index, alternative)))'
      BY <1>1, <2>1, <2>4, <2>5 DEF TotalsInv
    <2> QED
      BY <1>1, <2>1, <2>3, <2>6 DEF TotalsInv
  <1>3. CASE EngineBuilt
    <2>1. /\ UNCHANGED <<index, alternative>> /\ DOMAIN totals' = DOMAIN totals
          /\ totals'.failures = totals.failures /\ totals'.divergences = totals.divergences
          /\ totals'.added = totals.added /\ totals'.removed = totals.removed
          /\ totals'.events = totals.events
      BY <1>3 DEF EngineBuilt
    <2> QED
      BY <1>1, <2>1 DEF TotalsInv, LeftRoute
  <1>4. CASE UNCHANGED <<index, alternative, totals>>
    BY <1>1, <1>4 DEF TotalsInv, LeftRoute
  <1>5. CASE EngineRuns \/ ReplayAlternative \/ Report \/ UNCHANGED <<vars, campaign>>
    BY <1>4, <1>5 DEF EngineRuns, ReplayAlternative, Report, campaign
  <1> QED
    BY <1>2, <1>3, <1>5, AccountCounts DEF CampaignNext

LEMMA AccountSpends ==
    ASSUME CampaignInv, Account
    PROVE  SpendInv'
  <1> DEFINE full == results["full_suffix"]
             sliced == results["sliced"]
  <1>1. CampaignSetting /\ IInv /\ LoopInv /\ SpendInv /\ phase = "idle" /\ arm = "account"
    BY DEF CampaignInv, Account
  <1>2. Spares(sliced, full)
    BY <1>1, SlicesSpare
  <1>3. \A e \in Events : Priced(Cmd(e))
    <2>1. PICK d \in Draws : RunsDraw(index, route, d)
      BY <1>1, DrawnProgram DEF LoopInv, IInv
    <2>2. d \in [children : Seq(Nat), target : Nat, direct : Nat, recursive : Nat, judge : Nat]
      BY <1>1 DEF CampaignSetting
    <2> QED
      BY <2>1, <2>2, TemplatesArePriced
  <1>4. /\ "work" \in DOMAIN totals'
        /\ totals'.work = [k \in Modes |-> WithWork(totals.work[k], results[k])]
    BY <1>1 DEF Account, SpendInv
  <1> HIDE DEF full, sliced
  <1>5. ASSUME NEW o, NEW w, NEW r \in Roles, NEW m \in Metrics
        PROVE  WithWork(w, o)[r][m] = w[r][m] + SumFunction(Charges(r, m, o))
    BY DEF WithWork, Charges, RanAs
  <1>6. /\ totals'.work["full_suffix"] = WithWork(totals.work["full_suffix"], full)
        /\ totals'.work["sliced"] = WithWork(totals.work["sliced"], sliced)
    BY <1>4 DEF Modes, full, sliced
  <1>7. ASSUME NEW r \in Roles, NEW m \in Metrics
        PROVE  /\ totals'.work["full_suffix"][r][m] \in Int
               /\ totals'.work["sliced"][r][m] \in Int
               /\ totals'.work["sliced"][r][m] <= totals'.work["full_suffix"][r][m]
               /\ m = "generated_tokens" /\ r # "judge" =>
                     totals'.work["sliced"][r][m] = totals'.work["full_suffix"][r][m]
    <2>1. /\ totals'.work["full_suffix"][r][m]
                = totals.work["full_suffix"][r][m] + SumFunction(Charges(r, m, full))
          /\ totals'.work["sliced"][r][m]
                = totals.work["sliced"][r][m] + SumFunction(Charges(r, m, sliced))
      BY <1>5, <1>6
    <2>2. /\ SumFunction(Charges(r, m, sliced)) \in Int
          /\ SumFunction(Charges(r, m, full)) \in Int
          /\ SumFunction(Charges(r, m, sliced)) <= SumFunction(Charges(r, m, full))
          /\ m = "generated_tokens" /\ r # "judge" =>
                SumFunction(Charges(r, m, sliced)) = SumFunction(Charges(r, m, full))
      BY <1>2, <1>3, ChargesCompare
    <2>3. /\ totals.work["full_suffix"][r][m] \in Int /\ totals.work["sliced"][r][m] \in Int
          /\ totals.work["sliced"][r][m] <= totals.work["full_suffix"][r][m]
          /\ m = "generated_tokens" /\ r # "judge" =>
                totals.work["sliced"][r][m] = totals.work["full_suffix"][r][m]
      BY <1>1 DEF SpendInv, Modes
    <2> QED
      BY <2>1, <2>2, <2>3
  <1>8. totals'.work \in [Modes -> [Roles -> [Metrics -> Int]]]
    <2>1. ASSUME NEW k \in Modes
          PROVE  totals'.work[k] \in [Roles -> [Metrics -> Int]]
      <3>1. totals'.work[k] = WithWork(totals.work[k], results[k])
        BY <1>4
      <3>2. /\ totals'.work[k] = [r \in Roles |-> totals'.work[k][r]]
            /\ \A r \in Roles : totals'.work[k][r] = [m \in Metrics |-> totals'.work[k][r][m]]
        BY <3>1 DEF WithWork
      <3>3. \A r \in Roles, m \in Metrics : totals'.work[k][r][m] \in Int
        BY <1>7 DEF Modes
      <3>4. \A r \in Roles : totals'.work[k][r] \in [Metrics -> Int]
        BY <3>2, <3>3
      <3> QED
        BY <3>2, <3>4
    <2> QED
      BY <1>4, <2>1
  <1>9. SpendInv'
    BY <1>4, <1>7, <1>8 DEF SpendInv
  <1> QED
    BY <1>9

LEMMA CampaignSpends ==
    ASSUME CampaignInv, [CampaignNext]_<<vars, campaign>>
    PROVE  SpendInv'
  <1>1. CASE UNCHANGED totals
    BY <1>1 DEF CampaignInv, SpendInv
  <1>2. CASE EngineBuilt
    <2>1. totals'.work = totals.work /\ DOMAIN totals' = DOMAIN totals
      BY <1>2 DEF EngineBuilt
    <2> QED
      BY <2>1 DEF CampaignInv, SpendInv
  <1>3. CASE NextProgram \/ EngineRuns \/ ReplayAlternative \/ Report
             \/ UNCHANGED <<vars, campaign>>
    BY <1>1, <1>3 DEF NextProgram, EngineRuns, ReplayAlternative, Report, campaign
  <1> QED
    BY <1>2, <1>3, AccountSpends DEF CampaignNext

LEMMA CampaignStepKeepsInvariant ==
    CampaignInv /\ [CampaignNext]_<<vars, campaign>> => CampaignInv'
  <1> SUFFICES ASSUME CampaignInv, [CampaignNext]_<<vars, campaign>> PROVE CampaignInv'
    OBVIOUS
  <1>1. CampaignSetting'
    BY SettingPrimed DEF CampaignInv
  <1> QED
    BY <1>1, CampaignKeepsEngine, LoopAdvances, CampaignSparesPartition, CampaignCounts,
       CampaignSpends DEF CampaignInv

LEMMA CampaignAlwaysInvariant == CampaignSetting /\ CampaignSpec => []CampaignInv
  BY CampaignStarts, CampaignStepKeepsInvariant, PTL DEF CampaignSpec

LEMMA RouteIsDecided == CampaignInv => RouteDecidesTopology
  <1> SUFFICES ASSUME CampaignInv PROVE RouteDecidesTopology
    OBVIOUS
  <1>1. CampaignSetting /\ IInv /\ LoopInv /\ TotalsInv
    BY DEF CampaignInv
  <1>2. ASSUME phase = "idle"
        PROVE  TakesRecursiveRoute(original.active) <=> route = "recurse"
    <2>1. PICK d \in Draws : RunsDraw(index, route, d)
      BY <1>1, DrawnProgram DEF LoopInv, IInv
    <2>2. OriginalIsRun /\ index \in 0..(ProgramCount - 1) /\ route \in Routes
      BY <1>1, <1>2 DEF IInv, LoopInv
    <2>3. original.active = Branch(route = "recurse")
      BY <1>1, <2>1, <2>2, OriginalRoute
    <2>4. (route = "recurse") \in BOOLEAN
      OBVIOUS
    <2>5. TakesRecursiveRoute(Branch(route = "recurse")) <=> route = "recurse"
      BY <2>1, <2>4, BranchesDiffer
    <2> QED
      BY <2>3, <2>5
  <1>3. totals.divergences = Cardinality(LeftRoute(index, alternative))
    BY <1>1 DEF TotalsInv
  <1> QED
    BY <1>2, <1>3 DEF RouteDecidesTopology, LeftRoute

LEMMA GateOpens == CampaignInv => GateIsOpen
  <1> SUFFICES ASSUME CampaignInv, arm = "report" PROVE Passed
    BY DEF GateIsOpen
  <1>1. TotalsInv /\ alternative = Alternatives /\ Alternatives > 0
    BY CampaignAssumption DEF CampaignInv, LoopInv
  <1>2. totals.divergences > 0
    <2>1. index \in Nat
      BY DEF CampaignInv, LoopInv
    <2>2. Alternatives \in 0..Alternatives /\ Alternatives \in Nat \ {0}
      BY CampaignAssumption
    <2>3. IsFiniteSet(LeftRoute(index, Alternatives))
      BY <2>1, <2>2, LeftRouteFacts
    <2>4. <<0, 0>> \in LeftRoute(index, Alternatives)
      <3>1. Leaves(0)
        BY DEF Leaves
      <3> QED
        BY <2>1, <2>2, <3>1 DEF LeftRoute
    <2>5. /\ Cardinality(LeftRoute(index, Alternatives)) \in Nat
          /\ Cardinality(LeftRoute(index, Alternatives)) # 0
      BY <2>3, <2>4, FS_CardinalityType, FS_EmptySet
    <2> QED
      BY <1>1, <2>5 DEF TotalsInv
  <1> QED
    BY <1>1, <1>2 DEF TotalsInv, Passed

(* A total over the four roles. *)
LEMMA FourRoles ==
    ASSUME NEW payload \in [Roles -> [Metrics -> Int]], NEW m \in Metrics
    PROVE  Total(payload, m) = payload["environment"][m] + (payload["root_policy"][m]
                                  + (payload["subcall_policy"][m] + payload["judge"][m]))
  <1> DEFINE f == [r \in Roles |-> payload[r][m]]
  <1>1. \A r \in Roles : f[r] = payload[r][m] /\ f[r] \in Int
    OBVIOUS
  <1>2. DOMAIN f = Roles /\ Total(payload, m) = SumFunctionOnSet(f, Roles)
    BY DEF Total, SumFunction
  <1> HIDE DEF f
  <1>3. IsSummable(f, Roles)
    <2>1. IsFiniteSet({}) /\ Roles = ((({} \cup {"environment"}) \cup {"root_policy"})
                                \cup {"subcall_policy"}) \cup {"judge"}
      BY FS_EmptySet DEF Roles
    <2>2. IsFiniteSet(Roles)
      BY <2>1, FS_AddElement
    <2> QED
      BY <1>1, <2>2 DEF IsSummable
  <1> DEFINE three == Roles \ {"environment"}
             two == three \ {"root_policy"}
             one == two \ {"subcall_policy"}
  <1>4. /\ "environment" \in Roles /\ "root_policy" \in three /\ "subcall_policy" \in two
        /\ "judge" \in one /\ one \ {"judge"} = {}
        /\ three \subseteq Roles /\ two \subseteq Roles /\ one \subseteq Roles
    BY DEF Roles
  <1> HIDE DEF three, two, one
  <1>5. IsSummable(f, three) /\ IsSummable(f, two) /\ IsSummable(f, one)
    BY <1>3, <1>4, FS_Subset DEF IsSummable
  <1>6. SumFunctionOnSet(f, Roles) = f["environment"] + SumFunctionOnSet(f, three)
    BY <1>3, <1>4, SumTakesOut DEF three
  <1>7. SumFunctionOnSet(f, three) = f["root_policy"] + SumFunctionOnSet(f, two)
    BY <1>4, <1>5, SumTakesOut DEF two
  <1>8. SumFunctionOnSet(f, two) = f["subcall_policy"] + SumFunctionOnSet(f, one)
    BY <1>4, <1>5, SumTakesOut DEF one
  <1>9. SumFunctionOnSet(f, one) = f["judge"]
    <2>1. SumFunctionOnSet(f, one) = f["judge"] + SumFunctionOnSet(f, {})
      BY <1>4, <1>5, SumTakesOut
    <2>2. SumFunctionOnSet(f, {}) = 0 /\ f["judge"] \in Int
      BY <1>1, SumOfNothing DEF Roles
    <2> QED
      BY <2>1, <2>2
  <1>10. /\ f["environment"] = payload["environment"][m]
         /\ f["root_policy"] = payload["root_policy"][m]
         /\ f["subcall_policy"] = payload["subcall_policy"][m]
         /\ f["judge"] = payload["judge"][m]
    BY <1>1 DEF Roles
  <1> QED
    BY <1>2, <1>6, <1>7, <1>8, <1>9, <1>10

LEMMA SpendingIsSaved == CampaignInv => SlicingSavesWorkNotSamples
  <1> SUFFICES ASSUME SpendInv PROVE SlicingSavesWorkNotSamples
    BY DEF CampaignInv
  <1> DEFINE full == totals.work["full_suffix"]
             sliced == totals.work["sliced"]
             tokens == "generated_tokens"
  <1>1. full \in [Roles -> [Metrics -> Int]] /\ sliced \in [Roles -> [Metrics -> Int]]
    BY DEF SpendInv, Modes
  <1>2. \A r \in Roles, m \in Metrics :
           /\ sliced[r][m] <= full[r][m]
           /\ m = tokens /\ r # "judge" => sliced[r][m] = full[r][m]
    BY DEF SpendInv
  <1>3. tokens \in Metrics
    BY DEF Metrics
  <1> HIDE DEF full, sliced, tokens
  <1>4. /\ sliced["environment"][tokens] = full["environment"][tokens]
        /\ sliced["root_policy"][tokens] = full["root_policy"][tokens]
        /\ sliced["subcall_policy"][tokens] = full["subcall_policy"][tokens]
    BY <1>2, <1>3 DEF Roles
  <1>5. \A r \in Roles : full[r][tokens] \in Int /\ sliced[r][tokens] \in Int
    BY <1>1, <1>3
  <1>6. /\ Total(full, tokens) = full["environment"][tokens] + (full["root_policy"][tokens]
              + (full["subcall_policy"][tokens] + full["judge"][tokens]))
        /\ Total(sliced, tokens) = sliced["environment"][tokens] + (sliced["root_policy"][tokens]
              + (sliced["subcall_policy"][tokens] + sliced["judge"][tokens]))
    BY <1>1, <1>3, FourRoles
  <1>7. Total(full, tokens) - Total(sliced, tokens) = full["judge"][tokens] - sliced["judge"][tokens]
    <2>1. /\ full["environment"][tokens] \in Int /\ full["root_policy"][tokens] \in Int
          /\ full["subcall_policy"][tokens] \in Int /\ full["judge"][tokens] \in Int
          /\ sliced["judge"][tokens] \in Int
      BY <1>5 DEF Roles
    <2> QED
      BY <1>4, <1>6, <2>1
  <1> QED
    BY <1>2, <1>4, <1>7 DEF SlicingSavesWorkNotSamples, full, sliced, tokens, Roles

-----------------------------------------------------------------------------
(* Theorems about the campaign. *)

(***************************************************************************)
(* In a campaign, the original run takes the route its program is labelled *)
(* with, and the branches counted as diverged are those whose alternative  *)
(* leaves the route.                                                       *)
(***************************************************************************)
THEOREM RoutesDecideTopology == CampaignSetting /\ CampaignSpec => []RouteDecidesTopology
  BY CampaignAlwaysInvariant, RouteIsDecided, PTL

(***************************************************************************)
(* The gate of every report is open: no dict differed, topologies did, and *)
(* the slices have run strictly less than the full replays.  This is what  *)
(* EveryCampaignPasses says of a campaign that has come to its end.        *)
(***************************************************************************)
THEOREM GateStaysOpen == CampaignSetting /\ CampaignSpec => []GateIsOpen
  BY CampaignAlwaysInvariant, GateOpens, PTL

(***************************************************************************)
(* Slices never cost more than full replays, in any role and any metric,   *)
(* and save no token of a policy call.                                     *)
(***************************************************************************)
THEOREM SlicesSaveWork == CampaignSetting /\ CampaignSpec => []SlicingSavesWorkNotSamples
  BY CampaignAlwaysInvariant, SpendingIsSaved, PTL
=============================================================================
