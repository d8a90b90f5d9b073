----------------------------- MODULE PolicyCache ----------------------------
(***************************************************************************)
(* redco.env.policy_cache.PolicyActionCache: a dict from exact call keys   *)
(* to actions.  resolve looks a key up, asks the caller's sampler when     *)
(* there is no action, and records what it gets.  While the sampler runs   *)
(* it may itself use the caches: resolve other calls or the same one,      *)
(* record, and fork.                                                       *)
(*                                                                         *)
(* Caches refer to dicts, as objects of the code do, so that sharing a     *)
(* dict can be told from copying it.  An action is a model value.          *)
(***************************************************************************)
EXTENDS Naturals, Sequences

CONSTANTS
    Cache,      \* caches that may come to exist
    Key,        \* PolicyCallKey: prompt hash, checkpoint, decoding and seed
    Action,     \* action token ids
    NoAction,   \* what get() returns for a key without an action
    MaxDepth    \* bound: resolve calls in progress at a time

ASSUME CacheAssumption == NoAction \notin Action /\ MaxDepth \in Nat

VARIABLES
    dicts,      \* the contents of each dict, named for the cache it was made for
    actions,    \* self._actions: cache -> the dict it refers to
    sampling,   \* the resolve calls whose sampler is running, innermost last
    answers     \* <<cache, key, action>> for all that was returned or recorded

vars == <<dicts, actions, sampling, answers>>

Caches      == DOMAIN actions
Contents(c) == dicts[actions[c]]

Empty == [k \in Key |-> NoAction]

Referring(c, d) == [x \in Caches \cup {c} |-> IF x = c THEN d ELSE actions[x]]

-----------------------------------------------------------------------------
Init ==
    /\ dicts = [c \in Cache |-> Empty]
    /\ actions = [c \in {} |-> c]
    /\ sampling = <<>>
    /\ answers = {}

(* PolicyActionCache() *)
Create(c) ==
    /\ c \in Cache \ Caches
    /\ actions' = Referring(c, c)
    /\ UNCHANGED <<dicts, sampling, answers>>

(* Mutant of Fork: the branch refers to the parent's dict. *)
ForkShared(c, d) ==
    /\ c \in Caches /\ d \in Cache \ Caches
    /\ actions' = Referring(d, actions[c])
    /\ UNCHANGED <<dicts, sampling, answers>>

Fork(c, d) ==
    /\ c \in Caches /\ d \in Cache \ Caches
    /\ dicts' = [dicts EXCEPT ![d] = Contents(c)]
    /\ actions' = Referring(d, d)
    /\ UNCHANGED <<sampling, answers>>

-----------------------------------------------------------------------------
(* Mutant of Accepts: a recorded action is replaced. *)
AcceptsAnything(c, k, a) == TRUE

(* record raises "conflicting action for exact policy call key" unless: *)
Accepts(c, k, a) == Contents(c)[k] \in {NoAction, a}

Recorded(c, k, a) ==
    /\ Accepts(c, k, a)
    /\ dicts' = [dicts EXCEPT ![actions[c]][k] = a]
    /\ answers' = answers \cup {<<c, k, a>>}

Record(c, k, a) ==
    /\ c \in Caches
    /\ Recorded(c, k, a)
    /\ UNCHANGED <<actions, sampling>>

ResolveCached(c, k) ==
    /\ c \in Caches
    /\ Contents(c)[k] # NoAction
    /\ answers' = answers \cup {<<c, k, Contents(c)[k]>>}
    /\ UNCHANGED <<dicts, actions, sampling>>

ResolveMissing(c, k) ==
    /\ c \in Caches
    /\ Contents(c)[k] = NoAction
    /\ Len(sampling) < MaxDepth
    /\ sampling' = Append(sampling, [cache |-> c, key |-> k])
    /\ UNCHANGED <<dicts, actions, answers>>

Innermost == sampling[Len(sampling)]
Outer     == SubSeq(sampling, 1, Len(sampling) - 1)

(* The sampler returns, its action is recorded, and resolve returns it. *)
SamplerReturns(a) ==
    /\ sampling # <<>>
    /\ Recorded(Innermost.cache, Innermost.key, a)
    /\ sampling' = Outer
    /\ UNCHANGED actions

(* The sampler raises, or record does on what it returned. *)
SamplingRaises ==
    /\ sampling # <<>>
    /\ sampling' = Outer
    /\ UNCHANGED <<dicts, actions, answers>>

Next ==
    \/ \E c \in Cache : Create(c)
    \/ \E c, d \in Cache : Fork(c, d)
    \/ \E c \in Cache, k \in Key : ResolveCached(c, k) \/ ResolveMissing(c, k)
    \/ \E c \in Cache, k \in Key, a \in Action : Record(c, k, a)
    \/ \E a \in Action : SamplerReturns(a)
    \/ SamplingRaises

Spec == Init /\ [][Next]_vars

-----------------------------------------------------------------------------
(* Properties. *)

(* The types of the fields; every cache has a dict of its own, and a dict  *)
(* no cache was made for is still as it was made.                          *)
TypeOK ==
    /\ dicts \in [Cache -> [Key -> Action \cup {NoAction}]]
    /\ actions = [c \in Caches |-> c] /\ Caches \subseteq Cache
    /\ \A c \in Cache \ Caches : dicts[c] = Empty
    /\ sampling \in Seq([cache : Caches, key : Key]) /\ Len(sampling) <= MaxDepth
    /\ answers \subseteq Caches \X Key \X Action

(***************************************************************************)
(* An answer stands: whatever a cache returned or accepted for a key is    *)
(* what it holds for that key ever after, so no two calls with one key get *)
(* different actions, even if a sampler resolved the same key before it    *)
(* returned another action.                                                *)
(***************************************************************************)
AnswersStand == \A answer \in answers : Contents(answer[1])[answer[2]] = answer[3]

(***************************************************************************)
(* The caches are write-once tables: entries are only added, a fork is a   *)
(* copy, and what happens in one cache is not seen by its parent, its      *)
(* branches or any other cache.                                            *)
(***************************************************************************)
Tables == INSTANCE WriteOnceTables WITH tables <- [c \in Caches |-> Contents(c)]

ImplementsTables == Tables!Spec
=============================================================================
