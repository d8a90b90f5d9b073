------------------------- MODULE PolicyCacheProofs --------------------------
(***************************************************************************)
(* For any sets of caches, keys and actions and any depth of nested        *)
(* samplers: an answer of a cache stands, and the caches implement         *)
(* write-once tables.                                                      *)
(***************************************************************************)
EXTENDS PolicyCache, SequenceTheorems, TLAPS

Call == [cache : Caches, key : Key]

LEMMA OwnDicts ==
    ASSUME TypeOK
    PROVE  \A c \in Caches : actions[c] = c /\ Contents(c) = dicts[c]
BY DEF TypeOK, Contents, Caches

(* Making a cache keeps the others, and the calls in progress are theirs.  *)
LEMMA NewCache ==
    ASSUME TypeOK, NEW d \in Cache \ Caches, actions' = Referring(d, d)
    PROVE  /\ Caches' = Caches \cup {d}
           /\ actions' = [c \in Caches' |-> c]
           /\ sampling \in Seq(Call')
<1>1. /\ Caches' = Caches \cup {d}
      /\ actions' = [c \in Caches' |-> c]
    BY OwnDicts DEF Referring, Caches
<1>2. sampling \in Seq(Call) /\ Call \subseteq Call'
    BY <1>1 DEF TypeOK, Call
<1> QED
    BY <1>1, <1>2

(* Recording touches one entry of one cache, which was empty or the same.  *)
LEMMA RecordingWrites ==
    ASSUME TypeOK, AnswersStand, NEW c \in Caches, NEW k \in Key, NEW a \in Action,
           Recorded(c, k, a), UNCHANGED actions
    PROVE  /\ dicts' \in [Cache -> [Key -> Action \cup {NoAction}]]
           /\ \A x \in Cache \ Caches : dicts'[x] = dicts[x]
           /\ answers' \subseteq Caches \X Key \X Action
           /\ AnswersStand'
           /\ Tables!Next \/ UNCHANGED [x \in Caches |-> Contents(x)]
<1>1. /\ actions[c] = c /\ c \in Cache /\ Contents(c) = dicts[c]
      /\ Caches' = Caches
      /\ \A x \in Caches : Contents(x)' = dicts'[x] /\ Contents(x) = dicts[x]
    BY OwnDicts DEF Contents, Caches, TypeOK
<1>2. /\ dicts' = [dicts EXCEPT ![c] = [dicts[c] EXCEPT ![k] = a]]
      /\ dicts[c][k] \in {NoAction, a}
      /\ answers' = answers \cup {<<c, k, a>>}
    BY <1>1 DEF Recorded, Accepts
<1>3. /\ dicts \in [Cache -> [Key -> Action \cup {NoAction}]]
      /\ answers \subseteq Caches \X Key \X Action
      /\ Caches \subseteq Cache
    BY DEF TypeOK
<1>4. /\ dicts' \in [Cache -> [Key -> Action \cup {NoAction}]]
      /\ \A x \in Cache \ Caches : dicts'[x] = dicts[x]
      /\ answers' \subseteq Caches \X Key \X Action
    BY <1>1, <1>2, <1>3
<1>5. AnswersStand'
    <2> SUFFICES ASSUME NEW answer \in answers'
                 PROVE  Contents(answer[1])'[answer[2]] = answer[3]
        BY DEF AnswersStand
    <2>1. answer[1] \in Caches /\ answer[2] \in Key /\ answer[3] \in Action
        BY <1>4
    <2>2. CASE answer \in answers
        <3>1. dicts[answer[1]][answer[2]] = answer[3]
            BY <1>1, <2>1, <2>2 DEF AnswersStand
        <3>2. answer[3] # NoAction
            BY <2>1, CacheAssumption
        <3> QED
            BY <1>1, <1>2, <1>3, <2>1, <3>1, <3>2
    <2>3. CASE answer = <<c, k, a>>
        BY <1>1, <1>2, <1>3, <2>3
    <2> QED
        BY <1>2, <2>2, <2>3
<1>6. CASE dicts[c][k] = a
    <2>1. dicts' = dicts
        BY <1>2, <1>3, <1>6
    <2> QED
        BY <1>1, <1>4, <1>5, <2>1
<1>7. CASE dicts[c][k] = NoAction
    <2> DEFINE old == [x \in Caches |-> Contents(x)]
    <2>1. [x \in Caches |-> Contents(x)]' = [x \in Caches |-> dicts'[x]]
        BY <1>1
    <2>2. old = [x \in Caches |-> dicts[x]]
        BY <1>1
    <2>3. /\ c \in DOMAIN old /\ old[c] = dicts[c] /\ old[c][k] = NoAction
          /\ DOMAIN old \cup {c} = Caches
        BY <1>7, <2>2
    <2>4. [x \in Caches |-> dicts'[x]]
            = [x \in Caches |-> IF x = c THEN [old[c] EXCEPT ![k] = a] ELSE old[x]]
        BY <1>2, <1>3, <2>2, <2>3
    <2>5. Tables!Write(c, k, a)
        BY <2>1, <2>3, <2>4 DEF Tables!Write, Tables!With
    <2>6. Tables!Next
        BY <1>1, <2>5 DEF Tables!Next
    <2> QED
        BY <1>4, <1>5, <2>6
<1> QED
    BY <1>2, <1>6, <1>7

(* The innermost call is on a cache there is, and so are the outer ones.   *)
LEMMA Unwinding ==
    ASSUME TypeOK, sampling # <<>>
    PROVE  /\ Innermost \in Call
           /\ Outer \in Seq(Call) /\ Len(Outer) <= MaxDepth
<1>1. sampling \in Seq(Call) /\ Len(sampling) \in Nat /\ Len(sampling) <= MaxDepth
    BY DEF TypeOK, Call
<1>2. Len(sampling) \in 1..Len(sampling)
    BY <1>1, EmptySeq
<1>3. Innermost \in Call
    BY <1>1, <1>2, ElementOfSeq DEF Innermost
<1>4. \A i \in 1..(Len(sampling) - 1) : sampling[i] \in Call
    BY <1>1, <1>2, ElementOfSeq
<1>5. Outer \in Seq(Call) /\ Len(Outer) = Len(sampling) - 1
    <2> DEFINE n == Len(sampling) - 1
    <2>1. n \in Nat
        BY <1>1, <1>2
    <2>2. \A i \in 1..n : sampling[i] \in Call
        BY <1>4
    <2> HIDE DEF n
    <2>3. /\ SubSeq(sampling, 1, n) \in Seq(Call)
          /\ Len(SubSeq(sampling, 1, n)) = IF 1 <= n THEN n - 1 + 1 ELSE 0
        BY <2>1, <2>2, SubSeqProperties
    <2>4. Len(SubSeq(sampling, 1, n)) = n
        BY <2>1, <2>3
    <2> QED
        BY <2>3, <2>4 DEF Outer, n
<1> QED
    BY <1>1, <1>3, <1>5, CacheAssumption

-----------------------------------------------------------------------------
IInv == TypeOK /\ AnswersStand

LEMMA InitInv == Init => IInv /\ Tables!Init
<1> SUFFICES ASSUME Init PROVE IInv /\ Tables!Init
    OBVIOUS
<1>1. Caches = {}
    BY DEF Init, Caches
<1>2. TypeOK
    BY <1>1, CacheAssumption DEF Init, TypeOK, Empty
<1>3. AnswersStand
    BY DEF Init, AnswersStand
<1>4. Tables!Init
    BY <1>1 DEF Tables!Init
<1> QED
    BY <1>2, <1>3, <1>4 DEF IInv

LEMMA StepInv ==
    IInv /\ [Next]_vars =>
        IInv' /\ (Tables!Next \/ UNCHANGED [c \in Caches |-> Contents(c)])
<1> SUFFICES ASSUME TypeOK, AnswersStand, [Next]_vars
             PROVE  /\ TypeOK' /\ AnswersStand'
                    /\ Tables!Next \/ UNCHANGED [c \in Caches |-> Contents(c)]
    BY DEF IInv
<1> USE DEF Call
<1>0. /\ dicts \in [Cache -> [Key -> Action \cup {NoAction}]]
      /\ Caches \subseteq Cache
      /\ \A c \in Cache \ Caches : dicts[c] = Empty
      /\ sampling \in Seq(Call) /\ Len(sampling) \in Nat /\ Len(sampling) <= MaxDepth
      /\ answers \subseteq Caches \X Key \X Action
      /\ \A c \in Caches : actions[c] = c /\ Contents(c) = dicts[c]
    BY OwnDicts DEF TypeOK
<1>1. ASSUME NEW c \in Cache, Create(c)
      PROVE  /\ TypeOK' /\ AnswersStand'
             /\ Tables!Next \/ UNCHANGED [x \in Caches |-> Contents(x)]
    <2>1. /\ Caches' = Caches \cup {c} /\ actions' = [x \in Caches' |-> x]
          /\ sampling' \in Seq(Call') /\ c \notin Caches
          /\ dicts' = dicts /\ answers' = answers /\ sampling' = sampling
        BY <1>1, NewCache DEF Create
    <2>2. TypeOK'
        BY <1>0, <2>1 DEF TypeOK
    <2>3. \A x \in Caches' : Contents(x)' = dicts[x]
        BY <2>1 DEF Contents
    <2>4. AnswersStand'
        BY <1>0, <2>1, <2>3 DEF AnswersStand
    <2>5. Tables!Create(c)
        BY <1>0, <2>1, <2>3 DEF Tables!Create, Tables!With, Tables!Empty, Empty
    <2> QED
        BY <2>2, <2>4, <2>5 DEF Tables!Next
<1>2. ASSUME NEW c \in Cache, NEW d \in Cache, Fork(c, d)
      PROVE  /\ TypeOK' /\ AnswersStand'
             /\ Tables!Next \/ UNCHANGED [x \in Caches |-> Contents(x)]
    <2>1. /\ Caches' = Caches \cup {d} /\ actions' = [x \in Caches' |-> x]
          /\ sampling' \in Seq(Call') /\ c \in Caches /\ d \notin Caches
          /\ dicts' = [dicts EXCEPT ![d] = dicts[c]]
          /\ answers' = answers /\ sampling' = sampling
        BY <1>0, <1>2, NewCache DEF Fork
    <2>2. TypeOK'
        BY <1>0, <2>1 DEF TypeOK
    <2>3. \A x \in Caches' : Contents(x)' = dicts'[x]
        BY <2>1 DEF Contents
    <2>4. /\ \A x \in Caches : Contents(x)' = Contents(x)
          /\ Contents(d)' = Contents(c)
        BY <1>0, <2>1, <2>3
    <2>5. AnswersStand'
        BY <1>0, <2>1, <2>4 DEF AnswersStand
    <2>6. Tables!Copy(c, d)
        BY <2>1, <2>4 DEF Tables!Copy, Tables!With
    <2> QED
        BY <2>2, <2>5, <2>6 DEF Tables!Next
<1>3. ASSUME NEW c \in Cache, NEW k \in Key, ResolveCached(c, k)
      PROVE  /\ TypeOK' /\ AnswersStand'
             /\ UNCHANGED [x \in Caches |-> Contents(x)]
    <2>1. /\ c \in Caches /\ Contents(c)[k] # NoAction
          /\ answers' = answers \cup {<<c, k, Contents(c)[k]>>}
          /\ UNCHANGED <<dicts, actions, sampling>>
        BY <1>3 DEF ResolveCached
    <2>2. Contents(c)[k] \in Action
        BY <1>0, <2>1
    <2>3. Caches' = Caches /\ \A x : Contents(x)' = Contents(x)
        BY <2>1 DEF Caches, Contents
    <2>4. TypeOK'
        BY <1>0, <2>1, <2>2, <2>3 DEF TypeOK
    <2>5. AnswersStand'
        BY <2>1, <2>3 DEF AnswersStand
    <2> QED
        BY <2>3, <2>4, <2>5
<1>4. ASSUME NEW c \in Cache, NEW k \in Key, ResolveMissing(c, k)
      PROVE  /\ TypeOK' /\ AnswersStand'
             /\ UNCHANGED [x \in Caches |-> Contents(x)]
    <2>1. /\ c \in Caches
          /\ sampling' = Append(sampling, [cache |-> c, key |-> k])
          /\ Len(sampling) < MaxDepth
          /\ UNCHANGED <<dicts, actions, answers>>
        BY <1>4 DEF ResolveMissing
    <2>2. Caches' = Caches /\ \A x : Contents(x)' = Contents(x)
        BY <2>1 DEF Caches, Contents
    <2>3. sampling' \in Seq(Call) /\ Len(sampling') <= MaxDepth
        BY <1>0, <2>1, CacheAssumption
    <2>4. TypeOK'
        BY <1>0, <2>1, <2>2, <2>3 DEF TypeOK
    <2> QED
        BY <2>1, <2>2, <2>4 DEF AnswersStand
<1>5. ASSUME NEW c \in Cache, NEW k \in Key, NEW a \in Action, Record(c, k, a)
      PROVE  /\ TypeOK' /\ AnswersStand'
             /\ Tables!Next \/ UNCHANGED [x \in Caches |-> Contents(x)]
    <2>1. c \in Caches /\ Recorded(c, k, a) /\ UNCHANGED <<actions, sampling>>
        BY <1>5 DEF Record
    <2>2. Caches' = Caches
        BY <2>1 DEF Caches
    <2>3. /\ dicts' \in [Cache -> [Key -> Action \cup {NoAction}]]
          /\ \A x \in Cache \ Caches : dicts'[x] = dicts[x]
          /\ answers' \subseteq Caches \X Key \X Action
          /\ AnswersStand'
          /\ Tables!Next \/ UNCHANGED [x \in Caches |-> Contents(x)]
        BY <2>1, RecordingWrites
    <2>4. TypeOK'
        BY <1>0, <2>1, <2>2, <2>3 DEF TypeOK
    <2> QED
        BY <2>3, <2>4
<1>6. ASSUME NEW a \in Action, SamplerReturns(a)
      PROVE  /\ TypeOK' /\ AnswersStand'
             /\ Tables!Next \/ UNCHANGED [x \in Caches |-> Contents(x)]
    <2>1. /\ Recorded(Innermost.cache, Innermost.key, a)
          /\ sampling' = Outer /\ UNCHANGED actions
          /\ Innermost \in Call /\ Outer \in Seq(Call) /\ Len(Outer) <= MaxDepth
        BY <1>6, Unwinding DEF SamplerReturns
    <2>2. Caches' = Caches /\ Innermost.cache \in Caches /\ Innermost.key \in Key
        BY <2>1 DEF Caches
    <2>3. /\ dicts' \in [Cache -> [Key -> Action \cup {NoAction}]]
          /\ \A x \in Cache \ Caches : dicts'[x] = dicts[x]
          /\ answers' \subseteq Caches \X Key \X Action
          /\ AnswersStand'
          /\ Tables!Next \/ UNCHANGED [x \in Caches |-> Contents(x)]
        BY <2>1, <2>2, RecordingWrites
    <2>4. TypeOK'
        BY <1>0, <2>1, <2>2, <2>3 DEF TypeOK
    <2> QED
        BY <2>3, <2>4
<1>7. ASSUME SamplingRaises
      PROVE  /\ TypeOK' /\ AnswersStand'
             /\ UNCHANGED [x \in Caches |-> Contents(x)]
    <2>1. /\ sampling' = Outer /\ UNCHANGED <<dicts, actions, answers>>
          /\ Outer \in Seq(Call) /\ Len(Outer) <= MaxDepth
        BY <1>7, Unwinding DEF SamplingRaises
    <2>2. Caches' = Caches /\ \A x : Contents(x)' = Contents(x)
        BY <2>1 DEF Caches, Contents
    <2>3. TypeOK'
        BY <1>0, <2>1, <2>2 DEF TypeOK
    <2> QED
        BY <2>1, <2>2, <2>3 DEF AnswersStand
<1>8. ASSUME UNCHANGED vars
      PROVE  /\ TypeOK' /\ AnswersStand'
             /\ UNCHANGED [x \in Caches |-> Contents(x)]
    BY <1>8 DEF vars, TypeOK, AnswersStand, Caches, Contents
<1> QED
    BY <1>1, <1>2, <1>3, <1>4, <1>5, <1>6, <1>7, <1>8 DEF Next

LEMMA Invariance == Spec => []IInv
<1>1. Init => IInv
    BY InitInv
<1>2. IInv /\ [Next]_vars => IInv'
    BY StepInv
<1> QED
    BY <1>1, <1>2, PTL DEF Spec

-----------------------------------------------------------------------------
(* The fields keep their types, and no two caches share a dict. *)
THEOREM TypeCorrect == Spec => []TypeOK
<1>1. IInv => TypeOK
    BY DEF IInv
<1> QED
    BY <1>1, Invariance, PTL

(* What a cache has answered for a key it answers ever after, whatever the *)
(* samplers do with the caches while they run.                             *)
THEOREM AnswersAlwaysStand == Spec => []AnswersStand
<1>1. IInv => AnswersStand
    BY DEF IInv
<1> QED
    BY <1>1, Invariance, PTL

(* Caches are write-once tables that forks copy and nothing else shares.   *)
THEOREM Implements == Spec => ImplementsTables
<1>1. Init => Tables!Init
    BY InitInv
<1>2. IInv /\ [Next]_vars => [Tables!Next]_([c \in Caches |-> Contents(c)])
    BY StepInv
<1> QED
    BY <1>1, <1>2, Invariance, PTL DEF Spec, ImplementsTables, Tables!Spec
=============================================================================
