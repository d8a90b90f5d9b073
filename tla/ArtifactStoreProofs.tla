------------------------- MODULE ArtifactStoreProofs ------------------------
(***************************************************************************)
(* Theorems about ArtifactStore, for any number of processes, names and    *)
(* data: the ledgers are sound, and the store implements ContentStore.     *)
(***************************************************************************)
EXTENDS ArtifactStore, FiniteSetTheorems, TLAPS

-----------------------------------------------------------------------------
(* The inductive invariant. *)

Steps == {"idle", "exists", "compare", "open", "fill", "replace"}

LedgerEntry == [data : Datum, name : Name, version : Nat]

(* What TypeOK leaves open: the shape of job, and finite ledgers. *)
Shapes ==
    /\ job \in [Process -> {NoJob} \cup PutJob \cup WriteJob]
    /\ \A p \in Process : IsFiniteSet(recorded[p])

(* A process that compares has seen the file, and no file ever leaves; one  *)
(* that is about to move its temporary file has filled it, and nobody else *)
(* touches that file.                                                      *)
StepsAreBacked ==
    \A p \in Process :
        /\ step[p] = "compare" => file[job[p].data] # "absent"
        /\ step[p] = "replace" => temp[p][job[p].data] = "whole"

(* The ledger does not move while a write is in progress: its version is    *)
(* still the next one when it is recorded, and there is room for it.       *)
WritesAreNext ==
    \A p \in Process : step[p] # "idle" /\ job[p] \in WriteJob =>
        /\ job[p].version = latest[p][job[p].name].version + 1
        /\ Cardinality(recorded[p]) < MaxVersions

IInv == TypeOK /\ Shapes /\ StepsAreBacked /\ WritesAreNext /\ LedgerIsSound

-----------------------------------------------------------------------------
(* The records of the model are told apart by their fields. *)

LEMMA JobKinds ==
    /\ NoJob \notin WriteJob
    /\ \A d \in Datum : [data |-> d] \in PutJob /\ [data |-> d] \notin WriteJob
    /\ \A d \in Datum, n \in Name, v \in Nat :
          [data |-> d, name |-> n, version |-> v] \in WriteJob
    /\ \A j \in PutJob \cup WriteJob : j.data \in Datum
    /\ \A j \in WriteJob : j.name \in Name /\ j.version \in Nat
  <1>1. NoJob \notin WriteJob
    <2> SUFFICES ASSUME NoJob \in WriteJob PROVE FALSE
      OBVIOUS
    <2>1. DOMAIN NoJob = {"data", "name", "version"}
      BY DEF WriteJob
    <2>2. DOMAIN NoJob = {"data"}
      BY DEF NoJob
    <2> QED
      BY <2>1, <2>2
  <1>2. ASSUME NEW d \in Datum
        PROVE  [data |-> d] \in PutJob /\ [data |-> d] \notin WriteJob
    <2>1. [data |-> d] \in PutJob
      BY DEF PutJob
    <2>2. SUFFICES ASSUME [data |-> d] \in WriteJob PROVE FALSE
      BY <2>1
    <2>3. DOMAIN [data |-> d] = {"data", "name", "version"}
      BY <2>2 DEF WriteJob
    <2> QED
      BY <2>3
  <1> QED
    BY <1>1, <1>2 DEF PutJob, WriteJob

(* The next version is one more than the latest; before the first, the      *)
(* latest is -1.                                                           *)
LEMMA NextIsLatestPlusOne ==
    ASSUME TypeOK, NEW p \in Process, NEW n \in Name
    PROVE  /\ latest[p][n].version \in Int /\ latest[p][n].version >= -1
           /\ NextVersion(p, n) = latest[p][n].version + 1
           /\ NextVersion(p, n) \in Nat
  <1>1. latest[p][n] \in {Unknown} \cup Version
    BY DEF TypeOK
  <1>2. CASE latest[p][n] = Unknown
    BY <1>2 DEF NextVersion, Unknown
  <1>3. CASE latest[p][n] # Unknown
    BY <1>1, <1>3 DEF NextVersion, Version
  <1> QED
    BY <1>2, <1>3

(* A name has no more versions than its ledger has artifacts. *)
LEMMA RoomForNextVersion ==
    ASSUME IInv, NEW p \in Process, NEW n \in Name,
           Cardinality(recorded[p]) < MaxVersions
    PROVE  latest[p][n].version + 1 \in 0..(MaxVersions - 1)
  <1>1. Versions(p, n) \subseteq recorded[p]
    BY DEF Versions
  <1>2. /\ Cardinality(Versions(p, n)) <= Cardinality(recorded[p])
        /\ Cardinality(recorded[p]) \in Nat
    BY <1>1, FS_Subset, FS_CardinalityType DEF IInv, Shapes
  <1>3. Cardinality(Versions(p, n)) = latest[p][n].version + 1
    BY DEF IInv, LedgerIsSound, VersionsAreConsecutive
  <1>4. latest[p][n].version \in Int /\ latest[p][n].version >= -1
    BY NextIsLatestPlusOne DEF IInv
  <1> QED
    BY <1>2, <1>3, <1>4, MaxVersionsAssumption

-----------------------------------------------------------------------------
LEMMA InitInv == Init => IInv
  <1> SUFFICES ASSUME Init PROVE IInv
    OBVIOUS
  <1>1. TypeOK /\ Shapes
    BY FS_EmptySet DEF Init, TypeOK, Shapes, Content
  <1>2. StepsAreBacked /\ WritesAreNext
    BY DEF Init, StepsAreBacked, WritesAreNext
  <1>3. VersionsAreConsecutive
    <2> SUFFICES ASSUME NEW p \in Process, NEW n \in Name
                 PROVE  /\ {a.version : a \in Versions(p, n)} = 0..latest[p][n].version
                        /\ Cardinality(Versions(p, n)) = latest[p][n].version + 1
      BY DEF VersionsAreConsecutive
    <2>1. Versions(p, n) = {} /\ latest[p][n].version = -1
      BY DEF Init, Versions, Unknown
    <2> QED
      BY <2>1, FS_EmptySet
  <1>4. RecordedIsOnDisk
    BY DEF Init, RecordedIsOnDisk
  <1> QED
    BY <1>1, <1>2, <1>3, <1>4 DEF IInv, LedgerIsSound

(* A ledger that nobody touches stays sound as long as no file leaves.      *)
LEMMA SameLedgers ==
    ASSUME IInv, UNCHANGED <<latest, recorded>>,
           \A d \in Datum : file[d] # "absent" => file'[d] # "absent"
    PROVE  LedgerIsSound' /\ \A p \in Process : IsFiniteSet(recorded'[p])
  <1>1. \A p \in Process : \A a \in recorded[p] : a.data \in Datum
    BY DEF IInv, TypeOK
  <1> QED
    BY <1>1 DEF IInv, LedgerIsSound, VersionsAreConsecutive, RecordedIsOnDisk, Versions, Shapes

(* A process that stops leaves the promises to the others as they are.      *)
LEMMA StopKeepsSteps ==
    ASSUME IInv, NEW p \in Process, Stop(p)
    PROVE  /\ step' \in [Process -> Steps]
           /\ job' \in [Process -> {NoJob} \cup PutJob \cup WriteJob]
           /\ \A q \in Process : job'[q] \in IF step'[q] = "idle" THEN {NoJob}
                                                             ELSE PutJob \cup WriteJob
           /\ step'[p] = "idle"
           /\ \A q \in Process : q # p => step'[q] = step[q] /\ job'[q] = job[q]
  BY DEF IInv, TypeOK, Shapes, Stop, Steps

(* Nor does what it leaves behind in its ledger and its temporary files.    *)
LEMMA OthersKeepSteps ==
    ASSUME IInv, NEW p \in Process, Stop(p),
           \A d \in Datum : file[d] # "absent" => file'[d] # "absent",
           \A q \in Process : q # p => /\ temp'[q] = temp[q]
                                       /\ latest'[q] = latest[q]
                                       /\ recorded'[q] = recorded[q]
    PROVE  StepsAreBacked' /\ WritesAreNext'
  <1>1. step'[p] = "idle"
    BY StopKeepsSteps
  <1>2. ASSUME NEW q \in Process, q # p
        PROVE  step'[q] = step[q] /\ job'[q] = job[q]
    BY <1>2, StopKeepsSteps
  <1>3. ASSUME NEW q \in Process, step[q] # "idle"
        PROVE  job[q].data \in Datum
    BY <1>3, JobKinds DEF IInv, TypeOK
  <1>4. StepsAreBacked'
    BY <1>1, <1>2, <1>3 DEF IInv, StepsAreBacked
  <1>5. WritesAreNext'
    BY <1>1, <1>2 DEF IInv, WritesAreNext
  <1> QED
    BY <1>4, <1>5

(* The put of a job ends well: its version is recorded, and is the next.    *)
LEMMA SucceedInv ==
    ASSUME IInv, NEW p \in Process, Succeed(p), step[p] # "idle",
           file' \in [Datum -> Content], temp' \in [Process -> [Datum -> Content]],
           file'[job[p].data] # "absent",
           \A d \in Datum : file[d] # "absent" => file'[d] # "absent",
           \A q \in Process : q # p => temp'[q] = temp[q]
    PROVE  IInv'
  <1> DEFINE j == job[p]
  <1>1. Stop(p)
    BY DEF Succeed
  <1>2. j \in PutJob \cup WriteJob /\ j.data \in Datum
    BY JobKinds DEF IInv, TypeOK
  <1>3. answer' \in [call : {"put", "get"}, data : Datum,
                     result : {"stored", "data", "collision", "error"}]
    BY <1>2 DEF Succeed, Answer
  <1>4. CASE j \notin WriteJob
    <2>1. UNCHANGED <<latest, recorded>>
      BY <1>4 DEF Succeed
    <2>2. LedgerIsSound' /\ \A q \in Process : IsFiniteSet(recorded'[q])
      BY <2>1, SameLedgers
    <2>3. TypeOK' /\ Shapes'
      BY <1>1, <1>3, <2>1, <2>2, StopKeepsSteps DEF IInv, TypeOK, Shapes, Steps
    <2>4. StepsAreBacked' /\ WritesAreNext'
      BY <1>1, <2>1, OthersKeepSteps
    <2> QED
      BY <2>2, <2>3, <2>4 DEF IInv
  <1>5. CASE j \in WriteJob
    <2> DEFINE n == j.name
               old == recorded[p]
    <2>1. /\ n \in Name
          /\ j.version = latest[p][n].version + 1
          /\ Cardinality(old) < MaxVersions
      BY <1>5, JobKinds DEF IInv, WritesAreNext
    <2>2. j.version \in 0..(MaxVersions - 1)
      BY <2>1, RoomForNextVersion
    <2>3. /\ latest' = [latest EXCEPT ![p][n] = [version |-> j.version, data |-> j.data]]
          /\ recorded' = [recorded EXCEPT ![p] = @ \cup {j}]
      BY <1>5 DEF Succeed
    <2>4. /\ recorded'[p] = old \cup {j}
          /\ \A q \in Process : q # p => recorded'[q] = recorded[q] /\ latest'[q] = latest[q]
          /\ \A m \in Name : m # n => latest'[p][m] = latest[p][m]
          /\ latest'[p][n].version = j.version
      BY <2>1, <2>3 DEF IInv, TypeOK
    <2>5. TypeOK'
      <3>1. latest' \in [Process -> [Name -> {Unknown} \cup Version]]
        BY <1>2, <2>1, <2>2, <2>3 DEF IInv, TypeOK, Version
      <3>2. j \in [data : Datum, name : Name, version : 0..(MaxVersions - 1)]
        BY <1>5, <2>2 DEF WriteJob
      <3>3. recorded' \in [Process ->
                 SUBSET [data : Datum, name : Name, version : 0..(MaxVersions - 1)]]
        BY <2>3, <3>2 DEF IInv, TypeOK
      <3> QED
        BY <1>1, <1>3, <3>1, <3>3, StopKeepsSteps DEF TypeOK, Steps
    <2>6. \A q \in Process : IsFiniteSet(recorded'[q])
      <3>1. IsFiniteSet(old \cup {j})
        BY FS_AddElement DEF IInv, Shapes
      <3> QED
        BY <2>4, <3>1 DEF IInv, Shapes
    <2>7. StepsAreBacked' /\ WritesAreNext'
      BY <1>1, <2>4, OthersKeepSteps
    <2>8. RecordedIsOnDisk'
      <3>1. \A q \in Process : \A a \in recorded[q] : a.data \in Datum
        BY DEF IInv, TypeOK
      <3> QED
        BY <2>4, <3>1 DEF IInv, LedgerIsSound, RecordedIsOnDisk
    <2>9. VersionsAreConsecutive'
      <3> SUFFICES ASSUME NEW q \in Process, NEW m \in Name
                   PROVE  /\ {a.version : a \in Versions(q, m)'} = 0..latest'[q][m].version
                          /\ Cardinality(Versions(q, m)') = latest'[q][m].version + 1
        BY DEF VersionsAreConsecutive
      <3>1. /\ {a.version : a \in Versions(q, m)} = 0..latest[q][m].version
            /\ Cardinality(Versions(q, m)) = latest[q][m].version + 1
        BY DEF IInv, LedgerIsSound, VersionsAreConsecutive
      <3>2. CASE q = p /\ m = n
        <4>1. Versions(q, m)' = Versions(q, m) \cup {j}
          BY <2>4, <3>2 DEF Versions
        <4>2. latest[p][n].version \in Int /\ latest[p][n].version >= -1
          BY <2>1, NextIsLatestPlusOne DEF IInv
        <4>3. j \notin Versions(q, m)
          <5>1. j \in Versions(q, m) => j.version \in 0..latest[q][m].version
            BY <3>1
          <5> QED
            BY <2>1, <3>2, <4>2, <5>1
        <4>4. IsFiniteSet(Versions(q, m))
          BY FS_Subset DEF Versions, IInv, Shapes
        <4>5. Cardinality(Versions(q, m)') = Cardinality(Versions(q, m)) + 1
          BY <4>1, <4>3, <4>4, FS_AddElement
        <4>6. {a.version : a \in Versions(q, m)'}
                = {a.version : a \in Versions(q, m)} \cup {j.version}
          BY <4>1
        <4>7. 0..j.version = (0..latest[p][n].version) \cup {j.version}
          <5>1. \A v \in Int : v >= -1 => 0..(v + 1) = (0..v) \cup {v + 1}
            OBVIOUS
          <5> QED
            BY <2>1, <4>2, <5>1
        <4> QED
          BY <2>1, <2>4, <3>1, <3>2, <4>5, <4>6, <4>7
      <3>3. CASE ~(q = p /\ m = n)
        <4>1. Versions(q, m)' = Versions(q, m) /\ latest'[q][m] = latest[q][m]
          BY <2>1, <2>4, <3>3 DEF Versions
        <4> QED
          BY <3>1, <4>1
      <3> QED
        BY <3>2, <3>3
    <2>10. Shapes'
      BY <1>1, <2>6, StopKeepsSteps DEF Shapes
    <2> QED
      BY <2>5, <2>7, <2>8, <2>9, <2>10 DEF IInv, LedgerIsSound
  <1> QED
    BY <1>4, <1>5

(* A step of put_bytes that keeps its job and moves on.                     *)
LEMMA MoveInv ==
    ASSUME IInv, NEW p \in Process, NEW s \in Steps \ {"idle"}, step[p] # "idle",
           step' = [step EXCEPT ![p] = s],
           UNCHANGED <<file, job, latest, recorded, answer>>,
           temp' \in [Process -> [Datum -> Content]],
           \A q \in Process : q # p => temp'[q] = temp[q],
           s = "compare" => file[job[p].data] # "absent",
           s = "replace" => temp'[p][job[p].data] = "whole"
    PROVE  IInv'
  <1>1. TypeOK'
    BY DEF IInv, TypeOK, Steps
  <1>2. StepsAreBacked' /\ WritesAreNext'
    BY DEF IInv, TypeOK, StepsAreBacked, WritesAreNext, Steps
  <1>3. LedgerIsSound'
    BY SameLedgers
  <1> QED
    BY <1>1, <1>2, <1>3 DEF IInv, Shapes

(* A call that begins: its job is well formed and, if it is a write, next.  *)
LEMMA BeginInv ==
    ASSUME IInv, NEW p \in Process, NEW j \in PutJob \cup WriteJob, Begin(p, j),
           UNCHANGED <<file, temp, latest, recorded, answer>>,
           j \in WriteJob => /\ j.version = latest[p][j.name].version + 1
                             /\ Cardinality(recorded[p]) < MaxVersions
    PROVE  IInv'
  <1>1. /\ step' = [step EXCEPT ![p] = "exists"] /\ job' = [job EXCEPT ![p] = j]
        /\ step' \in [Process -> Steps] /\ step'[p] = "exists" /\ job'[p] = j
        /\ job' \in [Process -> {NoJob} \cup PutJob \cup WriteJob]
        /\ \A q \in Process : q # p => step'[q] = step[q] /\ job'[q] = job[q]
    BY DEF IInv, TypeOK, Shapes, Begin, Steps
  <1>2. TypeOK'
    BY <1>1 DEF IInv, TypeOK, Steps
  <1>3. StepsAreBacked' /\ WritesAreNext'
    BY <1>1 DEF IInv, StepsAreBacked, WritesAreNext
  <1>4. LedgerIsSound'
    BY SameLedgers
  <1> QED
    BY <1>1, <1>2, <1>3, <1>4 DEF IInv, Shapes

(* A call that ends with an error, or a process: the ledger is as it was,   *)
(* or new.                                                                 *)
LEMMA FailInv ==
    ASSUME IInv, NEW p \in Process, Stop(p), step[p] # "idle",
           NEW result \in {"collision", "error"}, Answer("put", job[p].data, result),
           UNCHANGED <<file, temp, latest, recorded>>
    PROVE  IInv'
  <1>1. job[p].data \in Datum
    BY JobKinds DEF IInv, TypeOK
  <1>2. TypeOK'
    BY <1>1, StopKeepsSteps DEF IInv, TypeOK, Answer, Steps
  <1>3. StepsAreBacked' /\ WritesAreNext'
    BY OthersKeepSteps
  <1>4. LedgerIsSound'
    BY SameLedgers
  <1> QED
    BY <1>2, <1>3, <1>4, StopKeepsSteps DEF IInv, Shapes

LEMMA RestartInv ==
    ASSUME IInv, NEW p \in Process, Restart(p)
    PROVE  IInv'
  <1>1. Stop(p)
    BY DEF Restart
  <1>2. /\ latest'[p] = [n \in Name |-> Unknown] /\ recorded'[p] = {}
        /\ \A q \in Process : q # p => latest'[q] = latest[q] /\ recorded'[q] = recorded[q]
        /\ latest' \in [Process -> [Name -> {Unknown} \cup Version]]
        /\ recorded' \in [Process ->
               SUBSET [data : Datum, name : Name, version : 0..(MaxVersions - 1)]]
        /\ UNCHANGED <<file, temp, answer>>
    BY DEF IInv, TypeOK, Restart
  <1>3. TypeOK'
    BY <1>1, <1>2, StopKeepsSteps DEF IInv, TypeOK, Steps
  <1>4. Shapes'
    BY <1>1, <1>2, StopKeepsSteps, FS_EmptySet DEF IInv, Shapes
  <1>5. StepsAreBacked' /\ WritesAreNext'
    BY <1>1, <1>2, OthersKeepSteps
  <1>6. RecordedIsOnDisk'
    BY <1>2 DEF IInv, LedgerIsSound, RecordedIsOnDisk
  <1>7. VersionsAreConsecutive'
    <2> SUFFICES ASSUME NEW q \in Process, NEW n \in Name
                 PROVE  /\ {a.version : a \in Versions(q, n)'} = 0..latest'[q][n].version
                        /\ Cardinality(Versions(q, n)') = latest'[q][n].version + 1
      BY DEF VersionsAreConsecutive
    <2>1. CASE q = p
      <3>1. Versions(q, n)' = {} /\ latest'[q][n].version = -1
        BY <1>2, <2>1 DEF Versions, Unknown
      <3> QED
        BY <3>1, FS_EmptySet
    <2>2. CASE q # p
      BY <1>2, <2>2 DEF Versions, IInv, LedgerIsSound, VersionsAreConsecutive
    <2> QED
      BY <2>1, <2>2
  <1> QED
    BY <1>3, <1>4, <1>5, <1>6, <1>7 DEF IInv, LedgerIsSound

-----------------------------------------------------------------------------
LEMMA StepInv == IInv /\ [Next]_vars => IInv'
  <1> SUFFICES ASSUME IInv, [Next]_vars PROVE IInv'
    OBVIOUS
  <1>1. ASSUME NEW p \in Process, NEW d \in Datum, BeginPut(p, d)
        PROVE  IInv'
    <2>1. [data |-> d] \in PutJob /\ [data |-> d] \notin WriteJob
      BY JobKinds
    <2> QED
      BY <1>1, <2>1, BeginInv DEF BeginPut
  <1>2. ASSUME NEW p \in Process, NEW d \in Datum, NEW n \in Name, BeginWrite(p, n, d)
        PROVE  IInv'
    <2> DEFINE j == [data |-> d, name |-> n, version |-> NextVersion(p, n)]
    <2>1. /\ NextVersion(p, n) = latest[p][n].version + 1 /\ NextVersion(p, n) \in Nat
      BY NextIsLatestPlusOne DEF IInv
    <2>2. j \in WriteJob
      BY <2>1, JobKinds
    <2> QED
      BY <1>2, <2>1, <2>2, BeginInv DEF BeginWrite
  <1>3. ASSUME NEW p \in Process, LookForFile(p)
        PROVE  IInv'
    BY <1>3, MoveInv DEF LookForFile, IInv, TypeOK, Steps
  <1>4. ASSUME NEW p \in Process, CompareFile(p)
        PROVE  IInv'
    <2>1. step[p] # "idle" /\ UNCHANGED <<file, temp>>
      BY <1>4 DEF CompareFile
    <2>2. CASE file[job[p].data] = "whole"
      BY <1>4, <2>1, <2>2, SucceedInv DEF CompareFile, IInv, TypeOK
    <2>3. CASE file[job[p].data] # "whole"
      BY <1>4, <2>1, <2>3, FailInv DEF CompareFile
    <2> QED
      BY <2>2, <2>3
  <1>5. ASSUME NEW p \in Process, OpenTemporary(p)
        PROVE  IInv'
    BY <1>5, MoveInv DEF OpenTemporary, Suffix, IInv, TypeOK, Steps, Content
  <1>6. ASSUME NEW p \in Process, FillTemporary(p)
        PROVE  IInv'
    <2>1. job[p].data \in Datum
      BY <1>6, JobKinds DEF FillTemporary, IInv, TypeOK
    <2> QED
      BY <1>6, <2>1, MoveInv DEF FillTemporary, Suffix, IInv, TypeOK, Steps, Content
  <1>7. ASSUME NEW p \in Process, Replace(p)
        PROVE  IInv'
    <2>1. job[p].data \in Datum /\ temp[p][job[p].data] = "whole"
      BY <1>7, JobKinds DEF Replace, IInv, TypeOK, StepsAreBacked
    <2>2. /\ file' \in [Datum -> Content] /\ temp' \in [Process -> [Datum -> Content]]
          /\ file'[job[p].data] = "whole"
          /\ \A d \in Datum : d # job[p].data => file'[d] = file[d]
          /\ \A q \in Process : q # p => temp'[q] = temp[q]
      BY <1>7, <2>1 DEF Replace, Suffix, IInv, TypeOK, Content
    <2>3. Succeed(p) /\ step[p] # "idle"
      BY <1>7 DEF Replace
    <2> QED
      BY <2>2, <2>3, SucceedInv
  <1>8. ASSUME NEW p \in Process, SystemError(p)
        PROVE  IInv'
    BY <1>8, FailInv DEF SystemError
  <1>9. ASSUME NEW p \in Process, Restart(p)
        PROVE  IInv'
    BY <1>9, RestartInv
  <1>10. ASSUME NEW d \in Datum, GetBytes(d)
         PROVE  IInv'
    <2>1. LedgerIsSound' /\ \A q \in Process : IsFiniteSet(recorded'[q])
      BY <1>10, SameLedgers DEF GetBytes
    <2> QED
      BY <1>10, <2>1 DEF GetBytes, Answer, IInv, TypeOK, Shapes, StepsAreBacked, WritesAreNext
  <1>11. ASSUME NEW d \in Datum, Damage(d)
         PROVE  IInv'
    <2>1. \A e \in Datum : file[e] # "absent" => file'[e] # "absent"
      BY <1>11 DEF Damage, IInv, TypeOK
    <2>2. LedgerIsSound' /\ \A q \in Process : IsFiniteSet(recorded'[q])
      BY <1>11, <2>1, SameLedgers DEF Damage
    <2>3. \A q \in Process : step[q] # "idle" => job[q].data \in Datum
      BY JobKinds DEF IInv, TypeOK
    <2>4. TypeOK' /\ Shapes' /\ WritesAreNext'
      BY <1>11, <2>2 DEF Damage, IInv, TypeOK, Shapes, WritesAreNext, Content
    <2>5. StepsAreBacked'
      BY <1>11, <2>1, <2>3 DEF Damage, IInv, StepsAreBacked
    <2> QED
      BY <2>2, <2>4, <2>5 DEF IInv
  <1>12. CASE UNCHANGED vars
    BY <1>12 DEF vars, IInv, TypeOK, Shapes, StepsAreBacked, WritesAreNext,
                 LedgerIsSound, VersionsAreConsecutive, RecordedIsOnDisk, Versions
  <1> QED
    BY <1>1, <1>2, <1>3, <1>4, <1>5, <1>6, <1>7, <1>8, <1>9, <1>10, <1>11, <1>12 DEF Next

LEMMA Invariance == Spec => []IInv
  <1> QED
    BY InitInv, StepInv, PTL DEF Spec

(***************************************************************************)
(* The fields of the store, of the calls in progress and of the ledgers    *)
(* have their types, and no ledger needs a version above its bound.        *)
(***************************************************************************)
THEOREM TypeCorrect == Spec => []TypeOK
  <1>1. IInv => TypeOK
    BY DEF IInv
  <1> QED
    BY <1>1, Invariance, PTL

(***************************************************************************)
(* ArtifactLedger: the versions of a name are 0, 1, 2 ... without a gap or *)
(* a repetition, and every recorded artifact has a file, whichever calls   *)
(* fail, stop half way or run in other processes.                          *)
(***************************************************************************)
THEOREM LedgersAreSound == Spec => []LedgerIsSound
  <1>1. IInv => LedgerIsSound
    BY DEF IInv
  <1> QED
    BY <1>1, Invariance, PTL

-----------------------------------------------------------------------------
(* Every step is a step of ContentStore, or none of its steps.              *)

LEMMA InitRefines == Init => Store!Init
  BY DEF Init, Store!Init, NoAnswer, Store!NoAnswer

(* Whatever leaves the files and the answer alone is invisible.             *)
LEMMA HiddenSteps ==
    ASSUME UNCHANGED <<file, answer>>
    PROVE  UNCHANGED Store!vars
  BY DEF Store!vars

LEMMA StoredPut ==
    ASSUME IInv, NEW p \in Process, step[p] # "idle", Succeed(p),
           file' \in [Datum -> Content], file'[job[p].data] = "whole",
           \A d \in Datum : d # job[p].data => file'[d] = file[d]
    PROVE  Store!Next
  <1>1. PICK d \in Datum : d = job[p].data
    BY JobKinds DEF IInv, TypeOK
  <1>2. Store!Put(d)
    BY <1>1 DEF Store!Put, Succeed, Answer
  <1> QED
    BY <1>1, <1>2 DEF Store!Next

LEMMA StepRefines == IInv /\ [Next]_vars => [Store!Next]_(Store!vars)
  <1> SUFFICES ASSUME IInv, [Next]_vars PROVE [Store!Next]_(Store!vars)
    OBVIOUS
  <1>1. ASSUME NEW p \in Process,
               \/ \E d \in Datum : BeginPut(p, d) \/ \E n \in Name : BeginWrite(p, n, d)
               \/ LookForFile(p) \/ OpenTemporary(p) \/ FillTemporary(p) \/ Restart(p)
        PROVE  UNCHANGED Store!vars
    BY <1>1, HiddenSteps
       DEF BeginPut, BeginWrite, LookForFile, OpenTemporary, FillTemporary, Restart
  <1>2. ASSUME NEW p \in Process, CompareFile(p)
        PROVE  Store!Next
    <2>1. step[p] # "idle" /\ file' = file /\ job[p].data \in Datum
      BY <1>2, JobKinds DEF CompareFile, IInv, TypeOK
    <2>2. CASE file[job[p].data] = "whole"
      BY <1>2, <2>1, <2>2, StoredPut DEF CompareFile, IInv, TypeOK
    <2>3. CASE file[job[p].data] # "whole"
      <3>1. file[job[p].data] = "partial"
        BY <1>2, <2>1, <2>3 DEF CompareFile, IInv, TypeOK, StepsAreBacked, Content
      <3>2. Store!RefusePut(job[p].data)
        BY <1>2, <2>1, <2>3, <3>1 DEF CompareFile, Answer, Store!RefusePut
      <3> QED
        BY <2>1, <3>2 DEF Store!Next
    <2> QED
      BY <2>2, <2>3
  <1>3. ASSUME NEW p \in Process, Replace(p)
        PROVE  Store!Next
    <2>1. job[p].data \in Datum /\ temp[p][job[p].data] = "whole"
      BY <1>3, JobKinds DEF Replace, IInv, TypeOK, StepsAreBacked
    <2>2. /\ file' \in [Datum -> Content] /\ file'[job[p].data] = "whole"
          /\ \A d \in Datum : d # job[p].data => file'[d] = file[d]
      BY <1>3, <2>1 DEF Replace, Suffix, IInv, TypeOK, Content
    <2>3. Succeed(p) /\ step[p] # "idle"
      BY <1>3 DEF Replace
    <2> QED
      BY <2>2, <2>3, StoredPut
  <1>4. ASSUME NEW p \in Process, SystemError(p)
        PROVE  Store!Next
    <2>1. step[p] # "idle" /\ job[p].data \in Datum
      BY <1>4, JobKinds DEF SystemError, IInv, TypeOK
    <2>2. Store!FailPut(job[p].data)
      BY <1>4 DEF SystemError, Answer, Store!FailPut
    <2> QED
      BY <2>1, <2>2 DEF Store!Next
  <1>5. ASSUME NEW d \in Datum, GetBytes(d)
        PROVE  Store!Next
    <2>1. UNCHANGED file
      BY <1>5 DEF GetBytes
    <2>2. CASE file[d] = "whole"
      <3>1. Store!Get(d)
        BY <1>5, <2>1, <2>2 DEF GetBytes, Answer, Store!Get
      <3> QED
        BY <3>1 DEF Store!Next
    <2>3. CASE file[d] # "whole"
      <3>1. Store!RefuseGet(d)
        BY <1>5, <2>1, <2>3 DEF GetBytes, Answer, Store!RefuseGet
      <3> QED
        BY <3>1 DEF Store!Next
    <2> QED
      BY <2>2, <2>3
  <1>6. ASSUME NEW d \in Datum, Damage(d)
        PROVE  Store!Next
    <2>1. /\ file[d] = "whole" /\ file'[d] = "partial" /\ answer' = answer
          /\ \A e \in Datum : e # d => file'[e] = file[e]
      BY <1>6 DEF Damage, IInv, TypeOK
    <2>2. Store!Damage(d)
      BY <2>1 DEF Store!Damage
    <2> QED
      BY <2>2 DEF Store!Next
  <1>7. CASE UNCHANGED vars
    BY <1>7, HiddenSteps DEF vars
  <1> QED
    BY <1>1, <1>2, <1>3, <1>4, <1>5, <1>6, <1>7 DEF Next

(***************************************************************************)
(* ArtifactStore implements ContentStore: whatever processes write at the  *)
(* same time, fail or leave behind, put answers "stored" only when the     *)
(* datum is there whole, and get_bytes returns only what was put.          *)
(***************************************************************************)
THEOREM Implements == Spec => ImplementsStore
  <1> QED
    BY InitRefines, StepRefines, Invariance, PTL DEF Spec, ImplementsStore, Store!Spec
=============================================================================
