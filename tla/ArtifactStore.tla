---------------------------- MODULE ArtifactStore ----------------------------
(***************************************************************************)
(* redco.env.artifacts: the content-addressed store on disk, shared by     *)
(* processes, and the ledger of versions that each process keeps in        *)
(* memory.  put_bytes looks for the file, then either compares it or       *)
(* writes a temporary file, named after the process, and moves it into     *)
(* place.  Processes stop at any moment, the file system may fail a write, *)
(* and a stored file may be spoilt.                                        *)
(*                                                                         *)
(* A digest stands for its datum: no two data share one.  A process runs   *)
(* one call at a time, and no two live processes have the same pid.        *)
(***************************************************************************)
EXTENDS Integers, FiniteSets

CONSTANTS
    Datum,       \* the bytes callers store
    Name,        \* logical artifact names
    Process,     \* process ids
    MaxVersions  \* bound: artifacts a ledger may record

ASSUME MaxVersionsAssumption == MaxVersions \in Nat

VARIABLES
    file,        \* the file of each digest
    temp,        \* the temporary files: suffix and digest
    step,        \* where each process is in put_bytes
    job,         \* what it is writing, and under which name and version
    latest,      \* self._latest of its ledger
    recorded,    \* the artifacts that ledger has returned (not in the code)
    answer       \* what the last store call answered

vars == <<file, temp, step, job, latest, recorded, answer>>

Content  == {"absent", "partial", "whole"}
NoAnswer == [call |-> "none"]
NoJob    == [data |-> "none"]
Unknown  == [version |-> -1]          \* a name self._latest does not have

PutJob == [data : Datum]
WriteJob == [data : Datum, name : Name, version : Nat]
Version == [version : Nat, data : Datum]

Answer(call, d, result) == answer' = [call |-> call, data |-> d, result |-> result]

Stop(p) ==
    /\ step' = [step EXCEPT ![p] = "idle"]
    /\ job' = [job EXCEPT ![p] = NoJob]

-----------------------------------------------------------------------------
Init ==
    /\ file = [d \in Datum |-> "absent"]
    /\ temp = [p \in Process |-> [d \in Datum |-> "absent"]]
    /\ step = [p \in Process |-> "idle"]
    /\ job = [p \in Process |-> NoJob]
    /\ latest = [p \in Process |-> [n \in Name |-> Unknown]]
    /\ recorded = [p \in Process |-> {}]
    /\ answer = NoAnswer

Begin(p, j) ==
    /\ step[p] = "idle"
    /\ step' = [step EXCEPT ![p] = "exists"]
    /\ job' = [job EXCEPT ![p] = j]

(* put_json without a ledger. *)
BeginPut(p, d) ==
    /\ Begin(p, [data |-> d])
    /\ UNCHANGED <<file, temp, latest, recorded, answer>>

(* Mutant of NextVersion: the version is increased twice. *)
NextVersionSkipping(p, n) ==
    IF latest[p][n] = Unknown THEN 0 ELSE latest[p][n].version + 2

(* write_json: one more than the version the ledger knows. *)
NextVersion(p, n) ==
    IF latest[p][n] = Unknown THEN 0 ELSE latest[p][n].version + 1

(* Mutant of BeginWrite: the ledger records the artifact before storing it. *)
BeginWriteRecording(p, n, d) ==
    /\ Cardinality(recorded[p]) < MaxVersions
    /\ Begin(p, [data |-> d, name |-> n, version |-> NextVersion(p, n)])
    /\ latest' = [latest EXCEPT ![p][n] = [version |-> NextVersion(p, n), data |-> d]]
    /\ recorded' = [recorded EXCEPT ![p] =
                       @ \cup {[data |-> d, name |-> n, version |-> NextVersion(p, n)]}]
    /\ UNCHANGED <<file, temp, answer>>

BeginWrite(p, n, d) ==
    /\ Cardinality(recorded[p]) < MaxVersions
    /\ Begin(p, [data |-> d, name |-> n, version |-> NextVersion(p, n)])
    /\ UNCHANGED <<file, temp, latest, recorded, answer>>

(* The put of a job succeeds; its ledger, if it has one, records it. *)
Succeed(p) ==
    /\ Answer("put", job[p].data, "stored")
    /\ Stop(p)
    /\ IF job[p] \in WriteJob
       THEN /\ latest' = [latest EXCEPT ![p][job[p].name] =
                             [version |-> job[p].version, data |-> job[p].data]]
            /\ recorded' = [recorded EXCEPT ![p] = @ \cup {job[p]}]
       ELSE UNCHANGED <<latest, recorded>>

(* path.exists() *)
LookForFile(p) ==
    /\ step[p] = "exists"
    /\ step' = [step EXCEPT ![p] =
                   IF file[job[p].data] = "absent" THEN "open" ELSE "compare"]
    /\ UNCHANGED <<file, temp, job, latest, recorded, answer>>

CompareFile(p) ==
    /\ step[p] = "compare"
    /\ IF file[job[p].data] = "whole"
       THEN Succeed(p)
       ELSE /\ Answer("put", job[p].data, "collision")
            /\ Stop(p)
            /\ UNCHANGED <<latest, recorded>>
    /\ UNCHANGED <<file, temp>>

(* Mutant of Suffix: every process writes the same temporary file. *)
SuffixShared(p) == CHOOSE q \in Process : TRUE

(* The temporary file of a process is named after its pid. *)
Suffix(p) == p

(* write_bytes creates or truncates the temporary file ... *)
OpenTemporary(p) ==
    /\ step[p] = "open"
    /\ temp' = [temp EXCEPT ![Suffix(p)][job[p].data] = "partial"]
    /\ step' = [step EXCEPT ![p] = "fill"]
    /\ UNCHANGED <<file, job, latest, recorded, answer>>

(* ... and fills it. *)
FillTemporary(p) ==
    /\ step[p] = "fill"
    /\ temp' = [temp EXCEPT ![Suffix(p)][job[p].data] = "whole"]
    /\ step' = [step EXCEPT ![p] = "replace"]
    /\ UNCHANGED <<file, job, latest, recorded, answer>>

(* os.replace *)
Replace(p) ==
    /\ step[p] = "replace"
    /\ file' = [file EXCEPT ![job[p].data] = temp[Suffix(p)][job[p].data]]
    /\ temp' = [temp EXCEPT ![Suffix(p)][job[p].data] = "absent"]
    /\ Succeed(p)

(* An OSError, of making the directory and of every later call, leaves the *)
(* temporary file, and the ledger, as they are.                            *)
SystemError(p) ==
    /\ step[p] # "idle"
    /\ Answer("put", job[p].data, "error")
    /\ Stop(p)
    /\ UNCHANGED <<file, temp, latest, recorded>>

(* A process ends; the next one with its pid has a new ledger. *)
Restart(p) ==
    /\ Stop(p)
    /\ latest' = [latest EXCEPT ![p] = [n \in Name |-> Unknown]]
    /\ recorded' = [recorded EXCEPT ![p] = {}]
    /\ UNCHANGED <<file, temp, answer>>

(* get_bytes reads a file that may be missing and verifies what it read. *)
GetBytes(d) ==
    /\ Answer("get", d, IF file[d] = "whole" THEN "data" ELSE "error")
    /\ UNCHANGED <<file, temp, step, job, latest, recorded>>

Damage(d) ==
    /\ file[d] = "whole"
    /\ file' = [file EXCEPT ![d] = "partial"]
    /\ UNCHANGED <<temp, step, job, latest, recorded, answer>>

Next ==
    \/ \E p \in Process, d \in Datum : BeginPut(p, d) \/ \E n \in Name : BeginWrite(p, n, d)
    \/ \E p \in Process :
          \/ LookForFile(p) \/ CompareFile(p)
          \/ OpenTemporary(p) \/ FillTemporary(p) \/ Replace(p)
          \/ SystemError(p) \/ Restart(p)
    \/ \E d \in Datum : GetBytes(d) \/ Damage(d)

Spec == Init /\ [][Next]_vars

-----------------------------------------------------------------------------
(* Properties. *)

(* The types; a ledger of MaxVersions artifacts needs no higher version. *)
TypeOK ==
    /\ file \in [Datum -> Content]
    /\ temp \in [Process -> [Datum -> Content]]
    /\ step \in [Process -> {"idle", "exists", "compare", "open", "fill", "replace"}]
    /\ \A p \in Process : job[p] \in IF step[p] = "idle" THEN {NoJob} ELSE PutJob \cup WriteJob
    /\ latest \in [Process -> [Name -> {Unknown} \cup Version]]
    /\ recorded \in [Process -> SUBSET [data : Datum, name : Name, version : 0..(MaxVersions - 1)]]
    /\ answer = NoAnswer \/ answer \in
          [call : {"put", "get"}, data : Datum, result : {"stored", "data", "collision", "error"}]

Versions(p, n) == {a \in recorded[p] : a.name = n}

(***************************************************************************)
(* The versions a ledger hands out for a name are 0, 1, 2 ... in a row,    *)
(* whatever puts fail in between; each is given once, and latest is the    *)
(* highest.                                                                *)
(***************************************************************************)
VersionsAreConsecutive ==
    \A p \in Process, n \in Name :
        /\ {a.version : a \in Versions(p, n)} = 0..latest[p][n].version
        /\ Cardinality(Versions(p, n)) = latest[p][n].version + 1

(***************************************************************************)
(* A ledger names only artifacts whose file has been moved into place: no  *)
(* failed or interrupted put leaves a name behind.                         *)
(***************************************************************************)
RecordedIsOnDisk ==
    \A p \in Process : \A a \in recorded[p] : file[a.data] # "absent"

(***************************************************************************)
(* What a ledger says holds of the store and of its own history, whichever *)
(* put failed, was interrupted or repeated.                                *)
(***************************************************************************)
LedgerIsSound == VersionsAreConsecutive /\ RecordedIsOnDisk

(***************************************************************************)
(* The store implements ContentStore: a file is only ever seen whole until *)
(* somebody spoils it, whichever processes write it at the same time and   *)
(* whatever they left behind; put answers "stored" only when the datum is  *)
(* there whole, and get_bytes answers only with what was put.              *)
(***************************************************************************)
Store == INSTANCE ContentStore
             WITH stored  <- {d \in Datum : file[d] = "whole"},
                  damaged <- {d \in Datum : file[d] = "partial"}

ImplementsStore == Store!Spec
=============================================================================
