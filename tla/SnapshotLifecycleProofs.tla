---------------------- MODULE SnapshotLifecycleProofs -----------------------
(***************************************************************************)
(* For any lifecycles, checkpoints and budgets that are tried: the phase   *)
(* and the counter agree, and both classes implement one budget.           *)
(***************************************************************************)
EXTENDS SnapshotLifecycle, TLAPS

IInv == TypeOK /\ PhaseCountsSteps

LEMMA InitInv == Init => IInv
BY BudgetsAssumption
   DEF Init, IInv, TypeOK, PhaseCountsSteps, IsConstructed, Classes, Phases

(* A refused call changes nothing but the answer.                          *)
LEMMA RaiseInv ==
    ASSUME IInv, NEW call, Raise(call)
    PROVE  IInv'
BY DEF IInv, TypeOK, PhaseCountsSteps, IsConstructed, Raise, identity

LEMMA BeginInv ==
    ASSUME IInv, NEW l \in Lifecycle, NEW r \in Checkpoint, NEW b \in Checkpoint,
           BeginCollection(l, r, b)
    PROVE  IInv'
<1>1. CASE phase[l] = "ready" /\ r = checkpoint_id[l] /\ b = checkpoint_id[l]
    BY <1>1 DEF IInv, TypeOK, PhaseCountsSteps, IsConstructed, Phases, BeginCollection,
                Returns, identity
<1>2. CASE ~(phase[l] = "ready" /\ r = checkpoint_id[l] /\ b = checkpoint_id[l])
    BY <1>2, RaiseInv DEF BeginCollection
<1> QED
    BY <1>1, <1>2

LEMMA FinishInv ==
    ASSUME IInv, NEW l \in Lifecycle, FinishCollection(l)
    PROVE  IInv'
<1>1. CASE phase[l] = "collecting"
    BY <1>1 DEF IInv, TypeOK, PhaseCountsSteps, IsConstructed, Phases, FinishCollection,
                Returns, identity
<1>2. CASE phase[l] # "collecting"
    BY <1>2, RaiseInv DEF FinishCollection
<1> QED
    BY <1>1, <1>2

LEMMA CleanStepInv ==
    ASSUME IInv, NEW l \in Lifecycle, RecordCleanStep(l)
    PROVE  IInv'
<1>1. CASE phase[l] = "collected" /\ optimizer_steps[l] = 0
    BY <1>1 DEF IInv, TypeOK, PhaseCountsSteps, IsConstructed, Phases, Classes,
                RecordCleanStep, Returns, identity
<1>2. CASE ~(phase[l] = "collected" /\ optimizer_steps[l] = 0)
    BY <1>2, RaiseInv DEF RecordCleanStep
<1> QED
    BY <1>1, <1>2

LEMMA PracticalStepInv ==
    ASSUME IInv, NEW l \in Lifecycle, RecordPracticalStep(l)
    PROVE  IInv'
<1>1. CASE phase[l] = "collected" /\ optimizer_steps[l] < max_optimizer_steps[l]
    <2>1. /\ max_optimizer_steps[l] \in {2, 3} /\ optimizer_steps[l] \in 0..3
          /\ optimizer_steps[l] + 1 \in 0..3 /\ optimizer_steps[l] + 1 <= max_optimizer_steps[l]
        BY <1>1 DEF IInv, TypeOK, IsConstructed, RecordPracticalStep
    <2>2. /\ optimizer_steps' = [optimizer_steps EXCEPT ![l] = optimizer_steps[l] + 1]
          /\ phase' = IF optimizer_steps[l] + 1 = max_optimizer_steps[l]
                      THEN [phase EXCEPT ![l] = "updated"] ELSE phase
          /\ UNCHANGED identity
        BY <1>1 DEF RecordPracticalStep, Spend, Returns
    <2>3. TypeOK'
        BY <2>1, <2>2 DEF IInv, TypeOK, IsConstructed, Phases, identity
    <2>4. PhaseCountsSteps'
        BY <1>1, <2>1, <2>2 DEF IInv, TypeOK, PhaseCountsSteps, identity
    <2> QED
        BY <2>3, <2>4 DEF IInv
<1>2. CASE ~(phase[l] = "collected" /\ optimizer_steps[l] < max_optimizer_steps[l])
    BY <1>2, RaiseInv DEF RecordPracticalStep
<1> QED
    BY <1>1, <1>2

LEMMA NextInv == IInv /\ [Next]_vars => IInv'
<1>1. ASSUME IInv, Next PROVE IInv'
    BY <1>1, BeginInv, FinishInv, CleanStepInv, PracticalStepInv DEF Next
<1>2. ASSUME IInv, UNCHANGED vars PROVE IInv'
    BY <1>2 DEF IInv, TypeOK, PhaseCountsSteps, IsConstructed, vars, identity
<1> QED
    BY <1>1, <1>2

LEMMA Invariance == Spec => []IInv
BY InitInv, NextInv, PTL DEF Spec

(* Every field keeps its type, and every practical object its two or three *)
(* mini-epochs.                                                            *)
THEOREM TypeCorrect == Spec => []TypeOK
<1>1. IInv => TypeOK
    BY DEF IInv
<1> QED
    BY <1>1, Invariance, PTL

(* Whatever is called in whatever order, phase and counter agree.          *)
THEOREM PhasesCount == Spec => []PhaseCountsSteps
<1>1. IInv => PhaseCountsSteps
    BY DEF IInv
<1> QED
    BY <1>1, Invariance, PTL

-----------------------------------------------------------------------------
(* The refinement.  Refusals are the abstract ones because the invariant   *)
(* makes the guards on the counter redundant.                              *)
Left(l) == max_optimizer_steps[l] - optimizer_steps[l]

Batch(l) ==
    CASE phase[l] = "ready" -> "none"
      [] phase[l] = "collecting" -> "open"
      [] OTHER -> "complete"

LEMMA InitImplements == Init => Budget!Init
<1> SUFFICES ASSUME Init PROVE Budget!Init
    OBVIOUS
<1>1. TypeOK
    BY InitInv DEF IInv
<1>2. \A l \in Lifecycle : optimizer_steps[l] = 0 /\ phase[l] = "ready"
    BY DEF Init
<1>3. \A l \in Lifecycle : Left(l) \in 1..3
    <2> SUFFICES ASSUME NEW l \in Lifecycle PROVE Left(l) \in 1..3
        OBVIOUS
    <2>1. max_optimizer_steps[l] \in 1..3
        BY <1>1 DEF TypeOK
    <2> QED
        BY <1>2, <2>1 DEF Left
<1> QED
    BY <1>1, <1>2, <1>3 DEF Init, TypeOK, Budget!Init, Left

LEMMA RefuseImplements ==
    ASSUME NEW call, Raise(call)
    PROVE  Budget!Refuse(call)
BY DEF Raise, Budget!Refuse, identity

LEMMA BeginImplements ==
    ASSUME IInv, NEW l \in Lifecycle, NEW r \in Checkpoint, NEW b \in Checkpoint,
           BeginCollection(l, r, b)
    PROVE  Budget!Next
<1>1. Budget!MayCollect(l, r, b) <=>
          phase[l] = "ready" /\ r = checkpoint_id[l] /\ b = checkpoint_id[l]
    BY DEF Budget!MayCollect, IInv, TypeOK, Phases
<1>2. CASE Budget!MayCollect(l, r, b)
    <2>1. /\ phase' = [phase EXCEPT ![l] = "collecting"]
          /\ answer' = "done" /\ UNCHANGED <<identity, optimizer_steps>>
        BY <1>1, <1>2 DEF BeginCollection, Returns
    <2>2. Budget!Collect(l, r, b)
        BY <1>2, <2>1 DEF Budget!Collect, IInv, TypeOK, identity
    <2> QED
        BY <2>2 DEF Budget!Next
<1>3. CASE ~Budget!MayCollect(l, r, b)
    BY <1>1, <1>3, RefuseImplements DEF BeginCollection, Budget!Next
<1> QED
    BY <1>2, <1>3

LEMMA FinishImplements ==
    ASSUME IInv, NEW l \in Lifecycle, FinishCollection(l)
    PROVE  Budget!Next
<1>1. Budget!MayFinish(l) <=> phase[l] = "collecting"
    BY DEF Budget!MayFinish, IInv, TypeOK, Phases
<1>2. CASE Budget!MayFinish(l)
    <2>1. /\ phase' = [phase EXCEPT ![l] = "collected"]
          /\ answer' = "done" /\ UNCHANGED <<identity, optimizer_steps>>
        BY <1>1, <1>2 DEF FinishCollection, Returns
    <2>2. Budget!Finish(l)
        BY <1>2, <2>1 DEF Budget!Finish, IInv, TypeOK, identity
    <2> QED
        BY <2>2 DEF Budget!Next
<1>3. CASE ~Budget!MayFinish(l)
    BY <1>1, <1>3, RefuseImplements DEF FinishCollection, Budget!Next
<1> QED
    BY <1>2, <1>3

(* Both ways of recording a step are one abstract step.                    *)
LEMMA StepImplements ==
    ASSUME IInv, NEW l \in Lifecycle, RecordCleanStep(l) \/ RecordPracticalStep(l)
    PROVE  Budget!Next
<1>1. Budget!MayTrain(l) <=> phase[l] = "collected"
    BY DEF Budget!MayTrain, IInv, TypeOK, PhaseCountsSteps, Phases
<1>2. CASE Budget!MayTrain(l)
    <2>1. /\ optimizer_steps' = [optimizer_steps EXCEPT ![l] = optimizer_steps[l] + 1]
          /\ phase' \in {phase, [phase EXCEPT ![l] = "updated"]}
          /\ answer' = "done" /\ UNCHANGED identity
        <3>1. phase[l] = "collected" /\ optimizer_steps[l] < max_optimizer_steps[l]
            BY <1>1, <1>2 DEF IInv, TypeOK, PhaseCountsSteps
        <3>2. CASE RecordCleanStep(l)
            <4>1. optimizer_steps[l] = 0
                <5>1. optimizer_steps[l] \in 0..3
                    BY DEF IInv, TypeOK
                <5>2. max_optimizer_steps[l] = 1
                    BY <3>2 DEF IInv, TypeOK, IsConstructed, RecordCleanStep
                <5> QED
                    BY <3>1, <5>1, <5>2
            <4> QED
                BY <3>1, <3>2, <4>1 DEF RecordCleanStep, Returns
        <3>3. CASE RecordPracticalStep(l)
            BY <3>1, <3>3 DEF RecordPracticalStep, Spend, Returns
        <3> QED
            BY <3>2, <3>3
    <2>2. \A m \in Lifecycle : Batch(m)' = Batch(m)
        BY <1>1, <1>2, <2>1 DEF Batch, IInv, TypeOK
    <2>3. \A m \in Lifecycle : Left(m)' = IF m = l THEN Left(m) - 1 ELSE Left(m)
        BY <2>1 DEF Left, IInv, TypeOK, identity
    <2>4. Budget!Train(l)
        BY <1>2, <2>1, <2>2, <2>3 DEF Budget!Train, Batch, Left, identity
    <2> QED
        BY <2>4 DEF Budget!Next
<1>3. CASE ~Budget!MayTrain(l)
    BY <1>1, <1>3, RefuseImplements DEF RecordCleanStep, RecordPracticalStep, Budget!Next
<1> QED
    BY <1>2, <1>3

(* Both classes implement OptimizerBudget, for any number of objects.      *)
THEOREM Refinement == Spec => ImplementsBudget
<1>1. IInv /\ [Next]_vars => [Budget!Next]_(Budget!vars)
    <2>1. ASSUME IInv, Next PROVE Budget!Next
        BY <2>1, BeginImplements, FinishImplements, StepImplements DEF Next
    <2>2. UNCHANGED vars => UNCHANGED Budget!vars
        BY DEF vars, identity, Budget!vars
    <2> QED
        BY <2>1, <2>2
<1> QED
    BY <1>1, InitImplements, Invariance, PTL DEF Spec, ImplementsBudget, Budget!Spec
=============================================================================
