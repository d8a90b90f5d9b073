------------------------- MODULE SnapshotLifecycle --------------------------
(***************************************************************************)
(* redco.contracts: SnapshotLifecycle, the clean arm's collect-once and    *)
(* update-once object, and PracticalSnapshotLifecycle, which lets a        *)
(* collected batch support two or three mini-epochs.  Every call either    *)
(* changes its object and returns, or raises and changes nothing.          *)
(*                                                                         *)
(* The dataclass fields phase and optimizer_steps keep their defaults at   *)
(* construction, as all callers have it.                                   *)
(***************************************************************************)
EXTENDS Integers

CONSTANTS
    Lifecycle,   \* lifecycle objects
    Checkpoint,  \* names of checkpoints
    Budgets      \* values that max_optimizer_steps is constructed with

ASSUME BudgetsAssumption == Budgets \subseteq Int

VARIABLES
    class,            \* the class of each object
    checkpoint_id,
    max_optimizer_steps,  \* 1 for the clean class, which has no such field
    phase,
    optimizer_steps,
    answer            \* what the last call answered

identity == <<class, checkpoint_id, max_optimizer_steps>>
vars     == <<identity, phase, optimizer_steps, answer>>

Classes == {"SnapshotLifecycle", "PracticalSnapshotLifecycle"}
Phases  == {"ready", "collecting", "collected", "updated"}

(* PracticalSnapshotLifecycle.__post_init__ *)
IsConstructed(l) ==
    IF class[l] = "PracticalSnapshotLifecycle" THEN max_optimizer_steps[l] \in {2, 3}
                                               ELSE max_optimizer_steps[l] = 1

Init ==
    /\ class \in [Lifecycle -> Classes]
    /\ checkpoint_id \in [Lifecycle -> Checkpoint]
    /\ max_optimizer_steps \in [Lifecycle -> Budgets \cup {1}]
    /\ \A l \in Lifecycle : IsConstructed(l)
    /\ phase = [l \in Lifecycle |-> "ready"]
    /\ optimizer_steps = [l \in Lifecycle |-> 0]
    /\ answer = "none"

Raise(call) ==
    /\ answer' = call
    /\ UNCHANGED <<identity, phase, optimizer_steps>>

Returns == answer' = "done" /\ UNCHANGED identity

BeginCollection(l, rollout, branch) ==
    IF phase[l] = "ready" /\ rollout = checkpoint_id[l] /\ branch = checkpoint_id[l]
    THEN /\ phase' = [phase EXCEPT ![l] = "collecting"]
         /\ Returns /\ UNCHANGED optimizer_steps
    ELSE Raise("begin refused")

FinishCollection(l) ==
    IF phase[l] = "collecting"
    THEN /\ phase' = [phase EXCEPT ![l] = "collected"]
         /\ Returns /\ UNCHANGED optimizer_steps
    ELSE Raise("finish refused")

(* Mutants of Spend: the first step closes; the last step does not.        *)
SpendOnce(l, steps) ==
    /\ optimizer_steps' = [optimizer_steps EXCEPT ![l] = steps]
    /\ phase' = [phase EXCEPT ![l] = "updated"]

SpendLate(l, steps) ==
    /\ optimizer_steps' = [optimizer_steps EXCEPT ![l] = steps]
    /\ phase' = IF steps > max_optimizer_steps[l] THEN [phase EXCEPT ![l] = "updated"] ELSE phase

Spend(l, steps) ==
    /\ optimizer_steps' = [optimizer_steps EXCEPT ![l] = steps]
    /\ phase' = IF steps = max_optimizer_steps[l] THEN [phase EXCEPT ![l] = "updated"] ELSE phase

RecordCleanStep(l) ==
    /\ class[l] = "SnapshotLifecycle"
    /\ IF phase[l] = "collected" /\ optimizer_steps[l] = 0
       THEN /\ optimizer_steps' = [optimizer_steps EXCEPT ![l] = 1]
            /\ phase' = [phase EXCEPT ![l] = "updated"]
            /\ Returns
       ELSE Raise("step refused")

RecordPracticalStep(l) ==
    /\ class[l] = "PracticalSnapshotLifecycle"
    /\ IF phase[l] = "collected" /\ optimizer_steps[l] < max_optimizer_steps[l]
       THEN Spend(l, optimizer_steps[l] + 1) /\ Returns
       ELSE Raise("step refused")

Next ==
    \E l \in Lifecycle :
        \/ \E rollout, branch \in Checkpoint : BeginCollection(l, rollout, branch)
        \/ FinishCollection(l)
        \/ RecordCleanStep(l) \/ RecordPracticalStep(l)

Spec == Init /\ [][Next]_vars

-----------------------------------------------------------------------------
(* Properties. *)

(* The types of the fields. *)
TypeOK ==
    /\ class \in [Lifecycle -> Classes]
    /\ checkpoint_id \in [Lifecycle -> Checkpoint]
    /\ max_optimizer_steps \in [Lifecycle -> 1..3]
    /\ phase \in [Lifecycle -> Phases]
    /\ optimizer_steps \in [Lifecycle -> 0..3]
    /\ \A l \in Lifecycle : IsConstructed(l)

(***************************************************************************)
(* The phase and the counter, which the guards read side by side, never    *)
(* contradict each other: an object is updated exactly when its budget is  *)
(* spent, and nothing is spent before the batch is complete.  So the       *)
(* budget's own guards never decide.                                       *)
(***************************************************************************)
PhaseCountsSteps ==
    \A l \in Lifecycle :
        /\ phase[l] = "updated" <=> optimizer_steps[l] >= max_optimizer_steps[l]
        /\ optimizer_steps[l] <= max_optimizer_steps[l]
        /\ phase[l] \in {"ready", "collecting"} => optimizer_steps[l] = 0

(***************************************************************************)
(* Both classes implement one contract, the clean one with a budget of one *)
(* step: any sequence of calls on any objects collects once and trains     *)
(* exactly as often as the budget allows, and is refused nothing else.     *)
(***************************************************************************)
Budget == INSTANCE OptimizerBudget
    WITH Limit  <- 3,
         serves <- checkpoint_id,
         batch  <- [l \in Lifecycle |->
                       CASE phase[l] = "ready" -> "none"
                         [] phase[l] = "collecting" -> "open"
                         [] OTHER -> "complete"],
         left   <- [l \in Lifecycle |-> max_optimizer_steps[l] - optimizer_steps[l]]

ImplementsBudget == Budget!Spec
=============================================================================
