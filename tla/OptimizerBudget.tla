-------------------------- MODULE OptimizerBudget ---------------------------
(***************************************************************************)
(* What the snapshot lifecycles of redco.contracts promise together: the   *)
(* batch of a snapshot is collected once, by the snapshot itself, and pays *)
(* for a fixed number of optimizer steps; a call is refused only if this   *)
(* forbids it.                                                             *)
(***************************************************************************)
EXTENDS Naturals

CONSTANTS
    Lifecycle,   \* the snapshots' lifecycles
    Checkpoint,  \* names of checkpoints
    Limit        \* no snapshot has more optimizer steps

VARIABLES
    serves,      \* the checkpoint of each snapshot
    batch,       \* its batch: "none", "open" or "complete"
    left,        \* the optimizer steps it may still take
    answer       \* what the last call answered

vars == <<serves, batch, left, answer>>

Init ==
    /\ serves \in [Lifecycle -> Checkpoint]
    /\ batch = [l \in Lifecycle |-> "none"]
    /\ left \in [Lifecycle -> 1..Limit]
    /\ answer = "none"

MayCollect(l, rollout, branch) == batch[l] = "none" /\ {rollout, branch} = {serves[l]}
MayFinish(l) == batch[l] = "open"
MayTrain(l)  == batch[l] = "complete" /\ left[l] > 0

Collect(l, rollout, branch) ==
    /\ MayCollect(l, rollout, branch)
    /\ batch' = [batch EXCEPT ![l] = "open"]
    /\ answer' = "done"
    /\ UNCHANGED <<serves, left>>

Finish(l) ==
    /\ MayFinish(l)
    /\ batch' = [batch EXCEPT ![l] = "complete"]
    /\ answer' = "done"
    /\ UNCHANGED <<serves, left>>

Train(l) ==
    /\ MayTrain(l)
    /\ left' = [left EXCEPT ![l] = @ - 1]
    /\ answer' = "done"
    /\ UNCHANGED <<serves, batch>>

Refuse(call) ==
    /\ answer' = call
    /\ UNCHANGED <<serves, batch, left>>

Next ==
    \E l \in Lifecycle :
        \/ \E rollout, branch \in Checkpoint :
              \/ Collect(l, rollout, branch)
              \/ ~MayCollect(l, rollout, branch) /\ Refuse("begin refused")
        \/ Finish(l) \/ (~MayFinish(l) /\ Refuse("finish refused"))
        \/ Train(l) \/ (~MayTrain(l) /\ Refuse("step refused"))

Spec == Init /\ [][Next]_vars
=============================================================================
