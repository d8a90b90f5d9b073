-------------------------- MODULE MCCreditConfusion -------------------------
(***************************************************************************)
(* The compiler's callers of MCCreditCompiler, and diagnostics of the      *)
(* three standard tasks at probabilities in quarters, with two or three    *)
(* updates and a rest of the budget.                                       *)
(***************************************************************************)
EXTENDS CreditConfusion, MCCreditCompiler

AllCalls == UntargetedCalls \cup TargetedCalls

Probe(name, context, target, luck) ==
    [name |-> name, context |-> context, target |-> target, luck |-> luck]

MCProbes ==
    {Probe("irrelevant_target", 1, 2, 0), Probe("redundant_target", 2, 1, 0),
     Probe("lucky_target", 2, 1, 2)}

Config(group, branches, episodes, budget) ==
    [group |-> group, branches |-> branches, episodes |-> episodes, budget |-> budget]

(* Two episodes of two branches, and one of three; the others are refused. *)
MCConfigs ==
    {Config(3, 2, 2, 13), Config(2, 3, 1, 13), Config(3, 3, 1, 13), Config(2, 3, 1, 3),
     Config(1, 1, 1, 4)}

MCThresholds == [a \in {"trajectory_loo", "redco"} |-> 9]
=============================================================================
