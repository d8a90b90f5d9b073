CONSTANTS
    n1 = n1
    n2 = n2
    n3 = n3
    None = None
    Inputs <- AllCalls
    Whole = 4
    Probes <- MCProbes
    Configs <- MCConfigs
    Thresholds <- MCThresholds
SPECIFICATION DiagnosticSpec
CHECK_DEADLOCK FALSE
INVARIANTS
    TypeOK
    RefusesExactly
    LossIsPerDecision
    BranchAdvantagesBalance
    AssemblyAgrees
    EstimatorsAreUnbiased
    TrialsStepAsEnumerated
    BudgetIsShared
PROPERTIES
    RedcoIsNeverMisled
    ComputationEnds
