CONSTANTS
    Unit = 2
    NodeKinds = {root_turn, subcall_output}
    MaxNodes = 3
    None = None
SPECIFICATION Spec
INVARIANTS
    TypeOK
    TargetsAreFirst
    LoggedProbabilityIsExact
