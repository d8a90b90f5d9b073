CONSTANTS
    Lifecycle = {l1, l2}
    Checkpoint = {c1, c2}
    Budgets <- MCBudgets
SPECIFICATION Spec
INVARIANT
    PhaseCountsSteps
PROPERTY
    ImplementsBudget
