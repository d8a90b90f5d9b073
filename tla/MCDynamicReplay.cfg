CONSTANTS
    Programs <- MCPrograms
    Replacements <- MCReplacements
    InitialCaches <- MCCaches
    Sampler <- MCSampler
SPECIFICATION Spec
INVARIANTS
    TypeOK
    SlicedEqualsFull
    BranchIsCoherent
    ReplayKeepsOriginal
    ReuseIsByExactKey
CHECK_DEADLOCK FALSE
