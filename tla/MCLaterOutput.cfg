CONSTANTS
    Programs <- LaterOutputPrograms
    Replacements <- MCReplacements
    InitialCaches <- MCCaches
    Sampler <- MCSampler
SPECIFICATION Spec
INVARIANT
    ReadsEarlierOutputs
CHECK_DEADLOCK FALSE
