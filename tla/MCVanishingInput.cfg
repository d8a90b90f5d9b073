CONSTANTS
    Programs <- VanishingInputPrograms
    Replacements <- MCReplacements
    InitialCaches <- MCCaches
    Sampler <- MCSampler
SPECIFICATION Spec
INVARIANT
    SlicedRaisesWithFull
CHECK_DEADLOCK FALSE
