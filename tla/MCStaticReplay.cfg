CONSTANTS
    Programs <- MCPrograms
    Replacements <- MCReplacements
    ProgramCount = 2
    Interventions = 1
    InitialStates <- MCInitialStates
    Outputs <- MCOutputs
SPECIFICATION CampaignSpec
INVARIANTS
    TypeOK
    SlicedEqualsFull
    OutcomesSolveProgram
    ReplayKeepsOriginal
    ClosuresAreDescendants
PROPERTIES
    EngineAnswers
    EveryCampaignPasses
CHECK_DEADLOCK FALSE
