CONSTANTS
    Programs <- CampaignPrograms
    Replacements <- CampaignReplacements
    InitialCaches <- NoCache
    Sampler <- ConstantSampler
    ProgramCount = 2
    Alternatives = 2
    Draws <- MCDraws
SPECIFICATION CampaignSpec
CHECK_DEADLOCK FALSE
INVARIANTS
    StratumIsOriginalRoute
