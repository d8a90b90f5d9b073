CONSTANTS
    Programs <- CampaignPrograms
    Replacements <- CampaignReplacements
    InitialCaches <- NoCache
    Sampler <- DeterministicSampler
    ProgramCount = 2
    Alternatives = 3
    Draws <- MCDraws
SPECIFICATION CampaignSpec
CHECK_DEADLOCK FALSE
INVARIANTS
    RouteDecidesTopology
    SlicingSavesWorkNotSamples
PROPERTIES
    EveryCampaignPasses
