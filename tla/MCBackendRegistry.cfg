SPECIFICATION Spec
CONSTANTS
    k1 = k1
    w1 = w1
    w2 = w2
    Key = {k1}
    Agent = {a1}
    NoAgent = NoAgent
    Weight = {w1, w2}
    NoBackend = NoBackend
    Configs <- MCConfigs
    StaleThreshold = 0
    RemoveAfter = 1
    CheckInterval = 1
    StoreFaults = TRUE
INVARIANTS StatusFollowsEvidence StaleDetectedInTime ExpiredRemovedInTime StoreMatchesMap
PROPERTIES OverrideKept ConfigSurvivesLoad
SYMMETRY WeightSymmetry
