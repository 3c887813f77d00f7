SPECIFICATION FairGossipSpec
CONSTANTS
    k1 = k1
    a1 = a1
    w1 = w1
    Key = {k1}
    Agent = {a1}
    NoAgent = NoAgent
    Weight = {w1}
    NoBackend = NoBackend
    Configs <- NoConfigs
    StaleThreshold = 0
    RemoveAfter = 0
    CheckInterval = 1
    StoreFaults = FALSE
    Self = a1
    FailThreshold = 2
    PassThreshold = 1
    UpdatePeriod = 1
    HeartbeatPeriod = 1
    ChanSize = 1
    Loads = {"ok", "bleeding"}
    MaxEvents = 1

PROPERTIES ClaimConverges StoppedAgentForgotten DrainFollowsLoad
