SPECIFICATION FairSpec
CONSTANTS
    k1 = k1
    w1 = w1
    w2 = w2
    Key = {k1}
    Agent = {a1}
    NoAgent = NoAgent
    Weight = {w1}
    NoBackend = NoBackend
    Configs <- MCConfigsNone
    StaleThreshold = 0
    RemoveAfter = 0
    CheckInterval = 1
    StoreFaults = FALSE
    Gossip = gossip
    APICaller = {c1}
    Addressable = {k1}
    NoServer = NoServer
    Domains <- MCDomainsAll
    Reloads = TRUE
PROPERTIES HeartbeatRestoresDNS
