CONSTANTS
    a1 = a1
    east = east
    west = west
    Agent = {a1}
    Region = {east, west}
    AgentRegion <- MCAgentRegion
    Service = {web}
    Addr = {x, y, z}
    AgentPrefix <- MCPrefix
    TablePrefix <- MCPrefix
    RTT = {2, 5}
    AlphaNum = 3
    AlphaDen = 10
    QueueCap = 1
    MaxSubnets = 2
    SubnetTTL = 0
    MinSamples = 1
    PruneEvery = 1
    MaxEntries = 2
    EntryTTL = 1
    MaxDelay = 0
    MaxNow = 3
    MaxObs = 3
    MaxReports = 2
    MaxInjected = 1
SPECIFICATION Spec
INVARIANTS
    LatencyFresh
    LatencyObserved
CHECK_DEADLOCK FALSE
SYMMETRY Clients
