SPECIFICATION RoutingSpec

CONSTANTS
    Server <- MCServer
    Region = {"east", "west"}
    NoRegion = ""
    RegionOf <- MCRegionOf
    WeightOf <- MCWeightOf
    DefaultRegion = "west"
    MinSamples = 2
    MaxLatency = 3
    Datum <- MCDatum
    Pools <- MCPools
    CounterLimit = 4
    MaxTurns = 4

INVARIANTS
    EvenTurns
    NearestRegion
    LowestLatency
    WeightedShare
