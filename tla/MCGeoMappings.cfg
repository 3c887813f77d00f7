SPECIFICATION GeoSpec

CONSTANTS
    File = {"main", "a", "b"}
    MainFile = "main"
    SortedFiles <- MCSortedFiles
    MaxIncludeDepth = 2
    Region = {"east", "west", "empty"}
    Domain = {"shop", "blog"}
    Cidr = {"wide", "alias", "narrow", "bad"}
    Trees <- MCTrees
    Services <- MCServices
    RegionsOf <- MCRegionsOf
    GeoDomain = {"shop"}
    ValidCidr = {"wide", "alias", "narrow"}
    DefaultRegion = "west"
    Address = {"a1", "a2", "a3", "a4"}
    NoAddress = "no address"
    NetworkOf <- MCNetworkOf
    CountryOf <- MCCountryOf
    ContinentOf <- MCContinentOf
    Unknown = "none"
    CountriesOf <- MCCountriesOf
    ContinentsOf <- MCContinentsOf
    EcsEnabled = TRUE
    ReloadTrees <- MCReloadTrees

INVARIANTS
    LoadedComplete
    FoundIsListed
    AnswersFollowList
    ValidatedRegionsExist
