CONSTANTS
    c1 = c1
    c2 = c2
    filed = filed
    free = free
    r1 = r1
    s1 = s1
    v1 = v1
    v2 = v2
    noTTL = noTTL
    bogus = bogus
    a1 = a1
    host = host
    Caller = {c1, c2}
    Domain = {filed, free}
    Region = {r1}
    Server = {s1}
    Value = {v1, v2, noTTL, bogus}
    Asked = {v1, noTTL, bogus}
    Plain = {v1}
    Unknown = {bogus}
    Defaults <- MCDefaults
    Presets <- MCPresets
    Address = {a1, host}
    IPAddress = {a1}
    StaticAddr = StaticAddr
    FileValue = FileValue
    Configs <- MCConfigs
    AgentDomain = {filed}
    None = None
    MaxRequests = 4
    MaxBoots = 2
SYMMETRY MCSymmetry
SPECIFICATION Spec
INVARIANTS
    DomainsServed
    NothingDeletedServed
    NoOrphanBackends
PROPERTY
    ConfigNamesKept
CHECK_DEADLOCK FALSE
