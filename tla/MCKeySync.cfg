CONSTANTS
    n1 = n1
    n2 = n2

    Node = {n1, n2}
    Peers <- MCPeers
    Zone = {zone}
    Poll = poll
    Caller = {api}
    MaxKey = 3
    MaxCrashes = 1
    MaxSyncs = 1
SPECIFICATION FairSpec
PROPERTIES
    NeverOlder
    ZoneKeysSpec
    KeysConverge
