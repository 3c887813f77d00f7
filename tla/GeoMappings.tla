----------------------------- MODULE GeoMappings -----------------------------
(***************************************************************************)
(* Where a client is (pkg/geo): the resolver that boot makes from the      *)
(* configuration of ConfigFiles, the custom mappings that an operator adds *)
(* and removes through the API (pkg/api/geo_handlers.go), and queries with *)
(* or without EDNS Client Subnet.                                          *)
(*                                                                         *)
(* The mappings are kept twice: under the CIDR string as it was given, to  *)
(* be listed, and under the network it denotes, in a trie, to be looked    *)
(* up.  One lock guards both, so each operation is one step.  The API's    *)
(* mappings are not stored: they end with the process.                     *)
(***************************************************************************)
EXTENDS ConfigFiles

CONSTANTS
    Address,      \* client addresses
    NoAddress,    \* none
    NetworkOf,    \* ValidCidr -> the network it denotes, a set of addresses
    CountryOf,    \* Address -> what the database says, or Unknown
    ContinentOf,
    Unknown,
    CountriesOf,  \* Region -> the countries it lists
    ContinentsOf, \* Region -> the continents it lists
    EcsEnabled,   \* geolocation.ecs_enabled
    ReloadTrees   \* what may be on the disk when SIGHUP arrives

Network == {NetworkOf[c] : c \in ValidCidr}

NoEntry == [region |-> Unknown, source |-> "none"]
Entry == [region : Region, source : {"config", "api"}]

ASSUME GeoAssumption ==
    /\ NoAddress \notin Address
    /\ IsFiniteSet(ValidCidr)
    /\ NetworkOf \in [ValidCidr -> SUBSET Address]
    \* Networks are prefixes: two of them are nested or disjoint.
    /\ \A m, n \in Network : m \subseteq n \/ n \subseteq m \/ m \cap n = {}
    /\ Unknown \notin Region
    /\ DOMAIN CountryOf = Address /\ DOMAIN ContinentOf = Address
    /\ DOMAIN CountriesOf = Region /\ DOMAIN ContinentsOf = Region
    /\ EcsEnabled \in BOOLEAN
    /\ ReloadTrees \subseteq Trees

VARIABLES
    up,        \* the Overwatch runs
    regions,   \* the regions the resolver was made from, in their order
    booted,    \* the configuration the process was started with
    mappings,  \* CustomMappings.mappings
    ranger,    \* CustomMappings.ranger: the entry of each network
    aliased    \* history: the networks that were ever listed under two strings

geoVars == <<up, regions, booted, mappings, ranger, aliased>>
geoAll == <<configVars, geoVars>>

-----------------------------------------------------------------------------
(* The custom mappings *)

NoMappings == [c \in ValidCidr |-> NoEntry]
EmptyRanger == [n \in Network |-> NoEntry]

\* LoadFromConfig: the last mapping of a string, or of a network, counts.
Loaded(nameOf, ms) ==
    [x \in Range(nameOf) |->
        LET of == {i \in DOMAIN ms : nameOf[ms[i].cidr] = x}
        IN  IF of = {} THEN NoEntry
            ELSE [region |-> ms[Max(of)].region, source |-> "config"]]

LoadFromConfig(ms) ==
    /\ mappings' = Loaded([c \in ValidCidr |-> c], ms)
    /\ ranger' = Loaded(NetworkOf, ms)

\* Faulty: the trie keeps the entry it has.
AddListed(c, entry) ==
    /\ mappings' = [mappings EXCEPT ![c] = entry]
    /\ ranger' = [ranger EXCEPT ![NetworkOf[c]] = IF @ = NoEntry THEN entry ELSE @]

\* Insert replaces an entry of the same network, whatever string it came from.
Add(c, entry) ==
    /\ mappings' = [mappings EXCEPT ![c] = entry]
    /\ ranger' = [ranger EXCEPT ![NetworkOf[c]] = entry]

\* Faulty: the trie is forgotten.
RemoveListed(c) ==
    /\ mappings[c] # NoEntry
    /\ mappings' = [mappings EXCEPT ![c] = NoEntry]
    /\ UNCHANGED ranger

RemoveMapping(c) ==
    /\ mappings[c] # NoEntry
    /\ mappings' = [mappings EXCEPT ![c] = NoEntry]
    /\ ranger' = [ranger EXCEPT ![NetworkOf[c]] = NoEntry]

\* The networks around an address that have an entry.
ContainingNetworks(a) == {n \in Network : a \in n /\ ranger[n] # NoEntry}

\* Faulty: the widest network wins.
LookupWidest(a) ==
    IF ContainingNetworks(a) = {} THEN NoEntry
    ELSE ranger[CHOOSE n \in ContainingNetworks(a) :
                   \A m \in ContainingNetworks(a) : m \subseteq n]

\* The entry of the narrowest: the last of those that the trie returns.
Lookup(a) ==
    IF ContainingNetworks(a) = {} THEN NoEntry
    ELSE ranger[CHOOSE n \in ContainingNetworks(a) :
                   \A m \in ContainingNetworks(a) : n \subseteq m]

-----------------------------------------------------------------------------
(* The resolver *)

\* loadRegions: of two regions that list a country or a continent the later has it.
RegionFor(code, CodesOf) ==
    LET listing == {i \in DOMAIN regions : code \in CodesOf[regions[i]]}
    IN  IF code = Unknown \/ listing = {} THEN Unknown ELSE regions[Max(listing)]

\* What the GeoIP file says of an address, Unknown where it says nothing.
DatabaseLookup(a) == [country |-> CountryOf[a], continent |-> ContinentOf[a]]

Resolve(a) ==
    LET custom    == Lookup(a).region
        country   == RegionFor(DatabaseLookup(a).country, CountriesOf)
        continent == RegionFor(DatabaseLookup(a).continent, ContinentsOf)
    IN  CASE custom # Unknown -> custom
          [] custom = Unknown /\ country # Unknown -> country
          [] custom = Unknown /\ country = Unknown /\ continent # Unknown -> continent
          [] OTHER -> DefaultRegion

\* A query: where it comes from, and the subnet option if it has one.
Query == [source : Address, ecs : Address \cup {NoAddress}]

ParseECS(q) == q.ecs

GetClientIP(q) ==
    IF EcsEnabled /\ ParseECS(q) # NoAddress THEN ParseECS(q) ELSE q.source

-----------------------------------------------------------------------------
(* The process *)

GeoInit ==
    /\ files = NoFiles /\ stack = <<>> /\ visited = {}
    /\ outcome = "idle" /\ config = NoConfig
    /\ up = FALSE
    /\ regions = <<>> /\ booted = NoConfig
    /\ mappings = NoMappings /\ ranger = EmptyRanger /\ aliased = {}

\* Boot and SIGHUP read the files.  The load shares nothing with the API's requests,
\* which are taken to come before it or after it.
StartLoad ==
    /\ outcome = "idle"
    /\ \E tree \in IF up THEN ReloadTrees ELSE Trees : BeginLoad(tree)
    /\ UNCHANGED geoVars

ReadFiles ==
    /\ LoadStep
    /\ UNCHANGED geoVars

\* The process exits, or keeps the configuration it has.
GiveUp ==
    /\ outcome \notin {"idle", "loading", "loaded"}
    /\ LoadOver
    /\ UNCHANGED <<config, geoVars>>

\* The networks that ms lists under more than one string.
Twice(ms) ==
    {NetworkOf[c] : c \in {x \in ValidCidr :
        \E d \in ValidCidr \ {x} : /\ NetworkOf[d] = NetworkOf[x]
                                 /\ ms[x] # NoEntry /\ ms[d] # NoEntry}}

Parses(ms) == \A i \in DOMAIN ms : ms[i].cidr \in ValidCidr

NewResolver(c) ==
    /\ Parses(c.mappings)
    /\ regions' = c.regions
    /\ LoadFromConfig(c.mappings)

\* The process exits when a mapping does not parse.
initializeGeoResolver ==
    /\ outcome = "loaded" /\ ~up
    /\ LoadOver
    /\ \/ /\ NewResolver(config)
          /\ up' = TRUE
          /\ booted' = config
          /\ aliased' = Twice(mappings')
          /\ UNCHANGED config
       \/ /\ ~Parses(config.mappings)
          /\ config' = NoConfig
          /\ UNCHANGED geoVars

\* Reload replaces the configuration and leaves the resolver as it is.
Reload ==
    /\ outcome = "loaded" /\ up
    /\ LoadOver
    /\ UNCHANGED <<config, geoVars>>

\* PUT or POST of a mapping: any region name will do.
AddMapping(c, r) ==
    /\ up /\ outcome = "idle"
    /\ c \in ValidCidr
    /\ Add(c, [region |-> r, source |-> "api"])
    /\ aliased' = aliased \cup Twice(mappings')
    /\ UNCHANGED <<configVars, up, regions, booted>>

\* DELETE of a mapping, by the string it was given under.
DeleteMapping(c) ==
    /\ up /\ outcome = "idle"
    /\ c \in ValidCidr
    /\ RemoveMapping(c)
    /\ UNCHANGED <<configVars, up, regions, booted, aliased>>

\* The process ends; nothing of this is stored.
Exit ==
    /\ up
    /\ up' = FALSE
    /\ LoadOver
    /\ regions' = <<>> /\ booted' = NoConfig /\ config' = NoConfig
    /\ mappings' = NoMappings /\ ranger' = EmptyRanger /\ aliased' = {}

GeoNext ==
    \/ StartLoad
    \/ ReadFiles
    \/ GiveUp
    \/ initializeGeoResolver
    \/ Reload
    \/ \E c \in Cidr, r \in Region : AddMapping(c, r)
    \/ \E c \in Cidr : DeleteMapping(c)
    \/ Exit

GeoSpec == GeoInit /\ [][GeoNext]_geoAll

-----------------------------------------------------------------------------
(* Properties *)

Listed == {c \in ValidCidr : mappings[c] # NoEntry}

\* Every entry that lookups can find (the trie of custom.go) is one that the API
\* lists, with the same region and origin: nothing routes clients unseen.
FoundIsListed ==
    \A n \in Network : ranger[n] # NoEntry =>
        \E c \in Listed : NetworkOf[c] = n /\ mappings[c] = ranger[n]

\* A query's region is the one of the most specific mapping that is listed, whatever
\* was configured, added, replaced and removed before and in whatever order, unless a
\* network around the client was once listed under two strings.
AnswersFollowList ==
    \A q \in Query :
        LET a == GetClientIP(q)
        IN  (\A n \in aliased : a \notin n) =>
            \A c \in Listed :
               (/\ a \in NetworkOf[c]
                /\ \A d \in Listed : a \in NetworkOf[d] => NetworkOf[c] \subseteq NetworkOf[d])
               => Resolve(a) = mappings[c].region

\* What validation is worth (validator.go): in a process started with a configuration
\* that Validate accepts and that routes by geolocation, every client that no mapping
\* of the API covers is in a region that the configuration has and that has servers.
ValidatedRegionsExist ==
    up /\ Validate(booted) /\ ToSet(booted.domains) \cap GeoDomain # {} =>
        \A q \in Query :
            LET a == GetClientIP(q)
            IN  Lookup(a).source # "api" =>
                   /\ Resolve(a) \in ToSet(booted.regions)
                   /\ Services[Resolve(a)] # {}

(* What the documentation says and the code does not do. *)

\* docs/configuration.md:912: "the most specific CIDR match wins".  With two strings
\* for one network, the removal of either ends the lookups of both.
MostSpecificWins ==
    \A c \in Listed : ranger[NetworkOf[c]] # NoEntry

\* docs/configuration.md:1249: "The new configuration is fully validated before any
\* changes are applied".
ValidatedFirst == up /\ outcome = "idle" => Validate(config)

\* docs/configuration.md:1240: "Regions | Yes | Add, remove, or modify regions".
RegionsReloaded ==
    up /\ outcome = "idle" =>
        \A a \in Address : Lookup(a) = NoEntry /\ Resolve(a) # DefaultRegion =>
            Resolve(a) \in ToSet(config.regions)

=============================================================================
