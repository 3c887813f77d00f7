------------------------------ MODULE StoreAPI ------------------------------
(***************************************************************************)
(* What the management API keeps in the persistent store: domains and      *)
(* their backends, regions and health overrides (pkg/api), the bbolt store *)
(* (pkg/store) and the DNS registry the domains are copied to.             *)
(*                                                                         *)
(* No provider has a lock of its own.  Every Get, Set, Delete and List is  *)
(* a transaction by itself and every call of the DNS registry locks it for *)
(* that call only, so a request is the sequence of those steps and other   *)
(* requests, a reload or a crash come in between.  The action that starts  *)
(* a request performs its first read; a request that is refused there      *)
(* changes nothing and is left out.                                        *)
(***************************************************************************)
EXTENDS Naturals, FiniteSets

CONSTANTS
    Caller,       \* goroutines of concurrent requests
    Domain,       \* domain names, none the dotted form of another
    Region,       \* region names
    Server,       \* the service/address pairs of overrides
    Value,        \* records: settings of a domain or region, verdict of an override
    Asked,        \* the ones that requests about domains carry
    Plain,        \* the ones of regions and overrides, which the DNS registry never sees
    Unknown,      \* settings with a routing policy the factory does not know
    Defaults,     \* what settings that leave the TTL or the policy out become
    Presets,      \* what the handler that creates a domain makes of them
    Address,      \* backends that requests add to a domain
    IPAddress,    \* those whose address is an IP address
    StaticAddr,   \* the server the configuration gives each of its domains
    FileValue,    \* the settings the configuration gives its domains
    Configs,      \* sets of domains and regions a configuration may list
    AgentDomain,  \* domains that agents report backends for
    None,         \* nothing stored, no entry, no request
    MaxRequests,  \* bound: requests in a behaviour
    MaxBoots      \* bound: starts of the process

\* Each kind of name has a prefix of its own in the store.
ASSUME StoreAPIAssumption ==
    /\ Domain \cap Region = {} /\ (Domain \cup Region) \cap Server = {}
    /\ (Domain \cup Region \cup Server) \cap (Domain \X Address) = {}
    /\ Configs \subseteq SUBSET (Domain \cup Region)
    /\ AgentDomain \subseteq Domain
    /\ StaticAddr \notin Address
    /\ Value # {} /\ None \notin Value
    /\ Asked \cup Plain \subseteq Value /\ Unknown \subseteq Value /\ FileValue \notin Unknown
    /\ DOMAIN Defaults \subseteq Value /\ FileValue \notin DOMAIN Defaults
    /\ {Defaults, Presets} \subseteq [DOMAIN Defaults -> Value \ DOMAIN Defaults]
    /\ IPAddress \subseteq Address
    /\ {MaxRequests, MaxBoots} \subseteq Nat

VARIABLES
    store,      \* value of each key; survives the process
    dns,        \* DomainEntry of each domain in the DNS registry
    overrides,  \* OverrideManager.overrides
    up,         \* whether the process runs
    boot,       \* the configuration the providers were made with
    config,     \* the configuration in force
    req,        \* the request each goroutine is executing
    reloaded,   \* SIGHUP has replaced the configuration since the boot
    refused,    \* domains that the DNS registry would not enter
    disturbed,  \* names whose requests overlapped or failed
    started,    \* requests so far
    boots       \* starts so far

vars == <<store, dns, overrides, up, boot, config, req, reloaded, refused, disturbed, started, boots>>

Name == Domain \cup Region \cup Server

\* The keys under the prefixes domains/, regions/, overrides/ and domain_backends/.
BackendKey(n, a) == <<n, a>>
Key == Name \cup {BackendKey(n, a) : n \in Domain, a \in Address}

Entry == [value: Value \cup {FileValue}, servers: SUBSET (Address \cup {StaticAddr})]

Step == {"get", "check", "set", "list", "backends", "delete", "dns"}
Request == [op: {"create", "update", "delete", "add", "set", "clear"},
            at: Step, name: Name, key: Key, value: Value, todo: SUBSET Address]

ASSUME NoneAssumption == None \notin Entry \cup Request

-----------------------------------------------------------------------------
(* The store: one bbolt transaction each *)

Stored(k) == store[k] # None

BackendsOf(n) == {a \in Address : Stored(BackendKey(n, a))}

\* One request's part in a step: it moves on to step `to', or ends.
Move(c, to) == req' = [req EXCEPT ![c].at = to]
Finish(c) == req' = [req EXCEPT ![c] = None]

Busy(n) == \E c \in Caller : req[c] # None /\ req[c].name = n
At(c, step) == up /\ req[c] # None /\ req[c].at = step

\* The rest of the state, that a step of a request leaves alone.
Still == UNCHANGED <<up, boot, config, reloaded, started, boots>>

-----------------------------------------------------------------------------
(* Starting a request *)

Begin(c, op, step, n, k, v) ==
    /\ up
    /\ req[c] = None
    /\ started < MaxRequests
    /\ started' = started + 1
    /\ req' = [req EXCEPT ![c] = [op |-> op, at |-> step, name |-> n, key |-> k,
                                  value |-> v, todo |-> {}]]
    /\ disturbed' = IF Busy(n) THEN disturbed \cup {n} ELSE disturbed
    /\ UNCHANGED <<store, dns, refused, up, boot, config, reloaded, boots>>

\* Requests whose value does not matter carry this one.
AnyValue == CHOOSE v \in Value : TRUE

\* The settings with the defaults in place of what they leave out, and whether
\* the factory has a router for them.
Effective(v) == IF v \in DOMAIN Defaults THEN Defaults[v] ELSE v
KnownPolicy(v) == Effective(v) \notin Unknown

\* The record GET returns: the stored one, else the configuration's or what is
\* made up for a domain that agents report.
GetDomain(n) ==
    IF Stored(n) THEN store[n] ELSE IF n \in boot \cup AgentDomain THEN FileValue ELSE None

\* The names GET lists, and those among them that only agents made known.
ListDomains == {n \in Domain : Stored(n)} \cup (boot \cap Domain) \cup AgentDomain
ReportedOnly == {n \in AgentDomain : ~Stored(n) /\ n \notin boot}

\* The backends GET returns, without those of the backend registry.
GetDomainBackends(n) == BackendsOf(n) \cup (IF n \in boot THEN {StaticAddr} ELSE {})

ListRegions == {r \in Region : Stored(r)} \cup (boot \cap Region)
GetRegion(r) ==
    IF Stored(r) THEN store[r] ELSE IF r \in ListRegions THEN FileValue ELSE None

\* Faulty: the configuration's names are not looked at.
CreateUnchecked(c, n, v) ==
    /\ ~Stored(n)
    /\ Begin(c, "create", "set", n, n, Effective(v))
    /\ UNCHANGED overrides

CreateDomain(c, n, v) ==
    /\ n \notin boot
    /\ ~Stored(n)
    /\ Begin(c, "create", "set", n, n, Effective(v))
    /\ UNCHANGED overrides

CreateRegion(c, r, v) ==
    /\ r \notin boot
    /\ ~Stored(r)
    /\ Begin(c, "create", "set", r, r, v)
    /\ UNCHANGED overrides

DeleteDomain(c, n) ==
    /\ n \notin boot
    /\ Stored(n)
    /\ Begin(c, "delete", "list", n, n, AnyValue)
    /\ UNCHANGED overrides

DeleteRegion(c, r) ==
    /\ r \notin boot
    /\ Stored(r)
    /\ Begin(c, "delete", "delete", r, r, AnyValue)
    /\ UNCHANGED overrides

AddDomainBackend(c, n, a) ==
    /\ GetDomain(n) # None
    /\ Begin(c, "add", "check", n, BackendKey(n, a), AnyValue)
    /\ UNCHANGED overrides

\* The handlers.  Those of an update read the record to merge the request into
\* it and then call UpdateDomain or UpdateRegion, which look for it again.
\* The one of a creation has defaults of its own.
Preset(v) == IF v \in DOMAIN Presets THEN Presets[v] ELSE v

createDomain(c) == \E n \in Domain, v \in Asked : CreateDomain(c, n, Preset(v))

updateDomain(c) ==
    \E n \in Domain, v \in Asked :
        /\ GetDomain(n) # None
        /\ Begin(c, "update", "get", n, n, v)
        /\ UNCHANGED overrides

deleteDomain(c) == \E n \in Domain : DeleteDomain(c, n)

addDomainBackend(c) == \E n \in Domain, a \in Address : AddDomainBackend(c, n, a)

createRegion(c) == \E r \in Region, v \in Plain : CreateRegion(c, r, v)

updateRegion(c) ==
    \E r \in Region, v \in Plain :
        /\ GetRegion(r) # None
        /\ Begin(c, "update", "get", r, r, v)
        /\ UNCHANGED overrides

deleteRegion(c) == \E r \in Region : DeleteRegion(c, r)

\* The cache changes under its lock; the store follows after the unlock.
SetOverride(c, s, v) ==
    /\ Begin(c, "set", "set", s, s, v)
    /\ overrides' = [overrides EXCEPT ![s] = v]

ClearOverride(c, s) ==
    /\ overrides[s] # None
    /\ Begin(c, "clear", "delete", s, s, AnyValue)
    /\ overrides' = [overrides EXCEPT ![s] = None]

HandleSetOverride(c) == \E s \in Server, v \in Plain : SetOverride(c, s, v)

HandleClearOverride(c) == \E s \in Server : ClearOverride(c, s)

-----------------------------------------------------------------------------
(* The later steps of a request *)

\* A record that is not stored (any more) is the configuration's or unknown:
\* the request is refused.
UpdateGet(c) ==
    /\ At(c, "get")
    /\ IF Stored(req[c].key) THEN Move(c, "set") ELSE Finish(c)
    /\ UNCHANGED <<store, dns, refused, overrides, disturbed>>
    /\ Still

UpdateDomain(c) == req[c] # None /\ req[c].name \in Domain /\ UpdateGet(c)

UpdateRegion(c) == req[c] # None /\ req[c].name \in Region /\ UpdateGet(c)

\* AddDomainBackend: the backend must be new.
AddCheck(c) ==
    /\ At(c, "check")
    /\ IF Stored(req[c].key) THEN Finish(c) ELSE Move(c, "set")
    /\ UNCHANGED <<store, dns, refused, overrides, disturbed>>
    /\ Still

\* Requests about domains have the DNS registry to tell.
ToDNS(c) == IF req[c].name \in Domain THEN Move(c, "dns") ELSE Finish(c)

Set(c) ==
    /\ At(c, "set")
    /\ store' = [store EXCEPT ![req[c].key] = req[c].value]
    /\ ToDNS(c)
    /\ UNCHANGED <<dns, refused, overrides, disturbed>>
    /\ Still

\* Faulty: the domain's own key goes first.
DeleteListDomainFirst(c) ==
    /\ At(c, "list")
    /\ req' = [req EXCEPT ![c].at = "backends", ![c].todo = BackendsOf(req[c].name)]
    /\ store' = [store EXCEPT ![req[c].key] = None]
    /\ UNCHANGED <<dns, refused, overrides, disturbed>>
    /\ Still

DeleteList(c) ==
    /\ At(c, "list")
    /\ req' = [req EXCEPT ![c].at = "backends", ![c].todo = BackendsOf(req[c].name)]
    /\ UNCHANGED <<store, dns, refused, overrides, disturbed>>
    /\ Still

DeleteBackend(c, a) ==
    /\ At(c, "backends")
    /\ a \in req[c].todo
    /\ store' = [store EXCEPT ![BackendKey(req[c].name, a)] = None]
    /\ req' = [req EXCEPT ![c].todo = @ \ {a}]
    /\ UNCHANGED <<dns, refused, overrides, disturbed>>
    /\ Still

\* The key itself: of a domain when its backends are gone.
Delete(c) ==
    /\ At(c, "delete") \/ (At(c, "backends") /\ req[c].todo = {})
    /\ store' = [store EXCEPT ![req[c].key] = None]
    /\ ToDNS(c)
    /\ UNCHANGED <<dns, refused, overrides, disturbed>>
    /\ Still

\* A transaction fails: the request ends with the error (a failed list or
\* deletion of the backends is ignored, a failed write of an override only
\* logged).
StoreFails(c) ==
    /\ \/ At(c, "set") /\ Finish(c)
       \/ At(c, "delete") /\ Finish(c)
       \/ At(c, "list") /\ Move(c, "backends")
       \/ /\ At(c, "backends")
          /\ IF req[c].todo = {} THEN Finish(c)
             ELSE \E a \in req[c].todo : req' = [req EXCEPT ![c].todo = @ \ {a}]
    /\ disturbed' = disturbed \cup {req[c].name}
    /\ UNCHANGED <<store, dns, refused, overrides>>
    /\ Still

\* RegisterDomainDynamic: an entry without servers, whatever was there.
RegisterDomain(v) == [value |-> Effective(v), servers |-> {}]

\* What a request leaves in the DNS registry.  Its call fails, and the entry is
\* as before, for a routing policy without a router, for an address that is not
\* an IP address and, unless it creates the domain, when there is no entry.
DNSAfter(r) ==
    LET old == dns[r.name]
    IN  CASE r.op = "create" -> IF KnownPolicy(r.value) THEN RegisterDomain(r.value) ELSE old
          [] r.op = "delete" -> None
          [] r.op = "update" -> IF old # None /\ KnownPolicy(r.value)
                                THEN [old EXCEPT !.value = Effective(r.value)] ELSE old
          [] r.op = "add"    -> IF old # None /\ r.key[2] \in IPAddress
                                THEN [old EXCEPT !.servers = @ \cup {r.key[2]}] ELSE old

\* The failure is only logged.
NoteRefusal(r) ==
    refused' = IF r.op = "create" /\ ~KnownPolicy(r.value) THEN refused \cup {r.name}
               ELSE IF r.op \in {"create", "delete"} THEN refused \ {r.name} ELSE refused

\* Faulty: a deletion does not reach the DNS registry.
TellDNSNoRemove(c) ==
    /\ At(c, "dns")
    /\ dns' = IF req[c].op = "delete" THEN dns
              ELSE [dns EXCEPT ![req[c].name] = DNSAfter(req[c])]
    /\ NoteRefusal(req[c])
    /\ Finish(c)
    /\ UNCHANGED <<store, overrides, disturbed>>
    /\ Still

TellDNS(c) ==
    /\ At(c, "dns")
    /\ dns' = [dns EXCEPT ![req[c].name] = DNSAfter(req[c])]
    /\ NoteRefusal(req[c])
    /\ Finish(c)
    /\ UNCHANGED <<store, overrides, disturbed>>
    /\ Still

-----------------------------------------------------------------------------
(* The process *)

\* BuildRegistry, for the domains of a configuration.
BuildRegistry(cfg) ==
    [n \in Domain |-> IF n \in cfg THEN [value |-> FileValue, servers |-> {StaticAddr}]
                      ELSE None]

\* The stored domains that RegisterDomainDynamic accepts.
Loadable(n) == Stored(n) /\ KnownPolicy(store[n])

\* Faulty: the backends are left to their next request.
LoadDomainsOnly(built) ==
    [n \in Domain |-> IF Loadable(n) THEN RegisterDomain(store[n]) ELSE built[n]]

\* LoadStoredDomainsIntoDNS: a stored domain replaces a configured one.  One that
\* is refused is skipped with all its backends, a backend that is refused alone.
LoadStored(built) ==
    [n \in Domain |-> IF Loadable(n)
                      THEN [RegisterDomain(store[n]) EXCEPT !.servers = BackendsOf(n) \cap IPAddress]
                      ELSE built[n]]

\* A restart heals the stored domains.  The override manager starts empty, so
\* overrides still stored are left over.
Boot(cfg) ==
    /\ ~up
    /\ boots < MaxBoots
    /\ boots' = boots + 1
    /\ up' = TRUE
    /\ boot' = cfg
    /\ config' = cfg
    /\ reloaded' = FALSE
    /\ dns' = LoadStored(BuildRegistry(cfg))
    /\ refused' = {n \in Domain \ cfg : Stored(n) /\ ~Loadable(n)}
    /\ disturbed' = (disturbed \ {n \in Domain : Stored(n)}) \cup {s \in Server : Stored(s)}
    /\ UNCHANGED <<store, overrides, req, started>>

\* SIGHUP: the DNS registry is rebuilt from the file alone; the providers keep
\* the configuration they were made with.
Reload(cfg) ==
    /\ up
    /\ config' = cfg
    /\ dns' = BuildRegistry(cfg)
    /\ reloaded' = TRUE
    /\ UNCHANGED <<store, overrides, up, boot, req, refused, disturbed, started, boots>>

\* The process ends, at any point of any request.
Crash ==
    /\ up
    /\ up' = FALSE
    /\ boot' = {}
    /\ config' = {}
    /\ dns' = [n \in Domain |-> None]
    /\ overrides' = [s \in Server |-> None]
    /\ req' = [c \in Caller |-> None]
    /\ refused' = {}
    /\ UNCHANGED <<store, reloaded, disturbed, started, boots>>

Init ==
    /\ store = [k \in Key |-> None]
    /\ dns = [n \in Domain |-> None]
    /\ overrides = [s \in Server |-> None]
    /\ up = FALSE
    /\ boot = {}
    /\ config = {}
    /\ req = [c \in Caller |-> None]
    /\ reloaded = FALSE
    /\ refused = {}
    /\ disturbed = {}
    /\ started = 0
    /\ boots = 0

HandleDomains(c) ==
    createDomain(c) \/ updateDomain(c) \/ deleteDomain(c) \/ addDomainBackend(c)

HandleRegions(c) == createRegion(c) \/ updateRegion(c) \/ deleteRegion(c)

HandleOverrides(c) == HandleSetOverride(c) \/ HandleClearOverride(c)

Continue(c) ==
    \/ UpdateDomain(c)
    \/ UpdateRegion(c)
    \/ AddCheck(c)
    \/ Set(c)
    \/ DeleteList(c)
    \/ \E a \in Address : DeleteBackend(c, a)
    \/ Delete(c)
    \/ StoreFails(c)
    \/ TellDNS(c)

Next ==
    \/ \E c \in Caller : HandleDomains(c) \/ HandleRegions(c) \/ HandleOverrides(c) \/ Continue(c)
    \/ \E cfg \in Configs : Boot(cfg) \/ Reload(cfg)
    \/ Crash

Spec == Init /\ [][Next]_vars

-----------------------------------------------------------------------------
(* Properties *)

\* What the variables hold.
TypeOK ==
    /\ store \in [Key -> Value \cup {None}]
    /\ dns \in [Domain -> Entry \cup {None}]
    /\ overrides \in [Server -> Value \cup {None}]
    /\ req \in [Caller -> Request \cup {None}]
    /\ boot \in Configs \cup {{}} /\ config \in Configs \cup {{}}
    /\ refused \subseteq Domain /\ disturbed \subseteq Name

\* Nobody is working on n, nor did requests for it overlap or fail.
Settled(n) == up /\ ~Busy(n) /\ n \notin disturbed

\* Names that no configuration lists and no agent reports.
APIOnly == Domain \ ((UNION Configs) \cup AgentDomain)

\* What GET reports is what is served.  Every domain it lists is in the DNS
\* registry, apart from those that only agents made known and those refused for
\* their routing policy, at their creation or at the boot.  It is there with the
\* settings GET returns, defaults in place of what they leave out, if their
\* policy is known, and, when only the API knows the name, with every backend
\* GET lists that has an IP address: after any sequence of requests, crashes
\* between two steps of a request and restarts, until a reload drops the domains
\* of the API from the DNS registry.
DomainsServed ==
    \A n \in ListDomains \ ReportedOnly : Settled(n) /\ ~reloaded =>
        /\ n \notin refused => dns[n] # None
        /\ dns[n] # None =>
              /\ KnownPolicy(GetDomain(n)) => dns[n].value = Effective(GetDomain(n))
              /\ n \in APIOnly => GetDomainBackends(n) \cap IPAddress \subseteq dns[n].servers

\* The DNS registry serves nothing that GET does not show: a domain is stored
\* or in the configuration in force, and its servers are backends of GET until
\* a reload leaves the providers with the old file.
NothingDeletedServed ==
    \A n \in Domain : Settled(n) /\ dns[n] # None =>
        /\ Stored(n) \/ n \in config
        /\ ~reloaded => dns[n].servers \subseteq GetDomainBackends(n)

\* No backend outlives its domain in the store, at no point of a deletion:
\* such a backend could be neither added again nor served before a restart.
NoOrphanBackends ==
    \A n \in APIOnly \ disturbed : BackendsOf(n) # {} => Stored(n)

\* The names of the file the process started with stay the file's, whatever
\* requests overlap or fail: one that was not stored before is never stored,
\* and such a domain keeps its static server until a reload.
ConfigNamesKept ==
    [][up /\ up' => \A n \in boot : ~Stored(n) =>
          /\ ~Stored(n)'
          /\ n \in Domain /\ ~reloaded' => dns'[n] # None /\ StaticAddr \in dns'[n].servers]_vars

\* What providers.go says of a backend whose registration fails: it "is
\* persisted and will be available after restart".
StoredBackendServed ==
    \A n \in Domain : Settled(n) /\ ~reloaded /\ BackendsOf(n) # {} =>
        dns[n] # None /\ BackendsOf(n) \subseteq dns[n].servers
=============================================================================
