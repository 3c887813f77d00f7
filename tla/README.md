# OpenGSLB: models, model checking and proofs

OpenGSLB is a global server load balancer: *agents* beside the backends report
their health over gossip, *Overwatch* nodes collect the reports, validate them
and answer DNS queries with the servers that are fit for them.  This directory
models the parts of it whose correctness is a matter of ordering, failure and
shared state, checks them with TLC on small instances and proves the main
results with TLAPS for every instance.  Source paths are relative to the
repository.

## 1. Inventory

| Part | State | Operations | Interacts with |
|---|---|---|---|
| Backend registry `pkg/overwatch/registry.go` | map of backends (source, agent claim, last seen, verdict, override, drain flag, effective status), its copy in the bbolt store | Register, RegisterStatic, RegisterAPI, Update, Deregister, UpdateValidation, SetOverride, ClearOverride, UpdateDraining, checkStaleBackends, loadFromStore | gossip handler, API, validator, stale loop call it; it calls the status-change callback |
| DNS registry `pkg/dns/registry.go` | domains, their servers | RegisterServer, DeregisterServer, ReplaceAll | fed by the callback and the gossip handler; replaced by a reload; read by the DNS handler |
| Overwatch process `cmd/opengslb/app.go`, `server_provider.go` | configuration in force, phase of the life cycle | boot, SIGHUP reload, shutdown, API server requests | everything |
| Agent `pkg/agent` | health of each backend with thresholds, timers | check, change-triggered and periodic update, heartbeat, farewell | gossip sender |
| Gossip `pkg/gossip`, `pkg/overwatch/gossip.go` | messages in flight, bounded channel, the message being handled | broadcast, NotifyMsg, handleMessage | agent, backend registry, DNS registry |
| Health manager `pkg/health` | check loops, health of static servers | Start, Stop, AddServer, Reconfigure, performCheck | app (boot, reload, shutdown), DNS answers |
| Validator `pkg/overwatch/validator.go` | loop, bounded concurrency | validateAllBackends, ValidateNow, Stop | backend registry |
| Agent authentication `pkg/overwatch/agent_auth.go` | pinned certificates, in memory and in the store | VerifyAgent, Revoke, Delete | gossip handler, API |
| Process life cycle `cmd/opengslb/main.go`, `app.go` | waiting signal, what has been started and stopped, contexts | signals, Start, Reload, Shutdown | everything |
| Routing `pkg/routing` | round-robin counters | Route of each algorithm | DNS handler |
| Override manager, domain, region and server providers `pkg/api` | caches and their stored copies | CRUD | store, DNS registry |
| Latency learning `pkg/agent/latency`, `pkg/overwatch/latency_table.go` | aggregates per subnet, capped tables | record, merge, evict | agent, gossip handler, routing |
| DNSSEC `pkg/dnssec` | key pairs, peers' keys | generate, sync, sign | store, API, DNS handler |
| Store `pkg/store` | bbolt file, watchers | Get, Set, Delete, List, Watch, Close | registry, providers |
| Predictive health `pkg/agent/monitor.go` (`predictor.go` has no caller) | error timestamps | Collect | agent |
| Geolocation `pkg/geo` | mappings by text and in a trie, country and continent tables, GeoIP database | Add, Remove, Lookup, Resolve | routing, API |
| Configuration `pkg/config` | the files while they are read: stack of includes, visited files | LoadWithIncludes, mergeConfig, Validate | process, geolocation, CLI |
| Metrics, logging, CLI | - | export, format | all |

What is hard here: several goroutines (gossip, API requests, validator, stale
loop, signal loop) share two registries that have a lock each and none over
both; callbacks run after a lock is released; UDP messages are lost and
reordered; statuses are cached and depend on time; a restart rebuilds memory
from a store and from a configuration file that may have changed; shutdown
closes the store while requests are still served.

What makes each part correct:

* **Backend registry** - the cached status agrees with override, verdict, drain
  flag, claim and age on every path; a silent agent's backend leaves rotation
  and then the map in bounded time; the store holds what a restart must bring
  back; a re-registration does not lose an operator's override.
* **DNS registry and process** - DNS keeps no server that neither the backend
  registry nor the configuration knows; what a reload removed comes back when an
  agent still reports it.
* **Agent and gossip** - the Overwatch comes to believe what is true of an
  agent's backends although messages are lost and overtake each other, and
  forgets an agent that is gone.
* **Health manager** - one check loop per server in force, none after Stop, Stop
  returns, statuses follow results.
* **DNS answers** - a query that runs while the servers of its domain change answers with
  one that was serving, fails only when none was, and gives the router every server once.
* **Routing** - turns are even, the nearest region wins, the lowest latency wins among the
  servers within the threshold, shares follow weights.
* **API providers, overrides, store** - what GET reports is served unless the DNS registry cannot
  take it, nothing that was deleted is, no half of a deletion is left behind by a crash, names of the file stay the file's.
* **DNSSEC keys** - nodes come to publish one key, keys do not go back, a node comes
  back with the key it saved, what is imported was generated for that zone.
* **Latency learning** - a latency in use is no older than the age limits of all stages
  together and lies between latencies that were seen in its subnet and region.
* **Life cycle** - a SIGTERM ends the process, nothing writes to a closed store, a reload is
  all or nothing, and what a shutdown cuts short does not mislead the next process for good.
* **Configuration and geolocation** - every file counts once and in order, the two forms of the
  mappings agree, the most specific one decides, a validated configuration leads no client to
  a region without servers.

## 2. Modules

| Module | Models | Run through |
|---|---|---|
| `BackendRegistry` | `pkg/overwatch/registry.go`, its store and the life cycle of the process around it | `MCBackendRegistry` |
| `OverwatchDNS` (extends `BackendRegistry`) | the DNS registry, the callbacks, API requests, boot and reload of `cmd/opengslb/app.go`, `server_provider.go` | `MCOverwatchDNS` |
| `AgentGossip` (extends `BackendRegistry`) | an agent, the link, the receiver's channel and `pkg/overwatch/gossip.go` | `MCAgentGossip` |
| `HealthManager` | `pkg/health/manager.go`, `status.go` | `MCHealthManager` |
| `Routing` | `pkg/routing`, the decision of `pkg/geo/lookup.go` | `MCRouting` |
| `DomainAnswers` | A and AAAA queries of `pkg/dns/handler.go` against `pkg/dns/registry.go` | `MCDomainAnswers` |
| `ServerPool` (extended by both) | the servers of a domain and the turn of `pkg/routing/roundrobin.go` | both |
| `StoreAPI` | `pkg/api/providers.go`, `override_manager.go` and their handlers, `pkg/store` | `MCStoreAPI` |
| `KeySync`, `ZoneKeys` | `pkg/dnssec`; what it promises | `MCKeySync` |
| `LatencyLearning` | `pkg/agent/latency`, `pkg/overwatch/latency_table.go` and the reports between them | `MCLatencyLearning` |
| `Lifecycle` | `cmd/opengslb/main.go`, start, reload and shutdown of `app.go`, `pkg/overwatch/validator.go` | `MCLifecycle` |
| `ConfigFiles`, `GeoMappings` (extends it) | `pkg/config/includes.go`, `validator.go`; `pkg/geo` and its API | `MCGeoMappings` |
| `OverwatchProofs` (of `BackendRegistry` and `OverwatchDNS`), `HealthManagerProofs`, `KeySyncProofs`, `LifecycleProofs`, `StoreAPIProofs`, `AnswersProofs` (of `DomainAnswers` and `Routing`), `GeoMappingsProofs`, `LatencyLearningProofs` | the theorems | - |

Every module has a type invariant that says what its variables hold.  It is proved for
every module that has theorems, by itself (`TypeCorrect`) or as a part of the inductive
invariant, as far as the argument needs types; the runs spend their properties on behaviour.
Operators that begin with the comment "Faulty" are not part of a model: each is a plausible
mistake in the code, and `PROJECT.json` says which property finds it.

### BackendRegistry

`backends` is `Registry.backends`, a function from keys (service, address, port)
to a record or `NoBackend`; `store` is the bbolt bucket, `unsaved` the keys whose
last write, or whose load, failed (`persistBackend` and `loadFromStore` log the error and go on).  Ages count
from `AgentLastSeen` and stop at `MaxAge`, beyond which no comparison tells them
apart.  `timer` is the time since the last run of `checkStaleBackends`; `Tick`
may not pass `CheckInterval`, which says that the ticker is served within its
period.  `phase`, `pending` and `checked` follow the process: down, booting (the
static servers still to register), running, closing.

Every exported operation is one action because it holds `Registry.mu` from its
first read to its last write, the store write included.  `Boot`, one
`RegisterStatic` per configured server, `Start` (`loadFromStore`), `Shutdown` and
`Exit` follow `app.go`; `Exit` is also a crash, at any point.  Weights stand for
what a registration carries besides its key.

### OverwatchDNS

Adds `dns` (the servers of the DNS registry), `domains` and `config` (what the
configuration file in force lists) and `calls`: for every caller the DNS calls it
still has to make.  The registry releases its lock before it calls
`onStatusChange`, so a caller's registry change and its DNS change are two steps
and those of other callers may come between.  `checkStaleBackends`, the validator
and the load call it before anything else can run for them, so there it is one
step.  `handleHeartbeat` makes a second call, `RegisterServer`, of its own.
`overtaken` remembers the backends that went before a registration of theirs had
reached DNS.

### AgentGossip

The agent's checks with their thresholds (`PerformCheck`), the goroutine that
reports a change (`OnHealthChange`), the two tickers, farewell and crash; `net`
holds the messages in flight, each of which may arrive once, at any time, or be lost,
so that loss and reordering are present (equal messages in flight are one, and
`periodicTasks` sends the same one again); `chan` is the receiver's channel, `current` the message `handleMessage` works on, backend by
backend, then the predictive signal.

### HealthManager

`entry` and `health` are the `serverEntry` and `ServerHealth` objects, of which an
entry may inherit the latter; `loop` says where each check loop is: between the
check and the record of its result anything may happen, a reload included.  `Stop`
is three steps because its lock is released before it waits.

### Routing

`router` is a domain's router: its algorithm, the round-robin counter (its own, or that of
the round robin it falls back on) and whether it has a geo resolver and a learned-latency
table, which only the factory at boot is given.  A call is one step, because the counter is
incremented atomically and nothing else is written; its inputs (pool, what each source of
the resolver says of the client, latency data) are chosen freely.  `decision` is the call
that is about to return, `turns` remembers the round-robin turns over an unchanged pool.
The counter has a small range, so that its overflow happens.

### DomainAnswers

`entry` is the registry's entry of one domain: an array of cells as long as the slice's
capacity, its length, and the router.  A query takes the entry (`Lookup`), then the slice
(`ReadSlice`), then copies one cell at a time (`ReadServer`) and asks for its health
(`CheckHealth`); none of these after `Lookup` holds the registry's lock.  An operation on the
slice holds the lock for two writes, of a cell and of the length; `writing` is the one still
to come.  A query keeps an entry that a reload or a deletion drops (`orphan`) and an array
that the entry has outgrown (`outgrown`).  Three assumptions limit the data race: pointer and
length of a slice are read together, a cell is copied in one piece, and the router is read in
one piece.  What a query can conclude is stated with the history it carries: the servers that
were registered, or healthy, at some time since it began, and those that were both throughout.

### StoreAPI

No provider holds a lock over a request: `req` says where each request is, and every Get, Set,
Delete and List of the store and every call of the DNS registry is a step of its own.  The first
read is the action that starts the request (`createDomain`, `updateDomain`, `deleteDomain`,
`addDomainBackend`, the same for regions, `HandleSetOverride`, `HandleClearOverride`).
`StoreFails` is a write, or the list of a deletion, that fails; the requests differ in whether they
report it.  The DNS registry refuses settings with a routing policy the factory does not know
(`Unknown`) and an address that is no IP address (`IPAddress` are the others); providers and load
only log it, and `refused` has the domains it did not enter.  `Defaults` is what the providers make
of a missing TTL or policy on the way to DNS and when a domain is created, `Presets` what the
handler of a creation makes of it before; `Asked` are the settings that requests for domains
carry, `Plain` the records of regions and overrides, which have neither TTL nor policy.
`LoadStored` is `LoadStoredDomainsIntoDNS`, a part of `Boot`.  `boot` is the configuration the
providers were made with, which a reload does not change, `config` the one in force.  A name is
`disturbed` once two requests for it overlapped or a write failed: the properties about an
orderly outcome leave it out from then on, `ConfigNamesKept` does not.  A record that cannot be decoded, a
list that fails at the boot, and two names of which one is the other with a dot at its end are left
out.

### KeySync and ZoneKeys

`keys` and `signer` are the `KeyManager` (a key, and whether its private half is there), `stored`
is the `KeyStore`, `sync` the goroutines that import: the poll loop and one per request.  A fetch
takes the peer's keys at one moment; the comparison, the replacement and the save are steps of
their own and other syncs and crashes come between.  Keys are numbers in the order of their
creation, and which node generated which is `generated`.  `ZoneKeys` is the account without
answers in flight and goroutines: a node generates a key where it neither holds nor has saved one,
adopts or saves one that was generated for the zone, ends, and comes back with exactly what it
saved.  Which node may sign is no part of it: the documentation and the code disagree (section 6).

### LatencyLearning

`Observe` is one connection of the collector's poll, `Record` the consumer's, with the eviction
when there is no room, `Prune` the agent's hourly one, `SendLatencyReports` the reports, `Deliver`
`handleLatencyReport` with the table's own eviction, `handleLatencyTablePost` the API's
injection, and `Lookup` what routing asks.  An entry carries the time of the last observation it rests
on (`seen`), which the program does not have: the properties speak of it.  The average is computed
in integers as in the code.  Minima and maxima of a round-trip time and ports are left out.

### Lifecycle

`sigChan` is the channel of signals with its one place; `main` says what the main goroutine does,
`start` and `stop` where the two sequences are, which run side by side because a shutdown does
not wait for `Start`.  A loop is `late` when `Start` comes to it after its Stop has returned; one
of the registry that starts while its Stop waits is waited for.  The registry's and the validator's loops are the ones a Stop waits for;
the validator's cycle checks all backends with at most `MaxConcurrent` at a time, and a check that
began after the cancellation fails whatever the backend does.  What the other components do while
they run is in the modules of their own.

### ConfigFiles and GeoMappings

`stack` is the recursion of `loadWithIncludes`, a frame per file that is being read, and `visited`
the files seen.  A file is its own part of a configuration, the patterns it includes, each as the
set of files it matches, and whether it can be read at all.  `Validate` is what the
validator says of regions, domains, services and geolocation; the process does not call
it, the properties do.  `GeoMappings` adds the resolver: `mappings` is the map by text, `ranger`
the trie by network, `regions` what the tables of countries were made from.  A network is the set of its
addresses, the trie (an external library) a function on networks.  `Resolve` takes the client's
mapping, country, continent or the default, in this order.

## 3. Runs

| Run | Question | Result |
|---|---|---|
| `registry` | Do statuses, expiry, store and boot keep their promises under any sequence of operations, failing writes and crashes? | holds |
| `dns` | Does DNS keep a server that nobody knows any more? | holds |
| `dns_restore` | Does a reporting agent's server come back, whatever removed it? | holds |
| `gossip` | Does the Overwatch's belief converge, and does it forget? | holds |
| `health` | One loop per server, a quiet and returning Stop, statuses that follow? | holds |
| `routing` | Do the routers return what a reference order, share or rotation says? | holds |
| `answers` | What may a query conclude while the registry changes under it? | holds |
| `store_api` | Do store, GET and DNS agree under overlapping, failing and interrupted requests? | holds |
| `keysync` | Do nodes come to publish one key, and implement `ZoneKeys`? | holds |
| `latency` | How old may a latency in use be, and does it come from observations? | holds |
| `lifecycle` | Does the process end when told to, in an order its store survives? | holds |
| `geo_config` | Is what the files and the API say what clients are routed by? | holds |

Section 6 lists where the code and what is written about it disagree.

**Bounds.**  One key is enough for the registry: no operation of a key reads
another key's record, and the store is written key by key (`UpdateDraining` and
`checkStaleBackends` treat each key alone).  The proofs, where there are any, hold
for every set of keys.  Stale threshold 0, expiry 1 and check period 1 give the ages
fresh, stale, expired and beyond; the comparisons distinguish no others.  Two weights
tell a stored record from a configured one; they are interchangeable, so the run uses
their symmetry (it checks no liveness).  In `dns` one API caller beside gossip,
validator and stale loop gives every order of two outstanding calls.  In `gossip` a channel of one message fills at once, and `MaxEvents` 1 allows
one of a change of the service or the load, a stop and a crash, after each of which
the agent may start again.  In `health` `MaxMade` 2 lets a server be changed, or removed and
added again, once with both loops alive, and `MaxEvents` 2 lets it fail and recover.  In `routing` three
servers make a pool whose size does not divide the counter's range of four, and the latency
data include too few samples, old ones and two values on each side of the threshold.  In
`answers` three changes are enough for a removal and an append within one query, after a
change before it; queries interact only through the counter, so one is enough.  `weighted`
stands there for every algorithm that may return any server of the pool.

`dns` has static servers in some configurations; `dns_restore` leaves them out, because
what a reload brings back by itself needs no heartbeat.

In `store_api` two callers give every overlap of two requests, four requests are enough to create a
domain with a backend and then delete and create again, and two boots put a crash between any two steps;
one domain is in the file in some configurations, the other only in the API.  Requests ask for one
setting that is served as it is, one that leaves the TTL out (and is served with another, the fourth
value) and one with an unknown policy; one of the two backends has an IP address.  In
`keysync` three keys let a node that lost its key generate a newer one; keys of different
zones do not interact, and with one requested sync beside the poll loop syncs overlap.  In `latency` three
subnets compete for two places in the aggregator and in the table, two round-trip times
have an average strictly between them, and the clock runs past the sum of the age limits.
In `lifecycle` one of two backends answers and the validator checks one at a time, two signals
give a SIGHUP and a SIGTERM in either order, and a restart follows.  In `geo_config` three files
include one another in every way up to one level beyond the limit of two, a country is listed by two
regions, one network has two texts and another lies within it.  `store_api`, `latency` and `lifecycle` end when
their bounds are reached, so deadlock is not checked there.

## 4. Fairness

* Goroutines that can run do run, and tickers fire: weak fairness on the steps of the
  DNS callers, the agent's tasks, the handler and the check loops.
* `SF(NotifyMsg(CurrentUpdate))`, `SF(Heartbeat)`: an update that is sent again and
  again arrives some time.  UDP gives no guarantee for one message; `periodicTasks`
  repeats the whole state for this reason.
* `SF(EndLoop)`: Go's `select` chooses at random among ready cases, so a loop whose
  ticker and stop channel are both ready takes the stop channel some time.
* `Connected`, the hypothesis of the convergence properties: the agent stays up, and
  from some time on no message finds the channel full.  Without it a handler that is
  too slow for ever may drop the same update for ever.
* `SF(PollPeer)`: the poll loop asks its peers again and again, and again and again one
  answers.  `WF` of a node's start: whoever runs it starts it again after a crash.
* In `Lifecycle`, `WF` of the main goroutine, of `Start`, of the validator and of a search in
  progress (checks have a timeout), and `SF(EndLoop)` for the same reason as above.  A deadlock would
  show as a violation of `TermStops`.
* Nothing is assumed of the API, the configuration, the servers, reloads or crashes.

## 5. Proofs

All theorems are about every value of the constants that satisfies the named assumption of
the module.  These say no more than that the sets are what they are meant to be, that periods,
limits and bounds are natural numbers, and that what must be positive is.  The ones with content:

* `StoreAPIAssumption`, `NoneAssumption`: keys of different buckets differ, the address of a static
  server is none the API adds, and "nothing" is no entry or request.
* `AnswersAssumption`: a configuration lists a server of the domain once.
* `RoutingAssumption`, `PoolAssumption`: a router is called with no empty pool, which `dns/handler.go:122` sees to,
  and the counter has a range.  Weights are any integers; `SharesFollowWeights` is about pools whose
  weights are positive.
* `GeoAssumption`: networks are prefixes, so two of them are nested or disjoint, and there are
  finitely many CIDR strings in play.
* `LatencyAssumption`: the smoothing factor `AlphaNum / AlphaDen` is above 0 and at most 1.
* `ConfigAssumption`: `sort.Strings` puts all files in one order.

Each inductive invariant is called `IInv` in its module (`RoutingIInv` and `EvenIInv` for the routers; in
`OverwatchProofs`, whose arguments are separate, it is the property with what its comment names) and was checked by TLC with the constants
of the module's run before it was proved.

* **OverwatchProofs.**  `OperationShape` says once what all operations of the backend registry have in
  common: they change one key's record to a recomputed one and write it through.
  `TypeCorrect` follows.  `StatusSound` is inductive together with `TypeOK` once
  the status is described as "computed at some age not above the present one"
  (`OlderStatus`): time alone can make a status outdated, nothing else.  `StoreSound`
  needs `BootState`: while static servers are being registered the map holds nothing
  that the load could contradict.  `StaleBounded` and `ExpiryBounded` relate age and
  `timer`: a record's age plus the time to the next check is bounded.  `ConfigWins` rests on what
  the boot has registered so far (`StaticSaved`).  `OverrideDurable`, an action property, goes through
  the actions: whatever is saved was in the map with the same override, and the map's override is the
  store's by `StoreSound`.
  `ProcessImplementsRegistry`: every step of the process is
  a step of the registry or leaves it alone, so `DNSSpec => Spec` and all theorems above
  hold of the process.  `DNSFollowsRegistry` is an induction of its own: `NoServerLeftBehind` is
  preserved together with `RegistrationsKnown`, that a server some goroutine has still to register
  belongs to a present backend or to one that is `overtaken` (`DNSInv`), and the two lemmas
  `LaterKeepsInv` and `LockedKeepsInv` treat the two ways in which a caller makes its calls.
* **HealthManagerProofs.**  `OneLoopPerServer` is not inductive: that a replaced entry's
  loop was told to stop (`OldStopped`), that entries not made yet have no loop
  (`UnmadeIdle`), that the listed server's entry exists and is open (`CurrentOpen`) and
  how Stop's phases relate (`StopPhases`) are needed, and together they are inductive
  (`IInv`).  `OneLoop`, `Quiet`, `StatusSound` and `TypeCorrect` follow.
* **KeySyncProofs.**  `Refinement` is the implementation of `ZoneKeys`: `Init` maps to its
  `Init`, and every step is one of its steps or a stutter.  A step of an import only adopts a key
  that was generated for the zone if every answer in flight, every store and every memory holds
  nothing else (`AllKnown`), and if what an import is about to set or save is a key at all (`ImportsKeys`,
  `SavesKeys`); nothing is imported or saved by a node that has ended (`DownIdle`).  With the types
  this is inductive (`IInv`, `KeysKnown`).  `NewestKept` says of every step that a node's key
  does not become older: between the comparison and the replacement of an import only another sync of
  the same node could have set a newer one, and then the node is `crowded`.
* **LifecycleProofs.**  `StoreClosedLast` needs that only a shutdown moves along the order of stops
  (`StopsInOrder`) and that a loop whose Stop is behind stays off (`LoopsEnded`) unless `app.Start`
  comes to it afterwards.  `ReloadAtomic` needs the state between the two halves of a reload
  (`OneConfig`).
* **StoreAPIProofs.**  The argument is about one domain.  `Agree` is what store, GET and DNS have in common
  between requests (what GET reports has an entry unless it is `refused`, with the settings that are
  in force for it and the backends that have an IP address); `Progress` says, for each kind of request and each step of it, what is left of
  that agreement, and a step of a request for another name changes none of it.  With this,
  `GetIsServed`, `DeletedIsGone` and `BackendsGoFirst` hold for every name that is not `disturbed`.
  `FileNamesKept` makes no such exception: it rests on `FileNameKept`, what a request has
  already found out about the configuration, and on `FileDomainServed`.
* **AnswersProofs, the answers.**  `SliceIsRegistered` describes the slice as it will be once the operation that
  holds the lock has made its second write: it lists the registered servers once each.  For a query in
  progress, `Remembers` ties its history to the present, `Serving` says that the cells it has still to
  read hold servers that were registered, `Ahead` that a server which was there all the time
  is in the pool already or in a cell still to be read, and `Even` that nothing is read twice.  These
  five are inductive together (`SliceAndQueries`), with the overlaps that the properties except; the
  properties are their last step (`AnswersServe`, `FailuresJustified`, `PoolsFair`).
* **AnswersProofs, the routers.**  `RoutingIInv` is inductive because a call and its return are all that
  touches `decision`; the work is in what the algorithms compute.  Filter, running sum and search for the lowest
  latency are loops, written as recursive functions; `LoopExists` and `LoopInduction` show, by the
  first place where it would fail, that such a function exists and that its results keep what one round
  keeps.  From this come `KeepFacts` (a filter keeps just the servers asked for, each as often as before),
  `PointsOf` (the points of a server are an interval as long as its weight), `LowestFacts` and
  `ThresholdFacts` (the threshold drops no server that is faster than one it keeps), and from
  these `NearestWins`, `FastestWins` and `SharesFollowWeights`.  `TurnsEven` needs `Counted`: the turns
  since the last overflow are those of consecutive values of the counter, of which a place among `n` gets a
  quotient, or one more (`TurnsDiffer`), and each overflow adds at most one to what was uneven before it.
  `TurnsEven` and `SharesFollowWeights` are about pools that list each server once (`DistinctPools`), a
  hypothesis of theirs and not of the module: `PoolsFair` says when a query collects such a pool.  A pool read
  while a removal moves a server may have it twice, and then it gets two turns and two shares.
* **GeoMappingsProofs.**  List and trie agree in both directions, one of them only for networks that never
  had two texts (`ListedIsFound`, `AliasesKnown`), and what the resolver has comes from the configuration it
  was made from (`FromConfig`).  `NarrowestDecides` adds that of nested networks around an address
  one is the narrowest, by induction on the size of their set (`HasNarrowest`).  `ValidationSuffices` follows
  every source of a region (mapping, country, continent, default) back to what `Validate` checks.
  `NothingLost` rests on `Reading`, the invariant of a load in progress: there is an order of the visited files
  in which a file comes before those it has included (`Ranked`), and every visited file is accounted for by one of
  the calls on the stack, whose configuration is just that of its files (`Owned`).  At the end one call is left,
  nothing is pending, and the order shows that there was no cycle.
* **LatencyLearningProofs.**  `StagesAgree` follows an observation through channel, aggregate, report and
  table, with the age that each stage may add and the range of the values seen.  A smoothed average
  stays between the least and the greatest value it was made from although it is rounded
  (`BetweenAverage`).  `handleLatencyReport` updates the table subnet by subnet, a recursive function
  over the report's subnets: that the function exists and that each of its results keeps what a single update
  keeps is shown with the smallest set for which it would fail (`Recursion`, `UpdateGood`).
  `UsedIsFresh` and `TableIsObserved` are consequences.

Writing the proofs changed the models in a few places, none of them in what TLC can reach.  The
cases of `DNSAfter` in `StoreAPI` overlapped, so that the value depended on the order TLC takes
them in; they exclude one another now.  `StoreAPI` and `GeoMappings` did not say
that names of different kinds differ and that the CIDR strings are finitely many.  `ConfigFiles` keeps
the files still to include as a set of places with `IsNext` for the order, and `GeoMappings` takes the last
region and the narrowest network as a maximum, where both were folds.  The filters of `Routing` are recursive
functions now, and `DomainAnswers` and `Routing` share the turn of a round robin in `ServerPool`.  `LoadedComplete`
speaks of the least closed set of files and counts places of lists, where it had a recursion and a sum.

Every invariant and action property that a run checks has a theorem.  Only model-checked are the
liveness properties, which are outside of the prover: `HeartbeatRestoresDNS`, `ClaimConverges`,
`DrainFollowsLoad`, `StoppedAgentForgotten`, `StopReturns`, `StatusConverges`, `KeysConverge`,
`TermStops`, `VerdictsHeal`.  `AgentGossip` has no property of another kind and so no theorem.

## 6. Abstractions

* A key of `OverwatchDNS` is a server of one domain; servers that several domains share
  are not modelled, and a configuration lists a key once.
* A DNS callback takes less than a tick of the model's clock.
* Whether an answer may name a server (`overwatchHealthProvider.IsHealthy`, `app.go:1334`) is the set
  `healthy` of `DomainAnswers`, which may change at any time; the order in which it asks drain flag,
  status and health manager is not modelled.
* `RegisterServer` of a server that the slice of `DomainAnswers` holds writes the same address again,
  with a weight and a region that no property there depends on, and is not a step.
* The agent reads all backends' health at once when it builds an update.
* `AgentGossip` leaves out the validator and the operator: they are in `OverwatchDNS`.
* The latency average, reasons, names and log lines decide nothing and are left out.

* In `LatencyLearning` the consumer takes observations as they come; two agents of one region
  report under the same key and the later report replaces the earlier, also when it was sent first.
* `Lifecycle` does not have the validation that an API request starts (`validator.go:121`): it
  overlaps the loop's, no Stop waits for it, and what it writes after `Close` is refused.
* `GeoMappings` is about a process with a GeoIP database; without one there is no resolver.
* The Overwatch of `AgentGossip` stays up.  An agent joins the gossip cluster once, at its start
  (`sender.go:158`), and joins no more: whether it finds a restarted Overwatch is the library's matter.

### Disagreements

What the code does differently from what a document, a comment or a name in the
repository says.  Where a definition is named it states the sentence in TLA+; TLC
refutes it with the constants of the module's run, for `HeartbeatsKeepFresh` with an
`UpdatePeriod` above the `StaleThreshold`, for `RotatesForEachType` with `round_robin`
as the algorithm, for `LearnedIsFound` with an `AgentPrefix` other than `TablePrefix`.

*Backend registry.*  `checkStaleBackends` exempts only static servers from `RemoveAfter` (`registry.go:966`), and
nothing renews an API server's `AgentLastSeen`: it is removed from map and store although nobody deleted it.
`CHANGELOG.md:52` says "API-created servers persist across restarts using bbolt storage"
(`APIServersStay`).  A static server's override does not survive a restart, because `RegisterStatic`
writes a fresh record over the stored one before the store is loaded (`registry.go:293`);
`docs/deployment/agent-overwatch.md:294` says "Via API, persists until cleared" (`OverridePersists`).
`Update` changes a weight without a callback (`registry.go:475`), so DNS keeps the old one.
A static server that was removed from the configuration returns from the store after a restart
(`registry.go:1033`, `docs/configuration.md:1217`).

*DNS registry and process.*  With an agent and an API caller, a deletion between `handleHeartbeat`'s
`Register` and its `RegisterServer` (`gossip.go:350`) leaves a server in DNS that the backend registry
no longer has; `CHANGELOG.md:15` says deleting "automatically deregisters them from the DNS server".
With `Reloads`, the API's servers are missing from DNS after SIGHUP (`app.go:1193`, `CHANGELOG.md:51`).
With two API callers the callbacks of a delete and a create can run in reverse order
(`registry.go:515`), while `app.go:382` says the callback "runs while holding the registry's write
lock".  `IsHealthy` (`app.go:1337`) lets a drain flag win over an operator's override, `CHANGELOG.md:53`
says the reverse.  The API deletes static servers (`server_provider.go:104`, `docs/api.md:829`).
`parseServerID` splits at colons, so that servers with an IPv6 address can be created but neither
changed nor deleted (`Addressable`).  `createServer` sets a missing weight to 1, so the provider's
default of 100 is never used.  A server listed in two regions takes the first one's
check at boot and the last one's after a reload (`app.go:262`, `app.go:1220`).

*Agent.*  Heartbeats carry no backends and renew nothing (`sender.go:270`), so with the default periods a
live agent's backends go stale between two updates; `docs/configuration.md:265` says "Time without
heartbeat before marking stale" (`HeartbeatsKeepFresh`).  The handler ignores the farewell's
deregistration (`gossip.go:330`).  The heartbeat sender keeps the identity of the start when the
certificate is renewed (`agent.go:204`).

*Answers and routing.*  `DeregisterServer` moves the last server into the gap, and failover takes the
first healthy one (`dns/registry.go:265`); `docs/configuration.md:787` says "Server priority is determined
by the order in the configuration file" (`FailoverPriority`).  A and AAAA queries advance one counter
(`roundrobin.go:32`), so a client that asks for both in turn gets the same IPv4 server each time;
`README.md:32` says "Even distribution across healthy servers" (`RotatesForEachType`).
A query that reads the slice in the middle of an append may answer with a server removed earlier, and a removal
and an append during one query may hide a healthy server from it (the exceptions of
`AnswerWasServing` and `FailureJustified`).  A reload makes routers without the
learned-latency table (`app.go:1196`), so such a domain takes turns from then on.  The factory
is never given a default region (`app.go:565`), so `GeoRouter` falls back on servers with an
empty region.  When all servers are above the threshold, the code takes the lowest
(`latency.go:184`, `learned_latency.go`), so the threshold never changes a choice; `latency.go:107` and
`learned_latency.go:129` promise a round robin then, and `docs/configuration.md:999`, 1007 and 1132
say such servers are excluded.  `docs/configuration.md:726` excludes servers of weight 0, `weighted.go:41`
counts it as 1.  `LowestLatency` and `WeightedShare` say nothing of these two cases.

*API and store.*  A backend whose registration with DNS fails "is persisted and will be available after
restart" (`providers.go:725`): the load brings back backends of stored domains only, and none whose address
is no IP address, which no handler checks (`StoredBackendServed`).  The same is said of a domain
(`providers.go:456`): one with an unknown `routing_policy`, which no handler checks either, is stored and
reported by GET and is served neither now nor after a restart.  An update with a TTL of 0 is reported with 0
and served with the default of 60; a creation with 0 gets 300 from the handler, so that the provider's
own default is never used.  A reload drops the API's domains from DNS until the next boot, and the
providers go on with the configuration of the boot.  `DELETE` of a single backend of a domain is
documented (`docs/api.md:617`) and answered with 404.  Nothing in the answer path reads the overrides of
`OverrideManager`; the ones in force are the backend registry's.

*DNSSEC.*  After a restart a node has its own key back but not the signer made from its private half, and
signs no more; `KeyPair.Signer` says a key has no signer "if this key was synced"
(`OwnKeySigns`).  `docs/operations/deployment/ha-setup.md:295` says "Keys are imported and used for
signing" and "All Overwatches sign with identical keys"; `SetKey` keeps no private half, so that a node
publishes an imported key and signs nothing with it (`AllSign`).  With overlapping syncs a node may go back to an older key until the next poll
(the exception of `NeverOlder`).  The process does not create this package's objects yet (`app.go`).

*Latency learning.*  Injected entries ignore `MaxEntries` (`TableBounded`).  The agent's prefix length can
be configured, the lookup always takes /24 and /48, so what is learned with another length is not
found (`LearnedIsFound`).  At capacity the table looks for the oldest entry (`latency_table.go:357`) and forgets the whole
subnet it belongs to, fresh entries of other regions and services included.

*Life cycle.*  The signal channel has one place: a SIGTERM that comes while a SIGHUP waits is dropped
(`main.go:140`), although `main.go:139` says "Handle shutdown signals" (`TermHonoured`).  A component whose
Stop is over is started all the same by a `Start` that is still under way (the exception of
`WritersDone`).  `main` does not wait for the DNS server's shutdown (`app.go:1045`).  An application error
ends with exit code 0, while `docs/deployment/overwatch.md:260` relies on `Restart=on-failure`.
`reloadAgentMode` only logs.

*Configuration and geolocation.*  The process never calls `Validate`: `docs/configuration.md:1249` says "The new
configuration is fully validated before any changes are applied" (`ValidatedFirst`).  The command-line client
validates the main file alone, without its includes and defaults (`docs/configuration.md:1545`), and
`Validate` rejects the algorithm `learned_latency` of `docs/configuration.md:1114`.  A file that two others include is
reported as a circular include.  SIGHUP does not reach the resolver: regions and database stay
as they were (`RegionsReloaded`, `docs/configuration.md:1240`,
`docs/operations/maintenance/geoip-updates.md:202`).  With two texts for one network, removing either ends
the lookups of both (`MostSpecificWins`, `docs/configuration.md:912`).  Mappings of the API are lost at a
restart, and their region is not checked.

### Not modelled

Agent authentication (`NewAgentAuth` has no caller in the process), metrics and logging, the command-line
client, the API's middleware and its handlers that only read or answer with constants, the decoding of single
requests, the predictor (`NewPredictor` has no caller), the agent's certificate, cryptography and
NSEC3, the Windows collector, store watches (no caller), providers that have no caller
(`RegistryServerProvider`), and the checks of single values in `config/validator.go`.  A torn read of an interface
(`dns/registry.go:363`) and a message delivered after the receiver has closed its channel
(`receiver.go:216`) are errors of memory and of the runtime outside of these models.

## 7. Plan

The system's components with state of their own are modelled.  What is left, in order of
importance:

1. The validation an API request starts, in `Lifecycle`, and the shared servers of several domains in
   `OverwatchDNS`.
2. An abstract specification of the registry as a DNS client sees it, a set of servers that
   may be answered, of which `OverwatchDNS` is an implementation.
