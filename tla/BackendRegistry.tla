--------------------------- MODULE BackendRegistry ---------------------------
(***************************************************************************)
(* The Overwatch backend registry (pkg/overwatch/registry.go): the map of  *)
(* backends that agents, the configuration file and the API register, the  *)
(* health-authority hierarchy that gives each one its effective status,    *)
(* the stale-detection loop, and the write-through copy in the bbolt store *)
(* that a restart loads.                                                   *)
(*                                                                         *)
(* Every method holds the registry's write lock from its first read to its *)
(* last write, so each is one action; what happens after the lock is       *)
(* released (the status-change callback) is in OverwatchDNS.               *)
(*                                                                         *)
(* Time is kept as ages: `age' is time.Now() - AgentLastSeen, saturating   *)
(* just above the largest duration the code compares it with.              *)
(***************************************************************************)
EXTENDS Integers

CONSTANTS
    Key,             \* "service:address:port" keys
    Agent,           \* agent IDs
    NoAgent,         \* the empty AgentID of static and API backends
    Weight,          \* routing weights (and regions, which travel with them)
    NoBackend,       \* a key with no entry in the map
    Configs,         \* the static-server lists a boot may find: sets of <<key, weight>>
    StaleThreshold,  \* RegistryConfig.StaleThreshold, in ticks
    RemoveAfter,     \* RegistryConfig.RemoveAfter, in ticks
    CheckInterval,   \* period of staleDetectionLoop (StaleThreshold / 2)
    StoreFaults      \* whether the open store may refuse a write or fail to give a record back

ASSUME ConstantsAssumption ==
    /\ NoAgent \notin Agent
    /\ Configs \subseteq SUBSET (Key \X Weight)
    /\ StaleThreshold \in Nat
    /\ RemoveAfter \in Nat
    /\ CheckInterval \in Nat \ {0}
    /\ StoreFaults \in BOOLEAN

VARIABLES
    backends,  \* Registry.backends, lost with the process
    store,     \* the "backends/" keys of the bbolt store
    phase,     \* where the process is between two starts
    pending,   \* static servers registerStaticServers has still to register
    timer,     \* ticks until staleDetectionLoop's ticker fires
    checked,   \* whether a stale check has run since Start
    unsaved    \* history: keys whose last store write, or whose load, failed

vars == <<backends, store, phase, pending, timer, checked, unsaved>>

-----------------------------------------------------------------------------
(* Backends *)

Source == {"static", "agent", "api"}

\* A *bool of the Backend struct: nil, &true or &false.
Verdict == {"none", "pass", "fail"}

\* StatusOverridden is declared by the code and never assigned.
Status == {"healthy", "unhealthy", "stale", "draining"}

\* One more than any bound on ages that a property speaks of.
MaxAge ==
    1 + CheckInterval + (IF RemoveAfter > StaleThreshold THEN RemoveAfter ELSE StaleThreshold)

Backend == [source: Source, agent: Agent \cup {NoAgent}, claim: BOOLEAN,
            age: 0..MaxAge, validation: Verdict, override: Verdict,
            draining: BOOLEAN, weight: Weight, status: Status]

ASSUME NoBackendAssumption == NoBackend \notin Backend

Present(k) == backends[k] # NoBackend

Says(verdict) == IF verdict = "pass" THEN "healthy" ELSE "unhealthy"

\* The health-authority hierarchy.
EffectiveStatus(b) ==
    IF b.override # "none" THEN Says(b.override)
    ELSE IF b.draining THEN "draining"
    ELSE IF b.validation # "none" THEN Says(b.validation)
    ELSE IF b.source # "agent" THEN "healthy"
    ELSE IF b.age > StaleThreshold THEN "stale"
    ELSE IF b.claim THEN "healthy"
    ELSE "unhealthy"

Computed(b) == [b EXCEPT !.status = EffectiveStatus(b)]

\* The record a first registration starts from.
NewBackend(source, w, age) ==
    [source |-> source, agent |-> NoAgent, claim |-> FALSE, age |-> age,
     validation |-> "none", override |-> "none", draining |-> FALSE,
     weight |-> w, status |-> "healthy"]

Older(b) ==
    IF b = NoBackend THEN b ELSE [b EXCEPT !.age = IF @ < MaxAge THEN @ + 1 ELSE @]

-----------------------------------------------------------------------------
(* The store *)

\* persistBackend / store.Delete for the keys in K after the map has changed.
\* A failed write is logged and the method succeeds; once shutdown has closed
\* the store every write fails.
Save(K) ==
    \E lost \in SUBSET K :
        /\ lost # {} => StoreFaults \/ phase = "closing"
        /\ phase = "closing" => lost = K
        /\ store' = [k \in Key |-> IF k \in K \ lost THEN backends'[k] ELSE store[k]]
        /\ unsaved' = (unsaved \ K) \cup lost

Put(k, b) ==
    /\ backends' = [backends EXCEPT ![k] = b]
    /\ Save({k})

-----------------------------------------------------------------------------
(* Life cycle of the process *)

Init ==
    /\ backends = [k \in Key |-> NoBackend]
    /\ store = [k \in Key |-> NoBackend]
    /\ phase = "down"
    /\ pending = {}
    /\ timer = CheckInterval
    /\ checked = FALSE
    /\ unsaved = {}

\* NewRegistry over the existing store; registerStaticServers begins.
Boot(config) ==
    /\ phase = "down"
    /\ phase' = "starting"
    /\ pending' = config
    /\ UNCHANGED <<backends, store, timer, checked, unsaved>>

\* Faulty: a static server is not persisted, as the configuration has it.
RegisterStaticUnsaved(k, w) ==
    /\ phase = "starting"
    /\ <<k, w>> \in pending
    /\ pending' = pending \ {<<k, w>>}
    /\ LET b == IF Present(k) THEN [backends[k] EXCEPT !.weight = w]
                              ELSE NewBackend("static", w, MaxAge)
       IN backends' = [backends EXCEPT ![k] = Computed(b)]
    /\ UNCHANGED <<store, unsaved, phase, timer, checked>>

\* Only registerStaticServers calls it, before Start has loaded the store.
\* The config may list a key in two regions: the second call updates.
RegisterStatic(k, w) ==
    /\ phase = "starting"
    /\ <<k, w>> \in pending
    /\ pending' = pending \ {<<k, w>>}
    /\ LET b == IF Present(k) THEN [backends[k] EXCEPT !.weight = w]
                              ELSE NewBackend("static", w, MaxAge)
       IN Put(k, Computed(b))
    /\ UNCHANGED <<phase, timer, checked>>

Stored == {k \in Key : store[k] # NoBackend}

\* Faulty: the load trusts the stored status.
StartNoRecompute(loaded) ==
    /\ phase = "starting"
    /\ pending = {}
    /\ phase' = "running"
    /\ loaded = Stored \/ StoreFaults
    /\ backends' = [k \in Key |-> IF k \in loaded THEN store[k] ELSE backends[k]]
    /\ unsaved' = (unsaved \cup Stored) \ loaded
    /\ timer' = CheckInterval
    /\ checked' = FALSE
    /\ UNCHANGED <<store, pending>>

\* Start: loadFromStore overwrites the map entry by entry and recomputes,
\* then the stale-detection loop starts.  When the store cannot be listed
\* nothing is loaded, and a record that does not unmarshal is left out: both
\* are logged and the registry starts all the same.
Start(loaded) ==
    /\ phase = "starting"
    /\ pending = {}
    /\ phase' = "running"
    /\ loaded = Stored \/ StoreFaults
    /\ backends' = [k \in Key |-> IF k \in loaded THEN Computed(store[k])
                                                   ELSE backends[k]]
    /\ unsaved' = (unsaved \cup Stored) \ loaded
    /\ timer' = CheckInterval
    /\ checked' = FALSE
    /\ UNCHANGED <<store, pending>>

\* shutdownOverwatchMode up to store.Close(): gossip, validator and the stale
\* loop with its ticker are told to stop and the store is closed, while the API
\* still serves.
Shutdown ==
    /\ phase = "running"
    /\ phase' = "closing"
    /\ timer' = CheckInterval
    /\ checked' = FALSE
    /\ UNCHANGED <<backends, store, pending, unsaved>>

\* The process ends: a crash at any point, or the end of a shutdown.
Exit ==
    /\ phase # "down"
    /\ phase' = "down"
    /\ backends' = [k \in Key |-> NoBackend]
    /\ pending' = {}
    /\ timer' = CheckInterval
    /\ checked' = FALSE
    /\ unsaved' = {}
    /\ UNCHANGED store

-----------------------------------------------------------------------------
(* Operations of a live registry.  While the process is closing, API        *)
(* requests and a gossip message already taken from the channel still run.  *)

Live == phase \in {"running", "closing"}

\* Faulty: every registration starts from a fresh record.
RegisterAfresh(a, k, w, healthy) ==
    /\ Live
    /\ Put(k, Computed([NewBackend("agent", w, 0) EXCEPT !.agent = a, !.claim = healthy]))
    /\ UNCHANGED <<phase, pending, timer, checked>>

\* An agent's heartbeat or registration for one backend.
Register(a, k, w, healthy) ==
    /\ Live
    /\ LET b == IF Present(k) THEN backends[k] ELSE NewBackend("agent", w, 0)
       IN Put(k, Computed([b EXCEPT !.agent = a, !.weight = w,
                                    !.claim = healthy, !.age = 0]))
    /\ UNCHANGED <<phase, pending, timer, checked>>

\* RegisterAPI rejects a key that exists.
RegisterAPI(k, w) ==
    /\ Live
    /\ ~Present(k)
    /\ Put(k, Computed(NewBackend("api", w, 0)))
    /\ UNCHANGED <<phase, pending, timer, checked>>

\* Update of weight and region by the API.
Update(k, w) ==
    /\ Live
    /\ Present(k)
    /\ Put(k, Computed([backends[k] EXCEPT !.weight = w]))
    /\ UNCHANGED <<phase, pending, timer, checked>>

Deregister(k) ==
    /\ Live
    /\ Present(k)
    /\ Put(k, NoBackend)
    /\ UNCHANGED <<phase, pending, timer, checked>>

\* The validator's result for a key, whichever backend is under it by then.
UpdateValidation(k, verdict) ==
    /\ Live
    /\ Present(k)
    /\ Put(k, Computed([backends[k] EXCEPT !.validation = verdict]))
    /\ UNCHANGED <<phase, pending, timer, checked>>

SetOverride(k, verdict) ==
    /\ Live
    /\ Present(k)
    /\ Put(k, Computed([backends[k] EXCEPT !.override = verdict]))
    /\ UNCHANGED <<phase, pending, timer, checked>>

ClearOverride(k) ==
    /\ Live
    /\ Present(k)
    /\ backends[k].override # "none"
    /\ Put(k, Computed([backends[k] EXCEPT !.override = "none"]))
    /\ UNCHANGED <<phase, pending, timer, checked>>

\* A predictive-health signal: every backend of the agent, in one critical
\* section.
OwnedBy(a) == {k \in Key : Present(k) /\ backends[k].agent = a}

\* Faulty: the flag is set without computeEffectiveStatus.
UpdateDrainingNoRecompute(a, draining) ==
    /\ Live
    /\ backends' = [k \in Key |->
                      IF k \in OwnedBy(a) THEN [backends[k] EXCEPT !.draining = draining]
                                          ELSE backends[k]]
    /\ Save(OwnedBy(a))
    /\ UNCHANGED <<phase, pending, timer, checked>>

UpdateDraining(a, draining) ==
    /\ Live
    /\ backends' = [k \in Key |->
                      IF k \in OwnedBy(a)
                      THEN Computed([backends[k] EXCEPT !.draining = draining])
                      ELSE backends[k]]
    /\ Save(OwnedBy(a))
    /\ UNCHANGED <<phase, pending, timer, checked>>

-----------------------------------------------------------------------------
(* Time *)

\* Faulty: a backend that was validated is never removed.
ExpiredUnvalidated ==
    {k \in Key : /\ Present(k)
                 /\ backends[k].source # "static"
                 /\ backends[k].validation = "none"
                 /\ backends[k].age > RemoveAfter}

\* Faulty: a backend whose agent last called it healthy is never removed.
ExpiredUnhealthy ==
    {k \in Key : /\ Present(k)
                 /\ backends[k].source # "static"
                 /\ ~backends[k].claim
                 /\ backends[k].age > RemoveAfter}

Expired ==
    {k \in Key : /\ Present(k)
                 /\ backends[k].source # "static"
                 /\ backends[k].age > RemoveAfter}

\* Faulty: expired backends stay in the store.
CheckStaleNoDelete ==
    /\ phase = "running"
    /\ timer = 0
    /\ backends' = [k \in Key |->
                      IF ~Present(k) \/ k \in Expired THEN NoBackend
                                                      ELSE Computed(backends[k])]
    /\ timer' = CheckInterval
    /\ checked' = TRUE
    /\ UNCHANGED <<phase, pending, store, unsaved>>

\* checkStaleBackends: removes what has expired, recomputes the rest.  The
\* recomputed statuses are not written to the store.
CheckStaleBackends ==
    /\ phase = "running"
    /\ timer = 0
    /\ backends' = [k \in Key |->
                      IF ~Present(k) \/ k \in Expired THEN NoBackend
                                                      ELSE Computed(backends[k])]
    /\ Save(Expired)
    /\ timer' = CheckInterval
    /\ checked' = TRUE
    /\ UNCHANGED <<phase, pending>>

\* The ticker is served when it fires: time does not pass a due check.
Tick ==
    /\ phase = "running" => timer > 0
    /\ timer' = IF phase = "running" THEN timer - 1 ELSE timer
    /\ backends' = [k \in Key |-> Older(backends[k])]
    /\ store' = [k \in Key |-> Older(store[k])]
    /\ UNCHANGED <<phase, pending, checked, unsaved>>

-----------------------------------------------------------------------------
Operation(k) ==
    \/ \E a \in Agent, w \in Weight, healthy \in BOOLEAN : Register(a, k, w, healthy)
    \/ \E w \in Weight : RegisterAPI(k, w) \/ Update(k, w)
    \/ Deregister(k)
    \/ \E verdict \in Verdict \ {"none"} :
          UpdateValidation(k, verdict) \/ SetOverride(k, verdict)
    \/ ClearOverride(k)

LifeCycle ==
    \/ \E config \in Configs : Boot(config)
    \/ \E k \in Key, w \in Weight : RegisterStatic(k, w)
    \/ \E loaded \in SUBSET Stored : Start(loaded)
    \/ Shutdown
    \/ Exit

Next ==
    \/ \E k \in Key : Operation(k)
    \/ \E a \in Agent, draining \in BOOLEAN : UpdateDraining(a, draining)
    \/ CheckStaleBackends
    \/ Tick
    \/ LifeCycle

Spec == Init /\ [][Next]_vars

-----------------------------------------------------------------------------
(* Properties *)

\* Type correctness of the registry's state.
TypeOK ==
    /\ backends \in [Key -> Backend \cup {NoBackend}]
    /\ store \in [Key -> Backend \cup {NoBackend}]
    /\ phase \in {"down", "starting", "running", "closing"}
    /\ pending \subseteq Key \X Weight
    /\ timer \in 0..CheckInterval
    /\ checked \in BOOLEAN
    /\ unsaved \subseteq Key

\* Every backend in the map has the status the hierarchy gives it now, except
\* that a silent agent's backend may not have been marked stale yet: no
\* registration, verdict, override, drain signal, load or stale check leaves a
\* status behind that its evidence no longer supports (computeEffectiveStatus
\* is called after every change of its inputs).
StatusFollowsEvidence ==
    \A k \in Key : Present(k) =>
        \/ backends[k].status = EffectiveStatus(backends[k])
        \/ /\ EffectiveStatus(backends[k]) = "stale"
           /\ backends[k].status = EffectiveStatus([backends[k] EXCEPT !.age = 0])

\* Only an agent's word keeps the backend in rotation.
OnAgentWordOnly(b) ==
    /\ b.source = "agent"
    /\ b.override = "none" /\ ~b.draining /\ b.validation = "none"

\* A backend that only its agent vouches for is in rotation at most one check
\* period beyond the stale threshold, also right after a restart that loads a
\* record written long ago (loadFromStore recomputes, staleDetectionLoop polls).
StaleDetectedInTime ==
    \A k \in Key :
        phase = "running" /\ Present(k) /\ OnAgentWordOnly(backends[k])
                          /\ backends[k].status # "stale"
        => backends[k].age + timer <= StaleThreshold + CheckInterval

\* Once the first check after a start has run, no backend that an agent
\* registered stays in the map longer than one check period beyond RemoveAfter
\* (checkStaleBackends), whatever validation or override it has.
ExpiredRemovedInTime ==
    \A k \in Key :
        phase = "running" /\ checked /\ Present(k) /\ backends[k].source = "agent"
        => backends[k].age + timer <= RemoveAfter + CheckInterval

SameButStatus(x, y) ==
    \/ x = NoBackend /\ y = NoBackend
    \/ /\ x # NoBackend /\ y # NoBackend
       /\ x = [y EXCEPT !.status = x.status]

\* The store holds what the map holds, in everything but the status that a
\* load recomputes, for every key whose last write or load did not fail: a restart
\* brings back exactly the backends there were, with their overrides, verdicts
\* and drain flags, and none that was deregistered or expired.
StoreMatchesMap ==
    phase \in {"running", "closing"} =>
        \A k \in Key \ unsaved : SameButStatus(store[k], backends[k])

\* An override leaves the durable record of a backend that stays registered
\* (and whose last write did not fail) only when ClearOverride removes it or a boot registers the key as a static
\* server: re-registrations, validations, drain signals, stale checks and
\* restarts keep it.
OverrideKept ==
    [][\A k \in Key \ unsaved :
          store[k] # NoBackend /\ store'[k] # NoBackend
              /\ store[k].override # "none" /\ store'[k].override = "none"
          => ClearOverride(k) \/ \E w \in Weight : RegisterStatic(k, w)]_vars

\* The load that follows the registration of the static servers does not bring
\* back what an older configuration, the API or an agent last said of them:
\* RegisterStatic has replaced their records in the store by then, the second
\* time too for a server that is listed in two regions.
ConfigSurvivesLoad ==
    [][(\E loaded \in SUBSET Stored : Start(loaded)) =>
          \A k \in Key \ unsaved : Present(k) => backends'[k] = backends[k]]_vars

(* What the documentation says and the code does not do. *)

\* docs/deployment/agent-overwatch.md:294 "Via API, persists until cleared":
\* the durable override of a backend that stays registered goes only with
\* ClearOverride.  At boot RegisterStatic writes a fresh record over the stored
\* one before the store is loaded.
OverridePersists ==
    [][\A k \in Key \ unsaved :
          store[k] # NoBackend /\ store'[k] # NoBackend
              /\ store[k].override # "none" /\ store'[k].override = "none"
          => ClearOverride(k)]_vars

\* CHANGELOG.md:52 "API-created servers persist across restarts": an API
\* server that nobody deregisters stays in the store.  checkStaleBackends
\* exempts only static servers from RemoveAfter.
APIServersStay ==
    [][\A k \in Key :
          store[k] # NoBackend /\ store[k].source = "api" /\ store'[k] = NoBackend
          => Deregister(k)]_vars

=============================================================================
