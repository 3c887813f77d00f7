---------------------------- MODULE OverwatchDNS ----------------------------
(***************************************************************************)
(* The Overwatch process: the backend registry of BackendRegistry, the DNS *)
(* registry (pkg/dns/registry.go) its status-change callback feeds         *)
(* (cmd/opengslb/app.go), the goroutines that call both, and SIGHUP        *)
(* reloads.                                                                *)
(*                                                                         *)
(* Register, RegisterAPI, Update and Deregister unlock the backend         *)
(* registry BEFORE they call the callback, so what the callback does to    *)
(* the DNS registry is a later step of the calling goroutine: `calls'      *)
(* holds the DNS calls each goroutine has still to make.  The other        *)
(* methods call it with the lock held: there the DNS change belongs to     *)
(* the registry's own step.                                                *)
(*                                                                         *)
(* Each key is one server of one domain.  Static servers are in a region   *)
(* their domain lists, and a configuration lists a key once.               *)
(***************************************************************************)
EXTENDS BackendRegistry, Sequences

CONSTANTS
    Gossip,     \* the goroutine of GossipHandler.processMessages
    APICaller,  \* the goroutines of concurrent API requests
    Addressable, \* the keys whose identifier the server API can take apart
    NoServer,   \* a key that is in no DomainEntry.Servers
    Domains,    \* the sets of keys whose domain a configuration may define
    Reloads     \* whether SIGHUP may arrive

ASSUME DNSAssumption ==
    /\ Gossip \notin APICaller
    /\ Addressable \subseteq Key
    /\ NoServer \notin Weight
    /\ Domains \subseteq SUBSET Key
    /\ Reloads \in BOOLEAN

VARIABLES
    dns,      \* the server of each key in the DNS registry
    domains,  \* the keys whose domain the DNS registry knows
    config,   \* the static servers of the configuration in force
    calls,    \* DNS calls each goroutine has still to make
    overtaken \* history: keys that left the backend registry before a registration
              \* of theirs had reached the DNS registry

dnsVars == <<dns, domains, config, calls, overtaken>>
allVars == <<vars, dnsVars>>

Caller == APICaller \cup {Gossip}

\* RegisterServer(key, weight), or DeregisterServer(key) when server is NoServer.
Call == [key: Key, server: Weight \cup {NoServer}]

-----------------------------------------------------------------------------
(* The DNS registry *)

\* Both calls fail for an unknown domain.
Apply(call) ==
    IF call.key \in domains THEN [dns EXCEPT ![call.key] = call.server] ELSE dns

ServersOf(cfg, known) ==
    [k \in Key |-> IF k \in known /\ \E w \in Weight : <<k, w>> \in cfg
                   THEN CHOOSE w \in Weight : <<k, w>> \in cfg
                   ELSE NoServer]

-----------------------------------------------------------------------------
(* The status-change callback *)

StatusName(b) == IF b = NoBackend THEN "" ELSE b.status

ServerFor(b) == IF b = NoBackend THEN NoServer ELSE b.weight

\* The calls it makes for key k whose status was old before the step.
Callback(k, old) ==
    IF old # StatusName(backends'[k])
    THEN <<[key |-> k, server |-> ServerFor(backends'[k])]>>
    ELSE <<>>

\* A goroutine begins its next piece of work when it has finished the last.
Free(c) == calls[c] = <<>>

\* A goroutine has still to make a call about k, or to register a server for it.
Outstanding(k) == \E c \in Caller : \E i \in DOMAIN calls[c] : calls[c][i].key = k

Registering(k) ==
    \E c \in Caller : \E i \in DOMAIN calls[c] :
        calls[c][i].key = k /\ calls[c][i].server # NoServer

\* What a step of the backend registry does to the history: a key is off it again
\* when it is registered anew.
NoteOvertaken ==
    overtaken' = {k \in Key : /\ backends'[k] = NoBackend
                              /\ Registering(k) \/ k \in overtaken}

\* Faulty: the callback is not called for a backend that the step removed.
CallbackLockedNoRemoval ==
    /\ dns' = [k \in Key |->
                 IF /\ k \in domains /\ backends'[k] # NoBackend
                    /\ StatusName(backends[k]) # StatusName(backends'[k])
                 THEN ServerFor(backends'[k])
                 ELSE dns[k]]
    /\ NoteOvertaken
    /\ UNCHANGED <<domains, config, calls>>

\* Called under the lock, for every backend whose status the step changed.
CallbackLocked ==
    /\ dns' = [k \in Key |->
                 IF k \in domains /\ StatusName(backends[k]) # StatusName(backends'[k])
                 THEN ServerFor(backends'[k])
                 ELSE dns[k]]
    /\ NoteOvertaken
    /\ UNCHANGED <<domains, config, calls>>

Later(c, todo) ==
    /\ calls' = [calls EXCEPT ![c] = todo]
    /\ NoteOvertaken
    /\ UNCHANGED <<dns, domains, config>>

-----------------------------------------------------------------------------
(* The gossip goroutine *)

\* A backend that Register creates starts as "healthy", not as "".
OldStatus(k) == IF Present(k) THEN backends[k].status ELSE "healthy"

\* Faulty: the DNS registry is left to the callback, as in handleRegister.
HeartbeatCallbackOnly(a, k, w, healthy) ==
    /\ Free(Gossip)
    /\ Register(a, k, w, healthy)
    /\ Later(Gossip, Callback(k, OldStatus(k)))

\* handleHeartbeat, for one backend of the payload: Register, then
\* RegisterServer in any case.
Heartbeat(a, k, w, healthy) ==
    /\ Free(Gossip)
    /\ Register(a, k, w, healthy)
    /\ Later(Gossip, Callback(k, OldStatus(k)) \o <<[key |-> k, server |-> w]>>)

\* handleHeartbeat, the predictive-health part.
HeartbeatPredictive(a, bleeding) ==
    /\ Free(Gossip)
    /\ UpdateDraining(a, bleeding)
    /\ CallbackLocked

\* handleRegister: healthy is assumed and the DNS registry is left to the callback.
RegisterMessage(a, k, w) ==
    /\ Free(Gossip)
    /\ Register(a, k, w, TRUE)
    /\ Later(Gossip, Callback(k, OldStatus(k)))

\* handleDeregister
DeregisterMessage(k) ==
    /\ Free(Gossip)
    /\ Deregister(k)
    /\ Later(Gossip, Callback(k, backends[k].status))

-----------------------------------------------------------------------------
(* API requests *)

\* The provider of the server API (server_provider.go).  A key is addressable when the
\* identifier made of it has three parts: a service, an IPv4 address or name, a port.
parseServerID(k) == k \in Addressable
GetServer(k) == Present(k)

CreateServer(k, w) == RegisterAPI(k, w)
UpdateServer(k, w) == parseServerID(k) /\ Update(k, w)
DeleteServer(k) == parseServerID(k) /\ Deregister(k)

\* The handlers.  updateServer looks first, and the weight it then writes is the one
\* that it was given, or the one that it saw and that may be another by now.
createServer(c, k, w) ==
    /\ Free(c)
    /\ CreateServer(k, w)
    /\ Later(c, Callback(k, ""))

updateServer(c, k, w) ==
    /\ Free(c)
    /\ GetServer(k)
    /\ UpdateServer(k, w)
    /\ Later(c, Callback(k, backends[k].status))

deleteServer(c, k) ==
    /\ Free(c)
    /\ DeleteServer(k)
    /\ Later(c, Callback(k, backends[k].status))

HandleServers(c) ==
    \/ \E k \in Key, w \in Weight : createServer(c, k, w) \/ updateServer(c, k, w)
    \/ \E k \in Key : deleteServer(c, k)

Override(c, k) ==
    /\ Free(c)
    /\ \/ \E verdict \in Verdict \ {"none"} : SetOverride(k, verdict)
       \/ ClearOverride(k)
    /\ CallbackLocked

\* A goroutine makes its next DNS call.
DNSCall(c) ==
    /\ ~Free(c)
    /\ dns' = Apply(Head(calls[c]))
    /\ calls' = [calls EXCEPT ![c] = Tail(@)]
    /\ UNCHANGED <<vars, domains, config, overtaken>>

-----------------------------------------------------------------------------
(* Validator, stale loop and time *)

Validated(k, verdict) ==
    /\ UpdateValidation(k, verdict)
    /\ CallbackLocked

StaleCheck ==
    /\ CheckStaleBackends
    /\ CallbackLocked

\* A goroutine that has released the registry's lock makes its DNS calls at
\* once on the scale of the timers, which are seconds.
Time ==
    /\ \A c \in Caller : Free(c)
    /\ Tick
    /\ UNCHANGED dnsVars

-----------------------------------------------------------------------------
(* Life cycle *)

DNSInit ==
    /\ Init
    /\ dns = [k \in Key |-> NoServer]
    /\ domains = {}
    /\ config = {}
    /\ calls = [c \in Caller |-> <<>>]
    /\ overtaken = {}

\* The static servers go to the backend registry before the DNS registry
\* exists, so RegisterStatic's callback finds none; BuildRegistry then makes
\* one from the same configuration.
DNSBoot(cfg, known) ==
    /\ Boot(cfg)
    /\ config' = cfg
    /\ domains' = known
    /\ dns' = ServersOf(cfg, known)
    /\ UNCHANGED <<calls, overtaken>>

DNSRegisterStatic(k, w) ==
    /\ RegisterStatic(k, w)
    /\ UNCHANGED dnsVars

\* loadFromStore calls the callback for every backend it loads, as new.
DNSStart(loaded) ==
    /\ Start(loaded)
    /\ dns' = [k \in Key |-> IF k \in domains \cap loaded THEN ServerFor(backends'[k])
                                                         ELSE dns[k]]
    /\ UNCHANGED <<domains, config, calls, overtaken>>

DNSShutdown == Shutdown /\ UNCHANGED dnsVars

DNSExit ==
    /\ Exit
    /\ dns' = [k \in Key |-> NoServer]
    /\ domains' = {}
    /\ config' = {}
    /\ calls' = [c \in Caller |-> <<>>]
    /\ overtaken' = {}

\* SIGHUP: the DNS registry is rebuilt from the new file alone and swapped in;
\* the backend registry is not told.
Reload(cfg, known) ==
    /\ Reloads
    /\ phase = "running"
    /\ config' = cfg
    /\ domains' = known
    /\ dns' = ServersOf(cfg, known)
    /\ overtaken' = {k \in overtaken : Registering(k)}
    /\ UNCHANGED <<vars, calls>>

-----------------------------------------------------------------------------
GossipStep ==
    \/ \E a \in Agent, k \in Key, w \in Weight :
          \/ \E healthy \in BOOLEAN : Heartbeat(a, k, w, healthy)
          \/ RegisterMessage(a, k, w)
    \/ \E a \in Agent, bleeding \in BOOLEAN : HeartbeatPredictive(a, bleeding)
    \/ Agent # {} /\ \E k \in Key : DeregisterMessage(k)

APIStep(c) ==
    \/ HandleServers(c)
    \/ \E k \in Key : Override(c, k)

DNSLifeCycle ==
    \/ \E cfg \in Configs, known \in Domains : DNSBoot(cfg, known) \/ Reload(cfg, known)
    \/ \E k \in Key, w \in Weight : DNSRegisterStatic(k, w)
    \/ \E loaded \in SUBSET Stored : DNSStart(loaded)
    \/ DNSShutdown
    \/ DNSExit

DNSNext ==
    \/ GossipStep
    \/ \E c \in APICaller : APIStep(c)
    \/ \E c \in Caller : DNSCall(c)
    \/ \E k \in Key, verdict \in Verdict \ {"none"} : Validated(k, verdict)
    \/ StaleCheck
    \/ Time
    \/ DNSLifeCycle

DNSSpec == DNSInit /\ [][DNSNext]_allVars

\* Goroutines run; agents are alive and repeat their health updates.
Fairness ==
    /\ \A c \in Caller : WF_allVars(DNSCall(c))
    /\ \A a \in Agent, k \in Key :
          SF_allVars(\E w \in Weight, healthy \in BOOLEAN : Heartbeat(a, k, w, healthy))

FairSpec == DNSSpec /\ Fairness

-----------------------------------------------------------------------------
(* Properties *)

\* Type correctness of the DNS side.
DNSTypeOK ==
    /\ dns \in [Key -> Weight \cup {NoServer}]
    /\ domains \subseteq Key
    /\ config \subseteq Key \X Weight
    /\ calls \in [Caller -> Seq(Call)]
    /\ \A c \in Caller : Len(calls[c]) <= 2

Listed(k) == \E w \in Weight : <<k, w>> \in config

\* The DNS registry keeps no server that nobody knows any more: when no
\* goroutine has a DNS call about it left to make, the server is in the
\* backend registry or in the configuration in force.  Agents' messages, API
\* requests, expiry, loads and reloads each change the two registries in steps
\* of their own, in any order; the one way to leave a server behind is that
\* the backend goes before an earlier registration has reached DNS (what
\* handleHeartbeat and the callbacks do after the lock is released).
NoServerLeftBehind ==
    \A k \in domains \ overtaken :
        dns[k] # NoServer /\ ~Outstanding(k) => Present(k) \/ Listed(k)

\* Whatever removed it (a reload, a lost race with a deregistration), the
\* server of an agent that keeps reporting comes back into the DNS registry,
\* unless the process stops or the domain goes.
HeartbeatRestoresDNS ==
    \A k \in Key :
        phase = "running" /\ k \in domains
        ~> dns[k] # NoServer \/ phase # "running" \/ k \notin domains

=============================================================================
