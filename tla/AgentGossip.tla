----------------------------- MODULE AgentGossip -----------------------------
(***************************************************************************)
(* One agent and the Overwatch it reports to: the agent's health checks    *)
(* with their thresholds (pkg/agent/backend.go), its periodic and change-  *)
(* triggered health updates and its heartbeats (pkg/agent/agent.go,        *)
(* heartbeat.go), the best-effort UDP messages (pkg/gossip/sender.go), the *)
(* receiver's bounded channel (pkg/gossip/receiver.go) and the handler     *)
(* that feeds the backend registry (pkg/overwatch/gossip.go).              *)
(*                                                                         *)
(* The Overwatch is up throughout, without validator or operator: only the *)
(* agent speaks for its backends, the members of Key.  A message that was  *)
(* built and not yet sent, or sent and not yet received, is in `net',      *)
(* which loses and reorders; two equal messages in flight count as one.    *)
(***************************************************************************)
EXTENDS BackendRegistry, Sequences

CONSTANTS
    Self,             \* the agent
    FailThreshold,    \* consecutive failures that make a backend unhealthy
    PassThreshold,    \* consecutive passes that make it healthy
    UpdatePeriod,     \* ticks between two periodic health updates
    HeartbeatPeriod,  \* ticks between two heartbeats
    ChanSize,         \* capacity of the receiver's channel
    Loads,            \* what the load monitor may report
    MaxEvents         \* bound on changes of the services and the load, stops and crashes

ASSUME AgentAssumption ==
    /\ Self \in Agent
    /\ FailThreshold \in Nat \ {0} /\ PassThreshold \in Nat \ {0}
    /\ UpdatePeriod \in Nat \ {0} /\ HeartbeatPeriod \in Nat \ {0}
    /\ ChanSize \in Nat \ {0} /\ MaxEvents \in Nat
    /\ Loads \subseteq {"none", "ok", "bleeding"}  \* "none": Collect failed

VARIABLES
    up,              \* the agent runs
    service,         \* what a health check of each backend sees
    load,            \* what the load monitor reports
    events,          \* how many of MaxEvents have happened
    health,          \* BackendHealth of each backend
    changed,         \* backends with an onChange goroutine still to send
    updateTimer,     \* ticks to the next periodic update
    heartbeatTimer,  \* ticks to the next heartbeat
    net,             \* messages between the agent and the receiver
    chan,            \* the receiver's message channel
    current,         \* what is left to do of the message being handled
    heard            \* ticks since the handler last took a message

agentVars == <<up, service, load, events, health, changed, updateTimer, heartbeatTimer>>
linkVars == <<net, chan, current, heard>>
everything == <<vars, agentVars, linkVars>>

Health == [healthy: BOOLEAN, fails: 0..FailThreshold, passes: 0..PassThreshold]
Fresh == [k \in Key |-> [healthy |-> FALSE, fails |-> 0, passes |-> 0]]

\* A heartbeat payload: the backends with their health, and the predictive
\* state.  `kind' is not on the wire and the handler does not see it.
Bare(kind) == [kind |-> kind, claims |-> {}, predictive |-> "none"]
UpdateMsg(claims, p) == [kind |-> "update", claims |-> claims, predictive |-> p]

Message ==
    {UpdateMsg({<<k, h[k]>> : k \in Key}, p) : h \in [Key -> BOOLEAN], p \in Loads}
        \cup {Bare("heartbeat"), Bare("leave")}

HeartbeatMsg == Bare("heartbeat")
Nothing == HeartbeatMsg

-----------------------------------------------------------------------------
(* The agent *)

Send(m) == net' = net \cup {m}

Snapshot(k) == <<k, health[k].healthy>>
GetAllHealth == {Snapshot(k) : k \in Key}

\* Collect, compared with the thresholds: "none" if the host's counters cannot be read.
Collect == load

\* sendHealthUpdate: a snapshot of all backends and of the load.
CurrentUpdate == UpdateMsg(GetAllHealth, Collect)

\* performCheck and RecordResult: the counters are only compared with their
\* thresholds, so they stop there.
Recorded(h, pass) ==
    IF pass
    THEN LET n == IF h.passes < PassThreshold THEN h.passes + 1 ELSE h.passes
         IN [healthy |-> h.healthy \/ n >= PassThreshold, fails |-> 0, passes |-> n]
    ELSE LET n == IF h.fails < FailThreshold THEN h.fails + 1 ELSE h.fails
         IN [healthy |-> h.healthy /\ n < FailThreshold, fails |-> n, passes |-> 0]

PerformCheck(k) ==
    /\ health' = [health EXCEPT ![k] = Recorded(@, service[k])]
    /\ changed' = IF health'[k].healthy # health[k].healthy THEN changed \cup {k} ELSE changed

CheckLoop(k) ==
    /\ up
    /\ PerformCheck(k)
    /\ UNCHANGED <<vars, up, service, load, events, updateTimer, heartbeatTimer, linkVars>>

\* The goroutine a change starts sends whatever is true when it runs.
OnHealthChange(k) ==
    /\ k \in changed
    /\ changed' = changed \ {k}
    /\ Send(CurrentUpdate)
    /\ UNCHANGED <<vars, up, service, load, events, health, updateTimer, heartbeatTimer,
                   chan, current, heard>>

\* Faulty: only changes are reported, the periodic message is bare.
PeriodicTasksBare ==
    /\ up
    /\ updateTimer = 0
    /\ updateTimer' = UpdatePeriod
    /\ Send(Bare("heartbeat"))
    /\ UNCHANGED <<vars, up, service, load, events, health, changed, heartbeatTimer,
                   chan, current, heard>>

PeriodicTasks ==
    /\ up
    /\ updateTimer = 0
    /\ updateTimer' = UpdatePeriod
    /\ Send(CurrentUpdate)
    /\ UNCHANGED <<vars, up, service, load, events, health, changed, heartbeatTimer,
                   chan, current, heard>>

SendHeartbeat ==
    /\ up
    /\ heartbeatTimer = 0
    /\ heartbeatTimer' = HeartbeatPeriod
    /\ Send(HeartbeatMsg)
    /\ UNCHANGED <<vars, up, service, load, events, health, changed, updateTimer,
                   chan, current, heard>>

Event ==
    /\ events < MaxEvents
    /\ events' = events + 1

\* An update without backends.
sendDeregistration == Send(Bare("leave"))

\* The sender is stopped: what the agent has not sent it never will.
StopSender ==
    /\ up' = FALSE
    /\ changed' = {}

\* Stop: the farewell, then everything is stopped.
Stop ==
    /\ Event
    /\ up
    /\ sendDeregistration
    /\ StopSender
    /\ UNCHANGED <<vars, service, load, health, updateTimer, heartbeatTimer,
                   chan, current, heard>>

Crash ==
    /\ Event
    /\ up
    /\ StopSender
    /\ UNCHANGED <<vars, service, load, health, updateTimer, heartbeatTimer, linkVars>>

\* The sender has joined.  One that cannot join fails, and its agent stays down.
StartSender == up' = TRUE

\* A new agent knows nothing of its backends.
NewAgent == health' = Fresh

\* Its first heartbeat is due at once.
StartAgent ==
    /\ ~up
    /\ StartSender
    /\ NewAgent
    /\ updateTimer' = UpdatePeriod
    /\ heartbeatTimer' = 0
    /\ UNCHANGED <<vars, service, load, events, changed, net, chan, current, heard>>

\* The services and the load change.
Environment ==
    /\ Event
    /\ \/ \E k \in Key : service' = [service EXCEPT ![k] = ~@] /\ UNCHANGED load
       \/ load' \in Loads \ {load} /\ UNCHANGED service
    /\ UNCHANGED <<vars, up, health, changed, updateTimer, heartbeatTimer, linkVars>>

-----------------------------------------------------------------------------
(* The link *)

Lose(m) ==
    /\ m \in net
    /\ net' = net \ {m}
    /\ UNCHANGED <<vars, agentVars, chan, current, heard>>

\* NotifyMsg: a message that finds the channel full is dropped.
NotifyMsg(m) ==
    /\ m \in net
    /\ net' = net \ {m}
    /\ chan' = IF Len(chan) < ChanSize THEN Append(chan, m) ELSE chan
    /\ UNCHANGED <<vars, agentVars, current, heard>>

-----------------------------------------------------------------------------
(* The handler: one message after the other, a registry call at a time.     *)

\* What is left of a message: its backends and its predictive state.
parseHeartbeatPayload(m) == [m EXCEPT !.kind = "heartbeat"]

\* A predictive state that says nothing of bleeding says that there is none.
parsePredictiveHeartbeat(m) == m.predictive = "bleeding"

TakeMessage ==
    /\ current = Nothing
    /\ chan # <<>>
    /\ current' = parseHeartbeatPayload(Head(chan))
    /\ chan' = Tail(chan)
    /\ heard' = 0
    /\ UNCHANGED <<vars, agentVars, net>>

HandleBackend(k, healthy) ==
    /\ <<k, healthy>> \in current.claims
    /\ \E w \in Weight : Register(Self, k, w, healthy)
    /\ current' = [current EXCEPT !.claims = @ \ {<<k, healthy>>}]
    /\ UNCHANGED <<agentVars, net, chan, heard>>

\* Faulty: the signal may be handled before the backends are registered.
HandlePredictiveEarly ==
    /\ current.predictive # "none"
    /\ UpdateDraining(Self, parsePredictiveHeartbeat(current))
    /\ current' = [current EXCEPT !.predictive = "none"]
    /\ UNCHANGED <<agentVars, net, chan, heard>>

HandlePredictive ==
    /\ current.claims = {}
    /\ current.predictive # "none"
    /\ UpdateDraining(Self, parsePredictiveHeartbeat(current))
    /\ current' = [current EXCEPT !.predictive = "none"]
    /\ UNCHANGED <<agentVars, net, chan, heard>>

StaleCheck ==
    /\ CheckStaleBackends
    /\ UNCHANGED <<agentVars, linkVars>>

-----------------------------------------------------------------------------
(* Time: a timer that is due is served, and a goroutine that is at work has *)
(* finished, before time passes.                                            *)

Time ==
    /\ up => updateTimer > 0 /\ heartbeatTimer > 0
    /\ changed = {} /\ current = Nothing
    /\ Tick
    /\ updateTimer' = IF up THEN updateTimer - 1 ELSE updateTimer
    /\ heartbeatTimer' = IF up THEN heartbeatTimer - 1 ELSE heartbeatTimer
    /\ heard' = IF heard <= StaleThreshold THEN heard + 1 ELSE heard
    /\ UNCHANGED <<up, service, load, events, health, changed, net, chan, current>>

-----------------------------------------------------------------------------
\* The Overwatch has started with an empty store.
GossipInit ==
    /\ backends = [k \in Key |-> NoBackend]
    /\ store = [k \in Key |-> NoBackend]
    /\ phase = "running"
    /\ pending = {}
    /\ timer = CheckInterval
    /\ checked = FALSE
    /\ unsaved = {}
    /\ up = TRUE
    /\ service \in [Key -> BOOLEAN]
    /\ load \in Loads
    /\ events = 0
    /\ health = Fresh
    /\ changed = {}
    /\ updateTimer = UpdatePeriod
    /\ heartbeatTimer = 0
    /\ net = {}
    /\ chan = <<>>
    /\ current = Nothing
    /\ heard = 0

GossipNext ==
    \/ \E k \in Key : CheckLoop(k) \/ OnHealthChange(k)
    \/ PeriodicTasks
    \/ SendHeartbeat
    \/ Stop
    \/ Crash
    \/ StartAgent
    \/ Environment
    \/ \E m \in net : Lose(m) \/ NotifyMsg(m)
    \/ TakeMessage
    \/ \E k \in Key, healthy \in BOOLEAN : HandleBackend(k, healthy)
    \/ HandlePredictive
    \/ StaleCheck
    \/ Time

GossipSpec == GossipInit /\ [][GossipNext]_everything

\* Timers fire, goroutines run, a message does not stay in flight for ever,
\* and an update that is sent again and again arrives again and again.
Fairness ==
    /\ \A k \in Key : WF_everything(CheckLoop(k)) /\ WF_everything(OnHealthChange(k))
    /\ WF_everything(PeriodicTasks) /\ WF_everything(SendHeartbeat)
    /\ \A m \in Message : WF_everything(Lose(m) \/ NotifyMsg(m))
    /\ SF_everything(NotifyMsg(CurrentUpdate))
    /\ WF_everything(TakeMessage) /\ WF_everything(HandlePredictive)
    /\ \A k \in Key, healthy \in BOOLEAN : WF_everything(HandleBackend(k, healthy))
    /\ WF_everything(StaleCheck) /\ WF_everything(Time)

FairGossipSpec == GossipSpec /\ Fairness

-----------------------------------------------------------------------------
(* Properties *)

\* Type correctness of the agent, the link and the handler.
GossipTypeOK ==
    /\ up \in BOOLEAN
    /\ service \in [Key -> BOOLEAN]
    /\ load \in Loads
    /\ events \in 0..MaxEvents
    /\ health \in [Key -> Health]
    /\ changed \subseteq Key
    /\ updateTimer \in 0..UpdatePeriod
    /\ heartbeatTimer \in 0..HeartbeatPeriod
    /\ net \subseteq Message
    /\ chan \in Seq(Message) /\ Len(chan) <= ChanSize
    /\ heard \in 0..(StaleThreshold + 1)

\* The agent stays up, and from some time on the handler is fast enough for no
\* message to find the channel full.
Connected ==
    /\ <>[]up
    /\ <>[][\A m \in net : NotifyMsg(m) => Len(chan) < ChanSize]_everything

\* An agent that stays up keeps its backends registered, and once the services
\* stop changing the Overwatch comes to believe what is true of them for good,
\* although updates are lost or overtaken by older ones (periodicTasks repeats
\* the whole state, onHealthChange alone would not do).
ClaimConverges ==
    Connected => \A k \in Key :
        /\ []<>Present(k)
        /\ <>[](Present(k) => backends[k].claim = service[k])

\* Likewise the drain flag comes to follow the agent's load, as long as the
\* load can be measured.
DrainFollowsLoad ==
    Connected /\ <>[](load # "none") => \A k \in Key :
        []<>(Present(k) /\ backends[k].draining = (load = "bleeding"))

\* The backends of an agent that is gone, with or without a farewell, and
\* whatever of its messages still arrives late, are removed for good
\* (RemoveAfter in checkStaleBackends).
StoppedAgentForgotten ==
    <>[]~up => \A k \in Key : <>[]~Present(k)

(* What the documentation says and the code does not do. *)

\* docs/configuration.md:265 "Time without heartbeat before marking stale": a
\* backend is stale only when nothing has been heard from its agent for longer
\* than the threshold.  Heartbeats carry no backends and renew none.
HeartbeatsKeepFresh ==
    \A k \in Key : Present(k) /\ backends[k].status = "stale" => heard > StaleThreshold

=============================================================================
