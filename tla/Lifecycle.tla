----------------------------- MODULE Lifecycle ------------------------------
(***************************************************************************)
(* The life of an Overwatch process (cmd/opengslb): signals, the main      *)
(* loop, reload, the goroutine that starts the components one after the    *)
(* other, the shutdown that stops them, and the validator, the one of them *)
(* whose work a shutdown cuts short.                                       *)
(*                                                                         *)
(* Signals wait in a channel with room for one.  The main loop reloads     *)
(* while it handles SIGHUP; a shutdown does not wait for the goroutine     *)
(* that is still starting components.  What each component does while it   *)
(* runs is in the modules of its own.                                      *)
(***************************************************************************)
EXTENDS Naturals, Sequences, FiniteSets

CONSTANTS
    Backend,       \* backends of the registry
    Answers,       \* those among them that answer a check in time
    Version,       \* versions of the configuration file
    MaxConcurrent, \* checks of the validator at a time
    None,
    MaxSignals,    \* bound: signals in a behaviour
    MaxRestarts    \* bound: restarts

ASSUME LifecycleAssumption ==
    /\ Answers \subseteq Backend
    /\ Version # {} /\ None \notin Version
    /\ MaxConcurrent \in Nat \ {0}
    /\ {MaxSignals, MaxRestarts} \subseteq Nat

VARIABLES
    sigChan,   \* the signal that waits, if any
    main,      \* what the main goroutine is doing
    stop,      \* where in StopOrder its shutdown is
    start,     \* where in StartOrder app.Start is
    errChan,   \* what app.Start has returned, if it has
    comp,      \* of each component: "new", "running" or "stopped"
    canceled,  \* contexts that were cancelled
    loop,      \* goroutine of each component that has one
    cycle,     \* the backends the validator's cycle has not begun to check
    checks,    \* its checks under way: <<backend, begun after the cancellation>>
    closed,    \* BboltStore.closed
    verdict,   \* Backend.ValidationHealthy
    stored,    \* the same in the store
    config,    \* the versions that the application and two components use
    asked,     \* SIGTERM was sent to the process
    signals,   \* signals sent so far
    late,      \* loops that were started when their Stop was over
    restarts

procVars == <<main, stop, start, errChan, comp, canceled, config, late>>
loopVars == <<loop, cycle, checks, closed, verdict, stored>>
envVars  == <<sigChan, asked, signals, restarts>>
vars == <<procVars, loopVars, envVars>>

Signal == {"HUP", "TERM"}

\* The order of startOverwatchMode and of shutdownOverwatchMode.
StartOrder == <<"health", "registry", "validator", "receiver", "handler", "api", "dns">>

\* Faulty: the store is closed while the registry still runs.
StoreFirst == <<"handler", "receiver", "validator", "store", "registry", "api", "health">>

StopOrder == <<"handler", "receiver", "validator", "registry", "store", "api", "health">>

Component == {StartOrder[i] : i \in 1..Len(StartOrder)}

\* The components whose Stop waits for their goroutine.  Nothing waits for the
\* gossip handler, nor for long for an API request: what they still write when
\* the store is closed is refused there, and that is only logged.
Loop == {"registry", "validator"}

\* The configuration a process begins with; which one makes no difference.
Loaded == LET v == CHOOSE v \in Version : TRUE IN [app |-> v, dns |-> v, health |-> v]

Init ==
    /\ main = "select"
    /\ stop = 1 /\ start = 1
    /\ errChan = None
    /\ comp = [c \in Component |-> "new"]
    /\ canceled = {}
    /\ config = Loaded
    /\ late = {}
    /\ loop = [c \in Loop |-> "off"]
    /\ cycle = {} /\ checks = {}
    /\ closed = FALSE
    /\ verdict = [b \in Backend |-> None]
    /\ stored = [b \in Backend |-> None]
    /\ sigChan = None
    /\ asked = FALSE
    /\ signals = 0
    /\ restarts = 0

-----------------------------------------------------------------------------
(* Signals *)

\* signal.Notify does not wait: with the channel full the signal is dropped.
Notify(s) ==
    /\ main # "exited"
    /\ signals < MaxSignals
    /\ signals' = signals + 1
    /\ asked' = (asked \/ s = "TERM")
    /\ sigChan' = IF sigChan = None THEN s ELSE sigChan
    /\ UNCHANGED <<procVars, loopVars, restarts>>

-----------------------------------------------------------------------------
(* app.Start, in its own goroutine *)

Starting(c) == errChan = None /\ start <= Len(StartOrder) /\ StartOrder[start] = c

\* Shutdown has come past the Stop of c.
StopOver(c) == \E i \in 1..(stop - 1) : StopOrder[i] = c

\* Neither loop is kept from starting by a Stop that is over; only the
\* registry's context stays cancelled.  A loop of the registry that starts while
\* its Stop still waits is waited for as well.
StartLoop(c) ==
    /\ main # "exited"
    /\ Starting(c)
    /\ start' = start + 1
    /\ comp' = [comp EXCEPT ![c] = IF c = "registry" /\ @ = "stopped" THEN @ ELSE "running"]
    /\ loop' = [loop EXCEPT ![c] = "idle"]
    /\ late' = IF StopOver(c) THEN late \cup {c} ELSE late
    /\ UNCHANGED <<main, stop, errChan, canceled, config, cycle, checks, closed, verdict, stored, envVars>>

StartComponent(c) ==
    /\ main # "exited"
    /\ Starting(c)
    /\ start' = start + 1
    /\ comp' = [comp EXCEPT ![c] = "running"]
    /\ UNCHANGED <<main, stop, errChan, canceled, config, late, loopVars, envVars>>

\* The gossip or the DNS port cannot be bound, or the DNS server breaks down
\* later: Start returns the error.
StartFails ==
    /\ main # "exited"
    /\ errChan = None
    /\ \/ Starting("receiver") \/ Starting("dns")
       \/ comp["dns"] = "running"
    /\ errChan' = "error"
    /\ comp' = [comp EXCEPT !["dns"] = "stopped"]
    /\ UNCHANGED <<main, stop, start, canceled, config, late, loopVars, envVars>>

\* The DNS server sees the cancellation, shuts down and Start returns.
DNSShutdown ==
    /\ main # "exited"
    /\ comp["dns"] = "running"
    /\ "main" \in canceled
    /\ errChan' = "nil"
    /\ comp' = [comp EXCEPT !["dns"] = "stopped"]
    /\ UNCHANGED <<main, stop, start, canceled, config, late, loopVars, envVars>>

-----------------------------------------------------------------------------
(* The main loop *)

ReceiveHUP ==
    /\ main = "select"
    /\ sigChan = "HUP"
    /\ sigChan' = None
    /\ main' = "reload"
    /\ UNCHANGED <<stop, start, errChan, comp, canceled, config, late, loopVars, asked, signals, restarts>>

\* Permissions, syntax, a changed mode or an unknown routing algorithm: the
\* reload ends before anything is replaced.
ReloadFails ==
    /\ main = "reload"
    /\ main' = "select"
    /\ UNCHANGED <<stop, start, errChan, comp, canceled, config, late, loopVars, envVars>>

\* Faulty: a domain that cannot be built fails the reload when the others have
\* been replaced.
ReloadInPlace(v) ==
    /\ main = "reload"
    /\ config' = [config EXCEPT !.dns = v]
    /\ main' \in {"reload health", "select"}
    /\ UNCHANGED <<stop, start, errChan, comp, canceled, late, loopVars, envVars>>

reloadDNSRegistry(v) ==
    /\ main = "reload"
    /\ config' = [config EXCEPT !.dns = v]
    /\ main' = "reload health"
    /\ UNCHANGED <<stop, start, errChan, comp, canceled, late, loopVars, envVars>>

reloadHealthManager ==
    /\ main = "reload health"
    /\ config' = [config EXCEPT !.health = config.dns, !.app = config.dns]
    /\ main' = "select"
    /\ UNCHANGED <<stop, start, errChan, comp, canceled, late, loopVars, envVars>>

\* SIGTERM, or Start has returned: cancel() and then Shutdown.
BeginShutdown ==
    /\ main = "select"
    /\ \/ sigChan = "TERM" /\ sigChan' = None
       \/ errChan # None /\ UNCHANGED sigChan
    /\ canceled' = canceled \cup {"main"}
    /\ main' = "shutdown"
    /\ UNCHANGED <<stop, start, errChan, comp, config, late, loopVars, asked, signals, restarts>>

-----------------------------------------------------------------------------
(* shutdownOverwatchMode *)

Stopping(c) == main = "shutdown" /\ stop <= Len(StopOrder) /\ StopOrder[stop] = c

\* A Stop that does not wait, or not for long: the handler's cancels, the
\* receiver's closes the message channel, the API server's gives up after five
\* seconds, and the health manager's is in HealthManager.
StopComponent ==
    /\ \E c \in {"handler", "receiver", "api", "health"} :
          /\ Stopping(c)
          /\ comp' = [comp EXCEPT ![c] = "stopped"]
    /\ stop' = stop + 1
    /\ UNCHANGED <<main, start, errChan, canceled, config, late, loopVars, envVars>>

\* Faulty: the validator's context is not cancelled.
ForgetCancel ==
    /\ \/ Stopping("validator") /\ comp["validator"] = "running" /\ UNCHANGED canceled
       \/ Stopping("registry") /\ comp["registry"] # "stopped" /\ canceled' = canceled \cup {"registry"}
    /\ comp' = [comp EXCEPT ![StopOrder[stop]] = "stopped"]
    /\ UNCHANGED <<main, stop, start, errChan, config, late, loopVars, envVars>>

\* A validator that does not run is left alone; the registry's context is made
\* with the registry and so cancelled whether it was started or not.
Cancel ==
    /\ \/ Stopping("validator") /\ comp["validator"] = "running"
       \/ Stopping("registry") /\ comp["registry"] # "stopped"
    /\ comp' = [comp EXCEPT ![StopOrder[stop]] = "stopped"]
    /\ canceled' = canceled \cup {StopOrder[stop]}
    /\ UNCHANGED <<main, stop, start, errChan, config, late, loopVars, envVars>>

\* wg.Wait()
Wait ==
    /\ \/ Stopping("validator") /\ comp["validator"] # "running"
       \/ Stopping("registry") /\ comp["registry"] = "stopped"
    /\ loop[StopOrder[stop]] = "off"
    /\ comp' = [comp EXCEPT ![StopOrder[stop]] = "stopped"]
    /\ stop' = stop + 1
    /\ UNCHANGED <<main, start, errChan, canceled, config, late, loopVars, envVars>>

Close ==
    /\ Stopping("store")
    /\ closed' = TRUE
    /\ stop' = stop + 1
    /\ UNCHANGED <<main, start, errChan, comp, canceled, config, late, loop, cycle, checks, verdict, stored, envVars>>

\* main returns, and with it every goroutine ends, Start's too.
Exit ==
    /\ main = "shutdown"
    /\ stop = Len(StopOrder) + 1
    /\ main' = "exited"
    /\ stop' = 1 /\ start' = 1
    /\ errChan' = None
    /\ comp' = [c \in Component |-> "new"]
    /\ canceled' = {}
    /\ late' = {}
    /\ loop' = [c \in Loop |-> "off"]
    /\ cycle' = {} /\ checks' = {}
    /\ closed' = FALSE
    /\ verdict' = [b \in Backend |-> None]
    /\ sigChan' = None
    /\ asked' = FALSE
    /\ UNCHANGED <<config, stored, signals, restarts>>

\* The next process, with what the store holds.
Restart ==
    /\ main = "exited"
    /\ restarts < MaxRestarts
    /\ restarts' = restarts + 1
    /\ main' = "select"
    /\ config' = Loaded
    /\ verdict' = stored
    /\ UNCHANGED <<stop, start, errChan, comp, canceled, late, loop, cycle, checks, closed, stored,
                   sigChan, asked, signals>>

-----------------------------------------------------------------------------
(* The loops *)

Over(c) == c \in canceled

\* One search of the registry for stale backends.
StaleSearch ==
    /\ loop["registry"] = "idle"
    /\ loop' = [loop EXCEPT !["registry"] = "working"]
    /\ UNCHANGED <<procVars, cycle, checks, closed, verdict, stored, envVars>>

SearchDone ==
    /\ loop["registry"] = "working"
    /\ loop' = [loop EXCEPT !["registry"] = "idle"]
    /\ UNCHANGED <<procVars, cycle, checks, closed, verdict, stored, envVars>>

\* The select of a loop sees that it is over; a tick that has come as well
\* may be chosen first.
EndLoop(c) ==
    /\ loop[c] = "idle"
    /\ Over(c)
    /\ loop' = [loop EXCEPT ![c] = "off"]
    /\ UNCHANGED <<procVars, cycle, checks, closed, verdict, stored, envVars>>

\* Faulty: backends that failed are not tried again.
ValidateHealthy ==
    /\ loop["validator"] = "idle"
    /\ loop' = [loop EXCEPT !["validator"] = "working"]
    /\ cycle' = {b \in Backend : verdict[b] # FALSE}
    /\ UNCHANGED <<procVars, checks, closed, verdict, stored, envVars>>

\* The first cycle, or a tick: all backends, the stale ones too.
ValidateAll ==
    /\ loop["validator"] = "idle"
    /\ loop' = [loop EXCEPT !["validator"] = "working"]
    /\ cycle' = Backend
    /\ UNCHANGED <<procVars, checks, closed, verdict, stored, envVars>>

BeginCheck(b) ==
    /\ b \in cycle
    /\ Cardinality(checks) < MaxConcurrent
    /\ cycle' = cycle \ {b}
    /\ checks' = checks \cup {<<b, Over("validator")>>}
    /\ UNCHANGED <<procVars, loop, closed, verdict, stored, envVars>>

\* A cancelled check fails, and its failure is recorded like any other.  One
\* that was under way when it was cancelled may have had its answer.
Outcomes(b, doomed) ==
    {healthy \in BOOLEAN : \/ healthy = (b \in Answers) /\ ~doomed
                           \/ ~healthy /\ (b \notin Answers \/ Over("validator"))}

EndCheck(b, doomed) ==
    /\ <<b, doomed>> \in checks
    /\ checks' = checks \ {<<b, doomed>>}
    /\ \E healthy \in Outcomes(b, doomed) :
          /\ verdict' = [verdict EXCEPT ![b] = healthy]
          /\ stored' = IF closed THEN stored ELSE [stored EXCEPT ![b] = healthy]
    /\ UNCHANGED <<procVars, loop, cycle, closed, envVars>>

EndCycle ==
    /\ loop["validator"] = "working"
    /\ cycle = {} /\ checks = {}
    /\ loop' = [loop EXCEPT !["validator"] = "idle"]
    /\ UNCHANGED <<procVars, cycle, checks, closed, verdict, stored, envVars>>

-----------------------------------------------------------------------------
StartNext == (\E c \in Loop : StartLoop(c)) \/ \E c \in Component \ Loop : StartComponent(c)

StartStep == StartNext \/ StartFails \/ DNSShutdown

Reload == ReloadFails \/ (\E v \in Version : reloadDNSRegistry(v)) \/ reloadHealthManager

Shutdown == StopComponent \/ Cancel \/ Wait \/ Close

MainStep == ReceiveHUP \/ Reload \/ BeginShutdown \/ Shutdown \/ Exit

Validate == ValidateAll \/ EndCycle \/ \E b \in Backend :
                BeginCheck(b) \/ \E doomed \in BOOLEAN : EndCheck(b, doomed)

Next ==
    \/ \E s \in Signal : Notify(s)
    \/ StartStep \/ MainStep \/ Restart
    \/ Validate \/ StaleSearch \/ SearchDone
    \/ \E c \in Loop : EndLoop(c)

Spec == Init /\ [][Next]_vars

\* Goroutines run and checks time out, so that every piece of work ends; a
\* select with two cases ready chooses each of them again and again.
Fairness ==
    /\ WF_vars(MainStep)
    /\ WF_vars(StartNext \/ DNSShutdown)
    /\ WF_vars(Validate)
    /\ WF_vars(SearchDone)
    /\ \A c \in Loop : SF_vars(EndLoop(c))

FairSpec == Spec /\ Fairness

-----------------------------------------------------------------------------
(* Properties *)

\* What the variables hold.
TypeOK ==
    /\ sigChan \in Signal \cup {None}
    /\ main \in {"select", "reload", "reload health", "shutdown", "exited"}
    /\ stop \in 1..Len(StopOrder) + 1 /\ start \in 1..Len(StartOrder) + 1
    /\ errChan \in {None, "error", "nil"}
    /\ comp \in [Component -> {"new", "running", "stopped"}]
    /\ loop \in [Loop -> {"off", "idle", "working"}]
    /\ cycle \subseteq Backend /\ checks \subseteq Backend \X BOOLEAN
    /\ verdict \in [Backend -> BOOLEAN \cup {None}] /\ stored \in [Backend -> BOOLEAN \cup {None}]

\* A SIGTERM that reached the channel ends the process, whatever is being
\* started, reloaded, validated or requested: no Stop waits for ever.
TermStops == sigChan = "TERM" ~> main = "exited"

\* The store is closed when neither the validator nor the search for stale
\* backends can write to it any more, unless they were started after their own
\* Stop.
WritersDone ==
    closed =>
        \A c \in {"validator", "registry"} : loop[c] = "off" \/ c \in late

\* A reload that fails leaves the DNS registry, the health manager and the
\* application with one and the same configuration, the one they had.
ReloadAllOrNothing ==
    main = "select" => config.app = config.dns /\ config.dns = config.health

\* The failures that a shutdown records for backends it cut off, and leaves in
\* the store, do not outlast the next process's validation: in the end the
\* process has exited or holds of every backend what the backend answers.
VerdictsHeal ==
    <>[](main = "exited" \/ \A b \in Backend : verdict[b] = (b \in Answers))

\* What main.go says of its signal channel: "Handle shutdown signals (SIGINT,
\* SIGTERM)".
TermHonoured == asked ~> main = "exited"
=============================================================================
