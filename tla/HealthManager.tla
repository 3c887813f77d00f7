---------------------------- MODULE HealthManager ----------------------------
(***************************************************************************)
(* The health manager of the Overwatch (pkg/health/manager.go, status.go): *)
(* a check loop for every static server, the thresholds that turn results  *)
(* into a status, reconfiguration on SIGHUP and the shutdown that waits    *)
(* for the loops.                                                          *)
(*                                                                         *)
(* Three kinds of goroutines meet: the one that starts the process, the    *)
(* signal loop (Reconfigure, Stop) and the check loops.  Manager.mu is     *)
(* held within one step of each, except in Stop, whose locking matters     *)
(* and is spelled out.                                                     *)
(*                                                                         *)
(* The n-th serverEntry made for server s is <<s, n>>.  A ServerHealth     *)
(* object, which an entry may inherit from the one it replaces, has the    *)
(* name of the entry it was made for.                                      *)
(***************************************************************************)
EXTENDS Integers

CONSTANTS
    Server,         \* "address:port" keys
    Conf,           \* check configurations (path, scheme, host, interval, timeout)
    Lists,          \* the server lists of configuration files: functions to Conf
    FailThreshold,  \* consecutive failures that make a server unhealthy
    PassThreshold,  \* consecutive passes that make it healthy
    MaxMade,        \* bound on the entries made for a server
    MaxEvents       \* bound on the changes of the servers

ASSUME HealthAssumption ==
    /\ \A list \in Lists : DOMAIN list \subseteq Server /\ list \in [DOMAIN list -> Conf]
    /\ Conf # {}
    /\ FailThreshold \in Nat \ {0} /\ PassThreshold \in Nat \ {0}
    /\ MaxMade \in Nat \ {0} /\ MaxEvents \in Nat

VARIABLES
    made,     \* how many entries were made for each server
    listed,   \* whether the server is in Manager.servers, with its last entry
    entry,    \* the serverEntry objects
    health,   \* the ServerHealth objects
    loop,     \* where the check loop of each entry is
    running,  \* Manager.running
    closed,   \* Manager.stopCh is closed
    locked,   \* Stop holds Manager.mu
    main,     \* where the signal loop is
    good,     \* the configurations a server passes the checks of
    events    \* how often `good' has changed

vars == <<made, listed, entry, health, loop, running, closed, locked, main, good, events>>

Entry == Server \X (1..MaxMade)

Health == [status: {"unknown", "healthy", "unhealthy"},
           passes: 0..PassThreshold, fails: 0..FailThreshold]

\* NewServerHealth
Fresh == [status |-> "unknown", passes |-> 0, fails |-> 0]

\* The entry of a listed server.
Current(s) == <<s, made[s]>>

\* checkLoop runs: it is counted in Manager.wg.
Alive(e) == loop[e] \notin {"none", "done"}

HealthOf(e) == <<e[1], entry[e].health>>

-----------------------------------------------------------------------------
(* The check loops *)

\* Faulty: the target is built from the configuration the server was added with.
BeginCheckFirstConf(e) ==
    /\ loop[e] \in {"started", "waiting"}
    /\ loop' = [loop EXCEPT ![e] =
                  IF entry[<<e[1], 1>>].conf \in good[e[1]] THEN "passed" ELSE "failed"]
    /\ UNCHANGED <<made, listed, entry, health, running, closed, locked, main, good, events>>

\* performCheck begins: at once when the loop starts, then whenever the ticker
\* fires.  Its result is what the server is like now; it is recorded later.
BeginCheck(e) ==
    /\ loop[e] \in {"started", "waiting"}
    /\ loop' = [loop EXCEPT ![e] =
                  IF entry[e].conf \in good[e[1]] THEN "passed" ELSE "failed"]
    /\ UNCHANGED <<made, listed, entry, health, running, closed, locked, main, good, events>>

\* Faulty: a pass does not end a run of failures.
RecordResultNoReset(h, pass) ==
    IF pass
    THEN LET n == IF h.passes < PassThreshold THEN h.passes + 1 ELSE h.passes
         IN [status |-> IF n >= PassThreshold THEN "healthy" ELSE h.status,
             passes |-> n, fails |-> h.fails]
    ELSE LET n == IF h.fails < FailThreshold THEN h.fails + 1 ELSE h.fails
         IN [status |-> IF n >= FailThreshold THEN "unhealthy" ELSE h.status,
             passes |-> 0, fails |-> n]

\* RecordResult; the counters are only compared with their thresholds, so they
\* stop there.
RecordResult(h, pass) ==
    IF pass
    THEN LET n == IF h.passes < PassThreshold THEN h.passes + 1 ELSE h.passes
         IN [status |-> IF n >= PassThreshold THEN "healthy" ELSE h.status,
             passes |-> n, fails |-> 0]
    ELSE LET n == IF h.fails < FailThreshold THEN h.fails + 1 ELSE h.fails
         IN [status |-> IF n >= FailThreshold THEN "unhealthy" ELSE h.status,
             passes |-> 0, fails |-> n]

\* performCheck has its result: it is recorded in the health object, which a
\* newer entry may share by now.
Record(e) ==
    /\ loop[e] \in {"passed", "failed"}
    /\ LET o == HealthOf(e)
           h == RecordResult(health[o], loop[e] = "passed")
       IN /\ health' = [health EXCEPT ![o] = h]
          /\ loop' = [loop EXCEPT ![e] =
                        IF h.status # health[o].status THEN "notifying" ELSE "waiting"]
    /\ UNCHANGED <<made, listed, entry, running, closed, locked, main, good, events>>

\* A change of status reads the callback under Manager.mu; none is set.
Notify(e) ==
    /\ loop[e] = "notifying"
    /\ ~locked
    /\ loop' = [loop EXCEPT ![e] = "waiting"]
    /\ UNCHANGED <<made, listed, entry, health, running, closed, locked, main, good, events>>

\* One of the two stop channels is closed.  A ticker that fires as well may be
\* served first: select chooses at random.
EndLoop(e) ==
    /\ loop[e] = "waiting"
    /\ closed \/ entry[e].stopped
    /\ loop' = [loop EXCEPT ![e] = "done"]
    /\ UNCHANGED <<made, listed, entry, health, running, closed, locked, main, good, events>>

-----------------------------------------------------------------------------
(* The start of the process *)

\* registerHealthCheckServers has added the servers of a configuration.
Init ==
    /\ \E list \in Lists :
          /\ made = [s \in Server |-> IF s \in DOMAIN list THEN 1 ELSE 0]
          /\ listed = [s \in Server |-> s \in DOMAIN list]
          /\ entry = [e \in Entry |->
                        [conf |-> IF e[1] \in DOMAIN list THEN list[e[1]]
                                                          ELSE CHOOSE c \in Conf : TRUE,
                         health |-> 1, stopped |-> FALSE]]
    /\ health = [e \in Entry |-> Fresh]
    /\ loop = [e \in Entry |-> "none"]
    /\ running = FALSE
    /\ closed = FALSE
    /\ locked = FALSE
    /\ main = "serving"
    /\ good \in [Server -> SUBSET Conf]
    /\ events = 0

\* Start starts a loop for every listed server.  It is called once, by a
\* goroutine that the signal loop does not wait for.
Start ==
    /\ ~locked
    /\ ~running /\ ~closed
    /\ running' = TRUE
    /\ loop' = [e \in Entry |-> IF listed[e[1]] /\ e = Current(e[1]) THEN "started"
                                                                      ELSE loop[e]]
    /\ UNCHANGED <<made, listed, entry, health, closed, locked, main, good, events>>

-----------------------------------------------------------------------------
(* The signal loop *)

\* Entries Reconfigure makes and entries whose channel it closes: removed
\* servers, added ones, and those whose configuration changed.
Changed(s, list) ==
    listed[s] /\ s \in DOMAIN list /\ entry[Current(s)].conf # list[s]
Gets(s, list) == (s \in DOMAIN list /\ ~listed[s]) \/ Changed(s, list)

\* Faulty: the loop of a changed server is not told to stop.
LosesRemovedOnly(s, list) == listed[s] /\ s \notin DOMAIN list

Loses(s, list) == (listed[s] /\ s \notin DOMAIN list) \/ Changed(s, list)

\* A changed server keeps its health object.
Reconfigure(list) ==
    /\ ~locked
    /\ main = "serving"
    /\ \A s \in Server : Gets(s, list) => made[s] < MaxMade
    /\ made' = [s \in Server |-> IF Gets(s, list) THEN made[s] + 1 ELSE made[s]]
    /\ listed' = [s \in Server |-> s \in DOMAIN list]
    /\ entry' = [e \in Entry |->
          LET s == e[1] IN
          IF Gets(s, list) /\ e[2] = made[s] + 1
          THEN [conf |-> list[s], stopped |-> FALSE,
                health |-> IF listed[s] THEN entry[Current(s)].health ELSE made[s] + 1]
          ELSE IF Loses(s, list) /\ e[2] = made[s]
          THEN [entry[e] EXCEPT !.stopped = TRUE]
          ELSE entry[e]]
    /\ loop' = [e \in Entry |->
          IF running /\ Gets(e[1], list) /\ e[2] = made[e[1]] + 1 THEN "started"
                                                                  ELSE loop[e]]
    /\ UNCHANGED <<health, running, closed, locked, main, good, events>>

\* Stop
StopLock ==
    /\ main = "serving"
    /\ ~locked
    /\ locked' = TRUE
    /\ main' = "stopping"
    /\ UNCHANGED <<made, listed, entry, health, loop, running, closed, good, events>>

\* Faulty: the lock is held while Stop waits.
StopCloseLocked ==
    /\ main = "stopping"
    /\ running' = FALSE
    /\ closed' = (closed \/ running)
    /\ main' = IF running THEN "waiting" ELSE "stopped"
    /\ UNCHANGED <<made, listed, entry, health, loop, locked, good, events>>

StopClose ==
    /\ main = "stopping"
    /\ running' = FALSE
    /\ closed' = (closed \/ running)
    /\ locked' = FALSE
    /\ main' = IF running THEN "waiting" ELSE "stopped"
    /\ UNCHANGED <<made, listed, entry, health, loop, good, events>>

\* Faulty: loops that are in the middle of a check are not waited for.
StopReturnEarly ==
    /\ main = "waiting"
    /\ \A e \in Entry : loop[e] # "waiting"
    /\ main' = "stopped"
    /\ UNCHANGED <<made, listed, entry, health, loop, running, closed, locked, good, events>>

\* wg.Wait() returns.
StopReturn ==
    /\ main = "waiting"
    /\ \A e \in Entry : ~Alive(e)
    /\ main' = "stopped"
    /\ UNCHANGED <<made, listed, entry, health, loop, running, closed, locked, good, events>>

-----------------------------------------------------------------------------
\* A server changes.
Environment ==
    /\ events < MaxEvents
    /\ events' = events + 1
    /\ \E s \in Server, cs \in SUBSET Conf :
          cs # good[s] /\ good' = [good EXCEPT ![s] = cs]
    /\ UNCHANGED <<made, listed, entry, health, loop, running, closed, locked, main>>

\* The process has ended.
Done == main = "stopped" /\ UNCHANGED vars

Loop(e) == BeginCheck(e) \/ Record(e) \/ Notify(e) \/ EndLoop(e)

Stop == StopLock \/ StopClose \/ StopReturn

Next ==
    \/ \E e \in Entry : Loop(e)
    \/ Start
    \/ \E list \in Lists : Reconfigure(list)
    \/ Stop
    \/ Environment
    \/ Done

Spec == Init /\ [][Next]_vars

\* Goroutines run, tickers fire, and a loop that is offered its stop channel
\* again and again takes it (select chooses at random).
Fairness ==
    /\ \A e \in Entry :
          /\ WF_vars(BeginCheck(e)) /\ WF_vars(Record(e)) /\ WF_vars(Notify(e))
          /\ SF_vars(EndLoop(e))
    /\ WF_vars(Start) /\ WF_vars(StopClose) /\ WF_vars(StopReturn)

FairSpec == Spec /\ Fairness

-----------------------------------------------------------------------------
(* Properties *)

\* Type correctness of the manager, its loops and the signal loop.
TypeOK ==
    /\ made \in [Server -> 0..MaxMade]
    /\ listed \in [Server -> BOOLEAN]
    /\ entry \in [Entry -> [conf: Conf, health: 1..MaxMade, stopped: BOOLEAN]]
    /\ health \in [Entry -> Health]
    /\ loop \in [Entry -> {"none", "started", "passed", "failed", "notifying", "waiting", "done"}]
    /\ running \in BOOLEAN /\ closed \in BOOLEAN /\ locked \in BOOLEAN
    /\ main \in {"serving", "stopping", "waiting", "stopped"}
    /\ good \in [Server -> SUBSET Conf]
    /\ events \in 0..MaxEvents

\* While the manager runs, the loops nobody has told to stop are exactly those
\* of the listed servers' entries: Reconfigure leaves no server unchecked, no
\* loop checking for a configuration that is gone, and never closes a channel
\* twice.
OneLoopPerServer ==
    running => \A e \in Entry :
        Alive(e) /\ ~entry[e].stopped <=> listed[e[1]] /\ e = Current(e[1])

\* When Stop has returned to a caller that found the manager running, no check
\* is under way and none will begin.
QuietAfterStop ==
    main = "stopped" /\ closed => \A e \in Entry : ~Alive(e)

\* The status of a listed server agrees with the run of equal results that the
\* check loops, two of them perhaps for a moment, recorded last.
StatusFollowsRuns ==
    \A s \in Server : listed[s] =>
        LET h == health[HealthOf(Current(s))] IN
        /\ h.passes = 0 \/ h.fails = 0
        /\ h.status = "healthy" => h.fails < FailThreshold
        /\ h.status = "unhealthy" => h.passes < PassThreshold
        /\ h.status = "unknown" => h.fails < FailThreshold /\ h.passes < PassThreshold

\* Stop returns, also when a check changes a status and asks for the lock
\* while Stop waits for it.
StopReturns == main = "stopping" ~> main = "stopped"

\* As long as the process serves, the status of every server comes to be what
\* a check with the configuration in force says, whatever late results of
\* replaced loops are recorded in between.
StatusConverges ==
    <>[](main = "serving") => \A s \in Server :
        <>[](listed[s] =>
               health[HealthOf(Current(s))].status =
                 IF entry[Current(s)].conf \in good[s] THEN "healthy" ELSE "unhealthy")

=============================================================================
