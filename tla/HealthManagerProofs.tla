------------------------- MODULE HealthManagerProofs -------------------------
(***************************************************************************)
(* Proofs about HealthManager: type correctness, one check loop per listed *)
(* server, no check after Stop, and statuses that follow the recorded      *)
(* results, for any servers, configurations and thresholds.                *)
(***************************************************************************)
EXTENDS HealthManager, TLAPS

-----------------------------------------------------------------------------
(* The inductive invariant *)

\* Entries that were not made yet have no loop and an untouched health object.
UnmadeIdle ==
    \A e \in Entry : e[2] > made[e[1]] => loop[e] = "none" /\ ~entry[e].stopped

\* Entries that were replaced or removed were told to stop.
OldStopped ==
    \A e \in Entry :
        e[2] <= made[e[1]] /\ ~(listed[e[1]] /\ e = Current(e[1])) => entry[e].stopped

\* A listed server's entry exists and is open.
CurrentOpen ==
    \A s \in Server : listed[s] => made[s] >= 1 /\ ~entry[Current(s)].stopped

\* A running manager checks every listed server, one that never ran none.
LoopsRun ==
    /\ running => \A s \in Server : listed[s] => Alive(Current(s))
    /\ ~running /\ ~closed => \A e \in Entry : loop[e] = "none"

\* Where the signal loop is when Stop's effects are visible.
StopPhases ==
    /\ closed => ~running /\ main \in {"waiting", "stopped"}
    /\ main = "waiting" => closed

\* RecordResult's counters and status agree.
HealthOK(h) ==
    /\ h.passes = 0 \/ h.fails = 0
    /\ h.status = "healthy" => h.fails < FailThreshold
    /\ h.status = "unhealthy" => h.passes < PassThreshold
    /\ h.status = "unknown" => h.fails < FailThreshold /\ h.passes < PassThreshold

AllHealthOK == \A o \in Entry : HealthOK(health[o])

IInv ==
    /\ TypeOK
    /\ UnmadeIdle
    /\ OldStopped
    /\ CurrentOpen
    /\ LoopsRun
    /\ StopPhases
    /\ QuietAfterStop
    /\ AllHealthOK

-----------------------------------------------------------------------------
(* Entries *)

\* An entry is a pair of a server and a number.
LEMMA EntryPair ==
    \A e \in Entry : /\ e[1] \in Server /\ e[2] \in 1..MaxMade
                     /\ e = <<e[1], e[2]>>
BY DEF Entry

\* The entry of a listed server, and its health object, exist.
LEMMA CurrentIsEntry ==
    ASSUME TypeOK, CurrentOpen, NEW s \in Server, listed[s]
    PROVE  /\ Current(s) \in Entry /\ Current(s)[1] = s /\ Current(s)[2] = made[s]
           /\ HealthOf(Current(s)) \in Entry
<1>1. made[s] \in 1..MaxMade
  BY HealthAssumption DEF TypeOK, CurrentOpen
<1>2. Current(s) \in Entry /\ Current(s)[1] = s /\ Current(s)[2] = made[s]
  BY <1>1 DEF Current, Entry
<1>3. entry[Current(s)].health \in 1..MaxMade
  BY <1>2 DEF TypeOK
<1> QED BY <1>2, <1>3 DEF HealthOf, Entry

\* RecordResult yields a health state whose counters and status agree.
LEMMA RecordResultOK ==
    ASSUME NEW h \in Health, HealthOK(h), NEW pass \in BOOLEAN
    PROVE  RecordResult(h, pass) \in Health /\ HealthOK(RecordResult(h, pass))
BY HealthAssumption DEF Health, HealthOK, RecordResult

-----------------------------------------------------------------------------
(* Initial states *)

\* The invariant holds when registerHealthCheckServers has added the servers.
LEMMA InitIInv == Init => IInv
<1> SUFFICES ASSUME Init PROVE IInv
  OBVIOUS
<1> USE HealthAssumption
<1>1. PICK list \in Lists :
          /\ made = [s \in Server |-> IF s \in DOMAIN list THEN 1 ELSE 0]
          /\ listed = [s \in Server |-> s \in DOMAIN list]
          /\ entry = [e \in Entry |->
                        [conf |-> IF e[1] \in DOMAIN list THEN list[e[1]]
                                                          ELSE CHOOSE c \in Conf : TRUE,
                         health |-> 1, stopped |-> FALSE]]
  BY DEF Init
<1>2. Fresh \in Health /\ HealthOK(Fresh)
  BY DEF Fresh, Health, HealthOK
<1>3. TypeOK
  <2>1. made \in [Server -> 0..MaxMade] /\ listed \in [Server -> BOOLEAN]
    BY <1>1
  <2>2. entry \in [Entry -> [conf: Conf, health: 1..MaxMade, stopped: BOOLEAN]]
    <3>1. (CHOOSE c \in Conf : TRUE) \in Conf
      OBVIOUS
    <3>2. ASSUME NEW e \in Entry, e[1] \in DOMAIN list PROVE list[e[1]] \in Conf
      BY <3>2
    <3> QED BY <1>1, <3>1, <3>2
  <2>3. health \in [Entry -> Health]
    BY <1>2 DEF Init
  <2>4. /\ loop \in [Entry -> {"none", "started", "passed", "failed", "notifying",
                              "waiting", "done"}]
        /\ main \in {"serving", "stopping", "waiting", "stopped"}
        /\ events \in 0..MaxEvents
    BY DEF Init
  <2>5. running \in BOOLEAN /\ closed \in BOOLEAN /\ locked \in BOOLEAN
        /\ good \in [Server -> SUBSET Conf]
    BY DEF Init
  <2> QED BY <2>1, <2>2, <2>3, <2>4, <2>5 DEF TypeOK
<1>4. UnmadeIdle /\ OldStopped /\ CurrentOpen
  <2>1. ASSUME NEW e \in Entry
        PROVE  /\ loop[e] = "none" /\ ~entry[e].stopped
               /\ e[2] <= made[e[1]] => listed[e[1]] /\ e = Current(e[1])
    <3>1. loop[e] = "none" /\ ~entry[e].stopped
      BY <1>1 DEF Init
    <3>2. e[1] \in Server /\ e[2] \in 1..MaxMade /\ e = <<e[1], e[2]>>
      BY EntryPair
    <3>3. ASSUME e[2] <= made[e[1]] PROVE listed[e[1]] /\ e = Current(e[1])
      <4>1. made[e[1]] = IF e[1] \in DOMAIN list THEN 1 ELSE 0
        BY <1>1, <3>2
      <4>2. e[1] \in DOMAIN list => listed[e[1]]
        BY <1>1, <3>2
      <4>3. made[e[1]] = 1 /\ e[2] = 1
        BY <4>1, <3>2, <3>3
      <4> QED BY <4>1, <4>2, <4>3, <3>2 DEF Current
    <3> QED BY <3>1, <3>3
  <2>2. ASSUME NEW s \in Server, listed[s]
        PROVE  made[s] >= 1 /\ ~entry[Current(s)].stopped
    <3>1. made[s] = 1
      BY <1>1, <2>2
    <3>2. Current(s) \in Entry
      BY <3>1 DEF Current, Entry
    <3> QED BY <3>1, <3>2, <2>1
  <2> QED BY <2>1, <2>2 DEF UnmadeIdle, OldStopped, CurrentOpen
<1>5. LoopsRun /\ StopPhases /\ QuietAfterStop /\ AllHealthOK
  BY <1>2 DEF Init, LoopsRun, StopPhases, QuietAfterStop, AllHealthOK
<1> QED BY <1>3, <1>4, <1>5 DEF IInv

-----------------------------------------------------------------------------
(* Steps of the check loops *)

\* A loop that moves on, without a change of the listed servers, their entries
\* or the signal loop, keeps the invariant, if a listed server's loop does not
\* end while the manager runs and an idle one does not start.
LEMMA LoopMoves ==
    ASSUME IInv, TypeOK', AllHealthOK', NEW e \in Entry, NEW v,
           loop' = [loop EXCEPT ![e] = v],
           loop[e] \notin {"none", "done"},
           v # "none",
           v = "done" => closed \/ entry[e].stopped,
           UNCHANGED <<made, listed, entry, running, closed, main>>
    PROVE  IInv'
<1>1. \A x \in Entry : loop'[x] = IF x = e THEN v ELSE loop[x]
  BY DEF IInv, TypeOK
<1>2. UnmadeIdle'
  BY <1>1 DEF IInv, UnmadeIdle
<1>3. OldStopped' /\ CurrentOpen'
  BY DEF IInv, OldStopped, CurrentOpen, Current
<1>4. LoopsRun'
  <2>1. ASSUME running', NEW s \in Server, listed'[s] PROVE Alive(Current(s))'
    <3>1. running /\ listed[s] /\ ~closed
      BY <2>1 DEF IInv, StopPhases
    <3>2. Current(s) \in Entry /\ Alive(Current(s)) /\ ~entry[Current(s)].stopped
      BY <3>1, CurrentIsEntry DEF IInv, LoopsRun, CurrentOpen
    <3> QED BY <1>1, <3>1, <3>2 DEF Alive, Current
  <2>2. ~(~running' /\ ~closed')
    BY DEF IInv, LoopsRun
  <2> QED BY <2>1, <2>2 DEF LoopsRun
<1>5. StopPhases'
  BY DEF IInv, StopPhases
<1>6. QuietAfterStop'
  BY DEF IInv, QuietAfterStop, Alive
<1> QED BY <1>2, <1>3, <1>4, <1>5, <1>6 DEF IInv

\* Every step of a check loop keeps the invariant.
LEMMA LoopIInv ==
    ASSUME IInv, NEW e \in Entry, Loop(e)
    PROVE  IInv'
<1>1. CASE BeginCheck(e)
  <2> DEFINE v == IF entry[e].conf \in good[e[1]] THEN "passed" ELSE "failed"
  <2>1. TypeOK' /\ AllHealthOK'
    BY <1>1 DEF IInv, TypeOK, AllHealthOK, HealthOK, BeginCheck
  <2> QED BY <1>1, <2>1, LoopMoves DEF BeginCheck
<1>2. CASE Record(e)
  <2> DEFINE o == HealthOf(e)
             h == RecordResult(health[o], loop[e] = "passed")
             v == IF h.status # health[o].status THEN "notifying" ELSE "waiting"
  <2>1. o \in Entry
    BY EntryPair DEF IInv, TypeOK, HealthOf, Entry
  <2>2. health[o] \in Health /\ HealthOK(health[o])
    BY <2>1 DEF IInv, TypeOK, AllHealthOK
  <2>3. h \in Health /\ HealthOK(h)
    BY <2>2, RecordResultOK
  <2>4. health' = [health EXCEPT ![o] = h] /\ loop' = [loop EXCEPT ![e] = v]
    BY <1>2 DEF Record
  <2> HIDE DEF h, o
  <2>5. TypeOK'
    <3>1. health' \in [Entry -> Health]
      BY <2>1, <2>3, <2>4 DEF IInv, TypeOK
    <3>2. loop' \in [Entry -> {"none", "started", "passed", "failed", "notifying",
                              "waiting", "done"}]
      BY <2>4 DEF IInv, TypeOK
    <3> QED BY <1>2, <3>1, <3>2 DEF Record, IInv, TypeOK
  <2>6. AllHealthOK'
    <3>1. \A x \in Entry : health'[x] = IF x = o THEN h ELSE health[x]
      BY <2>1, <2>4 DEF IInv, TypeOK
    <3> QED BY <3>1, <2>3 DEF IInv, AllHealthOK, HealthOK
  <2>7. v # "none" /\ v # "done"
    OBVIOUS
  <2>8. /\ loop[e] \notin {"none", "done"}
        /\ UNCHANGED <<made, listed, entry, running, closed, main>>
    BY <1>2 DEF Record
  <2> HIDE DEF v
  <2> QED BY <2>4, <2>5, <2>6, <2>7, <2>8, LoopMoves
<1>3. CASE Notify(e)
  <2>1. TypeOK' /\ AllHealthOK'
    BY <1>3 DEF IInv, TypeOK, AllHealthOK, HealthOK, Notify
  <2> QED BY <1>3, <2>1, LoopMoves DEF Notify
<1>4. CASE EndLoop(e)
  <2>1. TypeOK' /\ AllHealthOK'
    BY <1>4 DEF IInv, TypeOK, AllHealthOK, HealthOK, EndLoop
  <2> QED BY <1>4, <2>1, LoopMoves DEF EndLoop
<1> QED BY <1>1, <1>2, <1>3, <1>4 DEF Loop

-----------------------------------------------------------------------------
(* Start, Reconfigure and Stop *)

\* Start gives every listed server a loop and no other.
LEMMA StartIInv == ASSUME IInv, Start PROVE IInv'
<1>1. \A x \in Entry : loop'[x] = IF listed[x[1]] /\ x = Current(x[1]) THEN "started" ELSE "none"
  BY DEF IInv, LoopsRun, Start
<1>2. TypeOK'
  <2>1. loop' \in [Entry -> {"none", "started", "passed", "failed", "notifying",
                            "waiting", "done"}]
    BY DEF IInv, TypeOK, Start
  <2> QED BY <2>1 DEF IInv, TypeOK, Start
<1>3. UnmadeIdle'
  <2>1. ASSUME NEW x \in Entry, x[2] > made[x[1]] PROVE x # Current(x[1])
    BY <2>1, EntryPair DEF Current, IInv, TypeOK
  <2> QED BY <1>1, <2>1 DEF IInv, UnmadeIdle, Start
<1>4. OldStopped' /\ CurrentOpen'
  BY DEF IInv, OldStopped, CurrentOpen, Current, Start
<1>5. LoopsRun'
  <2>1. ASSUME NEW s \in Server, listed[s] PROVE Alive(Current(s))'
    <3>1. Current(s) \in Entry /\ Current(s)[1] = s
      BY <2>1, CurrentIsEntry DEF IInv
    <3>2. loop'[Current(s)] = "started"
      BY <1>1, <2>1, <3>1
    <3> QED BY <3>2 DEF Alive, Current, Start
  <2> QED BY <2>1 DEF LoopsRun, Start
<1>6. StopPhases' /\ QuietAfterStop' /\ AllHealthOK'
  BY DEF IInv, StopPhases, QuietAfterStop, AllHealthOK, HealthOK, Start
<1> QED BY <1>2, <1>3, <1>4, <1>5, <1>6 DEF IInv

\* Reconfigure closes the channels of the entries it replaces or removes and
\* starts the loops of the ones it makes.
LEMMA ReconfigureIInv ==
    ASSUME IInv, NEW list \in Lists, Reconfigure(list)
    PROVE  IInv'
<1> USE HealthAssumption
<1>1. DOMAIN list \subseteq Server /\ list \in [DOMAIN list -> Conf]
  OBVIOUS
<1>2. ~closed /\ main = "serving" /\ TypeOK
  BY DEF IInv, StopPhases, Reconfigure
<1>3. ASSUME NEW s \in Server
      PROVE  /\ made[s] \in 0..MaxMade
             /\ made'[s] = IF Gets(s, list) THEN made[s] + 1 ELSE made[s]
             /\ listed'[s] <=> s \in DOMAIN list
             /\ Gets(s, list) => made[s] < MaxMade
  BY <1>2 DEF TypeOK, Reconfigure
<1>4. ASSUME NEW x \in Entry
      PROVE  /\ x[1] \in Server /\ x[2] \in 1..MaxMade /\ x = <<x[1], x[2]>>
             /\ x = Current(x[1]) <=> x[2] = made[x[1]]
             /\ x = Current(x[1])' <=> x[2] = made'[x[1]]
  BY EntryPair DEF Current
<1>5. ASSUME NEW x \in Entry
      PROVE  entry'[x] = IF Gets(x[1], list) /\ x[2] = made[x[1]] + 1
                         THEN [conf |-> list[x[1]], stopped |-> FALSE,
                               health |-> IF listed[x[1]] THEN entry[Current(x[1])].health
                                                          ELSE made[x[1]] + 1]
                         ELSE IF Loses(x[1], list) /\ x[2] = made[x[1]]
                         THEN [entry[x] EXCEPT !.stopped = TRUE]
                         ELSE entry[x]
  BY DEF Reconfigure
<1>6. ASSUME NEW x \in Entry
      PROVE  loop'[x] = IF running /\ Gets(x[1], list) /\ x[2] = made[x[1]] + 1
                        THEN "started" ELSE loop[x]
  BY DEF Reconfigure
<1>7. ASSUME NEW x \in Entry
      PROVE  /\ Gets(x[1], list) /\ x[2] = made[x[1]] + 1 => ~entry'[x].stopped
             /\ ~(Gets(x[1], list) /\ x[2] = made[x[1]] + 1) =>
                  /\ Loses(x[1], list) /\ x[2] = made[x[1]] => entry'[x].stopped
                  /\ ~(Loses(x[1], list) /\ x[2] = made[x[1]]) => entry'[x] = entry[x]
  <2>1. CASE Gets(x[1], list) /\ x[2] = made[x[1]] + 1
    <3>1. entry'[x] = [conf |-> list[x[1]], stopped |-> FALSE,
                       health |-> IF listed[x[1]] THEN entry[Current(x[1])].health
                                                  ELSE made[x[1]] + 1]
      BY <2>1, <1>5
    <3> QED BY <2>1, <3>1
  <2>2. CASE ~(Gets(x[1], list) /\ x[2] = made[x[1]] + 1)
    <3>1. CASE Loses(x[1], list) /\ x[2] = made[x[1]]
      <4>1. entry'[x] = [entry[x] EXCEPT !.stopped = TRUE]
        BY <2>2, <3>1, <1>5
      <4>2. entry[x] \in [conf: Conf, health: 1..MaxMade, stopped: BOOLEAN]
        BY <1>2 DEF TypeOK
      <4> QED BY <2>2, <3>1, <4>1, <4>2
    <3>2. CASE ~(Loses(x[1], list) /\ x[2] = made[x[1]])
      BY <2>2, <3>2, <1>5
    <3> QED BY <3>1, <3>2
  <2> QED BY <2>1, <2>2
<1>8. TypeOK'
  <2>1. made' \in [Server -> 0..MaxMade]
    BY <1>3 DEF Reconfigure
  <2>2. listed' \in [Server -> BOOLEAN]
    BY DEF Reconfigure
  <2>3. entry' \in [Entry -> [conf: Conf, health: 1..MaxMade, stopped: BOOLEAN]]
    <3>1. ASSUME NEW x \in Entry
          PROVE  entry'[x] \in [conf: Conf, health: 1..MaxMade, stopped: BOOLEAN]
      <4>1. CASE Gets(x[1], list) /\ x[2] = made[x[1]] + 1
        <5>1. x[1] \in DOMAIN list
          BY <4>1 DEF Gets, Changed
        <5>2. listed[x[1]] => entry[Current(x[1])].health \in 1..MaxMade
          BY <1>2, <1>4, CurrentIsEntry DEF IInv, TypeOK
        <5>3. made[x[1]] + 1 \in 1..MaxMade
          BY <4>1, <1>4
        <5>4. entry'[x] = [conf |-> list[x[1]], stopped |-> FALSE,
                           health |-> IF listed[x[1]] THEN entry[Current(x[1])].health
                                                      ELSE made[x[1]] + 1]
          BY <4>1, <1>5
        <5>5. list[x[1]] \in Conf
          BY <5>1, <1>1
        <5> QED BY <5>2, <5>3, <5>4, <5>5
      <4>2. CASE ~(Gets(x[1], list) /\ x[2] = made[x[1]] + 1)
        <5>1. entry[x] \in [conf: Conf, health: 1..MaxMade, stopped: BOOLEAN]
          BY <1>2 DEF TypeOK
        <5>2. entry'[x] = entry[x] \/ entry'[x] = [entry[x] EXCEPT !.stopped = TRUE]
          BY <4>2, <1>5
        <5> QED BY <5>1, <5>2
      <4> QED BY <4>1, <4>2
    <3>2. entry' = [x \in Entry |-> entry'[x]]
      BY DEF Reconfigure
    <3> QED BY <3>1, <3>2
  <2>4. loop' \in [Entry -> {"none", "started", "passed", "failed", "notifying",
                            "waiting", "done"}]
    BY <1>2 DEF TypeOK, Reconfigure
  <2> QED BY <1>2, <2>1, <2>2, <2>3, <2>4 DEF TypeOK, Reconfigure
<1>9. UnmadeIdle'
  <2> SUFFICES ASSUME NEW x \in Entry, x[2] > made'[x[1]]
               PROVE  loop'[x] = "none" /\ ~entry'[x].stopped
    BY DEF UnmadeIdle
  <2>1. /\ x[2] > made[x[1]]
        /\ ~(Gets(x[1], list) /\ x[2] = made[x[1]] + 1)
        /\ ~(Loses(x[1], list) /\ x[2] = made[x[1]])
    BY <1>3, <1>4
  <2>2. entry'[x] = entry[x] /\ loop'[x] = loop[x]
    BY <2>1, <1>6, <1>7
  <2> QED BY <2>1, <2>2 DEF IInv, UnmadeIdle
<1>10. OldStopped'
  <2> SUFFICES ASSUME NEW x \in Entry, x[2] <= made'[x[1]],
                      ~(listed'[x[1]] /\ x[2] = made'[x[1]])
               PROVE  entry'[x].stopped
    BY <1>4 DEF OldStopped
  <2>1. ~(Gets(x[1], list) /\ x[2] = made[x[1]] + 1)
    BY <1>3, <1>4 DEF Gets, Changed
  <2>2. x[2] <= made[x[1]]
    BY <2>1, <1>3, <1>4
  <2>3. CASE x[2] = made[x[1]] /\ listed[x[1]]
    <3>1. Loses(x[1], list)
      BY <2>3, <1>3, <1>4 DEF Loses, Gets, Changed
    <3> QED BY <2>1, <2>3, <3>1, <1>7
  <2>4. CASE ~(x[2] = made[x[1]] /\ listed[x[1]])
    <3>1. entry[x].stopped
      BY <2>2, <2>4, <1>4 DEF IInv, OldStopped
    <3> QED BY <2>1, <3>1, <1>7
  <2> QED BY <2>3, <2>4
<1>11. CurrentOpen'
  <2> SUFFICES ASSUME NEW s \in Server, listed'[s]
               PROVE  made'[s] >= 1 /\ ~entry'[Current(s)'].stopped
    BY DEF CurrentOpen
  <2>0. s \in DOMAIN list
    BY <1>3
  <2>1. CASE Gets(s, list)
    <3>1. made'[s] = made[s] + 1 /\ made[s] + 1 \in 1..MaxMade
      BY <2>1, <1>3
    <3>2. <<s, made[s] + 1>> \in Entry /\ Current(s)' = <<s, made[s] + 1>>
      BY <3>1 DEF Entry, Current
    <3> QED BY <2>1, <3>1, <3>2, <1>7
  <2>2. CASE ~Gets(s, list)
    <3>1. listed[s] /\ ~Loses(s, list) /\ made'[s] = made[s]
      BY <2>0, <2>2, <1>3 DEF Gets, Loses, Changed
    <3>2. Current(s)' = Current(s) /\ Current(s) \in Entry /\ Current(s)[1] = s
      BY <3>1, CurrentIsEntry DEF IInv, Current
    <3>3. made[s] >= 1 /\ ~entry[Current(s)].stopped
      BY <3>1 DEF IInv, CurrentOpen
    <3> QED BY <2>2, <3>1, <3>2, <3>3, <1>7
  <2> QED BY <2>1, <2>2
<1>12. LoopsRun'
  <2>1. ASSUME running, NEW s \in Server, listed'[s] PROVE Alive(Current(s))'
    <3>0. s \in DOMAIN list
      BY <2>1, <1>3
    <3>1. CASE Gets(s, list)
      <4>1. made'[s] = made[s] + 1 /\ made[s] + 1 \in 1..MaxMade
        BY <3>1, <1>3
      <4>2. <<s, made[s] + 1>> \in Entry /\ Current(s)' = <<s, made[s] + 1>>
        BY <4>1 DEF Entry, Current
      <4>3. loop'[<<s, made[s] + 1>>] = "started"
        BY <2>1, <3>1, <4>2, <1>6
      <4> QED BY <4>2, <4>3 DEF Alive
    <3>2. CASE ~Gets(s, list)
      <4>1. listed[s] /\ made'[s] = made[s]
        BY <3>0, <3>2, <1>3 DEF Gets
      <4>2. Current(s)' = Current(s) /\ Current(s) \in Entry /\ Current(s)[1] = s
        BY <4>1, CurrentIsEntry DEF IInv, Current
      <4>3. loop'[Current(s)] = loop[Current(s)]
        BY <3>2, <4>2, <1>6
      <4>4. Alive(Current(s))
        BY <2>1, <4>1 DEF IInv, LoopsRun
      <4> QED BY <4>2, <4>3, <4>4 DEF Alive
    <3> QED BY <3>1, <3>2
  <2>2. ASSUME ~running PROVE \A x \in Entry : loop'[x] = "none"
    BY <2>2, <1>2, <1>6 DEF IInv, LoopsRun
  <2>3. running' = running
    BY DEF Reconfigure
  <2> QED BY <2>1, <2>2, <2>3 DEF LoopsRun
<1>13. StopPhases' /\ QuietAfterStop' /\ AllHealthOK'
  BY <1>2 DEF IInv, StopPhases, QuietAfterStop, AllHealthOK, HealthOK, Reconfigure
<1> QED BY <1>8, <1>9, <1>10, <1>11, <1>12, <1>13 DEF IInv

\* Stop's steps: after the channel is closed no loop starts, and Stop returns
\* only when all have ended.
LEMMA StopIInv == ASSUME IInv, Stop PROVE IInv'
<1>1. UNCHANGED <<made, listed, entry, health, loop, good, events>>
  BY DEF Stop, StopLock, StopClose, StopReturn
<1>2. TypeOK'
  BY <1>1 DEF IInv, TypeOK, Stop, StopLock, StopClose, StopReturn
<1>3. UnmadeIdle' /\ OldStopped' /\ CurrentOpen' /\ AllHealthOK'
  BY <1>1 DEF IInv, UnmadeIdle, OldStopped, CurrentOpen, AllHealthOK, HealthOK, Current
<1>4. LoopsRun' /\ StopPhases' /\ QuietAfterStop'
  <2>1. CASE StopLock
    BY <1>1, <2>1 DEF IInv, LoopsRun, StopPhases, QuietAfterStop, StopLock, Alive, Current
  <2>2. CASE StopClose
    BY <1>1, <2>2 DEF IInv, TypeOK, LoopsRun, StopPhases, QuietAfterStop, StopClose, Alive, Current
  <2>3. CASE StopReturn
    BY <1>1, <2>3 DEF IInv, LoopsRun, StopPhases, QuietAfterStop, StopReturn, Alive, Current
  <2> QED BY <2>1, <2>2, <2>3 DEF Stop
<1> QED BY <1>2, <1>3, <1>4 DEF IInv

-----------------------------------------------------------------------------
(* The theorems *)

\* The invariant is inductive.
LEMMA StepIInv == ASSUME IInv, [Next]_vars PROVE IInv'
<1>1. CASE \E e \in Entry : Loop(e)
  BY <1>1, LoopIInv
<1>2. CASE Start
  BY <1>2, StartIInv
<1>3. CASE \E list \in Lists : Reconfigure(list)
  BY <1>3, ReconfigureIInv
<1>4. CASE Stop
  BY <1>4, StopIInv
<1>5. CASE Environment
  <2>1. /\ UNCHANGED <<made, listed, entry, health, loop, running, closed, locked, main>>
        /\ events < MaxEvents /\ events' = events + 1
    BY <1>5 DEF Environment
  <2>2. good' \in [Server -> SUBSET Conf]
    BY <1>5 DEF Environment, IInv, TypeOK
  <2>3. TypeOK'
    BY <2>1, <2>2, HealthAssumption DEF IInv, TypeOK
  <2> QED BY <2>1, <2>3 DEF IInv, UnmadeIdle, OldStopped, CurrentOpen, LoopsRun,
                            StopPhases, QuietAfterStop, AllHealthOK, HealthOK, Alive, Current
<1>6. CASE UNCHANGED vars
  BY <1>6 DEF vars, IInv, TypeOK, UnmadeIdle, OldStopped, CurrentOpen, LoopsRun,
              StopPhases, QuietAfterStop, AllHealthOK, HealthOK, Alive, Current
<1> QED BY <1>1, <1>2, <1>3, <1>4, <1>5, <1>6 DEF Next, Done

\* What the invariant says of the loops of a running manager.
LEMMA IInvOneLoop == ASSUME IInv PROVE OneLoopPerServer
<1> SUFFICES ASSUME running, NEW e \in Entry
             PROVE  Alive(e) /\ ~entry[e].stopped <=> listed[e[1]] /\ e = Current(e[1])
  BY DEF OneLoopPerServer
<1>0. e[1] \in Server /\ e[2] \in 1..MaxMade /\ e = <<e[1], e[2]>>
  BY EntryPair
<1>1. ASSUME Alive(e), ~entry[e].stopped PROVE listed[e[1]] /\ e = Current(e[1])
  <2>1. ~(e[2] > made[e[1]])
    BY <1>1 DEF IInv, UnmadeIdle, Alive
  <2>2. e[2] <= made[e[1]]
    BY <2>1, <1>0 DEF IInv, TypeOK
  <2> QED BY <1>1, <2>2 DEF IInv, OldStopped
<1>2. ASSUME listed[e[1]], e = Current(e[1]) PROVE Alive(e) /\ ~entry[e].stopped
  BY <1>0, <1>2 DEF IInv, LoopsRun, CurrentOpen
<1> QED BY <1>1, <1>2

\* What the invariant says of the health of the listed servers.
LEMMA IInvStatus == ASSUME IInv PROVE StatusFollowsRuns
<1> SUFFICES ASSUME NEW s \in Server, listed[s]
             PROVE  HealthOK(health[HealthOf(Current(s))])
  BY DEF StatusFollowsRuns, HealthOK
<1>1. Current(s) \in Entry
  BY CurrentIsEntry DEF IInv
<1>2. HealthOf(Current(s)) \in Entry
  BY <1>1, EntryPair DEF IInv, TypeOK, HealthOf, Entry
<1> QED BY <1>2 DEF IInv, AllHealthOK

\* The inductive invariant holds in every reachable state.
THEOREM Invariant == Spec => []IInv
<1>1. Init => IInv
  BY InitIInv
<1>2. IInv /\ [Next]_vars => IInv'
  BY StepIInv
<1> QED BY <1>1, <1>2, PTL DEF Spec

\* The state of manager.go's objects and goroutines is well typed, for any
\* servers, configurations and thresholds.
THEOREM TypeCorrect == Spec => []TypeOK
<1>1. IInv => TypeOK
  BY DEF IInv
<1> QED BY <1>1, Invariant, PTL

\* Reconfigure and Start leave exactly one loop without a closed channel for
\* every listed server and none for any other, however often they run.
THEOREM OneLoop == Spec => []OneLoopPerServer
<1>1. IInv => OneLoopPerServer
  BY IInvOneLoop
<1> QED BY <1>1, Invariant, PTL

\* No check loop is left when Stop returns from its wait.
THEOREM Quiet == Spec => []QuietAfterStop
<1>1. IInv => QuietAfterStop
  BY DEF IInv
<1> QED BY <1>1, Invariant, PTL

\* RecordResult's counters and status agree for every listed server, also when
\* the loop of a replaced entry still writes to the shared health object.
THEOREM StatusSound == Spec => []StatusFollowsRuns
<1>1. IInv => StatusFollowsRuns
  BY IInvStatus
<1> QED BY <1>1, Invariant, PTL

=============================================================================
