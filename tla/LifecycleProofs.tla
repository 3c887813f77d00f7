--------------------------- MODULE LifecycleProofs ---------------------------
(***************************************************************************)
(* The shutdown of a process closes the store under no goroutine it waits  *)
(* for, and a reload replaces all of the configuration or none of it: for  *)
(* any backends, versions, limits and signals.                             *)
(***************************************************************************)
EXTENDS Lifecycle, TLAPS

Configuration == [app: Version, dns: Version, health: Version]

\* The rest of what the variables hold.
Types ==
    /\ TypeOK
    /\ closed \in BOOLEAN
    /\ late \subseteq Loop
    /\ config \in Configuration

\* Only a shutdown moves along StopOrder, and the store is its fifth stop.
StopsInOrder ==
    /\ main # "shutdown" => stop = 1
    /\ closed => stop > 5

\* A loop that its Stop has waited for is off and its component stopped, until
\* app.Start comes to it.
Ended(c) == (loop[c] = "off" /\ comp[c] = "stopped") \/ c \in late

LoopsEnded ==
    /\ stop > 3 => Ended("validator")
    /\ stop > 4 => Ended("registry")

\* Between the two parts of a reload, and only there, the DNS registry is ahead.
OneConfig ==
    main # "reload health" => config.app = config.dns /\ config.dns = config.health

IInv == Types /\ StopsInOrder /\ LoopsEnded /\ OneConfig

LEMMA Orders ==
  /\ Len(StopOrder) = 7 /\ Len(StartOrder) = 7
  /\ \A i \in 1..7 : /\ StopOrder[i] = "validator" <=> i = 3
                     /\ StopOrder[i] = "registry" <=> i = 4
                     /\ StopOrder[i] = "store" <=> i = 5
  BY DEF StopOrder, StartOrder

LEMMA Components ==
  Component = {"health", "registry", "validator", "receiver", "handler", "api", "dns"}
  BY DEF Component, StartOrder

LEMMA Position ==
  ASSUME Types
  PROVE  /\ stop \in 1..8 /\ start \in 1..8
         /\ \A c : Starting(c) => start \in 1..7
         /\ \A c : Stopping(c) => main = "shutdown" /\ stop \in 1..7
         /\ Stopping("validator") => stop = 3 /\ StopOrder[stop] = "validator"
         /\ Stopping("registry") => stop = 4 /\ StopOrder[stop] = "registry"
         /\ Stopping("store") => stop = 5
  <1>1. stop \in 1..8 /\ start \in 1..8
    <2>1. stop \in 1..Len(StopOrder) + 1 /\ start \in 1..Len(StartOrder) + 1
      BY Zenon DEF Types, TypeOK
    <2>2. Len(StopOrder) + 1 = 8 /\ Len(StartOrder) + 1 = 8
      BY Orders
    <2> QED BY <2>1, <2>2
  <1>2. \A c : Starting(c) => start \in 1..7
    BY <1>1, Orders DEF Starting
  <1>3. \A c : Stopping(c) => main = "shutdown" /\ stop \in 1..7 /\ StopOrder[stop] = c
    BY <1>1, Orders DEF Stopping
  <1> QED BY <1>1, <1>2, <1>3, Orders

LEMMA Marked == \A A : \A a \in A : \A b \in BOOLEAN : <<a, b>> \in A \X BOOLEAN
  OBVIOUS

LEMMA OverBoolean == \A c : Over(c) \in BOOLEAN
  <1> SUFFICES ASSUME NEW c PROVE (c \in canceled) \in BOOLEAN
    BY Zenon DEF Over
  <1>1. CASE c \in canceled
    <2>1. (c \in canceled) = TRUE
      BY <1>1
    <2> QED BY <2>1
  <1>2. CASE c \notin canceled
    <2>1. (c \in canceled) = FALSE
      BY <1>2
    <2> QED BY <2>1
  <1> QED BY <1>1, <1>2

LEMMA LoadedConfig ==
  /\ Loaded \in Configuration
  /\ Loaded.app = Loaded.dns /\ Loaded.dns = Loaded.health
  BY LifecycleAssumption DEF Loaded, Configuration

LEMMA InitIInv == Init => IInv
  <1>1. Init => Types
    <2> SUFFICES ASSUME Init PROVE Types
      OBVIOUS
    <2>1. /\ sigChan \in Signal \cup {None} /\ errChan \in {None, "error", "nil"}
          /\ main \in {"select", "reload", "reload health", "shutdown", "exited"}
          /\ stop \in 1..Len(StopOrder) + 1 /\ start \in 1..Len(StartOrder) + 1
      BY Orders DEF Init
    <2>2. /\ comp \in [Component -> {"new", "running", "stopped"}]
          /\ loop \in [Loop -> {"off", "idle", "working"}]
      BY DEF Init
    <2>3. /\ cycle \subseteq Backend /\ checks \subseteq Backend \X BOOLEAN
          /\ closed \in BOOLEAN /\ late \subseteq Loop
      BY DEF Init
    <2>4. /\ verdict \in [Backend -> BOOLEAN \cup {None}]
          /\ stored \in [Backend -> BOOLEAN \cup {None}]
      BY Zenon DEF Init
    <2>5. config \in Configuration
      BY LoadedConfig DEF Init
    <2> QED BY <2>1, <2>2, <2>3, <2>4, <2>5 DEF Types, TypeOK
  <1>2. Init => StopsInOrder /\ LoopsEnded
    BY DEF Init, StopsInOrder, LoopsEnded
  <1>3. Init => OneConfig
    BY LoadedConfig DEF Init, OneConfig
  <1> QED BY <1>1, <1>2, <1>3 DEF IInv

LEMMA TypesStep == ASSUME IInv, [Next]_vars PROVE Types'
  <1> USE DEF IInv, procVars, loopVars, envVars
  <1>1. ASSUME NEW s \in Signal, Notify(s) PROVE Types'
    BY <1>1 DEF Notify, Types, TypeOK
  <1>2. ASSUME NEW c \in Loop, StartLoop(c) PROVE Types'
    <2>1. /\ start' = start + 1 /\ start \in 1..7
          /\ UNCHANGED <<main, stop, errChan, config, cycle, checks, closed, verdict, stored, sigChan>>
      BY <1>2, Position DEF StartLoop
    <2>2. comp' \in [Component -> {"new", "running", "stopped"}]
      BY <1>2, Components DEF StartLoop, Types, TypeOK, Loop
    <2>3. loop' \in [Loop -> {"off", "idle", "working"}] /\ late' \subseteq Loop
      BY <1>2 DEF StartLoop, Types, TypeOK
    <2>4. start' \in 1..Len(StartOrder) + 1
      BY <2>1, Orders
    <2> QED BY <2>1, <2>2, <2>3, <2>4 DEF Types, TypeOK
  <1>3. ASSUME NEW c \in Component \ Loop, StartComponent(c) PROVE Types'
    <2>1. /\ start' = start + 1 /\ start \in 1..7
          /\ UNCHANGED <<main, stop, errChan, config, cycle, checks, closed, verdict, stored, sigChan>>
      BY <1>3, Position DEF StartComponent
    <2>2. comp' \in [Component -> {"new", "running", "stopped"}]
      BY <1>3 DEF StartComponent, Types, TypeOK
    <2>3. loop' \in [Loop -> {"off", "idle", "working"}] /\ late' \subseteq Loop
      BY <1>3 DEF StartComponent, Types, TypeOK
    <2>4. start' \in 1..Len(StartOrder) + 1
      BY <2>1, Orders
    <2> QED BY <2>1, <2>2, <2>3, <2>4 DEF Types, TypeOK
  <1>4. CASE StartFails
    BY <1>4, Components DEF StartFails, Types, TypeOK
  <1>5. CASE DNSShutdown
    BY <1>5, Components DEF DNSShutdown, Types, TypeOK
  <1>6. CASE ReceiveHUP
    BY <1>6 DEF ReceiveHUP, Types, TypeOK
  <1>7. CASE ReloadFails
    BY <1>7 DEF ReloadFails, Types, TypeOK
  <1>8. ASSUME NEW v \in Version, reloadDNSRegistry(v) PROVE Types'
    BY <1>8 DEF reloadDNSRegistry, Types, TypeOK, Configuration
  <1>9. CASE reloadHealthManager
    BY <1>9 DEF reloadHealthManager, Types, TypeOK, Configuration
  <1>10. CASE BeginShutdown
    BY <1>10 DEF BeginShutdown, Types, TypeOK
  <1>11. CASE StopComponent
    BY <1>11, Orders, Components DEF StopComponent, Types, TypeOK, Stopping
  <1>12. CASE Cancel
    BY <1>12, Orders, Components DEF Cancel, Types, TypeOK, Stopping
  <1>13. CASE Wait
    <2>1. /\ stop \in {3, 4} /\ StopOrder[stop] \in Component
          /\ comp' = [comp EXCEPT ![StopOrder[stop]] = "stopped"]
          /\ stop' = stop + 1
          /\ UNCHANGED <<main, start, errChan, config, late, loop, cycle, checks, closed,
                         verdict, stored, sigChan>>
      BY <1>13, Position, Components DEF Wait
    <2>2. stop' \in 1..Len(StopOrder) + 1
      BY <2>1, Orders
    <2> QED BY <2>1, <2>2 DEF Types, TypeOK
  <1>14. CASE Close
    BY <1>14, Orders DEF Close, Types, TypeOK, Stopping
  <1>15. CASE Exit
    <2>1. /\ sigChan' = None /\ errChan' = None /\ main' = "exited"
          /\ stop' \in 1..Len(StopOrder) + 1 /\ start' \in 1..Len(StartOrder) + 1
      BY <1>15, Orders DEF Exit
    <2>2. /\ comp' \in [Component -> {"new", "running", "stopped"}]
          /\ loop' \in [Loop -> {"off", "idle", "working"}]
          /\ cycle' = {} /\ checks' = {} /\ closed' = FALSE /\ late' = {}
          /\ UNCHANGED <<config, stored>>
      BY <1>15 DEF Exit
    <2>3. verdict' \in [Backend -> BOOLEAN \cup {None}]
      BY <1>15, Zenon DEF Exit
    <2> QED BY <2>1, <2>2, <2>3 DEF Types, TypeOK
  <1>16. CASE Restart
    BY <1>16, LoadedConfig DEF Restart, Types, TypeOK
  <1>17. CASE ValidateAll
    BY <1>17 DEF ValidateAll, Types, TypeOK
  <1>18. CASE EndCycle
    BY <1>18 DEF EndCycle, Types, TypeOK
  <1>19. ASSUME NEW b \in Backend, BeginCheck(b) PROVE Types'
    <2>1. checks' \subseteq Backend \X BOOLEAN
      <3>1. <<b, Over("validator")>> \in Backend \X BOOLEAN
        BY OverBoolean, Marked, Zenon
      <3> QED BY <1>19, <3>1 DEF BeginCheck, Types, TypeOK
    <2> QED BY <1>19, <2>1 DEF BeginCheck, Types, TypeOK
  <1>20. ASSUME NEW b \in Backend, NEW doomed \in BOOLEAN, EndCheck(b, doomed) PROVE Types'
    BY <1>20 DEF EndCheck, Types, TypeOK, Outcomes
  <1>21. CASE StaleSearch
    BY <1>21 DEF StaleSearch, Types, TypeOK
  <1>22. CASE SearchDone
    BY <1>22 DEF SearchDone, Types, TypeOK
  <1>23. ASSUME NEW c \in Loop, EndLoop(c) PROVE Types'
    BY <1>23 DEF EndLoop, Types, TypeOK
  <1>24. CASE UNCHANGED vars
    BY <1>24 DEF vars, Types, TypeOK
  <1> QED
    BY <1>1, <1>2, <1>3, <1>4, <1>5, <1>6, <1>7, <1>8, <1>9, <1>10, <1>11, <1>12, <1>13,
       <1>14, <1>15, <1>16, <1>17, <1>18, <1>19, <1>20, <1>21, <1>22, <1>23, <1>24 DEF
       Next, StartStep, StartNext, MainStep, Reload, Shutdown, Validate

LEMMA StopsStep == ASSUME IInv, [Next]_vars PROVE StopsInOrder'
  <1> USE DEF IInv, procVars, loopVars, envVars
  <1>1. ASSUME NEW s \in Signal, Notify(s) PROVE StopsInOrder'
    BY <1>1 DEF Notify, StopsInOrder
  <1>2. ASSUME NEW c \in Loop, StartLoop(c) PROVE StopsInOrder'
    BY <1>2 DEF StartLoop, StopsInOrder
  <1>3. ASSUME NEW c \in Component \ Loop, StartComponent(c) PROVE StopsInOrder'
    BY <1>3 DEF StartComponent, StopsInOrder
  <1>4. CASE StartFails
    BY <1>4 DEF StartFails, StopsInOrder
  <1>5. CASE DNSShutdown
    BY <1>5 DEF DNSShutdown, StopsInOrder
  <1>6. CASE ReceiveHUP
    BY <1>6 DEF ReceiveHUP, StopsInOrder
  <1>7. CASE ReloadFails
    BY <1>7 DEF ReloadFails, StopsInOrder
  <1>8. ASSUME NEW v \in Version, reloadDNSRegistry(v) PROVE StopsInOrder'
    BY <1>8 DEF reloadDNSRegistry, StopsInOrder
  <1>9. CASE reloadHealthManager
    BY <1>9 DEF reloadHealthManager, StopsInOrder
  <1>10. CASE BeginShutdown
    BY <1>10 DEF BeginShutdown, StopsInOrder
  <1>11. CASE StopComponent
    BY <1>11, Orders DEF StopComponent, Types, TypeOK, StopsInOrder, Stopping
  <1>12. CASE Cancel
    BY <1>12 DEF Cancel, StopsInOrder, Stopping
  <1>13. CASE Wait
    BY <1>13, Position DEF Wait, StopsInOrder
  <1>14. CASE Close
    BY <1>14, Orders DEF Close, Types, TypeOK, StopsInOrder, Stopping
  <1>15. CASE Exit
    BY <1>15 DEF Exit, StopsInOrder
  <1>16. CASE Restart
    BY <1>16 DEF Restart, StopsInOrder
  <1>17. CASE ValidateAll
    BY <1>17 DEF ValidateAll, StopsInOrder
  <1>18. CASE EndCycle
    BY <1>18 DEF EndCycle, StopsInOrder
  <1>19. ASSUME NEW b \in Backend, BeginCheck(b) PROVE StopsInOrder'
    BY <1>19 DEF BeginCheck, StopsInOrder
  <1>20. ASSUME NEW b \in Backend, NEW doomed \in BOOLEAN, EndCheck(b, doomed) PROVE StopsInOrder'
    BY <1>20 DEF EndCheck, StopsInOrder
  <1>21. CASE StaleSearch
    BY <1>21 DEF StaleSearch, StopsInOrder
  <1>22. CASE SearchDone
    BY <1>22 DEF SearchDone, StopsInOrder
  <1>23. ASSUME NEW c \in Loop, EndLoop(c) PROVE StopsInOrder'
    BY <1>23 DEF EndLoop, StopsInOrder
  <1>24. CASE UNCHANGED vars
    BY <1>24 DEF vars, StopsInOrder
  <1> QED
    BY <1>1, <1>2, <1>3, <1>4, <1>5, <1>6, <1>7, <1>8, <1>9, <1>10, <1>11, <1>12, <1>13,
       <1>14, <1>15, <1>16, <1>17, <1>18, <1>19, <1>20, <1>21, <1>22, <1>23, <1>24 DEF
       Next, StartStep, StartNext, MainStep, Reload, Shutdown, Validate

LEMMA LoopsStep == ASSUME IInv, [Next]_vars PROVE LoopsEnded'
  <1> USE DEF IInv, procVars, loopVars, envVars
  <1>1. ASSUME NEW s \in Signal, Notify(s) PROVE LoopsEnded'
    BY <1>1 DEF Notify, Types, TypeOK, LoopsEnded, Ended, Loop
  <1>2. ASSUME NEW c \in Loop, StartLoop(c) PROVE LoopsEnded'
    <2>1. /\ loop' = [loop EXCEPT ![c] = "idle"]
          /\ late' = IF StopOver(c) THEN late \cup {c} ELSE late
          /\ \A d \in Component : d # c => comp'[d] = comp[d]
          /\ stop' = stop /\ stop \in 1..8
          /\ "validator" \in Component /\ "registry" \in Component
      BY <1>2, Position, Components DEF StartLoop, Types, TypeOK
    <2>2. /\ stop > 3 => StopOver("validator")
          /\ stop > 4 => StopOver("registry")
      <3>1. StopOrder[3] = "validator" /\ StopOrder[4] = "registry"
        BY Orders
      <3>2. /\ stop > 3 => 3 \in 1..(stop - 1)
            /\ stop > 4 => 4 \in 1..(stop - 1)
        BY <2>1
      <3> QED BY <3>1, <3>2 DEF StopOver
    <2>3. CASE c = "validator"
      BY <2>1, <2>2, <2>3 DEF Types, TypeOK, LoopsEnded, Ended, Loop
    <2>4. CASE c = "registry"
      BY <2>1, <2>2, <2>4 DEF Types, TypeOK, LoopsEnded, Ended, Loop
    <2> QED BY <1>2, <2>3, <2>4 DEF Loop
  <1>3. ASSUME NEW c \in Component \ Loop, StartComponent(c) PROVE LoopsEnded'
    BY <1>3, Components DEF StartComponent, Types, TypeOK, LoopsEnded, Ended, Loop
  <1>4. CASE StartFails
    BY <1>4, Components DEF StartFails, Types, TypeOK, LoopsEnded, Ended, Loop
  <1>5. CASE DNSShutdown
    BY <1>5, Components DEF DNSShutdown, Types, TypeOK, LoopsEnded, Ended, Loop
  <1>6. CASE ReceiveHUP
    BY <1>6 DEF ReceiveHUP, Types, TypeOK, LoopsEnded, Ended, Loop
  <1>7. CASE ReloadFails
    BY <1>7 DEF ReloadFails, Types, TypeOK, LoopsEnded, Ended, Loop
  <1>8. ASSUME NEW v \in Version, reloadDNSRegistry(v) PROVE LoopsEnded'
    BY <1>8 DEF reloadDNSRegistry, Types, TypeOK, LoopsEnded, Ended, Loop
  <1>9. CASE reloadHealthManager
    BY <1>9 DEF reloadHealthManager, Types, TypeOK, LoopsEnded, Ended, Loop
  <1>10. CASE BeginShutdown
    BY <1>10 DEF BeginShutdown, Types, TypeOK, LoopsEnded, Ended, Loop
  <1>11. CASE StopComponent
    BY <1>11, Orders, Components DEF StopComponent, Types, TypeOK, LoopsEnded, Ended, Loop, Stopping
  <1>12. CASE Cancel
    BY <1>12, Orders, Components DEF Cancel, Types, TypeOK, LoopsEnded, Ended, Loop, Stopping
  <1>13. CASE Wait
    <2>1. /\ loop[StopOrder[stop]] = "off"
          /\ comp' = [comp EXCEPT ![StopOrder[stop]] = "stopped"]
          /\ stop' = stop + 1
          /\ UNCHANGED <<loop, late>>
          /\ DOMAIN comp = Component
      BY <1>13 DEF Wait, Types, TypeOK
    <2>2. CASE Stopping("validator")
      <3>1. stop = 3 /\ StopOrder[stop] = "validator"
        BY <2>2, Position
      <3> QED BY <2>1, <3>1, Components DEF LoopsEnded, Ended
    <2>3. CASE Stopping("registry")
      <3>1. stop = 4 /\ StopOrder[stop] = "registry"
        BY <2>3, Position
      <3> QED BY <2>1, <3>1, Components DEF LoopsEnded, Ended
    <2> QED BY <1>13, <2>2, <2>3 DEF Wait
  <1>14. CASE Close
    BY <1>14, Orders DEF Close, Types, TypeOK, LoopsEnded, Ended, Loop, Stopping
  <1>15. CASE Exit
    BY <1>15 DEF Exit, Types, TypeOK, LoopsEnded, Ended, Loop
  <1>16. CASE Restart
    BY <1>16 DEF Restart, Types, TypeOK, LoopsEnded, Ended, Loop
  <1>17. CASE ValidateAll
    BY <1>17 DEF ValidateAll, Types, TypeOK, LoopsEnded, Ended, Loop
  <1>18. CASE EndCycle
    BY <1>18 DEF EndCycle, Types, TypeOK, LoopsEnded, Ended, Loop
  <1>19. ASSUME NEW b \in Backend, BeginCheck(b) PROVE LoopsEnded'
    BY <1>19 DEF BeginCheck, Types, TypeOK, LoopsEnded, Ended, Loop
  <1>20. ASSUME NEW b \in Backend, NEW doomed \in BOOLEAN, EndCheck(b, doomed) PROVE LoopsEnded'
    BY <1>20 DEF EndCheck, Types, TypeOK, LoopsEnded, Ended, Loop
  <1>21. CASE StaleSearch
    BY <1>21 DEF StaleSearch, Types, TypeOK, LoopsEnded, Ended, Loop
  <1>22. CASE SearchDone
    BY <1>22 DEF SearchDone, Types, TypeOK, LoopsEnded, Ended, Loop
  <1>23. ASSUME NEW c \in Loop, EndLoop(c) PROVE LoopsEnded'
    BY <1>23 DEF EndLoop, Types, TypeOK, LoopsEnded, Ended, Loop
  <1>24. CASE UNCHANGED vars
    BY <1>24 DEF vars, Types, TypeOK, LoopsEnded, Ended, Loop
  <1> QED
    BY <1>1, <1>2, <1>3, <1>4, <1>5, <1>6, <1>7, <1>8, <1>9, <1>10, <1>11, <1>12, <1>13,
       <1>14, <1>15, <1>16, <1>17, <1>18, <1>19, <1>20, <1>21, <1>22, <1>23, <1>24 DEF
       Next, StartStep, StartNext, MainStep, Reload, Shutdown, Validate

LEMMA ConfigStep == ASSUME IInv, [Next]_vars PROVE OneConfig'
  <1> USE DEF IInv, procVars, loopVars, envVars
  <1>1. ASSUME NEW s \in Signal, Notify(s) PROVE OneConfig'
    BY <1>1 DEF Notify, OneConfig
  <1>2. ASSUME NEW c \in Loop, StartLoop(c) PROVE OneConfig'
    BY <1>2 DEF StartLoop, OneConfig
  <1>3. ASSUME NEW c \in Component \ Loop, StartComponent(c) PROVE OneConfig'
    BY <1>3 DEF StartComponent, OneConfig
  <1>4. CASE StartFails
    BY <1>4 DEF StartFails, OneConfig
  <1>5. CASE DNSShutdown
    BY <1>5 DEF DNSShutdown, OneConfig
  <1>6. CASE ReceiveHUP
    BY <1>6 DEF ReceiveHUP, OneConfig
  <1>7. CASE ReloadFails
    BY <1>7 DEF ReloadFails, OneConfig
  <1>8. ASSUME NEW v \in Version, reloadDNSRegistry(v) PROVE OneConfig'
    BY <1>8 DEF reloadDNSRegistry, OneConfig
  <1>9. CASE reloadHealthManager
    BY <1>9 DEF reloadHealthManager, OneConfig, Types, Configuration
  <1>10. CASE BeginShutdown
    BY <1>10 DEF BeginShutdown, OneConfig
  <1>11. CASE StopComponent
    BY <1>11 DEF StopComponent, OneConfig
  <1>12. CASE Cancel
    BY <1>12 DEF Cancel, OneConfig
  <1>13. CASE Wait
    BY <1>13 DEF Wait, OneConfig
  <1>14. CASE Close
    BY <1>14 DEF Close, OneConfig
  <1>15. CASE Exit
    BY <1>15 DEF Exit, OneConfig
  <1>16. CASE Restart
    BY <1>16, LoadedConfig DEF Restart, OneConfig
  <1>17. CASE ValidateAll
    BY <1>17 DEF ValidateAll, OneConfig
  <1>18. CASE EndCycle
    BY <1>18 DEF EndCycle, OneConfig
  <1>19. ASSUME NEW b \in Backend, BeginCheck(b) PROVE OneConfig'
    BY <1>19 DEF BeginCheck, OneConfig
  <1>20. ASSUME NEW b \in Backend, NEW doomed \in BOOLEAN, EndCheck(b, doomed) PROVE OneConfig'
    BY <1>20 DEF EndCheck, OneConfig
  <1>21. CASE StaleSearch
    BY <1>21 DEF StaleSearch, OneConfig
  <1>22. CASE SearchDone
    BY <1>22 DEF SearchDone, OneConfig
  <1>23. ASSUME NEW c \in Loop, EndLoop(c) PROVE OneConfig'
    BY <1>23 DEF EndLoop, OneConfig
  <1>24. CASE UNCHANGED vars
    BY <1>24 DEF vars, OneConfig
  <1> QED
    BY <1>1, <1>2, <1>3, <1>4, <1>5, <1>6, <1>7, <1>8, <1>9, <1>10, <1>11, <1>12, <1>13,
       <1>14, <1>15, <1>16, <1>17, <1>18, <1>19, <1>20, <1>21, <1>22, <1>23, <1>24 DEF
       Next, StartStep, StartNext, MainStep, Reload, Shutdown, Validate

LEMMA Inductive == Spec => []IInv
  <1>1. IInv /\ [Next]_vars => IInv'
    BY TypesStep, StopsStep, LoopsStep, ConfigStep DEF IInv
  <1> QED BY InitIInv, <1>1, PTL DEF Spec

\* What the variables hold, for any backends, versions and limits.
THEOREM TypeCorrect == Spec => []TypeOK
  <1>1. IInv => TypeOK
    BY DEF IInv, Types
  <1> QED BY Inductive, <1>1, PTL

\* shutdownOverwatchMode closes the store when neither the validator nor the
\* registry's search can still write to it, wherever app.Start has got to.
THEOREM StoreClosedLast == Spec => []WritersDone
  <1>1. IInv => WritersDone
    BY Position DEF IInv, StopsInOrder, LoopsEnded, Ended, WritersDone
  <1> QED BY Inductive, <1>1, PTL

\* Application.Reload leaves its three users with one configuration, whichever
\* signals arrive and wherever it fails.
THEOREM ReloadAtomic == Spec => []ReloadAllOrNothing
  <1>1. IInv => ReloadAllOrNothing
    BY DEF IInv, OneConfig, ReloadAllOrNothing
  <1> QED BY Inductive, <1>1, PTL
=============================================================================
