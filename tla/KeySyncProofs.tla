---------------------------- MODULE KeySyncProofs ----------------------------
(***************************************************************************)
(* KeySync implements ZoneKeys, for any nodes, peers, zones, syncing       *)
(* goroutines and bounds: no interleaving of polls, requests, saves and    *)
(* crashes makes a node hold or save a key that was not generated for the  *)
(* zone, generate a second one or forget the one it saved.                 *)
(***************************************************************************)
EXTENDS KeySync, TLAPS

Made(z) == {k \in Key : \E n \in Node : <<k, n, z>> \in generated}
Known(z) == Made(z) \cup {NoKey}

\* What is in memory, in the store and in a response was generated for its zone.
AllKnown ==
    \A n \in Node, z \in Zone :
        /\ keys[n][z] \in Known(z)
        /\ stored[n][z] \in Known(z)
        /\ \A s \in Syncer : sync[n][s] # Idle => sync[n][s].got[z] \in Known(z)

\* What is about to be imported is a key.
ImportsKeys ==
    \A n \in Node, s \in Syncer :
        sync[n][s] # Idle =>
            /\ \A z \in sync[n][s].todo : sync[n][s].got[z] # NoKey
            /\ sync[n][s].at # "check" => sync[n][s].got[sync[n][s].zone] # NoKey

\* A node that is down imports nothing; what is saved next is a key it holds.
DownIdle ==
    \A n \in Node : phase[n] = "down" =>
        saving[n] = {} /\ \A s \in Syncer : sync[n][s] = Idle

SavesKeys == \A n \in Node : \A z \in saving[n] : keys[n][z] # NoKey

IInv == TypeOK /\ AllKnown /\ ImportsKeys /\ DownIdle /\ SavesKeys

LEMMA NoKeyIsNotKey == NoKey \notin Key
  BY DEF NoKey, Key

LEMMA ImportIsNotIdle == \A i \in Import : i # Idle /\ i.at # "idle"
  BY DEF Import, Idle

LEMMA BusyIsImport ==
  ASSUME TypeOK, NEW n \in Node, NEW s \in Syncer, sync[n][s].at # "idle"
  PROVE  sync[n][s] \in Import /\ sync[n][s] # Idle
  BY ImportIsNotIdle DEF TypeOK, Idle

LEMMA SetAt ==
  ASSUME NEW A, NEW B, NEW V, NEW f \in [A -> [B -> V]], NEW a \in A, NEW b \in B, NEW v \in V
  PROVE  /\ [f EXCEPT ![a][b] = v] \in [A -> [B -> V]]
         /\ \A x \in A, y \in B :
               [f EXCEPT ![a][b] = v][x][y] = IF x = a /\ y = b THEN v ELSE f[x][y]
  OBVIOUS

LEMMA InitIInv == Init => IInv
  <1>1. Init => TypeOK
    BY DEF Init, TypeOK, NoKey, Key
  <1>2. Init => AllKnown /\ ImportsKeys
    BY DEF Init, AllKnown, ImportsKeys, Known
  <1>3. Init => DownIdle /\ SavesKeys
    BY DEF Init, DownIdle, SavesKeys
  <1> QED BY <1>1, <1>2, <1>3 DEF IInv

\* Steps that generate nothing keep what was made.
LEMMA MadeKept == generated' = generated => \A z \in Zone : Known(z)' = Known(z)
  BY DEF Known, Made

LEMMA LoadStep == ASSUME NEW n \in Node, IInv, LoadAllKeys(n) PROVE IInv'
  <1> USE DEF LoadAllKeys, IInv
  <1>1. TypeOK'
    BY DEF TypeOK
  <1>2. AllKnown' /\ ImportsKeys'
    BY MadeKept DEF TypeOK, AllKnown, ImportsKeys
  <1>3. DownIdle' /\ SavesKeys'
    BY DEF TypeOK, DownIdle, SavesKeys
  <1> QED BY <1>1, <1>2, <1>3

LEMMA GenerateStep ==
  ASSUME NEW n \in Node, NEW z \in Zone, IInv, GenerateKey(n, z) PROVE IInv'
  <1>1. PICK k \in Key :
           /\ \A p \in Node, y \in Zone : <<k, p, y>> \notin generated
           /\ generated' = generated \cup {<<k, n, z>>}
           /\ keys' = [keys EXCEPT ![n][z] = k]
    BY DEF GenerateKey
  <1>2. /\ signer' = [signer EXCEPT ![n][z] = TRUE]
        /\ saving' = [saving EXCEPT ![n] = {z}]
        /\ UNCHANGED <<phase, stored, sync, crowded, crashes, syncs>>
    BY DEF GenerateKey
  <1>3. TypeOK'
    BY <1>1, <1>2 DEF IInv, TypeOK
  <1>4. \A y \in Zone : Known(y) \subseteq Known(y)'
    BY <1>1 DEF Known, Made
  <1>5. k \in Known(z)'
    BY <1>1 DEF Known, Made
  <1>6. AllKnown'
    BY <1>1, <1>2, <1>4, <1>5 DEF IInv, TypeOK, AllKnown
  <1>7. ImportsKeys'
    BY <1>2 DEF IInv, ImportsKeys
  <1>8. DownIdle'
    BY <1>2 DEF IInv, TypeOK, DownIdle, GenerateKey
  <1>9. SavesKeys'
    BY <1>1, <1>2, NoKeyIsNotKey DEF IInv, TypeOK, SavesKeys
  <1> QED BY <1>3, <1>6, <1>7, <1>8, <1>9 DEF IInv

LEMMA SaveStep ==
  ASSUME NEW n \in Node, NEW z \in Zone, IInv, SaveKey(n, z) PROVE IInv'
  <1> USE DEF SaveKey, IInv
  <1>1. TypeOK'
    BY DEF TypeOK
  <1>2. AllKnown' /\ ImportsKeys'
    BY MadeKept DEF TypeOK, AllKnown, ImportsKeys
  <1>3. DownIdle' /\ SavesKeys'
    BY DEF DownIdle, SavesKeys
  <1> QED BY <1>1, <1>2, <1>3

LEMMA StartOK == ASSUME NEW n \in Node, IInv, Start(n) PROVE IInv'
  <1> USE DEF Start, IInv
  <1>1. TypeOK'
    BY DEF TypeOK
  <1>2. AllKnown' /\ ImportsKeys'
    BY MadeKept DEF AllKnown, ImportsKeys
  <1>3. DownIdle' /\ SavesKeys'
    BY DEF DownIdle, SavesKeys
  <1> QED BY <1>1, <1>2, <1>3

LEMMA CrashStep == ASSUME NEW n \in Node, IInv, Crash(n) PROVE IInv'
  <1> USE DEF Crash, IInv
  <1>1. TypeOK'
    BY DEF TypeOK, NoKey, Key
  <1>2. AllKnown' /\ ImportsKeys'
    BY MadeKept DEF TypeOK, AllKnown, ImportsKeys, Known
  <1>3. DownIdle' /\ SavesKeys'
    BY DEF TypeOK, DownIdle, SavesKeys
  <1> QED BY <1>1, <1>2, <1>3

LEMMA FetchStep ==
  ASSUME NEW n \in Node, NEW s \in Syncer, NEW p \in Node, IInv, FetchKeys(n, s, p)
  PROVE  IInv'
  <1> DEFINE it == [at |-> "check", got |-> keys[p], zone |-> CHOOSE z \in Zone : TRUE,
                    todo |-> {z \in Zone : keys[p][z] # NoKey}]
  <1>1. /\ sync' = [sync EXCEPT ![n][s] = it]
        /\ crowded' \in {crowded, crowded \cup {n}}
        /\ UNCHANGED <<phase, keys, signer, stored, saving, generated, crashes>>
    BY DEF FetchKeys
  <1>2. it \in Import
    BY KeySyncAssumption DEF IInv, TypeOK, Import
  <1> HIDE DEF it
  <1>3. TypeOK'
    BY <1>1, <1>2 DEF IInv, TypeOK
  <1>4. \A z \in Zone : it.got[z] \in Known(z)
    BY DEF IInv, AllKnown, it
  <1>5. it.at = "check" /\ \A z \in it.todo : it.got[z] # NoKey
    BY DEF it
  <1>6. AllKnown'
    BY <1>1, <1>4, MadeKept DEF IInv, TypeOK, AllKnown
  <1>7. ImportsKeys'
    BY <1>1, <1>5 DEF IInv, TypeOK, ImportsKeys
  <1>8. DownIdle' /\ SavesKeys'
    <2>1. phase[n] = "running"
      BY DEF FetchKeys
    <2> QED BY <1>1, <2>1 DEF IInv, TypeOK, DownIdle, SavesKeys
  <1> QED BY <1>3, <1>6, <1>7, <1>8 DEF IInv

\* A step of an import replaces its record; keys and store take what it brings.
LEMMA ImportKept ==
  ASSUME NEW n \in Node, NEW s \in Syncer, IInv,
         NEW it \in Import, it = sync[n][s],
         NEW next \in Import \cup {Idle},
         next # Idle => /\ next.got = it.got
                        /\ next.todo \subseteq it.todo
                        /\ next.at # "check" => it.got[next.zone] # NoKey,
         Go(n, s, next),
         \/ UNCHANGED <<keys, signer>>
         \/ /\ keys' = [keys EXCEPT ![n][it.zone] = it.got[it.zone]]
            /\ signer' = [signer EXCEPT ![n][it.zone] = FALSE]
            /\ it.got[it.zone] # NoKey,
         stored' = stored \/ stored' = [stored EXCEPT ![n][it.zone] = it.got[it.zone]],
         UNCHANGED <<phase, saving, generated>>
  PROVE  IInv'
  <1>1. it # Idle /\ it.zone \in Zone /\ it.got \in [Zone -> Key \cup {NoKey}]
    BY ImportIsNotIdle DEF Import
  <1>2. sync' = [sync EXCEPT ![n][s] = next] /\ crowded' \in {crowded, crowded \ {n}}
    BY DEF Go
  <1>3. /\ keys' \in [Node -> [Zone -> Key \cup {NoKey}]]
        /\ stored' \in [Node -> [Zone -> Key \cup {NoKey}]]
        /\ \A m \in Node, z \in Zone :
              /\ keys'[m][z] \in {keys[m][z], it.got[z]}
              /\ stored'[m][z] \in {stored[m][z], it.got[z]}
    <2> DEFINE K == Key \cup {NoKey}
    <2>1. keys \in [Node -> [Zone -> K]] /\ stored \in [Node -> [Zone -> K]]
      BY DEF IInv, TypeOK
    <2>2. it.zone \in Zone /\ it.got[it.zone] \in K
      BY <1>1
    <2> HIDE DEF K
    <2>3. keys' \in [Node -> [Zone -> K]]
          /\ \A m \in Node, z \in Zone : keys'[m][z] \in {keys[m][z], it.got[z]}
      <3>1. CASE keys' = keys
        BY <2>1, <3>1
      <3>2. CASE keys' = [keys EXCEPT ![n][it.zone] = it.got[it.zone]]
        <4> DEFINE new == [keys EXCEPT ![n][it.zone] = it.got[it.zone]]
        <4>1. /\ new \in [Node -> [Zone -> K]]
              /\ \A m \in Node, z \in Zone :
                    new[m][z] = IF m = n /\ z = it.zone THEN it.got[it.zone] ELSE keys[m][z]
          BY <2>1, <2>2, SetAt
        <4> HIDE DEF new
        <4>2. keys' = new
          BY <3>2 DEF new
        <4> QED BY <4>1, <4>2
      <3> QED BY <3>1, <3>2
    <2>4. stored' \in [Node -> [Zone -> K]]
          /\ \A m \in Node, z \in Zone : stored'[m][z] \in {stored[m][z], it.got[z]}
      <3>1. CASE stored' = stored
        BY <2>1, <3>1
      <3>2. CASE stored' = [stored EXCEPT ![n][it.zone] = it.got[it.zone]]
        <4> DEFINE new == [stored EXCEPT ![n][it.zone] = it.got[it.zone]]
        <4>1. /\ new \in [Node -> [Zone -> K]]
              /\ \A m \in Node, z \in Zone :
                    new[m][z] = IF m = n /\ z = it.zone THEN it.got[it.zone] ELSE stored[m][z]
          BY <2>1, <2>2, SetAt
        <4> HIDE DEF new
        <4>2. stored' = new
          BY <3>2 DEF new
        <4> QED BY <4>1, <4>2
      <3> QED BY <3>1, <3>2
    <2> QED BY <2>3, <2>4 DEF K
  <1>9. TypeOK'
    <2>2. keys' \in [Node -> [Zone -> Key \cup {NoKey}]]
      BY <1>3
    <2>3. stored' \in [Node -> [Zone -> Key \cup {NoKey}]]
      BY <1>3
    <2>4. signer' \in [Node -> [Zone -> BOOLEAN]]
      <3>1. CASE signer' = signer
        BY <3>1 DEF IInv, TypeOK
      <3>2. CASE signer' = [signer EXCEPT ![n][it.zone] = FALSE]
        BY <1>1, <3>2, Zenon DEF IInv, TypeOK
      <3> QED BY <3>1, <3>2
    <2>5. sync' \in [Node -> [Syncer -> Import \cup {Idle}]]
      BY <1>2 DEF IInv, TypeOK
    <2> QED BY <1>2, <2>2, <2>3, <2>4, <2>5 DEF IInv, TypeOK
  <1>4. \A z \in Zone : it.got[z] \in Known(z)
    BY <1>1 DEF IInv, AllKnown
  <1>5. AllKnown'
    <2>1. \A m \in Node, z \in Zone : keys'[m][z] \in Known(z)
      BY <1>3, <1>4 DEF IInv, AllKnown
    <2>3. \A m \in Node, z \in Zone : stored'[m][z] \in Known(z)
      BY <1>3, <1>4 DEF IInv, AllKnown
    <2>2. \A m \in Node, t \in Syncer, z \in Zone :
             sync'[m][t] # Idle => sync'[m][t].got[z] \in Known(z)
      BY <1>1, <1>2, <1>4 DEF IInv, TypeOK, AllKnown
    <2> QED BY <2>1, <2>2, <2>3, MadeKept DEF AllKnown
  <1>6. ImportsKeys'
    BY <1>1, <1>2 DEF IInv, TypeOK, ImportsKeys
  <1>7. DownIdle'
    <2>1. phase[n] # "down"
      BY <1>1 DEF IInv, DownIdle
    <2> QED BY <1>2, <2>1 DEF IInv, TypeOK, DownIdle
  <1>8. SavesKeys'
    <2>1. CASE UNCHANGED <<keys, signer>>
      BY <2>1 DEF IInv, SavesKeys
    <2>2. CASE /\ keys' = [keys EXCEPT ![n][it.zone] = it.got[it.zone]]
               /\ it.got[it.zone] # NoKey
      BY <2>2, <1>1 DEF IInv, TypeOK, SavesKeys
    <2> QED BY <2>1, <2>2
  <1> QED BY <1>5, <1>6, <1>7, <1>8, <1>9 DEF IInv

LEMMA CheckStep ==
  ASSUME NEW n \in Node, NEW s \in Syncer, NEW z \in Zone, IInv, CheckKey(n, s, z)
  PROVE  IInv'
  <1> DEFINE it == sync[n][s]
  <1> DEFINE next == IF IsNewerThan(it.got[z], keys[n][z])
                     THEN [it EXCEPT !.at = "set", !.zone = z, !.todo = @ \ {z}]
                     ELSE [it EXCEPT !.todo = @ \ {z}]
  <1>1. it.at = "check" /\ z \in it.todo /\ Go(n, s, next)
        /\ UNCHANGED <<phase, keys, signer, stored, saving, generated>>
    BY DEF CheckKey
  <1>2. it \in Import /\ it # Idle
    BY <1>1, BusyIsImport DEF IInv
  <1>3. next \in Import
    BY <1>2 DEF Import
  <1>4. next.got = it.got /\ next.todo \subseteq it.todo
    BY <1>2 DEF Import
  <1>5. it.got[z] # NoKey
    BY <1>1, <1>2 DEF IInv, ImportsKeys
  <1>6. next.at # "check" => it.got[next.zone] # NoKey
    BY <1>1, <1>2, <1>5 DEF Import
  <1> HIDE DEF next
  <1> QED BY <1>1, <1>2, <1>3, <1>4, <1>6, ImportKept

LEMMA SetStep ==
  ASSUME NEW n \in Node, NEW s \in Syncer, IInv, SetKey(n, s) PROVE IInv'
  <1> DEFINE it == sync[n][s]
  <1> DEFINE next == [it EXCEPT !.at = "save"]
  <1>1. /\ it.at = "set" /\ Go(n, s, next)
        /\ keys' = [keys EXCEPT ![n][it.zone] = it.got[it.zone]]
        /\ signer' = [signer EXCEPT ![n][it.zone] = FALSE]
        /\ UNCHANGED <<phase, stored, saving, generated>>
    BY DEF SetKey
  <1>2. it \in Import /\ it # Idle
    BY <1>1, BusyIsImport DEF IInv
  <1>3. next \in Import /\ next.got = it.got /\ next.todo = it.todo /\ next.zone = it.zone
    BY <1>2 DEF Import
  <1>4. it.got[it.zone] # NoKey
    BY <1>1, <1>2 DEF IInv, ImportsKeys
  <1> QED BY <1>1, <1>2, <1>3, <1>4, ImportKept

LEMMA PersistStep ==
  ASSUME NEW n \in Node, NEW s \in Syncer, IInv, PersistKey(n, s) PROVE IInv'
  <1> DEFINE it == sync[n][s]
  <1> DEFINE next == [it EXCEPT !.at = "check"]
  <1>1. /\ it.at = "save" /\ Go(n, s, next)
        /\ stored' \in {stored, [stored EXCEPT ![n][it.zone] = it.got[it.zone]]}
        /\ UNCHANGED <<phase, keys, signer, saving, generated>>
    BY DEF PersistKey
  <1>2. it \in Import /\ it # Idle
    BY <1>1, BusyIsImport DEF IInv
  <1>3. next \in Import /\ next.got = it.got /\ next.todo = it.todo /\ next.at = "check"
    BY <1>2 DEF Import
  <1> QED BY <1>1, <1>2, <1>3, ImportKept

LEMMA DoneStep ==
  ASSUME NEW n \in Node, NEW s \in Syncer, IInv, Done(n, s) PROVE IInv'
  <1>1. sync[n][s].at = "check" /\ Go(n, s, Idle)
        /\ UNCHANGED <<phase, keys, signer, stored, saving, generated>>
    BY DEF Done
  <1>2. sync[n][s] \in Import
    BY <1>1, BusyIsImport DEF IInv
  <1> QED BY <1>1, <1>2, ImportKept

LEMMA StepIInv == IInv /\ [Next]_vars => IInv'
  <1> SUFFICES ASSUME IInv, [Next]_vars PROVE IInv'
    OBVIOUS
  <1>1. CASE UNCHANGED vars
    <2>1. TypeOK'
      BY <1>1 DEF vars, IInv, TypeOK
    <2>2. AllKnown' /\ ImportsKeys'
      BY <1>1, MadeKept DEF vars, IInv, AllKnown, ImportsKeys
    <2>3. DownIdle' /\ SavesKeys'
      BY <1>1 DEF vars, IInv, DownIdle, SavesKeys
    <2> QED BY <2>1, <2>2, <2>3 DEF IInv
  <1>2. CASE Next
    <2>1. PICK n \in Node :
             \/ StartStep(n)
             \/ Crash(n)
             \/ \E s \in Syncer : ImportStep(n, s)
             \/ \E p \in Node : PollPeer(n, p) \/ \E s \in Caller : SyncNow(n, s, p)
      BY <1>2 DEF Next
    <2>2. CASE StartStep(n)
      BY <2>2, LoadStep, StartOK, GenerateStep, SaveStep DEF StartStep
    <2>3. CASE Crash(n)
      BY <2>3, CrashStep
    <2>4. CASE \E s \in Syncer : ImportStep(n, s)
      BY <2>4, CheckStep, SetStep, PersistStep, DoneStep DEF ImportStep
    <2>5. CASE \E p \in Node : PollPeer(n, p) \/ \E s \in Caller : SyncNow(n, s, p)
      BY <2>5, FetchStep DEF PollPeer, SyncNow, Syncer
    <2> QED BY <2>1, <2>2, <2>3, <2>4, <2>5
  <1> QED BY <1>1, <1>2

\* In every reachable state, what nodes hold, store and import was generated for
\* its zone: SetKey and SaveKey take no other.
THEOREM KeysKnown == Spec => []IInv
  BY InitIInv, StepIInv, PTL DEF Spec

-----------------------------------------------------------------------------
(* The refinement *)

Running == [n \in Node |-> phase[n] # "down"]

LEMMA RefineInit == Init => ZK!Init
  BY DEF Init, ZK!Init, ZK!NoKeys

\* A step that leaves the phase of every node up or down.
LEMMA RunningKept ==
  ASSUME \A n \in Node : phase'[n] # "down" <=> phase[n] # "down"
  PROVE  Running' = Running
  BY DEF Running

LEMMA RefineStep ==
  IInv /\ [Next]_vars => [ZK!Next]_<<Running, keys, stored, generated>>
  <1> SUFFICES ASSUME IInv, [Next]_vars
               PROVE  ZK!Next \/ UNCHANGED <<Running, keys, stored, generated>>
    OBVIOUS
  <1>1. CASE UNCHANGED vars
    BY <1>1 DEF vars, Running
  <1>2. CASE Next
    <2>1. PICK n \in Node :
             \/ StartStep(n)
             \/ Crash(n)
             \/ \E s \in Syncer : ImportStep(n, s)
             \/ \E p \in Node : PollPeer(n, p) \/ \E s \in Caller : SyncNow(n, s, p)
      BY <1>2 DEF Next
    <2>2. CASE LoadAllKeys(n)
      <3>1. /\ phase[n] = "down"
            /\ phase' = [phase EXCEPT ![n] = "ensuring"]
            /\ keys' = [keys EXCEPT ![n] = stored[n]]
            /\ UNCHANGED <<stored, generated>>
        BY <2>2 DEF LoadAllKeys
      <3>2. Running' = [Running EXCEPT ![n] = TRUE]
        BY <3>1 DEF IInv, TypeOK, Running
      <3>3. ZK!Recover(n)
        BY <3>1, <3>2 DEF ZK!Recover, Running
      <3> QED BY <3>3 DEF ZK!Next
    <2>3. CASE Crash(n)
      <3>1. /\ phase[n] # "down"
            /\ phase' = [phase EXCEPT ![n] = "down"]
            /\ keys' = [keys EXCEPT ![n] = [z \in Zone |-> NoKey]]
            /\ UNCHANGED <<stored, generated>>
        BY <2>3 DEF Crash
      <3>2. Running' = [Running EXCEPT ![n] = FALSE]
        BY <3>1 DEF IInv, TypeOK, Running
      <3>3. ZK!End(n)
        BY <3>1, <3>2 DEF ZK!End, ZK!NoKeys, Running
      <3> QED BY <3>3 DEF ZK!Next
    <2>4. ASSUME NEW z \in Zone, GenerateKey(n, z) PROVE ZK!Next
      <3>1. Running' = Running /\ phase[n] # "down"
        BY <2>4, RunningKept DEF GenerateKey
      <3>2. ZK!Generate(n, z)
        BY <2>4, <3>1 DEF GenerateKey, ZK!Generate, Running
      <3> QED BY <3>2 DEF ZK!Next
    <2>5. ASSUME NEW z \in Zone, SaveKey(n, z) PROVE ZK!Next
      <3>1. /\ z \in saving[n]
            /\ stored' = [stored EXCEPT ![n][z] = keys[n][z]]
            /\ UNCHANGED <<phase, keys, generated>>
        BY <2>5 DEF SaveKey
      <3>2. Running' = Running /\ phase[n] # "down"
        BY <3>1, RunningKept DEF IInv, DownIdle
      <3>3. keys[n][z] \in ZK!Made(z)
        BY <3>1 DEF IInv, AllKnown, SavesKeys, Known, Made, ZK!Made
      <3>4. ZK!Save(n, z)
        BY <3>1, <3>2, <3>3 DEF ZK!Save, Running
      <3> QED BY <3>4 DEF ZK!Next
    <2>6. CASE Start(n)
      <3>1. Running' = Running
        BY <2>6, RunningKept DEF Start, IInv, TypeOK
      <3> QED BY <2>6, <3>1 DEF Start
    <2>7. ASSUME NEW s \in Syncer, SetKey(n, s) \/ PersistKey(n, s)
          PROVE  ZK!Next \/ UNCHANGED <<Running, keys, stored, generated>>
      <3> DEFINE z == sync[n][s].zone
      <3> DEFINE k == sync[n][s].got[z]
      <3>1. /\ sync[n][s].at \in {"set", "save"}
            /\ UNCHANGED <<phase, generated>>
            /\ \/ keys' = [keys EXCEPT ![n][z] = k] /\ stored' = stored
               \/ stored' = [stored EXCEPT ![n][z] = k] /\ keys' = keys
               \/ UNCHANGED <<keys, stored>>
        BY <2>7 DEF SetKey, PersistKey
      <3>2. sync[n][s] \in Import /\ sync[n][s] # Idle /\ z \in Zone
        BY <3>1, BusyIsImport DEF IInv, Import
      <3>3. k # NoKey /\ k \in Known(z)
        BY <3>1, <3>2 DEF IInv, ImportsKeys, AllKnown
      <3>4. k \in ZK!Made(z)
        BY <3>3 DEF Known, Made, ZK!Made
      <3>5. Running' = Running /\ phase[n] # "down"
        BY <3>1, <3>2, RunningKept DEF IInv, DownIdle
      <3>6. CASE keys' = [keys EXCEPT ![n][z] = k] /\ stored' = stored
        <4>1. ZK!Adopt(n, z)
          BY <3>1, <3>4, <3>5, <3>6 DEF ZK!Adopt, Running
        <4> QED BY <3>2, <4>1 DEF ZK!Next
      <3>7. CASE stored' = [stored EXCEPT ![n][z] = k] /\ keys' = keys
        <4>1. ZK!Save(n, z)
          BY <3>1, <3>4, <3>5, <3>7 DEF ZK!Save, Running
        <4> QED BY <3>2, <4>1 DEF ZK!Next
      <3> QED BY <3>1, <3>5, <3>6, <3>7
    <2>8. CASE StartStep(n)
      BY <2>2, <2>4, <2>5, <2>6, <2>8 DEF StartStep
    <2>9. ASSUME UNCHANGED <<phase, keys, stored, generated>>
          PROVE  UNCHANGED <<Running, keys, stored, generated>>
      BY <2>9 DEF Running
    <2>10. CASE \E s \in Syncer : ImportStep(n, s)
      BY <2>7, <2>9, <2>10 DEF ImportStep, CheckKey, Done
    <2>11. CASE \E p \in Node : PollPeer(n, p) \/ \E s \in Caller : SyncNow(n, s, p)
      BY <2>9, <2>11 DEF PollPeer, SyncNow, FetchKeys
    <2> QED BY <2>1, <2>3, <2>8, <2>10, <2>11
  <1> QED BY <1>1, <1>2

\* The key manager, the key store and the syncer together implement ZoneKeys.
THEOREM Refinement == Spec => ZoneKeysSpec
  BY KeysKnown, RefineInit, RefineStep, PTL DEF Spec, ZoneKeysSpec, ZK!Spec, Running

-----------------------------------------------------------------------------
(* Age of the keys *)

\* A node that is down has nothing in memory.
DownEmpty == \A n \in Node, z \in Zone : phase[n] = "down" => keys[n][z] = NoKey

BusyRuns == \A n \in Node, s \in Syncer : sync[n][s] # Idle => phase[n] = "running"

\* Overlapping syncs are on record until the node has none.
Solo ==
    \A n \in Node : n \notin crowded =>
        \A s, t \in Syncer : sync[n][s] # Idle /\ sync[n][t] # Idle => s = t

\* Nothing came between the comparison and SetKey.
StillNewer ==
    \A n \in Node, s \in Syncer :
        n \notin crowded /\ sync[n][s].at = "set" =>
            IsNewerThan(sync[n][s].got[sync[n][s].zone], keys[n][sync[n][s].zone])

Ages == DownEmpty /\ BusyRuns /\ Solo /\ StillNewer

LEMMA InitAges == Init => Ages
  BY DEF Init, Ages, DownEmpty, BusyRuns, Solo, StillNewer, Idle

\* The steps that start or end a node: its syncers are idle.
LEMMA StartAges == ASSUME NEW n \in Node, IInv, Ages, StartStep(n) PROVE Ages'
  <1>1. TypeOK /\ UNCHANGED <<sync, crowded>>
    BY DEF IInv, StartStep, LoadAllKeys, Start, GenerateKey, SaveKey
  <1>2. /\ \A m \in Node : m # n => keys'[m] = keys[m] /\ phase'[m] = phase[m]
        /\ \/ keys' = keys /\ phase'[n] \in {phase[n], "running"} /\ phase[n] # "running"
           \/ phase[n] # "running" /\ phase'[n] # "down"
           \/ keys' = keys /\ phase' = phase
    BY <1>1 DEF TypeOK, StartStep, LoadAllKeys, Start, GenerateKey, SaveKey
  <1>3. DownEmpty' /\ BusyRuns'
    BY <1>1, <1>2 DEF Ages, DownEmpty, BusyRuns
  <1>4. Solo'
    BY <1>1 DEF Ages, Solo
  <1>5. StillNewer'
    <2> SUFFICES ASSUME NEW m \in Node, NEW s \in Syncer, m \notin crowded, sync[m][s].at = "set"
                 PROVE  IsNewerThan(sync[m][s].got[sync[m][s].zone], keys'[m][sync[m][s].zone])
      BY <1>1 DEF StillNewer, IsNewerThan
    <2>1. phase[m] = "running"
      BY <1>1, BusyIsImport DEF Ages, BusyRuns
    <2>2. keys'[m] = keys[m]
      BY <1>2, <2>1
    <2> QED BY <2>2 DEF Ages, StillNewer, IsNewerThan
  <1> QED BY <1>3, <1>4, <1>5 DEF Ages

LEMMA CrashAges == ASSUME NEW n \in Node, IInv, Ages, Crash(n) PROVE Ages'
  <1>1. /\ \A m \in Node : m # n => /\ keys'[m] = keys[m] /\ phase'[m] = phase[m]
                                    /\ sync'[m] = sync[m] /\ (m \in crowded' <=> m \in crowded)
        /\ phase'[n] = "down"
        /\ \A z \in Zone : keys'[n][z] = NoKey
        /\ \A s \in Syncer : sync'[n][s] = Idle
    BY DEF IInv, TypeOK, Crash
  <1>2. DownEmpty' /\ BusyRuns' /\ Solo'
    BY <1>1 DEF Ages, DownEmpty, BusyRuns, Solo
  <1>3. StillNewer'
    BY <1>1 DEF Ages, StillNewer, IsNewerThan, Idle
  <1> QED BY <1>2, <1>3 DEF Ages

LEMMA FetchAges ==
  ASSUME NEW n \in Node, NEW s \in Syncer, NEW p \in Node, IInv, Ages, FetchKeys(n, s, p)
  PROVE  Ages'
  <1> DEFINE it == [at |-> "check", got |-> keys[p], zone |-> CHOOSE z \in Zone : TRUE,
                    todo |-> {z \in Zone : keys[p][z] # NoKey}]
  <1>1. /\ sync' = [sync EXCEPT ![n][s] = it]
        /\ crowded' = IF Busy(n) # {} THEN crowded \cup {n} ELSE crowded
        /\ phase[n] = "running"
        /\ UNCHANGED <<phase, keys>>
    BY DEF FetchKeys
  <1>2. it.at = "check"
    OBVIOUS
  <1> HIDE DEF it
  <1>3. \A m \in Node, t \in Syncer :
           sync'[m][t] = IF m = n /\ t = s THEN it ELSE sync[m][t]
    BY <1>1 DEF IInv, TypeOK
  <1>4. DownEmpty' /\ BusyRuns'
    BY <1>1, <1>3 DEF Ages, DownEmpty, BusyRuns
  <1>5. Solo'
    BY <1>1, <1>3 DEF Ages, Solo, Busy
  <1>6. StillNewer'
    BY <1>1, <1>2, <1>3 DEF Ages, StillNewer, IsNewerThan
  <1> QED BY <1>4, <1>5, <1>6 DEF Ages

\* A step of an import: what it is about to set is newer unless syncs overlap.
LEMMA ImportAges ==
  ASSUME NEW n \in Node, NEW s \in Syncer, IInv, Ages,
         sync[n][s] # Idle,
         NEW next, Go(n, s, next),
         UNCHANGED phase, keys \in [Node -> [Zone -> Key \cup {NoKey}]],
         \A m \in Node, z \in Zone : m # n => keys'[m][z] = keys[m][z],
         keys' = keys \/ next.at = "save",
         next.at = "set" => IsNewerThan(next.got[next.zone], keys'[n][next.zone])
  PROVE  Ages'
  <1>1. /\ \A m \in Node, t \in Syncer :
              sync'[m][t] = IF m = n /\ t = s THEN next ELSE sync[m][t]
        /\ crowded' = IF \A t \in Syncer : sync'[n][t] = Idle THEN crowded \ {n} ELSE crowded
    BY DEF IInv, TypeOK, Go
  <1>2. phase[n] = "running"
    BY DEF Ages, BusyRuns
  <1>3. DownEmpty' /\ BusyRuns'
    BY <1>1, <1>2 DEF Ages, DownEmpty, BusyRuns
  <1>4. Solo'
    BY <1>1 DEF Ages, Solo
  <1>5. StillNewer'
    <2> SUFFICES ASSUME NEW m \in Node, NEW t \in Syncer, m \notin crowded', sync'[m][t].at = "set"
                 PROVE  IsNewerThan(sync'[m][t].got[sync'[m][t].zone], keys'[m][sync'[m][t].zone])
      BY DEF StillNewer, IsNewerThan
    <2>1. CASE m = n /\ t = s
      BY <2>1, <1>1
    <2>2. CASE m = n /\ t # s
      <3>1. sync'[n][t] = sync[n][t] /\ sync[n][t].at = "set" /\ sync[n][t] # Idle
        BY <2>2, <1>1 DEF Idle
      <3>2. n \notin crowded
        BY <2>2, <3>1, <1>1
      <3> QED BY <2>2, <3>1, <3>2 DEF Ages, Solo
    <2>3. CASE m # n
      <3>1. sync'[m][t] = sync[m][t] /\ m \notin crowded /\ sync[m][t].zone \in Zone
        BY <2>3, <1>1, BusyIsImport DEF IInv, Import
      <3> QED BY <2>3, <3>1 DEF Ages, StillNewer, IsNewerThan
    <2> QED BY <2>1, <2>2, <2>3
  <1> QED BY <1>3, <1>4, <1>5 DEF Ages

LEMMA StepAges == IInv /\ Ages /\ [Next]_vars => Ages'
  <1> SUFFICES ASSUME IInv, Ages, [Next]_vars PROVE Ages'
    OBVIOUS
  <1>1. CASE UNCHANGED vars
    BY <1>1 DEF vars, Ages, DownEmpty, BusyRuns, Solo, StillNewer, IsNewerThan
  <1>2. CASE Next
    <2>1. PICK n \in Node :
             \/ StartStep(n)
             \/ Crash(n)
             \/ \E s \in Syncer : ImportStep(n, s)
             \/ \E p \in Node : PollPeer(n, p) \/ \E s \in Caller : SyncNow(n, s, p)
      BY <1>2 DEF Next
    <2>2. keys \in [Node -> [Zone -> Key \cup {NoKey}]]
      BY DEF IInv, TypeOK
    <2>3. ASSUME NEW s \in Syncer, NEW z \in Zone, CheckKey(n, s, z) PROVE Ages'
      <3> DEFINE it == sync[n][s]
      <3> DEFINE next == IF IsNewerThan(it.got[z], keys[n][z])
                         THEN [it EXCEPT !.at = "set", !.zone = z, !.todo = @ \ {z}]
                         ELSE [it EXCEPT !.todo = @ \ {z}]
      <3>1. it.at = "check" /\ Go(n, s, next) /\ UNCHANGED <<phase, keys>>
        BY <2>3 DEF CheckKey
      <3>2. it \in Import /\ it # Idle
        BY <3>1, BusyIsImport DEF IInv
      <3>3. next.at = "set" => IsNewerThan(next.got[next.zone], keys[n][next.zone])
        BY <3>1, <3>2 DEF Import
      <3> HIDE DEF next
      <3> QED BY <2>2, <3>1, <3>2, <3>3, ImportAges DEF IsNewerThan
    <2>4. ASSUME NEW s \in Syncer, SetKey(n, s) PROVE Ages'
      <3> DEFINE it == sync[n][s]
      <3> DEFINE next == [it EXCEPT !.at = "save"]
      <3>1. it.at = "set" /\ Go(n, s, next) /\ UNCHANGED phase
            /\ keys' = [keys EXCEPT ![n][it.zone] = it.got[it.zone]]
        BY <2>4 DEF SetKey
      <3>2. it \in Import /\ it # Idle
        BY <3>1, BusyIsImport DEF IInv
      <3>3. next.at = "save" /\ it.zone \in Zone
        BY <3>2 DEF Import
      <3>4. \A m \in Node, z \in Zone : m # n => keys'[m][z] = keys[m][z]
        BY <2>2, <3>1
      <3> HIDE DEF next
      <3> QED BY <2>2, <3>1, <3>2, <3>3, <3>4, ImportAges
    <2>5. ASSUME NEW s \in Syncer, PersistKey(n, s) \/ Done(n, s) PROVE Ages'
      <3> DEFINE it == sync[n][s]
      <3>1. PICK next : /\ next = Idle \/ next = [it EXCEPT !.at = "check"]
                        /\ Go(n, s, next) /\ UNCHANGED <<phase, keys>>
        BY <2>5 DEF PersistKey, Done
      <3>2. it \in Import /\ it # Idle
        BY <2>5, BusyIsImport DEF IInv, PersistKey, Done
      <3>3. next.at # "set"
        BY <3>1, <3>2 DEF Import, Idle
      <3> QED BY <2>2, <3>1, <3>2, <3>3, ImportAges
    <2>6. CASE \E s \in Syncer : ImportStep(n, s)
      BY <2>3, <2>4, <2>5, <2>6 DEF ImportStep
    <2>7. CASE \E p \in Node : PollPeer(n, p) \/ \E s \in Caller : SyncNow(n, s, p)
      BY <2>7, FetchAges DEF PollPeer, SyncNow, Syncer
    <2> QED BY <2>1, <2>6, <2>7, StartAges, CrashAges
  <1> QED BY <1>1, <1>2

\* importKey compares outside the lock that SetKey takes: without an overlapping
\* sync of the same node nothing comes between, and a restart brings back no key
\* that memory has overtaken.
THEOREM NewestKept == Spec => NeverOlder
  <1>1. ASSUME IInv, Ages, [Next]_vars
        PROVE  [\A n \in Node, z \in Zone :
                  keys'[n][z] < keys[n][z] => phase'[n] = "down" \/ n \in crowded]_vars
    <2> SUFFICES ASSUME Next, NEW n \in Node, NEW z \in Zone,
                        keys'[n][z] < keys[n][z], phase'[n] # "down", n \notin crowded
                 PROVE  FALSE
      BY <1>1
    <2>1. /\ keys \in [Node -> [Zone -> Key \cup {NoKey}]] /\ keys[n][z] \in Nat
          /\ keys' \in [Node -> [Zone -> Key \cup {NoKey}]] /\ keys'[n][z] \in Nat
      BY <1>1, StepIInv, KeySyncAssumption DEF IInv, TypeOK, Key, NoKey
    <2>2. keys[n][z] # NoKey /\ keys'[n] # keys[n]
      BY <2>1 DEF NoKey
    <2>3. PICK m \in Node :
             \/ StartStep(m)
             \/ Crash(m)
             \/ \E s \in Syncer : ImportStep(m, s)
             \/ \E p \in Node : PollPeer(m, p) \/ \E s \in Caller : SyncNow(m, s, p)
      BY DEF Next
    <2>4. m = n
      BY <2>1, <2>2, <2>3 DEF StartStep, LoadAllKeys, Start, GenerateKey, SaveKey, Crash, ImportStep,
            CheckKey, SetKey, PersistKey, Done, PollPeer, SyncNow, FetchKeys
    <2>5. ~LoadAllKeys(n)
      BY <1>1, <2>2 DEF LoadAllKeys, Ages, DownEmpty
    <2>6. \A y \in Zone : ~GenerateKey(n, y)
      BY <2>1, <2>2 DEF GenerateKey
    <2>7. ~Crash(n)
      BY <1>1 DEF Crash, IInv, TypeOK
    <2>8. PICK s \in Syncer : SetKey(n, s)
      BY <2>2, <2>3, <2>4, <2>5, <2>6, <2>7 DEF StartStep, Start, SaveKey, ImportStep,
            CheckKey, PersistKey, Done, PollPeer, SyncNow, FetchKeys
    <2> DEFINE it == sync[n][s]
    <2>9. it.at = "set" /\ keys' = [keys EXCEPT ![n][it.zone] = it.got[it.zone]]
      BY <2>8 DEF SetKey
    <2>10. it.zone = z /\ keys'[n][z] = it.got[z]
      BY <2>1, <2>2, <2>9
    <2>11. IsNewerThan(it.got[z], keys[n][z])
      BY <1>1, <2>9, <2>10 DEF Ages, StillNewer
    <2> QED BY <2>1, <2>2, <2>10, <2>11 DEF IsNewerThan
  <1> QED BY <1>1, InitAges, StepAges, KeysKnown, PTL DEF Spec, NeverOlder

=============================================================================
