------------------------------ MODULE KeySync -------------------------------
(***************************************************************************)
(* DNSSEC keys of several Overwatches (pkg/dnssec): the key manager, its   *)
(* persistent key store, the signer, and the syncer that polls the peers   *)
(* and imports their keys, newest first.                                   *)
(*                                                                         *)
(* A key is its creation time.  Nodes read their own clocks, so a later    *)
(* key may be the older one, but no two keys are of the same nanosecond.   *)
(* An import compares, replaces and saves in three steps with nothing      *)
(* locked across them, and a request to synchronise runs beside the poll   *)
(* loop.                                                                   *)
(***************************************************************************)
EXTENDS Naturals, FiniteSets

CONSTANTS
    Node,       \* the Overwatches
    Peers,      \* the peers each of them polls
    Zone,       \* the zones that are to be signed
    Poll,       \* the poll loop of a node
    Caller,     \* goroutines of requests to synchronise now
    MaxKey,     \* bound: creation times are 1..MaxKey
    MaxCrashes, \* bound: crashes in a behaviour
    MaxSyncs    \* bound: requests to synchronise in a behaviour

ASSUME KeySyncAssumption ==
    /\ Peers \in [Node -> SUBSET Node]
    /\ Poll \notin Caller
    /\ Zone # {}
    /\ {MaxKey, MaxCrashes, MaxSyncs} \subseteq Nat

VARIABLES
    phase,    \* "down", "ensuring" its zones' keys, or "running"
    keys,     \* KeyManager.keys, 0 for no key
    signer,   \* whether KeyPair.signer is set
    stored,   \* the key store; survives a crash
    saving,   \* zones whose new key is not saved yet
    sync,     \* what each syncing goroutine is doing
    crowded,  \* nodes with syncs that overlapped since they last had none
    generated, \* the keys that were generated: <<key, node, zone>>
    crashes, syncs

vars == <<phase, keys, signer, stored, saving, sync, crowded, generated, crashes, syncs>>

Syncer == Caller \cup {Poll}
NoKey == 0
Key == 1..MaxKey
Idle == [at |-> "idle"]

\* A response still to be imported: `zone' is being imported with `at'.
Import == [at: {"check", "set", "save"}, got: [Zone -> Key \cup {NoKey}],
           todo: SUBSET Zone, zone: Zone]

-----------------------------------------------------------------------------
(* Keys and signatures *)

\* Faulty: a local key is never replaced.
IsMissing(remote, local) == local = NoKey

\* Faulty: the age of the keys is not compared.
IsAnother(remote, local) == remote # local

IsNewerThan(remote, local) == local = NoKey \/ remote > local

CanSign(n, z) == keys[n][z] # NoKey /\ signer[n][z]

\* The key of the signatures in a response, and of the DNSKEY record that goes
\* with them: none unless the node can sign.
SignResponse(n, z) == IF CanSign(n, z) THEN keys[n][z] ELSE NoKey

\* The DS record a node publishes.
DSRecord(n, z) == keys[n][z]

-----------------------------------------------------------------------------
(* Start of a node *)

Init ==
    /\ phase = [n \in Node |-> "down"]
    /\ keys = [n \in Node |-> [z \in Zone |-> NoKey]]
    /\ signer = [n \in Node |-> [z \in Zone |-> FALSE]]
    /\ stored = [n \in Node |-> [z \in Zone |-> NoKey]]
    /\ saving = [n \in Node |-> {}]
    /\ sync = [n \in Node |-> [s \in Syncer |-> Idle]]
    /\ crowded = {}
    /\ generated = {}
    /\ crashes = 0
    /\ syncs = 0

\* LoadAllKeys: what is loaded has no signer, whoever generated it.
LoadAllKeys(n) ==
    /\ phase[n] = "down"
    /\ phase' = [phase EXCEPT ![n] = "ensuring"]
    /\ keys' = [keys EXCEPT ![n] = stored[n]]
    /\ signer' = [signer EXCEPT ![n] = [z \in Zone |-> FALSE]]
    /\ UNCHANGED <<stored, saving, sync, crowded, generated, crashes, syncs>>

\* Faulty: whether the node has a key already is not looked at.
GenerateKeyAnew(n, z) ==
    /\ phase[n] = "ensuring"
    /\ saving[n] = {}
    /\ \E k \in {k \in Key : \A p \in Node, y \in Zone : <<k, p, y>> \notin generated} :
          /\ generated' = generated \cup {<<k, n, z>>}
          /\ keys' = [keys EXCEPT ![n][z] = k]
    /\ signer' = [signer EXCEPT ![n][z] = TRUE]
    /\ saving' = [saving EXCEPT ![n] = {z}]
    /\ UNCHANGED <<phase, stored, sync, crowded, crashes, syncs>>

\* EnsureKeysForZones, a zone without a key: generate it ...
GenerateKey(n, z) ==
    /\ phase[n] = "ensuring"
    /\ saving[n] = {}
    /\ keys[n][z] = NoKey /\ stored[n][z] = NoKey
    /\ \E k \in {k \in Key : \A p \in Node, y \in Zone : <<k, p, y>> \notin generated} :
          /\ generated' = generated \cup {<<k, n, z>>}
          /\ keys' = [keys EXCEPT ![n][z] = k]
    /\ signer' = [signer EXCEPT ![n][z] = TRUE]
    /\ saving' = [saving EXCEPT ![n] = {z}]
    /\ UNCHANGED <<phase, stored, sync, crowded, crashes, syncs>>

\* ... and save it.
SaveKey(n, z) ==
    /\ z \in saving[n]
    /\ stored' = [stored EXCEPT ![n][z] = keys[n][z]]
    /\ saving' = [saving EXCEPT ![n] = {}]
    /\ UNCHANGED <<phase, keys, signer, sync, crowded, generated, crashes, syncs>>

\* Every zone has a key: the syncer starts.
Start(n) ==
    /\ phase[n] = "ensuring"
    /\ saving[n] = {}
    /\ \A z \in Zone : keys[n][z] # NoKey
    /\ phase' = [phase EXCEPT ![n] = "running"]
    /\ UNCHANGED <<keys, signer, stored, saving, sync, crowded, generated, crashes, syncs>>

\* A node ends at any point of what it is doing.
Crash(n) ==
    /\ phase[n] # "down"
    /\ crashes < MaxCrashes
    /\ crashes' = crashes + 1
    /\ phase' = [phase EXCEPT ![n] = "down"]
    /\ keys' = [keys EXCEPT ![n] = [z \in Zone |-> NoKey]]
    /\ signer' = [signer EXCEPT ![n] = [z \in Zone |-> FALSE]]
    /\ saving' = [saving EXCEPT ![n] = {}]
    /\ sync' = [sync EXCEPT ![n] = [s \in Syncer |-> Idle]]
    /\ crowded' = crowded \ {n}
    /\ UNCHANGED <<stored, generated, syncs>>

-----------------------------------------------------------------------------
(* Synchronisation *)

Busy(n) == {s \in Syncer : sync[n][s] # Idle}

Go(n, s, next) ==
    /\ sync' = [sync EXCEPT ![n][s] = next]
    /\ crowded' = IF \A t \in Syncer : sync'[n][t] = Idle THEN crowded \ {n} ELSE crowded

\* GET /api/v1/dnssec/keys of peer p answers with all its keys.  A peer that
\* does not answer changes nothing.
FetchKeys(n, s, p) ==
    /\ phase[n] = "running" /\ phase[p] # "down"
    /\ p \in Peers[n]
    /\ sync[n][s] = Idle
    /\ sync' = [sync EXCEPT ![n][s] =
                   [at |-> "check", got |-> keys[p], zone |-> CHOOSE z \in Zone : TRUE,
                    todo |-> {z \in Zone : keys[p][z] # NoKey}]]
    /\ crowded' = IF Busy(n) # {} THEN crowded \cup {n} ELSE crowded
    /\ UNCHANGED <<phase, keys, signer, stored, saving, generated, crashes>>

PollPeer(n, p) == FetchKeys(n, Poll, p) /\ UNCHANGED syncs

\* POST /api/v1/dnssec/sync
SyncNow(n, s, p) ==
    /\ syncs < MaxSyncs
    /\ syncs' = syncs + 1
    /\ FetchKeys(n, s, p)

\* The next key of the response, if it is newer than the local one.
CheckKey(n, s, z) ==
    /\ sync[n][s].at = "check"
    /\ LET it == sync[n][s] IN
          /\ z \in it.todo
          /\ Go(n, s, IF IsNewerThan(it.got[z], keys[n][z])
                      THEN [it EXCEPT !.at = "set", !.zone = z, !.todo = @ \ {z}]
                      ELSE [it EXCEPT !.todo = @ \ {z}])
    /\ UNCHANGED <<phase, keys, signer, stored, saving, generated, crashes, syncs>>

\* SetKey: the copy has no private key and replaces whatever is there now.
SetKey(n, s) ==
    /\ sync[n][s].at = "set"
    /\ LET it == sync[n][s] IN
          /\ keys' = [keys EXCEPT ![n][it.zone] = it.got[it.zone]]
          /\ signer' = [signer EXCEPT ![n][it.zone] = FALSE]
          /\ Go(n, s, [it EXCEPT !.at = "save"])
    /\ UNCHANGED <<phase, stored, saving, generated, crashes, syncs>>

\* The copy is saved; a failure is only logged.
PersistKey(n, s) ==
    /\ sync[n][s].at = "save"
    /\ LET it == sync[n][s] IN
          /\ stored' \in {stored, [stored EXCEPT ![n][it.zone] = it.got[it.zone]]}
          /\ Go(n, s, [it EXCEPT !.at = "check"])
    /\ UNCHANGED <<phase, keys, signer, saving, generated, crashes, syncs>>

Done(n, s) ==
    /\ sync[n][s].at = "check"
    /\ sync[n][s].todo = {}
    /\ Go(n, s, Idle)
    /\ UNCHANGED <<phase, keys, signer, stored, saving, generated, crashes, syncs>>

ImportStep(n, s) ==
    \/ \E z \in Zone : CheckKey(n, s, z)
    \/ SetKey(n, s)
    \/ PersistKey(n, s)
    \/ Done(n, s)

StartStep(n) == LoadAllKeys(n) \/ Start(n) \/ \E z \in Zone : GenerateKey(n, z) \/ SaveKey(n, z)

Next ==
    \E n \in Node :
        \/ StartStep(n)
        \/ Crash(n)
        \/ \E s \in Syncer : ImportStep(n, s)
        \/ \E p \in Node : PollPeer(n, p) \/ \E s \in Caller : SyncNow(n, s, p)

Spec == Init /\ [][Next]_vars

\* Nodes are restarted, goroutines run, and the poll loop goes on asking every
\* peer: that an answer arrives again and again is the network's part.
Fairness ==
    /\ \A n \in Node : WF_vars(StartStep(n))
    /\ \A n \in Node, s \in Syncer : WF_vars(ImportStep(n, s))
    /\ \A n \in Node, p \in Node : SF_vars(PollPeer(n, p))

FairSpec == Spec /\ Fairness

-----------------------------------------------------------------------------
(* Properties *)

\* What the variables hold.
TypeOK ==
    /\ phase \in [Node -> {"down", "ensuring", "running"}]
    /\ keys \in [Node -> [Zone -> Key \cup {NoKey}]]
    /\ signer \in [Node -> [Zone -> BOOLEAN]]
    /\ stored \in [Node -> [Zone -> Key \cup {NoKey}]]
    /\ saving \in [Node -> SUBSET Zone]
    /\ sync \in [Node -> [Syncer -> Import \cup {Idle}]]
    /\ crowded \subseteq Node /\ generated \subseteq Key \X Node \X Zone

\* In the end all nodes publish the same DS record, so that what any of them
\* signs verifies with the one key that is registered with the parent zone:
\* whatever they generated while apart, and however syncs overlapped.
KeysConverge ==
    <>[](\A z \in Zone : \A n, p \in Node :
            DSRecord(n, z) # NoKey /\ DSRecord(n, z) = DSRecord(p, z))

\* Responses in flight and overlapping syncs implement the abstract account of
\* the keys: what is imported was generated for that zone by a node, a restart
\* brings back what was saved, nothing is generated beside it, and no import
\* that a crash cut short goes on afterwards.
ZK == INSTANCE ZoneKeys WITH up <- [n \in Node |-> phase[n] # "down"],
                             held <- keys, saved <- stored
ZoneKeysSpec == ZK!Spec

\* A node's key is never replaced by an older one, unless two syncs of the
\* node overlap.
NeverOlder ==
    [][\A n \in Node, z \in Zone :
          keys'[n][z] < keys[n][z] => phase'[n] = "down" \/ n \in crowded]_vars

\* What ha-setup.md says: keys "are imported and used for signing", so that all
\* nodes sign with identical keys.
AllSign ==
    \A n \in Node, z \in Zone :
        phase[n] = "running" => SignResponse(n, z) = DSRecord(n, z)

\* What KeyPair.Signer's comment says: a key has no signer "if this key was
\* synced and doesn't have the private key".
OwnKeySigns ==
    \A n \in Node, z \in Zone :
        phase[n] = "running" /\ <<keys[n][z], n, z>> \in generated => signer[n][z]
=============================================================================
