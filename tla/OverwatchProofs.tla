--------------------------- MODULE OverwatchProofs ---------------------------
(***************************************************************************)
(* Proofs, for every set of keys, agents and weights and every choice of   *)
(* the durations, of the safety properties of BackendRegistry; and that    *)
(* the composed Overwatch process only ever does to its backend registry   *)
(* what BackendRegistry allows, so that what is proved of the registry     *)
(* holds of it in the process; and that the DNS registry, which follows    *)
(* the backend registry in steps of its own, keeps no server of a backend  *)
(* that is gone.                                                           *)
(***************************************************************************)
EXTENDS OverwatchDNS, TLAPS


-----------------------------------------------------------------------------
(* Facts about records *)

\* Saturation sits above every bound that the code or a property compares an age with.
LEMMA MaxAgeBounds ==
    /\ MaxAge \in Nat
    /\ MaxAge > StaleThreshold + CheckInterval
    /\ MaxAge > RemoveAfter + CheckInterval
BY ConstantsAssumption DEF MaxAge

\* Recomputing a status changes nothing else.
LEMMA ComputedFacts ==
    ASSUME NEW b \in Backend
    PROVE  /\ Computed(b) \in Backend
           /\ Computed(b).status = EffectiveStatus(Computed(b))
           /\ Computed(b) = [b EXCEPT !.status = Computed(b).status]
           /\ Computed(b).source = b.source
           /\ Computed(b).age = b.age
BY DEF Computed, EffectiveStatus, Says, Backend, Status

\* The first record of a backend, whoever registers it, is well formed.
LEMMA NewBackendType ==
    ASSUME NEW source \in Source, NEW w \in Weight, NEW age \in 0..MaxAge
    PROVE  /\ NewBackend(source, w, age) \in Backend
           /\ NewBackend(source, w, age).source = source
           /\ NewBackend(source, w, age).age = age
BY DEF NewBackend, Backend, Verdict, Status

\* An agent's message renews the record's owner, claim and age.
LEMMA RenewedType ==
    ASSUME NEW b \in Backend, NEW a \in Agent, NEW w \in Weight, NEW h \in BOOLEAN
    PROVE  LET r == [b EXCEPT !.agent = a, !.weight = w, !.claim = h, !.age = 0]
           IN  r \in Backend /\ r.age = 0
<1>1. 0 \in 0..MaxAge
  BY MaxAgeBounds
<1>2. a \in Agent \cup {NoAgent}
  OBVIOUS
<1> QED BY <1>1, <1>2 DEF Backend

\* A tick leaves a record, or the absence of one, well formed.
LEMMA OlderType ==
    ASSUME NEW b \in Backend \cup {NoBackend}
    PROVE  /\ Older(b) \in Backend \cup {NoBackend}
           /\ Older(b) = NoBackend <=> b = NoBackend
BY MaxAgeBounds, NoBackendAssumption DEF Older, Backend

\* A tick adds one to the age of a record, up to saturation, and changes nothing else.
LEMMA OlderFacts ==
    ASSUME NEW b \in Backend
    PROVE  /\ Older(b) \in Backend
           /\ Older(b).age >= b.age
           /\ Older(b).age <= b.age + 1
           /\ Older(b) = [b EXCEPT !.age = Older(b).age]
BY MaxAgeBounds, NoBackendAssumption DEF Older, Backend

-----------------------------------------------------------------------------
(* Every operation on a key writes one record, whose status is the one the *)
(* hierarchy gives it, or deletes the key.                                 *)

Written(k, b) ==
    /\ Live
    /\ Put(k, b)
    /\ UNCHANGED <<phase, pending, timer, checked>>

\* What the seven operations have in common.
LEMMA OperationShape ==
    ASSUME TypeOK, NEW k \in Key, Operation(k)
    PROVE  \/ Written(k, NoBackend)
           \/ \E b \in Backend :
                 /\ Written(k, b)
                 /\ b.status = EffectiveStatus(b)
                 /\ \/ b.age = 0
                    \/ Present(k) /\ b.age = backends[k].age
                                  /\ b.source = backends[k].source
<1> USE DEF Written
<1> DEFINE Shape(b) == /\ b.status = EffectiveStatus(b)
                       /\ \/ b.age = 0
                          \/ Present(k) /\ b.age = backends[k].age
                                        /\ b.source = backends[k].source
<1>0. Present(k) => backends[k] \in Backend
  BY DEF TypeOK, Present
<1>1. ASSUME NEW a \in Agent, NEW w \in Weight, NEW healthy \in BOOLEAN,
             Register(a, k, w, healthy)
      PROVE  \E b \in Backend : Written(k, b) /\ Shape(b)
  <2> DEFINE old == IF Present(k) THEN backends[k] ELSE NewBackend("agent", w, 0)
             new == [old EXCEPT !.agent = a, !.weight = w, !.claim = healthy, !.age = 0]
  <2>1. old \in Backend
    BY <1>0, NewBackendType, MaxAgeBounds DEF Source
  <2> HIDE DEF old
  <2>2. new \in Backend /\ new.age = 0
    BY <2>1, RenewedType
  <2>3. Computed(new) \in Backend /\ Shape(Computed(new))
    BY <2>2, ComputedFacts
  <2>4. Written(k, Computed(new))
    BY <1>1 DEF Register, old
  <2> QED BY <2>3, <2>4
<1>2. ASSUME NEW w \in Weight, RegisterAPI(k, w)
      PROVE  \E b \in Backend : Written(k, b) /\ Shape(b)
  <2>1. NewBackend("api", w, 0) \in Backend /\ NewBackend("api", w, 0).age = 0
    BY NewBackendType, MaxAgeBounds DEF Source
  <2>2. Computed(NewBackend("api", w, 0)) \in Backend
          /\ Shape(Computed(NewBackend("api", w, 0)))
    BY <2>1, ComputedFacts
  <2> QED BY <1>2, <2>2 DEF RegisterAPI
<1>3. ASSUME NEW b \in Backend, Present(k), b.age = backends[k].age,
             b.source = backends[k].source, Written(k, Computed(b))
      PROVE  \E c \in Backend : Written(k, c) /\ Shape(c)
  BY <1>3, ComputedFacts
<1>4. ASSUME NEW w \in Weight, Update(k, w)
      PROVE  \E b \in Backend : Written(k, b) /\ Shape(b)
  <2> DEFINE new == [backends[k] EXCEPT !.weight = w]
  <2>1. new \in Backend /\ new.age = backends[k].age /\ new.source = backends[k].source
    BY <1>0, <1>4 DEF Update, Backend
  <2> QED BY <1>3, <1>4, <2>1 DEF Update
<1>5. ASSUME Deregister(k)
      PROVE  Written(k, NoBackend)
  BY <1>5 DEF Deregister
<1>6. ASSUME NEW v \in Verdict, UpdateValidation(k, v)
      PROVE  \E b \in Backend : Written(k, b) /\ Shape(b)
  <2> DEFINE new == [backends[k] EXCEPT !.validation = v]
  <2>1. new \in Backend /\ new.age = backends[k].age /\ new.source = backends[k].source
    BY <1>0, <1>6 DEF UpdateValidation, Backend
  <2> QED BY <1>3, <1>6, <2>1 DEF UpdateValidation
<1>7. ASSUME NEW v \in Verdict, SetOverride(k, v)
      PROVE  \E b \in Backend : Written(k, b) /\ Shape(b)
  <2> DEFINE new == [backends[k] EXCEPT !.override = v]
  <2>1. new \in Backend /\ new.age = backends[k].age /\ new.source = backends[k].source
    BY <1>0, <1>7 DEF SetOverride, Backend
  <2> QED BY <1>3, <1>7, <2>1 DEF SetOverride
<1>8. ASSUME ClearOverride(k)
      PROVE  \E b \in Backend : Written(k, b) /\ Shape(b)
  <2> DEFINE new == [backends[k] EXCEPT !.override = "none"]
  <2>1. new \in Backend /\ new.age = backends[k].age /\ new.source = backends[k].source
    BY <1>0, <1>8 DEF ClearOverride, Backend, Verdict
  <2> QED BY <1>3, <1>8, <2>1 DEF ClearOverride
<1> QED
  BY <1>1, <1>2, <1>4, <1>5, <1>6, <1>7, <1>8 DEF Operation

-----------------------------------------------------------------------------
(* Type correctness *)

\* A store write keeps the types of the store and of the history variable.
LEMMA SaveType ==
    ASSUME TypeOK, NEW K \in SUBSET Key, Save(K),
           backends' \in [Key -> Backend \cup {NoBackend}]
    PROVE  store' \in [Key -> Backend \cup {NoBackend}] /\ unsaved' \subseteq Key
BY DEF TypeOK, Save

\* A store write that may lose some keys leaves the store well formed.
LEMMA WrittenType ==
    ASSUME TypeOK, NEW k \in Key, NEW b \in Backend \cup {NoBackend}, Written(k, b)
    PROVE  TypeOK'
<1>1. backends' \in [Key -> Backend \cup {NoBackend}]
  BY DEF Written, Put, TypeOK
<1>2. Save({k}) /\ {k} \in SUBSET Key
  BY DEF Written, Put
<1>3. store' \in [Key -> Backend \cup {NoBackend}] /\ unsaved' \subseteq Key
  BY <1>1, <1>2, SaveType
<1> QED BY <1>1, <1>3 DEF Written, TypeOK

\* A freshly armed stale-check timer is well formed.
LEMMA FullTimer == CheckInterval \in 0..CheckInterval
BY ConstantsAssumption

\* A process that never ran is well formed.
LEMMA InitType == Init => TypeOK
<1> SUFFICES ASSUME Init PROVE TypeOK
  OBVIOUS
<1>1. timer \in 0..CheckInterval
  BY FullTimer DEF Init
<1>2. checked \in BOOLEAN
  BY DEF Init
<1> QED BY <1>1, <1>2 DEF Init, TypeOK

\* Every action preserves type correctness.
LEMMA NextType == TypeOK /\ [Next]_vars => TypeOK'
<1> SUFFICES ASSUME TypeOK, [Next]_vars PROVE TypeOK'
  OBVIOUS
<1>1. ASSUME NEW k \in Key, Operation(k) PROVE TypeOK'
  BY <1>1, OperationShape, WrittenType
<1>2. ASSUME NEW a \in Agent, NEW d \in BOOLEAN, UpdateDraining(a, d) PROVE TypeOK'
  <2>1. \A k \in OwnedBy(a) : Computed([backends[k] EXCEPT !.draining = d]) \in Backend
    <3> TAKE k \in OwnedBy(a)
    <3>1. backends[k] \in Backend
      BY DEF OwnedBy, Present, TypeOK
    <3>2. [backends[k] EXCEPT !.draining = d] \in Backend
      BY <3>1 DEF Backend
    <3> QED BY <3>2, ComputedFacts
  <2>2. backends' \in [Key -> Backend \cup {NoBackend}]
    BY <1>2, <2>1 DEF UpdateDraining, TypeOK
  <2>3. store' \in [Key -> Backend \cup {NoBackend}] /\ unsaved' \subseteq Key
    BY <1>2, <2>2, SaveType DEF UpdateDraining, OwnedBy
  <2> QED BY <1>2, <2>2, <2>3 DEF UpdateDraining, TypeOK
<1>3. ASSUME CheckStaleBackends PROVE TypeOK'
  <2>1. \A k \in Key : Present(k) => Computed(backends[k]) \in Backend
    BY ComputedFacts DEF Present, TypeOK
  <2>2. backends' \in [Key -> Backend \cup {NoBackend}]
    BY <1>3, <2>1 DEF CheckStaleBackends
  <2>3. store' \in [Key -> Backend \cup {NoBackend}] /\ unsaved' \subseteq Key
    BY <1>3, <2>2, SaveType DEF CheckStaleBackends, Expired
  <2> QED BY <1>3, <2>2, <2>3, ConstantsAssumption DEF CheckStaleBackends, TypeOK
<1>4. ASSUME Tick PROVE TypeOK'
  <2>1. \A k \in Key : /\ Older(backends[k]) \in Backend \cup {NoBackend}
                       /\ Older(store[k]) \in Backend \cup {NoBackend}
    BY OlderType DEF TypeOK
  <2>2. timer' \in 0..CheckInterval
    BY <1>4, ConstantsAssumption DEF Tick, TypeOK
  <2> QED BY <1>4, <2>1, <2>2 DEF Tick, TypeOK
<1>5. ASSUME NEW cfg \in Configs, Boot(cfg) PROVE TypeOK'
  BY <1>5, ConstantsAssumption DEF Boot, TypeOK
<1>6. ASSUME NEW k \in Key, NEW w \in Weight, RegisterStatic(k, w) PROVE TypeOK'
  <2> DEFINE b == IF Present(k) THEN [backends[k] EXCEPT !.weight = w]
                                ELSE NewBackend("static", w, MaxAge)
  <2>1. b \in Backend
    <3>1. CASE Present(k)
      BY <3>1 DEF Present, TypeOK, Backend
    <3>2. CASE ~Present(k)
      BY <3>2, NewBackendType, MaxAgeBounds DEF Source
    <3> QED BY <3>1, <3>2
  <2> HIDE DEF b
  <2>2. Computed(b) \in Backend
    BY <2>1, ComputedFacts
  <2>3. Put(k, Computed(b))
    BY <1>6 DEF RegisterStatic, b
  <2>4. backends' \in [Key -> Backend \cup {NoBackend}]
    BY <2>2, <2>3 DEF Put, TypeOK
  <2>5. store' \in [Key -> Backend \cup {NoBackend}] /\ unsaved' \subseteq Key
    BY <2>3, <2>4, SaveType DEF Put
  <2> QED BY <1>6, <2>4, <2>5 DEF RegisterStatic, TypeOK
<1>7. ASSUME NEW loaded \in SUBSET Stored, Start(loaded) PROVE TypeOK'
  <2>1. \A k \in Key : store[k] # NoBackend => Computed(store[k]) \in Backend
    BY ComputedFacts DEF TypeOK
  <2>2. backends' \in [Key -> Backend \cup {NoBackend}]
    BY <1>7, <2>1 DEF Start, Stored, TypeOK
  <2>3. timer' \in 0..CheckInterval
    BY <1>7, FullTimer DEF Start
  <2>4. checked' \in BOOLEAN
    BY <1>7 DEF Start
  <2> QED BY <1>7, <2>2, <2>3, <2>4 DEF Start, Stored, TypeOK
<1>8. ASSUME Shutdown \/ Exit \/ UNCHANGED vars PROVE TypeOK'
  BY <1>8, FullTimer DEF Shutdown, Exit, vars, TypeOK
<1> QED
  BY <1>1, <1>2, <1>3, <1>4, <1>5, <1>6, <1>7, <1>8 DEF Next, LifeCycle

\* The registry's map, store and timers keep their types through every
\* operation, restart and failed store write (pkg/overwatch/registry.go).
THEOREM TypeCorrect == Spec => []TypeOK
BY InitType, NextType, PTL DEF Spec

-----------------------------------------------------------------------------
(* The status of every backend follows its evidence *)

StatusOK(b) ==
    \/ b.status = EffectiveStatus(b)
    \/ /\ EffectiveStatus(b) = "stale"
       /\ b.status = EffectiveStatus([b EXCEPT !.age = 0])

\* Only silence ages: a tick can turn the status the evidence supports into
\* "stale" and nothing else.
LEMMA OlderStatus ==
    ASSUME NEW b \in Backend, StatusOK(b)
    PROVE  StatusOK(Older(b))
<1> DEFINE c == Older(b)
           young == [b EXCEPT !.age = 0]
<1>1. /\ c \in Backend /\ c.age >= b.age /\ c = [b EXCEPT !.age = c.age]
      /\ c.age \in Nat /\ b.age \in Nat
  BY OlderFacts DEF Backend
<1>2. [c EXCEPT !.age = 0] = young
  BY <1>1 DEF Backend
<1>3. /\ c.override = b.override /\ c.draining = b.draining /\ c.validation = b.validation
      /\ c.source = b.source /\ c.claim = b.claim /\ c.status = b.status
  BY <1>1 DEF Backend
<1>4. /\ young.override = b.override /\ young.draining = b.draining
      /\ young.validation = b.validation /\ young.source = b.source
      /\ young.claim = b.claim /\ young.age = 0
  BY DEF Backend
<1> HIDE DEF c, young
<1>5. EffectiveStatus(c) = EffectiveStatus(b) \/ EffectiveStatus(c) = "stale"
  BY <1>1, <1>3, ConstantsAssumption DEF EffectiveStatus
<1>6. EffectiveStatus(b) = "stale" => EffectiveStatus(c) = "stale"
  BY <1>1, <1>3, ConstantsAssumption DEF EffectiveStatus, Says
<1>7. EffectiveStatus(b) # "stale" /\ EffectiveStatus(c) = "stale"
        => EffectiveStatus(b) = EffectiveStatus(young)
  BY <1>1, <1>3, <1>4, ConstantsAssumption DEF EffectiveStatus, Says
<1>8. \/ b.status = EffectiveStatus(b)
      \/ EffectiveStatus(b) = "stale" /\ b.status = EffectiveStatus(young)
  BY DEF StatusOK, young
<1>9. \/ c.status = EffectiveStatus(c)
      \/ EffectiveStatus(c) = "stale" /\ c.status = EffectiveStatus(young)
  BY <1>3, <1>5, <1>6, <1>7, <1>8
<1> QED BY <1>2, <1>9 DEF StatusOK, c

\* The invariant, backend by backend.
LEMMA StatusFollowsEvidenceDef ==
    StatusFollowsEvidence <=> \A k \in Key : Present(k) => StatusOK(backends[k])
BY DEF StatusFollowsEvidence, StatusOK

\* computeEffectiveStatus establishes the invariant for its backend.
LEMMA ComputedStatusOK ==
    ASSUME NEW b \in Backend
    PROVE  StatusOK(Computed(b))
BY ComputedFacts DEF StatusOK

\* Every action preserves the agreement of statuses with evidence.
LEMMA NextStatus ==
    TypeOK /\ StatusFollowsEvidence /\ [Next]_vars => StatusFollowsEvidence'
<1> SUFFICES ASSUME TypeOK, \A k \in Key : Present(k) => StatusOK(backends[k]),
                    [Next]_vars,
                    NEW k \in Key, Present(k)'
             PROVE  StatusOK(backends[k])'
  BY StatusFollowsEvidenceDef DEF StatusFollowsEvidence, StatusOK
<1> USE DEF Present
<1>0. Present(k) => backends[k] \in Backend
  BY DEF TypeOK
<1>1. ASSUME NEW j \in Key, Operation(j) PROVE StatusOK(backends[k])'
  <2>1. PICK b \in Backend \cup {NoBackend} :
           Written(j, b) /\ (b # NoBackend => b.status = EffectiveStatus(b))
    BY <1>1, OperationShape
  <2>2. backends' = [backends EXCEPT ![j] = b]
    BY <2>1 DEF Written, Put
  <2>3. CASE k = j
    BY <2>1, <2>2, <2>3 DEF StatusOK, TypeOK
  <2>4. CASE k # j
    BY <2>2, <2>4 DEF TypeOK
  <2> QED BY <2>3, <2>4
<1>2. ASSUME NEW a \in Agent, NEW d \in BOOLEAN, UpdateDraining(a, d)
      PROVE  StatusOK(backends[k])'
  <2>1. CASE k \in OwnedBy(a)
    <3>1. [backends[k] EXCEPT !.draining = d] \in Backend
      BY <1>0, <2>1 DEF OwnedBy, Backend
    <3>2. backends'[k] = Computed([backends[k] EXCEPT !.draining = d])
      BY <1>2, <2>1 DEF UpdateDraining
    <3> QED BY <3>1, <3>2, ComputedStatusOK
  <2>2. CASE k \notin OwnedBy(a)
    BY <1>2, <2>2 DEF UpdateDraining
  <2> QED BY <2>1, <2>2
<1>3. ASSUME CheckStaleBackends PROVE StatusOK(backends[k])'
  <2>1. Present(k) /\ backends'[k] = Computed(backends[k])
    BY <1>3 DEF CheckStaleBackends
  <2> QED BY <1>0, <2>1, ComputedStatusOK
<1>4. ASSUME Tick PROVE StatusOK(backends[k])'
  <2>1. backends'[k] = Older(backends[k])
    BY <1>4 DEF Tick
  <2>2. Present(k)
    BY <2>1, OlderType DEF TypeOK
  <2> QED BY <1>0, <2>1, <2>2, OlderStatus
<1>5. ASSUME NEW cfg \in Configs, Boot(cfg) PROVE StatusOK(backends[k])'
  BY <1>5 DEF Boot
<1>6. ASSUME NEW j \in Key, NEW w \in Weight, RegisterStatic(j, w)
      PROVE  StatusOK(backends[k])'
  <2> DEFINE b == IF Present(j) THEN [backends[j] EXCEPT !.weight = w]
                                ELSE NewBackend("static", w, MaxAge)
  <2>1. b \in Backend
    <3>1. CASE Present(j)
      BY <3>1 DEF TypeOK, Backend
    <3>2. CASE ~Present(j)
      BY <3>2, NewBackendType, MaxAgeBounds DEF Source
    <3> QED BY <3>1, <3>2
  <2> HIDE DEF b
  <2>2. backends' = [backends EXCEPT ![j] = Computed(b)]
    BY <1>6 DEF RegisterStatic, Put, b
  <2>3. CASE k = j
    BY <2>1, <2>2, <2>3, ComputedStatusOK DEF TypeOK
  <2>4. CASE k # j
    BY <2>2, <2>4 DEF TypeOK
  <2> QED BY <2>3, <2>4
<1>7. ASSUME NEW loaded \in SUBSET Stored, Start(loaded) PROVE StatusOK(backends[k])'
  <2>1. CASE k \notin loaded
    BY <1>7, <2>1 DEF Start
  <2>2. CASE k \in loaded
    <3>1. store[k] \in Backend /\ backends'[k] = Computed(store[k])
      BY <1>7, <2>2 DEF Start, Stored, TypeOK
    <3> QED BY <3>1, ComputedStatusOK
  <2> QED BY <2>1, <2>2
<1>8. ASSUME Shutdown \/ Exit \/ UNCHANGED vars PROVE StatusOK(backends[k])'
  BY <1>8 DEF Shutdown, Exit, vars
<1> QED
  BY <1>1, <1>2, <1>3, <1>4, <1>5, <1>6, <1>7, <1>8 DEF Next, LifeCycle

\* After every operation, load, stale check and tick each backend has the
\* status the authority hierarchy of computeEffectiveStatus gives it, up to a
\* staleness the next check will detect.
THEOREM StatusSound == Spec => []StatusFollowsEvidence
<1>1. Init => StatusFollowsEvidence
  BY DEF Init, StatusFollowsEvidence, Present
<1> QED BY <1>1, NextStatus, TypeCorrect, PTL DEF Spec

-----------------------------------------------------------------------------
(* What a boot leaves in the map before Start loads the store *)

\* A process that is down has no map; until the load the map holds static
\* servers only, each one saved or known to be unsaved.
BootState ==
    /\ phase = "down" => \A k \in Key : ~Present(k)
    /\ phase = "starting" =>
          \A k \in Key : Present(k) => /\ backends[k].source = "static"
                                       /\ k \notin unsaved => store[k] # NoBackend

\* What RegisterStatic does to the map: a static record under its key, and only there.
LEMMA RegisterStaticShape ==
    ASSUME TypeOK, BootState, NEW k \in Key, NEW w \in Weight, RegisterStatic(k, w)
    PROVE  \E b \in Backend : Put(k, b) /\ b.source = "static"
<1> DEFINE b == IF Present(k) THEN [backends[k] EXCEPT !.weight = w]
                              ELSE NewBackend("static", w, MaxAge)
<1>1. b \in Backend /\ b.source = "static"
  <2>1. CASE Present(k)
    <3>1. backends[k] \in Backend /\ backends[k].source = "static"
      BY <2>1 DEF TypeOK, Present, BootState, RegisterStatic
    <3> QED BY <2>1, <3>1 DEF Backend
  <2>2. CASE ~Present(k)
    BY <2>2, NewBackendType, MaxAgeBounds DEF Source
  <2> QED BY <2>1, <2>2
<1> HIDE DEF b
<1>2. Put(k, Computed(b))
  BY DEF RegisterStatic, b
<1> QED BY <1>1, <1>2, ComputedFacts

\* Every action preserves what is known of a boot.
LEMMA NextBoot == TypeOK /\ BootState /\ [Next]_vars => BootState'
<1> SUFFICES ASSUME TypeOK, BootState, [Next]_vars PROVE BootState'
  OBVIOUS
<1>1. ASSUME NEW k \in Key, Operation(k) PROVE BootState'
  BY <1>1, OperationShape DEF Written, Live, BootState
<1>2. ASSUME NEW a \in Agent, NEW d \in BOOLEAN, UpdateDraining(a, d) PROVE BootState'
  BY <1>2 DEF UpdateDraining, Live, BootState
<1>3. ASSUME CheckStaleBackends PROVE BootState'
  BY <1>3 DEF CheckStaleBackends, BootState
<1>4. ASSUME Tick PROVE BootState'
  <2>1. ASSUME NEW k \in Key
        PROVE  /\ Present(k)' <=> Present(k)
               /\ store'[k] = NoBackend <=> store[k] = NoBackend
               /\ Present(k) => backends'[k].source = backends[k].source
    <3>1. backends'[k] = Older(backends[k]) /\ store'[k] = Older(store[k])
      BY <1>4 DEF Tick
    <3>2. backends[k] \in Backend => Older(backends[k]).source = backends[k].source
      BY OlderFacts DEF Backend
    <3> QED BY <3>1, <3>2, OlderType DEF TypeOK, Present
  <2> QED BY <1>4, <2>1 DEF Tick, BootState
<1>5. ASSUME NEW cfg \in Configs, Boot(cfg) PROVE BootState'
  BY <1>5 DEF Boot, BootState, Present
<1>6. ASSUME NEW k \in Key, NEW w \in Weight, RegisterStatic(k, w) PROVE BootState'
  <2>1. PICK b \in Backend : Put(k, b) /\ b.source = "static"
    BY <1>6, RegisterStaticShape
  <2>2. b # NoBackend
    BY NoBackendAssumption
  <2>3. phase = "starting" /\ phase' = "starting"
    BY <1>6 DEF RegisterStatic
  <2>4. ASSUME NEW j \in Key, Present(j)'
        PROVE  backends'[j].source = "static" /\ (j \notin unsaved' => store'[j] # NoBackend)
    <3>1. CASE j = k
      BY <2>1, <2>2, <3>1 DEF Put, Save, TypeOK
    <3>2. CASE j # k
      BY <2>1, <2>3, <2>4, <3>2 DEF Put, Save, TypeOK, BootState, Present
    <3> QED BY <3>1, <3>2
  <2> QED BY <2>3, <2>4 DEF BootState
<1>7. ASSUME (\E loaded \in SUBSET Stored : Start(loaded)) \/ Shutdown \/ Exit PROVE BootState'
  BY <1>7 DEF Start, Shutdown, Exit, BootState, Present
<1>8. ASSUME UNCHANGED vars PROVE BootState'
  BY <1>8 DEF vars, BootState, Present
<1> QED
  BY <1>1, <1>2, <1>3, <1>4, <1>5, <1>6, <1>7, <1>8 DEF Next, LifeCycle

\* The map before the load is as a boot leaves it.
LEMMA BootStateHolds == Spec => []BootState
<1>1. Init => BootState
  BY DEF Init, BootState, Present
<1> QED BY <1>1, NextBoot, TypeCorrect, PTL DEF Spec

-----------------------------------------------------------------------------
(* The store follows the map *)

\* Recomputing its status keeps a record the same but for the status.
LEMMA SameComputed ==
    ASSUME NEW b \in Backend
    PROVE  SameButStatus(b, Computed(b))
<1>1. Computed(b) \in Backend /\ Computed(b) = [b EXCEPT !.status = Computed(b).status]
  BY ComputedFacts
<1>2. b = [Computed(b) EXCEPT !.status = b.status]
  BY <1>1 DEF Backend
<1> QED BY <1>1, <1>2, NoBackendAssumption DEF SameButStatus

\* Recomputing the map's copy leaves the pair in agreement.
LEMMA SameRecomputed ==
    ASSUME NEW x \in Backend \cup {NoBackend}, NEW b \in Backend, SameButStatus(x, b)
    PROVE  SameButStatus(x, Computed(b))
<1>1. x \in Backend /\ x = [b EXCEPT !.status = x.status]
  BY NoBackendAssumption DEF SameButStatus
<1>2. Computed(b) \in Backend /\ Computed(b) = [b EXCEPT !.status = Computed(b).status]
  BY ComputedFacts
<1>3. x = [Computed(b) EXCEPT !.status = x.status]
  BY <1>1, <1>2 DEF Backend
<1> QED BY <1>1, <1>2, <1>3, NoBackendAssumption DEF SameButStatus

\* A tick keeps two records the same but for their status.
LEMMA SameOlder ==
    ASSUME NEW x \in Backend \cup {NoBackend}, NEW y \in Backend \cup {NoBackend},
           SameButStatus(x, y)
    PROVE  SameButStatus(Older(x), Older(y))
<1>1. CASE x = NoBackend
  BY <1>1, OlderType DEF SameButStatus
<1>2. CASE x # NoBackend
  <2>1. x \in Backend /\ y \in Backend /\ x = [y EXCEPT !.status = x.status]
    BY <1>2 DEF SameButStatus
  <2>2. x.age = y.age
    BY <2>1 DEF Backend
  <2>3. Older(x).age = Older(y).age
    BY <2>1, <2>2, NoBackendAssumption DEF Older, Backend
  <2>4. /\ Older(x) \in Backend /\ Older(x) = [x EXCEPT !.age = Older(x).age]
        /\ Older(y) \in Backend /\ Older(y) = [y EXCEPT !.age = Older(y).age]
    BY <2>1, OlderFacts
  <2>5. Older(x).status = x.status
    BY <2>1, <2>4 DEF Backend
  <2>6. Older(x) = [Older(y) EXCEPT !.status = Older(x).status]
    BY <2>1, <2>3, <2>4, <2>5 DEF Backend
  <2> QED BY <2>4, <2>6, NoBackendAssumption DEF SameButStatus
<1> QED BY <1>1, <1>2

\* A record written is the record kept.
LEMMA SameSelf ==
    ASSUME NEW x \in Backend \cup {NoBackend}
    PROVE  SameButStatus(x, x)
BY DEF SameButStatus, Backend

\* A step of the live registry that saves the keys it changed keeps the
\* agreement, whichever writes are lost.
LEMMA SaveAgrees ==
    ASSUME TypeOK, Live, StoreMatchesMap, NEW K \in SUBSET Key, Save(K),
           backends' \in [Key -> Backend \cup {NoBackend}],
           \A k \in Key \ (K \cup unsaved) : SameButStatus(store[k], backends'[k])
    PROVE  \A k \in Key \ unsaved' : SameButStatus(store'[k], backends'[k])
<1> TAKE k \in Key \ unsaved'
<1>1. PICK lost \in SUBSET K :
         /\ store' = [j \in Key |-> IF j \in K \ lost THEN backends'[j] ELSE store[j]]
         /\ unsaved' = (unsaved \ K) \cup lost
  BY DEF Save
<1>2. CASE k \in K
  BY <1>1, <1>2, SameSelf
<1>3. CASE k \notin K
  BY <1>1, <1>3
<1> QED BY <1>2, <1>3

\* Every action preserves the agreement of the store with the map.
LEMMA NextStore ==
    TypeOK /\ TypeOK' /\ BootState /\ StoreMatchesMap /\ [Next]_vars => StoreMatchesMap'
<1> SUFFICES ASSUME TypeOK, TypeOK', BootState, StoreMatchesMap, [Next]_vars
             PROVE  StoreMatchesMap'
  OBVIOUS
<1>0. backends' \in [Key -> Backend \cup {NoBackend}]
  BY DEF TypeOK
<1>1. ASSUME NEW k \in Key, Operation(k) PROVE StoreMatchesMap'
  <2>1. PICK b \in Backend \cup {NoBackend} : Written(k, b)
    BY <1>1, OperationShape
  <2>2. Live /\ backends' = [backends EXCEPT ![k] = b] /\ Save({k})
    BY <2>1 DEF Written, Put
  <2>3. \A j \in Key \ ({k} \cup unsaved) : SameButStatus(store[j], backends'[j])
    BY <2>2 DEF StoreMatchesMap, TypeOK, Live
  <2>4. \A j \in Key \ unsaved' : SameButStatus(store'[j], backends'[j])
    BY <1>0, <2>2, <2>3, SaveAgrees
  <2> QED BY <2>4 DEF StoreMatchesMap
<1>2. ASSUME NEW a \in Agent, NEW d \in BOOLEAN, UpdateDraining(a, d)
      PROVE  StoreMatchesMap'
  <2>1. Live /\ Save(OwnedBy(a)) /\ OwnedBy(a) \in SUBSET Key
    BY <1>2 DEF UpdateDraining, OwnedBy
  <2>2. \A j \in Key \ (OwnedBy(a) \cup unsaved) : SameButStatus(store[j], backends'[j])
    BY <1>2, <2>1 DEF UpdateDraining, StoreMatchesMap, Live
  <2>3. \A j \in Key \ unsaved' : SameButStatus(store'[j], backends'[j])
    BY <1>0, <2>1, <2>2, SaveAgrees
  <2> QED BY <2>3 DEF StoreMatchesMap
<1>3. ASSUME CheckStaleBackends PROVE StoreMatchesMap'
  <2>1. Live /\ Save(Expired) /\ Expired \in SUBSET Key
    BY <1>3 DEF CheckStaleBackends, Expired, Live
  <2>2. ASSUME NEW j \in Key \ (Expired \cup unsaved)
        PROVE  SameButStatus(store[j], backends'[j])
    <3>1. SameButStatus(store[j], backends[j])
      BY <2>1 DEF StoreMatchesMap, Live
    <3>2. CASE Present(j)
      <4>1. backends'[j] = Computed(backends[j])
        BY <1>3, <3>2 DEF CheckStaleBackends
      <4>2. backends[j] \in Backend /\ store[j] \in Backend \cup {NoBackend}
        BY <3>2 DEF TypeOK, Present
      <4> QED BY <3>1, <4>1, <4>2, SameRecomputed
    <3>3. CASE ~Present(j)
      BY <1>3, <3>1, <3>3 DEF CheckStaleBackends, Present
    <3> QED BY <3>2, <3>3
  <2>3. \A j \in Key \ unsaved' : SameButStatus(store'[j], backends'[j])
    BY <1>0, <2>1, <2>2, SaveAgrees
  <2> QED BY <2>3 DEF StoreMatchesMap
<1>4. ASSUME Tick PROVE StoreMatchesMap'
  <2>1. ASSUME phase \in {"running", "closing"}, NEW k \in Key \ unsaved
        PROVE  SameButStatus(store'[k], backends'[k])
    <3>1. store'[k] = Older(store[k]) /\ backends'[k] = Older(backends[k])
      BY <1>4 DEF Tick
    <3>2. SameButStatus(store[k], backends[k])
      BY <2>1 DEF StoreMatchesMap
    <3> QED BY <3>1, <3>2, SameOlder DEF TypeOK
  <2> QED BY <1>4, <2>1 DEF Tick, StoreMatchesMap
<1>5. ASSUME NEW cfg \in Configs, Boot(cfg) PROVE StoreMatchesMap'
  BY <1>5 DEF Boot, StoreMatchesMap
<1>6. ASSUME NEW k \in Key, NEW w \in Weight, RegisterStatic(k, w) PROVE StoreMatchesMap'
  BY <1>6 DEF RegisterStatic, StoreMatchesMap
<1>7. ASSUME NEW loaded \in SUBSET Stored, Start(loaded) PROVE StoreMatchesMap'
  <2>1. ASSUME NEW k \in Key \ unsaved'
        PROVE  SameButStatus(store'[k], backends'[k])
    <3>1. CASE store[k] = NoBackend
      <4>1. k \notin unsaved /\ k \notin loaded
        BY <1>7, <2>1, <3>1 DEF Start, Stored
      <4>2. ~Present(k)
        BY <1>7, <3>1, <4>1 DEF Start, BootState
      <4> QED BY <1>7, <3>1, <4>1, <4>2, SameSelf DEF Start, Present
    <3>2. CASE store[k] # NoBackend
      <4>1. store[k] \in Backend /\ backends'[k] = Computed(store[k]) /\ store' = store
        BY <1>7, <2>1, <3>2 DEF Start, Stored, TypeOK
      <4> QED BY <4>1, SameComputed
    <3> QED BY <3>1, <3>2
  <2> QED BY <2>1 DEF StoreMatchesMap
<1>8. ASSUME Shutdown \/ Exit PROVE StoreMatchesMap'
  BY <1>8 DEF Shutdown, Exit, StoreMatchesMap
<1>9. ASSUME UNCHANGED vars PROVE StoreMatchesMap'
  BY <1>9 DEF vars, StoreMatchesMap
<1> QED
  BY <1>1, <1>2, <1>3, <1>4, <1>5, <1>6, <1>7, <1>8, <1>9 DEF Next, LifeCycle

\* Write-through persistence: the bbolt copy equals the map in everything but
\* the recomputed status, for every key whose last write or load did not fail, so a
\* restart neither loses nor resurrects a backend, an override or a verdict.
THEOREM StoreSound == Spec => []StoreMatchesMap
<1>1. Init => StoreMatchesMap
  BY DEF Init, StoreMatchesMap
<1>2. TypeOK /\ [Next]_vars => TypeOK'
  BY NextType
<1> QED BY <1>1, <1>2, NextStore, TypeCorrect, BootStateHolds, PTL DEF Spec

-----------------------------------------------------------------------------
(* Real-time bounds of stale detection *)


\* A freshly computed status is stale as soon as the age exceeds the
\* threshold, so the bound holds whatever the timer shows.
LEMMA ComputedBound ==
    ASSUME NEW b \in Backend, b.status = EffectiveStatus(b),
           OnAgentWordOnly(b), b.status # "stale"
    PROVE  b.age \in Nat /\ b.age <= StaleThreshold
BY ConstantsAssumption DEF EffectiveStatus, OnAgentWordOnly, Backend

\* Every action preserves the bound on silent agents' backends.
LEMMA NextStale ==
    TypeOK /\ TypeOK' /\ BootState /\ StaleDetectedInTime /\ [Next]_vars
        => StaleDetectedInTime'
<1> SUFFICES ASSUME TypeOK, TypeOK', BootState, StaleDetectedInTime, [Next]_vars,
                    NEW k \in Key, phase' = "running", Present(k)',
                    OnAgentWordOnly(backends[k])', backends'[k].status # "stale"
             PROVE  backends'[k].age + timer' <= StaleThreshold + CheckInterval
  BY DEF StaleDetectedInTime
<1>0. /\ backends'[k] \in Backend /\ backends'[k].age \in Nat
      /\ timer' \in Nat /\ timer' <= CheckInterval
      /\ timer \in Nat /\ timer <= CheckInterval
      /\ OnAgentWordOnly(backends'[k])
  BY DEF TypeOK, Present, Backend, OnAgentWordOnly
<1>c. backends'[k].status = EffectiveStatus(backends'[k])
        => backends'[k].age + timer' <= StaleThreshold + CheckInterval
  BY <1>0, ComputedBound, ConstantsAssumption
<1>u. phase = "running" /\ backends'[k] = backends[k] /\ timer' = timer
        => backends'[k].age + timer' <= StaleThreshold + CheckInterval
  BY <1>0 DEF StaleDetectedInTime, Present
<1>1. ASSUME NEW j \in Key, Operation(j)
      PROVE  backends'[k].age + timer' <= StaleThreshold + CheckInterval
  <2>1. PICK b \in Backend \cup {NoBackend} :
           Written(j, b) /\ (b # NoBackend => b.status = EffectiveStatus(b))
    BY <1>1, OperationShape
  <2>2. backends' = [backends EXCEPT ![j] = b] /\ timer' = timer /\ phase' = phase
    BY <2>1 DEF Written, Put
  <2>3. CASE k = j
    BY <1>c, <2>1, <2>2, <2>3 DEF TypeOK, Present
  <2>4. CASE k # j
    BY <1>u, <2>2, <2>4 DEF TypeOK
  <2> QED BY <2>3, <2>4
<1>2. ASSUME NEW a \in Agent, NEW d \in BOOLEAN, UpdateDraining(a, d)
      PROVE  backends'[k].age + timer' <= StaleThreshold + CheckInterval
  <2>1. CASE k \in OwnedBy(a)
    <3>1. [backends[k] EXCEPT !.draining = d] \in Backend
      BY <2>1 DEF OwnedBy, Present, TypeOK, Backend
    <3>2. backends'[k] = Computed([backends[k] EXCEPT !.draining = d])
      BY <1>2, <2>1 DEF UpdateDraining
    <3>3. backends'[k].status = EffectiveStatus(backends'[k])
      BY <3>1, <3>2, ComputedFacts
    <3> QED BY <1>c, <3>3
  <2>2. CASE k \notin OwnedBy(a)
    BY <1>2, <1>u, <2>2 DEF UpdateDraining
  <2> QED BY <2>1, <2>2
<1>3. ASSUME CheckStaleBackends
      PROVE  backends'[k].age + timer' <= StaleThreshold + CheckInterval
  <2>1. Present(k) /\ backends'[k] = Computed(backends[k])
    BY <1>3 DEF CheckStaleBackends, Present
  <2>2. backends'[k].status = EffectiveStatus(backends'[k])
    BY <2>1, ComputedFacts DEF TypeOK, Present
  <2> QED BY <1>c, <2>2
<1>4. ASSUME Tick
      PROVE  backends'[k].age + timer' <= StaleThreshold + CheckInterval
  <2>1. phase = "running" /\ timer' = timer - 1 /\ backends'[k] = Older(backends[k])
    BY <1>4 DEF Tick
  <2>2. Present(k) /\ backends[k] \in Backend
    BY <2>1, OlderType DEF TypeOK, Present
  <2>3. /\ backends'[k].age <= backends[k].age + 1
        /\ backends'[k] = [backends[k] EXCEPT !.age = backends'[k].age]
    BY <2>1, <2>2, OlderFacts
  <2>4. OnAgentWordOnly(backends[k]) /\ backends[k].status # "stale"
    BY <1>0, <2>2, <2>3 DEF OnAgentWordOnly, Backend
  <2>5. backends[k].age + timer <= StaleThreshold + CheckInterval
    BY <2>1, <2>2, <2>4 DEF StaleDetectedInTime
  <2>6. backends[k].age \in Nat
    BY <2>2 DEF Backend
  <2> QED BY <1>0, <2>1, <2>3, <2>5, <2>6, ConstantsAssumption
<1>7. ASSUME NEW loaded \in SUBSET Stored, Start(loaded)
      PROVE  backends'[k].age + timer' <= StaleThreshold + CheckInterval
  <2>1. CASE k \notin loaded
    <3>1. backends'[k] = backends[k] /\ backends[k].source = "static"
      BY <1>7, <2>1 DEF Start, BootState, Present
    <3> QED BY <1>0, <3>1 DEF OnAgentWordOnly
  <2>2. CASE k \in loaded
    <3>1. store[k] \in Backend /\ backends'[k] = Computed(store[k])
      BY <1>7, <2>2 DEF Start, Stored, TypeOK
    <3>2. backends'[k].status = EffectiveStatus(backends'[k])
      BY <3>1, ComputedFacts
    <3> QED BY <1>c, <3>2
  <2> QED BY <2>1, <2>2
<1>8. ASSUME UNCHANGED vars
      PROVE  backends'[k].age + timer' <= StaleThreshold + CheckInterval
  BY <1>8, <1>u DEF vars
<1>9. /\ \A cfg \in Configs : ~Boot(cfg)
      /\ \A j \in Key, w \in Weight : ~RegisterStatic(j, w)
      /\ ~Shutdown /\ ~Exit
  BY DEF Boot, RegisterStatic, Shutdown, Exit
<1> QED
  BY <1>1, <1>2, <1>3, <1>4, <1>7, <1>8, <1>9 DEF Next, LifeCycle

\* A backend only its agent vouches for leaves rotation at most one check
\* period after the stale threshold (staleDetectionLoop, loadFromStore).
THEOREM StaleBounded == Spec => []StaleDetectedInTime
<1>1. Init => StaleDetectedInTime
  BY DEF Init, StaleDetectedInTime
<1>2. TypeOK /\ [Next]_vars => TypeOK'
  BY NextType
<1> QED BY <1>1, <1>2, NextStale, TypeCorrect, BootStateHolds, PTL DEF Spec

\* Every action preserves the bound on expired backends.
LEMMA NextExpired ==
    TypeOK /\ TypeOK' /\ ExpiredRemovedInTime /\ [Next]_vars => ExpiredRemovedInTime'
<1> SUFFICES ASSUME TypeOK, TypeOK', ExpiredRemovedInTime, [Next]_vars,
                    NEW k \in Key, phase' = "running", checked', Present(k)',
                    backends'[k].source = "agent"
             PROVE  backends'[k].age + timer' <= RemoveAfter + CheckInterval
  BY DEF ExpiredRemovedInTime
<1>0. /\ backends'[k] \in Backend /\ backends'[k].age \in Nat
      /\ timer' \in Nat /\ timer' <= CheckInterval
      /\ timer \in Nat /\ timer <= CheckInterval
  BY DEF TypeOK, Present, Backend
<1>u. ASSUME phase = "running", checked, Present(k), timer' = timer,
             backends'[k].age = backends[k].age,
             backends'[k].source = backends[k].source
      PROVE  backends'[k].age + timer' <= RemoveAfter + CheckInterval
  BY <1>0, <1>u DEF ExpiredRemovedInTime
<1>1. ASSUME NEW j \in Key, Operation(j)
      PROVE  backends'[k].age + timer' <= RemoveAfter + CheckInterval
  <2>1. PICK b \in Backend \cup {NoBackend} :
           /\ Written(j, b)
           /\ b # NoBackend => \/ b.age = 0
                               \/ Present(j) /\ b.age = backends[j].age
                                             /\ b.source = backends[j].source
    BY <1>1, OperationShape
  <2>2. /\ backends' = [backends EXCEPT ![j] = b]
        /\ timer' = timer /\ phase' = phase /\ checked' = checked
    BY <2>1 DEF Written, Put
  <2>3. CASE k = j
    <3>1. backends'[k] = b /\ b # NoBackend
      BY <2>2, <2>3 DEF TypeOK, Present
    <3>2. CASE b.age = 0
      BY <1>0, <3>1, <3>2, ConstantsAssumption
    <3>3. CASE Present(j) /\ b.age = backends[j].age /\ b.source = backends[j].source
      BY <1>u, <2>2, <2>3, <3>1, <3>3
    <3> QED BY <2>1, <3>1, <3>2, <3>3
  <2>4. CASE k # j
    <3>1. backends'[k] = backends[k] /\ Present(k)
      BY <2>2, <2>4 DEF TypeOK, Present
    <3> QED BY <1>u, <2>2, <3>1
  <2> QED BY <2>3, <2>4
<1>2. ASSUME NEW a \in Agent, NEW d \in BOOLEAN, UpdateDraining(a, d)
      PROVE  backends'[k].age + timer' <= RemoveAfter + CheckInterval
  <2>0. phase' = phase /\ checked' = checked /\ timer' = timer
    BY <1>2 DEF UpdateDraining
  <2>1. CASE k \in OwnedBy(a)
    <3> DEFINE b == [backends[k] EXCEPT !.draining = d]
    <3>1. b \in Backend /\ b.age = backends[k].age /\ b.source = backends[k].source
      BY <2>1 DEF OwnedBy, Present, TypeOK, Backend
    <3>2. backends'[k] = Computed(b) /\ Present(k)
      BY <1>2, <2>1 DEF UpdateDraining, OwnedBy
    <3> HIDE DEF b
    <3> QED BY <1>u, <2>0, <3>1, <3>2, ComputedFacts
  <2>2. CASE k \notin OwnedBy(a)
    BY <1>2, <1>u, <2>0, <2>2 DEF UpdateDraining, Present
  <2> QED BY <2>1, <2>2
<1>3. ASSUME CheckStaleBackends
      PROVE  backends'[k].age + timer' <= RemoveAfter + CheckInterval
  <2>1. Present(k) /\ k \notin Expired /\ backends'[k] = Computed(backends[k])
    BY <1>3 DEF CheckStaleBackends, Present
  <2>2. /\ backends'[k].age = backends[k].age
        /\ backends'[k].source = backends[k].source
    BY <2>1, ComputedFacts DEF TypeOK, Present
  <2>3. ~(backends[k].age > RemoveAfter)
    BY <2>1, <2>2 DEF Expired
  <2> QED BY <1>0, <2>2, <2>3, ConstantsAssumption
<1>4. ASSUME Tick
      PROVE  backends'[k].age + timer' <= RemoveAfter + CheckInterval
  <2>1. /\ phase = "running" /\ checked' = checked
        /\ timer' = timer - 1 /\ backends'[k] = Older(backends[k])
    BY <1>4 DEF Tick
  <2>2. Present(k) /\ backends[k] \in Backend
    BY <2>1, OlderType DEF TypeOK, Present
  <2>3. /\ backends'[k].age <= backends[k].age + 1
        /\ backends'[k] = [backends[k] EXCEPT !.age = backends'[k].age]
    BY <2>1, <2>2, OlderFacts
  <2>4. backends[k].source = "agent" /\ backends[k].age \in Nat
    BY <2>2, <2>3 DEF Backend
  <2>5. backends[k].age + timer <= RemoveAfter + CheckInterval
    BY <2>1, <2>2, <2>4 DEF ExpiredRemovedInTime
  <2> QED BY <1>0, <2>1, <2>3, <2>4, <2>5, ConstantsAssumption
<1>7. \A loaded \in SUBSET Stored : ~Start(loaded)
  BY DEF Start
<1>8. ASSUME UNCHANGED vars
      PROVE  backends'[k].age + timer' <= RemoveAfter + CheckInterval
  BY <1>8, <1>u DEF vars, Present
<1>9. /\ \A cfg \in Configs : ~Boot(cfg)
      /\ \A j \in Key, w \in Weight : ~RegisterStatic(j, w)
      /\ ~Shutdown /\ ~Exit
  BY DEF Boot, RegisterStatic, Shutdown, Exit
<1> QED
  BY <1>1, <1>2, <1>3, <1>4, <1>7, <1>8, <1>9 DEF Next, LifeCycle

\* A backend that an agent registered is gone at most one check period after
\* RemoveAfter without a registration (checkStaleBackends).
THEOREM ExpiryBounded == Spec => []ExpiredRemovedInTime
<1>1. Init => ExpiredRemovedInTime
  BY DEF Init, ExpiredRemovedInTime
<1>2. TypeOK /\ [Next]_vars => TypeOK'
  BY NextType
<1> QED BY <1>1, <1>2, NextExpired, TypeCorrect, PTL DEF Spec

-----------------------------------------------------------------------------
(* What a start and a change of the store may never do *)

\* Until the load, every static server has the status of a static server and,
\* if it could be saved, is in the store as it is in the map.
StaticSaved ==
    phase = "starting" =>
        \A k \in Key : Present(k) =>
            /\ backends[k].source = "static"
            /\ backends[k].status = EffectiveStatus(backends[k])
            /\ k \notin unsaved => store[k] = backends[k]

\* The status of a static server does not depend on its age.
LEMMA OlderStatic ==
    ASSUME NEW b \in Backend, b.source = "static"
    PROVE  /\ Older(b).source = "static"
           /\ Older(b).status = b.status
           /\ EffectiveStatus(Older(b)) = EffectiveStatus(b)
<1>1. Older(b) = [b EXCEPT !.age = Older(b).age]
  BY OlderFacts
<1> QED BY <1>1 DEF EffectiveStatus, Backend

\* Every action preserves it.
LEMMA NextStaticSaved ==
    TypeOK /\ BootState /\ StaticSaved /\ [Next]_vars => StaticSaved'
<1> SUFFICES ASSUME TypeOK, BootState, StaticSaved, [Next]_vars PROVE StaticSaved'
  OBVIOUS
<1>1. ASSUME NEW k \in Key, Operation(k) PROVE StaticSaved'
  BY <1>1, OperationShape DEF Written, Live, StaticSaved
<1>2. ASSUME NEW a \in Agent, NEW d \in BOOLEAN, UpdateDraining(a, d) PROVE StaticSaved'
  BY <1>2 DEF UpdateDraining, Live, StaticSaved
<1>3. ASSUME CheckStaleBackends \/ (\E loaded \in SUBSET Stored : Start(loaded)) \/ Shutdown \/ Exit
      PROVE  StaticSaved'
  BY <1>3 DEF CheckStaleBackends, Start, Shutdown, Exit, StaticSaved
<1>4. ASSUME Tick PROVE StaticSaved'
  <2> SUFFICES ASSUME phase = "starting", NEW k \in Key, Present(k)'
               PROVE  /\ backends'[k].source = "static"
                      /\ backends'[k].status = EffectiveStatus(backends'[k])
                      /\ k \notin unsaved' => store'[k] = backends'[k]
    BY <1>4 DEF Tick, StaticSaved, EffectiveStatus
  <2>1. /\ backends'[k] = Older(backends[k]) /\ store'[k] = Older(store[k])
        /\ unsaved' = unsaved
    BY <1>4 DEF Tick
  <2>2. Present(k) /\ backends[k] \in Backend
    BY <2>1, OlderType DEF Present, TypeOK
  <2>3. /\ backends[k].source = "static"
        /\ backends[k].status = EffectiveStatus(backends[k])
        /\ k \notin unsaved => store[k] = backends[k]
    BY <2>2 DEF StaticSaved
  <2> QED BY <2>1, <2>2, <2>3, OlderStatic
<1>5. ASSUME NEW cfg \in Configs, Boot(cfg) PROVE StaticSaved'
  BY <1>5 DEF Boot, StaticSaved, BootState, Present
<1>6. ASSUME NEW k \in Key, NEW w \in Weight, RegisterStatic(k, w) PROVE StaticSaved'
  <2> DEFINE old == IF Present(k) THEN [backends[k] EXCEPT !.weight = w]
                                  ELSE NewBackend("static", w, MaxAge)
             b == Computed(old)
  <2>1. old \in Backend /\ old.source = "static"
    <3>1. CASE Present(k)
      <4>1. backends[k] \in Backend /\ backends[k].source = "static"
        BY <1>6, <3>1 DEF TypeOK, Present, BootState, RegisterStatic
      <4> QED BY <3>1, <4>1 DEF Backend
    <3>2. CASE ~Present(k)
      BY <3>2, NewBackendType, MaxAgeBounds DEF Source
    <3> QED BY <3>1, <3>2
  <2>2. Put(k, b) /\ phase = "starting"
    BY <1>6 DEF RegisterStatic
  <2> HIDE DEF old
  <2>3. b \in Backend /\ b.source = "static" /\ b.status = EffectiveStatus(b)
    BY <2>1, ComputedFacts
  <2> HIDE DEF b
  <2>4. ASSUME NEW j \in Key, Present(j)'
        PROVE  /\ backends'[j].source = "static"
               /\ backends'[j].status = EffectiveStatus(backends'[j])
               /\ j \notin unsaved' => store'[j] = backends'[j]
    <3>1. CASE j = k
      <4>1. backends'[j] = b /\ (j \notin unsaved' => store'[j] = backends'[j])
        BY <2>2, <3>1 DEF Put, Save, TypeOK
      <4> QED BY <2>3, <4>1
    <3>2. CASE j # k
      <4>1. /\ backends'[j] = backends[j] /\ Present(j)
            /\ store'[j] = store[j] /\ (j \notin unsaved' => j \notin unsaved)
        BY <2>2, <2>4, <3>2 DEF Put, Save, TypeOK, Present
      <4> QED BY <2>2, <4>1 DEF StaticSaved
    <3> QED BY <3>1, <3>2
  <2> QED BY <2>4 DEF StaticSaved, EffectiveStatus
<1>7. ASSUME UNCHANGED vars PROVE StaticSaved'
  BY <1>7 DEF vars, StaticSaved, Present, EffectiveStatus
<1> QED
  BY <1>1, <1>2, <1>3, <1>4, <1>5, <1>6, <1>7 DEF Next, LifeCycle

\* loadFromStore does not undo registerStaticServers: a static server whose
\* record was saved is, after the load, what the file made it before.
THEOREM ConfigWins == Spec => ConfigSurvivesLoad
<1>1. Init => StaticSaved
  BY DEF Init, StaticSaved
<1>2. TypeOK /\ StaticSaved /\ [Next]_vars =>
         [(\E loaded \in SUBSET Stored : Start(loaded)) =>
             \A k \in Key \ unsaved : Present(k) => backends'[k] = backends[k]]_vars
  <2> SUFFICES ASSUME TypeOK, StaticSaved, NEW loaded \in SUBSET Stored, Start(loaded),
                      NEW k \in Key \ unsaved, Present(k)
               PROVE  backends'[k] = backends[k]
    OBVIOUS
  <2>1. /\ backends[k] \in Backend /\ store[k] = backends[k]
        /\ backends[k].status = EffectiveStatus(backends[k])
    BY DEF Start, StaticSaved, TypeOK, Present
  <2>2. backends'[k] = Computed(backends[k]) \/ backends'[k] = backends[k]
    BY <2>1 DEF Start, Present
  <2>3. [backends[k] EXCEPT !.status = backends[k].status] = backends[k]
    BY <2>1 DEF Backend
  <2> QED BY <2>1, <2>2, <2>3 DEF Computed
<1> QED
  BY <1>1, <1>2, NextStaticSaved, TypeCorrect, BootStateHolds, PTL DEF Spec, ConfigSurvivesLoad

\* A step that loses the stored override of k.
LosesOverride(k) ==
    /\ store[k] # NoBackend /\ store'[k] # NoBackend
    /\ store[k].override # "none" /\ store'[k].override = "none"

\* Recomputing a status keeps the override.
LEMMA ComputedOverride == ASSUME NEW b \in Backend PROVE Computed(b).override = b.override
BY DEF Computed, Backend

\* A tick keeps the override.
LEMMA OlderOverride == ASSUME NEW b \in Backend PROVE Older(b).override = b.override
BY NoBackendAssumption DEF Older, Backend

\* The map of a live registry has the override that the store has.
LEMMA MapOverride ==
    ASSUME TypeOK, StoreMatchesMap, Live, NEW k \in Key \ unsaved, store[k] # NoBackend
    PROVE  /\ Present(k) /\ backends[k] \in Backend
           /\ backends[k].override = store[k].override
<1>1. SameButStatus(store[k], backends[k])
  BY DEF StoreMatchesMap, Live
<1>2. Present(k) /\ backends[k] \in Backend /\ store[k] = [backends[k] EXCEPT !.status = store[k].status]
  BY <1>1 DEF SameButStatus, Present, TypeOK
<1>3. ASSUME NEW b \in Backend, NEW s PROVE [b EXCEPT !.status = s].override = b.override
  BY DEF Backend
<1> QED BY <1>2, <1>3

\* A write takes an override from the store only if its record has none.
LEMMA SavedOverride ==
    ASSUME TypeOK, NEW K \in SUBSET Key, Save(K), NEW k \in Key, LosesOverride(k)
    PROVE  k \in K /\ store'[k] = backends'[k]
BY DEF Save, LosesOverride

\* The operations on a key: only ClearOverride takes a stored override away.
LEMMA OperationOverride ==
    ASSUME TypeOK, StoreMatchesMap, NEW j \in Key, Operation(j),
           NEW k \in Key \ unsaved, LosesOverride(k)
    PROVE  ClearOverride(k)
<1>1. PICK b \in Backend \cup {NoBackend} : Written(j, b)
  BY OperationShape
<1>2. Live /\ backends' = [backends EXCEPT ![j] = b] /\ Save({j}) /\ store[k] # NoBackend
  BY <1>1 DEF Written, Put, LosesOverride
<1>3. j = k /\ store'[k] = backends'[k]
  BY <1>2, SavedOverride
<1>4. /\ Present(k) /\ backends[k] \in Backend
      /\ backends[k].override = store[k].override
  BY <1>2, MapOverride
<1>5. backends[k].override # "none" /\ backends'[k].override = "none" /\ backends'[k] # NoBackend
  BY <1>3, <1>4 DEF LosesOverride
<1>6. ASSUME NEW c \in Backend, backends' = [backends EXCEPT ![k] = Computed(c)]
      PROVE  c.override = "none"
  <2>1. backends'[k] = Computed(c)
    BY <1>6 DEF TypeOK
  <2> QED BY <1>5, <2>1, ComputedOverride
<1>7. ASSUME NEW a \in Agent, NEW w \in Weight, NEW h \in BOOLEAN, Register(a, k, w, h)
      PROVE  FALSE
  <2> DEFINE c == [backends[k] EXCEPT !.agent = a, !.weight = w, !.claim = h, !.age = 0]
  <2>1. c \in Backend
    BY <1>4, RenewedType
  <2>2. c.override = backends[k].override
    BY <1>4 DEF Backend
  <2>3. backends' = [backends EXCEPT ![k] = Computed(c)]
    BY <1>4, <1>7 DEF Register, Put
  <2> QED BY <1>5, <1>6, <2>1, <2>2, <2>3
<1>8. ASSUME NEW w \in Weight, RegisterAPI(k, w) \/ Update(k, w) PROVE FALSE
  <2> DEFINE c == [backends[k] EXCEPT !.weight = w]
  <2>1. c \in Backend /\ c.override = backends[k].override
    BY <1>4 DEF Backend
  <2>2. backends' = [backends EXCEPT ![k] = Computed(c)]
    BY <1>4, <1>8 DEF RegisterAPI, Update, Put
  <2> QED BY <1>5, <1>6, <2>1, <2>2
<1>9. CASE Deregister(k)
  BY <1>5, <1>9 DEF Deregister, Put, TypeOK
<1>10. ASSUME NEW v \in Verdict \ {"none"}, UpdateValidation(k, v) PROVE FALSE
  <2> DEFINE c == [backends[k] EXCEPT !.validation = v]
  <2>1. c \in Backend /\ c.override = backends[k].override
    BY <1>4 DEF Backend
  <2>2. backends' = [backends EXCEPT ![k] = Computed(c)]
    BY <1>10 DEF UpdateValidation, Put
  <2> QED BY <1>5, <1>6, <2>1, <2>2
<1>11. ASSUME NEW v \in Verdict \ {"none"}, SetOverride(k, v) PROVE FALSE
  <2> DEFINE c == [backends[k] EXCEPT !.override = v]
  <2>1. c \in Backend /\ c.override = v
    BY <1>4 DEF Backend
  <2>2. backends' = [backends EXCEPT ![k] = Computed(c)]
    BY <1>11 DEF SetOverride, Put
  <2> QED BY <1>6, <2>1, <2>2
<1> QED BY <1>3, <1>7, <1>8, <1>9, <1>10, <1>11 DEF Operation

\* An override in the store outlives everything but ClearOverride and the
\* static registrations of a boot: heartbeats, verdicts, drain signals, stale
\* checks, shutdowns and restarts keep it (pkg/overwatch/registry.go).
THEOREM OverrideDurable == Spec => OverrideKept
<1>1. TypeOK /\ StoreMatchesMap /\ [Next]_vars =>
         [\A k \in Key \ unsaved :
             store[k] # NoBackend /\ store'[k] # NoBackend
                 /\ store[k].override # "none" /\ store'[k].override = "none"
             => ClearOverride(k) \/ \E w \in Weight : RegisterStatic(k, w)]_vars
  <2> SUFFICES ASSUME TypeOK, StoreMatchesMap, Next, NEW k \in Key \ unsaved, LosesOverride(k)
               PROVE  ClearOverride(k) \/ \E w \in Weight : RegisterStatic(k, w)
    BY DEF LosesOverride
  <2>1. ASSUME NEW j \in Key, Operation(j) PROVE ClearOverride(k)
    BY <2>1, OperationOverride
  <2>2. ASSUME NEW a \in Agent, NEW d \in BOOLEAN, UpdateDraining(a, d) PROVE FALSE
    <3>1. Live /\ Save(OwnedBy(a)) /\ OwnedBy(a) \in SUBSET Key
      BY <2>2 DEF UpdateDraining, OwnedBy
    <3>2. k \in OwnedBy(a) /\ store'[k] = backends'[k]
      BY <3>1, SavedOverride
    <3>3. backends[k] \in Backend /\ backends[k].override = store[k].override
      BY <3>1, MapOverride DEF LosesOverride
    <3> DEFINE c == [backends[k] EXCEPT !.draining = d]
    <3>4. c \in Backend /\ c.override = backends[k].override
      BY <3>3 DEF Backend
    <3>5. backends'[k] = Computed(c)
      BY <2>2, <3>2 DEF UpdateDraining
    <3>6. Computed(c).override = c.override
      BY <3>4, ComputedOverride
    <3> QED BY <3>2, <3>3, <3>4, <3>5, <3>6 DEF LosesOverride
  <2>3. CASE CheckStaleBackends
    <3>1. Save(Expired) /\ Expired \in SUBSET Key
      BY <2>3 DEF CheckStaleBackends, Expired
    <3>2. k \in Expired /\ store'[k] = backends'[k]
      BY <3>1, SavedOverride
    <3> QED BY <2>3, <3>2 DEF CheckStaleBackends, LosesOverride
  <2>4. CASE Tick
    <3>1. store[k] \in Backend /\ store'[k] = Older(store[k])
      BY <2>4 DEF Tick, TypeOK, LosesOverride
    <3> QED BY <3>1, OlderOverride DEF LosesOverride
  <2>5. ASSUME NEW j \in Key, NEW w \in Weight, RegisterStatic(j, w) PROVE RegisterStatic(k, w)
    <3>1. Save({j}) /\ {j} \in SUBSET Key
      BY <2>5 DEF RegisterStatic, Put
    <3>2. k = j
      BY <3>1, SavedOverride
    <3> QED BY <2>5, <3>2
  <2>6. ASSUME NEW cfg \in Configs, Boot(cfg) PROVE FALSE
    BY <2>6 DEF Boot, LosesOverride
  <2>7. CASE (\E loaded \in SUBSET Stored : Start(loaded)) \/ Shutdown \/ Exit
    BY <2>7 DEF Start, Shutdown, Exit, LosesOverride
  <2> QED BY <2>1, <2>2, <2>3, <2>4, <2>5, <2>6, <2>7 DEF Next, LifeCycle
<1> QED BY <1>1, TypeCorrect, StoreSound, PTL DEF Spec, OverrideKept

-----------------------------------------------------------------------------
(* The Overwatch process *)

\* Every step of the process is a step of the backend registry or leaves it
\* alone.
LEMMA StepIsRegistryStep == [DNSNext]_allVars => [Next]_vars
<1> SUFFICES ASSUME [DNSNext]_allVars
             PROVE  [Next]_vars
  OBVIOUS
<1>1. CASE GossipStep
  <2>1. ASSUME NEW a \in Agent, NEW k \in Key, NEW w \in Weight, NEW h \in BOOLEAN,
               Register(a, k, w, h)
        PROVE  Next
    BY <2>1 DEF Next, Operation
  <2>2. ASSUME NEW k \in Key, Deregister(k)
        PROVE  Next
    BY <2>2 DEF Next, Operation
  <2>3. ASSUME NEW a \in Agent, NEW d \in BOOLEAN, UpdateDraining(a, d)
        PROVE  Next
    BY <2>3 DEF Next
  <2> QED
    BY <1>1, <2>1, <2>2, <2>3
    DEF GossipStep, Heartbeat, RegisterMessage, HeartbeatPredictive, DeregisterMessage
<1>2. CASE \E c \in APICaller : APIStep(c)
  BY <1>2 DEF APIStep, HandleServers, createServer, updateServer, deleteServer, CreateServer,
              UpdateServer, DeleteServer, Override, Next, Operation
<1>3. CASE \E c \in Caller : DNSCall(c)
  BY <1>3 DEF DNSCall
<1>4. CASE \E k \in Key, verdict \in Verdict \ {"none"} : Validated(k, verdict)
  BY <1>4 DEF Validated, Next, Operation
<1>5. CASE StaleCheck
  BY <1>5 DEF StaleCheck, Next
<1>6. CASE Time
  BY <1>6 DEF Time, Next
<1>7. CASE DNSLifeCycle
  BY <1>7 DEF DNSLifeCycle, DNSBoot, Reload, DNSRegisterStatic, DNSStart, DNSShutdown,
              DNSExit, Next, LifeCycle
<1>8. CASE UNCHANGED allVars
  BY <1>8 DEF allVars
<1> QED BY <1>1, <1>2, <1>3, <1>4, <1>5, <1>6, <1>7, <1>8 DEF DNSNext

\* The Overwatch process implements the backend registry: gossip, API,
\* validator, reload and DNS goroutines add no behaviour to it.
THEOREM ProcessImplementsRegistry == DNSSpec => Spec
<1>1. DNSInit => Init
  BY DEF DNSInit
<1> QED BY <1>1, StepIsRegistryStep, PTL DEF DNSSpec, Spec

-----------------------------------------------------------------------------
(* The two registries *)

\* A server that a goroutine has still to register belongs to a backend, or to
\* one that went meanwhile and is on record.
RegistrationsKnown ==
    \A k \in Key : Registering(k) => Present(k) \/ k \in overtaken

\* The inductive invariant of the DNS side.
DNSInv ==
    /\ dns \in [Key -> Weight \cup {NoServer}]
    /\ calls \in [Caller -> Seq(Call)]
    /\ domains \subseteq Key
    /\ RegistrationsKnown
    /\ NoServerLeftBehind

\* A present backend has a status, and so a name other than that of none.
LEMMA StatusNames ==
    ASSUME NEW b \in Backend
    PROVE  StatusName(b) # "" /\ StatusName(NoBackend) = "" /\ b # NoBackend
BY NoBackendAssumption DEF StatusName, Backend, Status

\* What todo must be like for a step on the registry that leaves its DNS calls to
\* the calling goroutine: it registers only what the step leaves in the map, and
\* names what the step removes from it.
TodoSound(todo) ==
    /\ todo \in Seq(Call)
    /\ \A i \in DOMAIN todo : todo[i].server # NoServer => backends'[todo[i].key] # NoBackend
    /\ \A k \in Key : Present(k) /\ backends'[k] = NoBackend =>
          \E i \in DOMAIN todo : todo[i].key = k

\* A step that leaves its DNS calls for later preserves the invariant.
LEMMA LaterKeepsInv ==
    ASSUME DNSInv, NEW c \in Caller, NEW todo, TodoSound(todo), Free(c), Later(c, todo)
    PROVE  DNSInv'
<1>1. /\ calls' = [calls EXCEPT ![c] = todo] /\ dns' = dns /\ domains' = domains
      /\ config' = config /\ calls[c] = <<>>
  BY DEF Later, Free
<1>2. /\ calls' \in [Caller -> Seq(Call)] /\ domains' \subseteq Key
      /\ dns' \in [Key -> Weight \cup {NoServer}]
  BY <1>1 DEF DNSInv, TodoSound
<1>3. \A d \in Caller : calls'[d] = IF d = c THEN todo ELSE calls[d]
  BY <1>1 DEF DNSInv
<1>4. overtaken' = {k \in Key : backends'[k] = NoBackend /\ (Registering(k) \/ k \in overtaken)}
  BY DEF Later, NoteOvertaken
<1>5. ASSUME NEW k \in Key, Registering(k)' PROVE Present(k)' \/ k \in overtaken'
  <2>1. PICK d \in Caller : \E i \in DOMAIN calls'[d] :
              calls'[d][i].key = k /\ calls'[d][i].server # NoServer
    BY <1>5 DEF Registering
  <2>2. CASE d = c
    BY <1>3, <2>1, <2>2 DEF TodoSound, Present
  <2>3. CASE d # c
    <3>1. Registering(k)
      BY <1>3, <2>1, <2>3 DEF Registering
    <3> QED BY <1>4, <3>1 DEF Present
  <2> QED BY <2>2, <2>3
<1>6. ASSUME NEW k \in domains' \ overtaken', dns'[k] # NoServer, ~Outstanding(k)'
      PROVE  Present(k)' \/ Listed(k)'
  <2> SUFFICES ASSUME backends'[k] = NoBackend PROVE Listed(k)'
    BY DEF Present
  <2>1. k \in domains /\ k \in Key /\ k \notin overtaken
    BY <1>1, <1>2, <1>4, <1>6
  <2>2. ~Outstanding(k)
    <3> SUFFICES ASSUME Outstanding(k) PROVE FALSE
      OBVIOUS
    <3>1. PICK d \in Caller : \E i \in DOMAIN calls[d] : calls[d][i].key = k
      BY DEF Outstanding
    <3>2. d # c
      BY <1>1, <3>1
    <3> QED BY <1>3, <1>6, <3>1, <3>2 DEF Outstanding
  <2>3. Present(k) \/ Listed(k)
    BY <1>1, <1>6, <2>1, <2>2 DEF DNSInv, NoServerLeftBehind
  <2>4. ~Present(k)
    <3> SUFFICES ASSUME Present(k) PROVE FALSE
      OBVIOUS
    <3>1. PICK i \in DOMAIN todo : todo[i].key = k
      BY <2>1 DEF TodoSound
    <3> QED BY <1>3, <1>6, <3>1 DEF Outstanding
  <2> QED BY <1>1, <2>3, <2>4 DEF Listed
<1> QED BY <1>2, <1>5, <1>6 DEF DNSInv, RegistrationsKnown, NoServerLeftBehind

\* A step that calls the callback under the lock preserves it.
LEMMA LockedKeepsInv ==
    ASSUME TypeOK, TypeOK', DNSInv, CallbackLocked
    PROVE  DNSInv'
<1>1. /\ domains' = domains /\ config' = config /\ calls' = calls
      /\ overtaken' = {k \in Key : backends'[k] = NoBackend /\ (Registering(k) \/ k \in overtaken)}
  BY DEF CallbackLocked, NoteOvertaken
<1>2. \A k \in Key : Registering(k)' <=> Registering(k)
  BY <1>1 DEF Registering
<1>3. RegistrationsKnown'
  BY <1>1, <1>2 DEF RegistrationsKnown, Present
<1>4. ASSUME NEW k \in domains' \ overtaken', dns'[k] # NoServer, ~Outstanding(k)'
      PROVE  Present(k)' \/ Listed(k)'
  <2> SUFFICES ASSUME backends'[k] = NoBackend PROVE Listed(k)'
    BY DEF Present
  <2>1. k \in domains /\ k \in Key /\ k \notin overtaken /\ ~Outstanding(k)
    BY <1>1, <1>4 DEF DNSInv, Outstanding
  <2>2. ~Present(k)
    <3> SUFFICES ASSUME Present(k) PROVE FALSE
      OBVIOUS
    <3>1. StatusName(backends[k]) # StatusName(backends'[k])
      BY <2>1, StatusNames DEF TypeOK, Present
    <3> QED BY <1>4, <2>1, <3>1 DEF CallbackLocked, ServerFor
  <2>3. dns'[k] = dns[k]
    BY <2>1, <2>2 DEF CallbackLocked, Present
  <2> QED BY <1>1, <1>4, <2>1, <2>2, <2>3 DEF DNSInv, NoServerLeftBehind, Listed
<1>5. dns' \in [Key -> Weight \cup {NoServer}]
  <2>1. \A k \in Key : ServerFor(backends'[k]) \in Weight \cup {NoServer}
    BY DEF ServerFor, TypeOK, Backend
  <2> QED BY <2>1 DEF CallbackLocked, DNSInv
<1> QED BY <1>1, <1>3, <1>4, <1>5 DEF DNSInv, NoServerLeftBehind

\* A step that leaves the DNS side alone and removes no backend preserves it.
LEMMA QuietKeepsInv ==
    ASSUME DNSInv, UNCHANGED dnsVars, \A k \in Key : Present(k) => Present(k)'
    PROVE  DNSInv'
<1>1. /\ domains' = domains /\ config' = config /\ calls' = calls /\ dns' = dns
      /\ overtaken' = overtaken
  BY DEF dnsVars
<1>2. \A k \in Key : /\ Registering(k)' <=> Registering(k)
                     /\ Outstanding(k)' <=> Outstanding(k)
                     /\ Listed(k)' <=> Listed(k)
  BY <1>1 DEF Registering, Outstanding, Listed
<1> QED BY <1>1, <1>2 DEF DNSInv, RegistrationsKnown, NoServerLeftBehind

\* The places of a sequence and of its tail.
LEMMA TailFacts ==
    ASSUME NEW S, NEW s \in Seq(S), s # <<>>
    PROVE  /\ \A i \in DOMAIN Tail(s) : i + 1 \in DOMAIN s /\ Tail(s)[i] = s[i + 1]
           /\ \A i \in DOMAIN s : i # 1 =>
                 i - 1 \in DOMAIN Tail(s) /\ Tail(s)[i - 1] = s[i]
<1>1. Len(s) \in Nat /\ Len(s) # 0 /\ DOMAIN s = 1 .. Len(s)
  OBVIOUS
<1>2. Len(Tail(s)) = Len(s) - 1 /\ DOMAIN Tail(s) = 1 .. Len(s) - 1
  BY <1>1
<1>3. \A i \in 1 .. Len(s) - 1 : Tail(s)[i] = s[i + 1]
  BY <1>1, <1>2
<1> QED BY <1>1, <1>2, <1>3

\* The next DNS call of a goroutine preserves it.
LEMMA CallKeepsInv ==
    ASSUME TypeOK, DNSInv, NEW c \in Caller, DNSCall(c)
    PROVE  DNSInv'
<1> DEFINE call == Head(calls[c])
<1>1. /\ calls' = [calls EXCEPT ![c] = Tail(calls[c])] /\ dns' = Apply(call)
      /\ domains' = domains /\ config' = config /\ overtaken' = overtaken
      /\ backends' = backends /\ calls[c] # <<>>
  BY DEF DNSCall, Free, vars
<1>2. calls[c] \in Seq(Call) /\ call \in Call /\ call = calls[c][1] /\ 1 \in DOMAIN calls[c]
      /\ Tail(calls[c]) \in Seq(Call)
  BY <1>1 DEF DNSInv
<1>3. /\ \A i \in DOMAIN Tail(calls[c]) :
            i + 1 \in DOMAIN calls[c] /\ Tail(calls[c])[i] = calls[c][i + 1]
      /\ \A i \in DOMAIN calls[c] : i # 1 =>
            i - 1 \in DOMAIN Tail(calls[c]) /\ Tail(calls[c])[i - 1] = calls[c][i]
  BY <1>1, <1>2, TailFacts
<1> HIDE DEF call
<1>5. \A d \in Caller : calls'[d] = IF d = c THEN Tail(calls[c]) ELSE calls[d]
  BY <1>1 DEF DNSInv
<1>6. calls' \in [Caller -> Seq(Call)]
  BY <1>1, <1>2 DEF DNSInv
<1>7. ASSUME NEW k \in Key, Registering(k)' PROVE Registering(k)
  <2>1. PICK d \in Caller : \E i \in DOMAIN calls'[d] :
              calls'[d][i].key = k /\ calls'[d][i].server # NoServer
    BY <1>7 DEF Registering
  <2>2. CASE d # c
    BY <1>5, <2>1, <2>2 DEF Registering
  <2>3. CASE d = c
    <3>1. PICK i \in DOMAIN Tail(calls[c]) :
             Tail(calls[c])[i].key = k /\ Tail(calls[c])[i].server # NoServer
      BY <1>5, <2>1, <2>3
    <3>2. i + 1 \in DOMAIN calls[c] /\ calls[c][i + 1] = Tail(calls[c])[i]
      BY <1>3, <3>1
    <3> QED BY <3>1, <3>2 DEF Registering
  <2> QED BY <2>2, <2>3
<1>8. ASSUME NEW k \in domains' \ overtaken', dns'[k] # NoServer, ~Outstanding(k)'
      PROVE  Present(k)' \/ Listed(k)'
  <2>1. k \in domains /\ k \in Key /\ k \notin overtaken
    BY <1>1, <1>8 DEF DNSInv
  <2>2. CASE call.key = k
    <3>1. call.server # NoServer
      BY <1>1, <1>2, <1>8, <2>1, <2>2 DEF Apply, DNSInv
    <3>2. Registering(k)
      BY <1>2, <2>2, <3>1 DEF Registering
    <3> QED BY <1>1, <2>1, <3>2 DEF DNSInv, RegistrationsKnown, Present
  <2>3. CASE call.key # k
    <3>1. ~Outstanding(k)
      <4> SUFFICES ASSUME Outstanding(k) PROVE FALSE
        OBVIOUS
      <4>1. PICK d \in Caller : \E i \in DOMAIN calls[d] : calls[d][i].key = k
        BY DEF Outstanding
      <4>2. CASE d # c
        BY <1>5, <1>8, <4>1, <4>2 DEF Outstanding
      <4>3. CASE d = c
        <5>1. PICK i \in DOMAIN calls[c] : calls[c][i].key = k
          BY <4>1, <4>3
        <5>2. i # 1
          BY <1>2, <2>3, <5>1
        <5>3. i - 1 \in DOMAIN Tail(calls[c]) /\ Tail(calls[c])[i - 1] = calls[c][i]
          BY <1>3, <5>1, <5>2
        <5>4. i - 1 \in DOMAIN calls'[c] /\ calls'[c][i - 1].key = k
          BY <1>5, <5>1, <5>3
        <5> QED BY <1>8, <5>4 DEF Outstanding
      <4> QED BY <4>2, <4>3
    <3>2. dns'[k] = dns[k]
      BY <1>1, <2>3 DEF Apply
    <3> QED BY <1>1, <1>8, <2>1, <3>1, <3>2 DEF DNSInv, NoServerLeftBehind, Present, Listed
  <2> QED BY <2>2, <2>3
<1>9. dns' \in [Key -> Weight \cup {NoServer}]
  BY <1>1, <1>2 DEF DNSInv, Apply, Call
<1> QED
  BY <1>1, <1>6, <1>7, <1>8, <1>9 DEF DNSInv, RegistrationsKnown, NoServerLeftBehind, Present

\* What the callback says of the one key that a step wrote or removed is sound.
LEMMA CallbackSound ==
    ASSUME TypeOK, TypeOK', NEW k \in Key, NEW b \in Backend \cup {NoBackend}, NEW old,
           backends' = [backends EXCEPT ![k] = b],
           Present(k) /\ b = NoBackend => old = backends[k].status
    PROVE  TodoSound(Callback(k, old))
<1>1. backends'[k] = b
  BY DEF TypeOK
<1>2. \A j \in Key : j # k => backends'[j] = backends[j]
  BY DEF TypeOK
<1> DEFINE call == [key |-> k, server |-> ServerFor(b)]
<1>3. ServerFor(b) \in Weight \cup {NoServer} /\ (ServerFor(b) # NoServer => b # NoBackend)
  BY DEF ServerFor, Backend
<1>4. call \in Call /\ call.key = k /\ call.server = ServerFor(b)
  BY <1>3 DEF Call
<1>5. Callback(k, old) = IF old # StatusName(b) THEN <<call>> ELSE <<>>
  BY <1>1 DEF Callback
<1> HIDE DEF call
<1>6. CASE old # StatusName(b)
  <2>1. Callback(k, old) = <<call>>
    BY <1>5, <1>6
  <2>2. /\ <<call>> \in Seq(Call) /\ DOMAIN <<call>> = {1} /\ <<call>>[1] = call
    BY <1>4
  <2> QED BY <1>1, <1>2, <1>3, <1>4, <2>1, <2>2 DEF TodoSound, Present
<1>7. CASE old = StatusName(b)
  <2>1. Callback(k, old) = <<>>
    BY <1>5, <1>7
  <2>2. ~(Present(k) /\ b = NoBackend)
    <3> SUFFICES ASSUME Present(k), b = NoBackend PROVE FALSE
      OBVIOUS
    <3>1. old = StatusName(backends[k])
      BY DEF StatusName, Present
    <3>2. backends[k] \in Backend
      BY DEF Present, TypeOK
    <3> QED BY <1>7, <3>1, <3>2, StatusNames
  <2>3. <<>> \in Seq(Call) /\ DOMAIN <<>> = {}
    OBVIOUS
  <2> QED BY <1>1, <1>2, <2>1, <2>2, <2>3 DEF TodoSound, Present
<1> QED BY <1>6, <1>7

\* A sound list of calls stays sound with the registration that a heartbeat adds.
LEMMA HeartbeatSound ==
    ASSUME NEW todo, TodoSound(todo), NEW k \in Key, NEW w \in Weight, backends'[k] # NoBackend
    PROVE  TodoSound(todo \o <<[key |-> k, server |-> w]>>)
<1> DEFINE call == [key |-> k, server |-> w]
           all == todo \o <<call>>
<1>1. call \in Call /\ call.key = k
  BY DEF Call
<1> HIDE DEF call
<1>2. todo \in Seq(Call) /\ Len(todo) \in Nat /\ DOMAIN todo = 1 .. Len(todo)
  BY DEF TodoSound
<1>3. /\ all \in Seq(Call) /\ DOMAIN all = 1 .. Len(todo) + 1
      /\ all[Len(todo) + 1] = call
      /\ \A i \in 1 .. Len(todo) : all[i] = todo[i]
  BY <1>1, <1>2
<1> HIDE DEF all
<1>4. ASSUME NEW i \in DOMAIN all, all[i].server # NoServer PROVE backends'[all[i].key] # NoBackend
  <2>1. CASE i = Len(todo) + 1
    BY <1>1, <1>3, <2>1
  <2>2. CASE i # Len(todo) + 1
    <3>1. i \in DOMAIN todo /\ all[i] = todo[i]
      BY <1>2, <1>3, <2>2
    <3> QED BY <1>4, <3>1 DEF TodoSound
  <2> QED BY <2>1, <2>2
<1>5. ASSUME NEW j \in Key, Present(j), backends'[j] = NoBackend
      PROVE  \E i \in DOMAIN all : all[i].key = j
  <2>1. PICK i \in DOMAIN todo : todo[i].key = j
    BY <1>5 DEF TodoSound
  <2>2. i \in DOMAIN all /\ all[i] = todo[i]
    BY <1>2, <1>3
  <2> QED BY <2>1, <2>2
<1>6. TodoSound(all)
  BY <1>3, <1>4, <1>5 DEF TodoSound
<1> QED BY <1>6 DEF all, call

\* An agent's registration leaves a record under the key.
LEMMA RegisterWrites ==
    ASSUME TypeOK, NEW a \in Agent, NEW k \in Key, NEW w \in Weight, NEW h \in BOOLEAN,
           Register(a, k, w, h)
    PROVE  \E b \in Backend : backends' = [backends EXCEPT ![k] = b]
<1> DEFINE old == IF Present(k) THEN backends[k] ELSE NewBackend("agent", w, 0)
           new == [old EXCEPT !.agent = a, !.weight = w, !.claim = h, !.age = 0]
<1>1. old \in Backend
  BY NewBackendType, MaxAgeBounds DEF Source, TypeOK, Present
<1> HIDE DEF old
<1>2. new \in Backend
  BY <1>1, RenewedType
<1>3. Computed(new) \in Backend
  BY <1>2, ComputedFacts
<1>4. backends' = [backends EXCEPT ![k] = Computed(new)]
  BY DEF Register, Put, old
<1> QED BY <1>3, <1>4

\* So do a registration and an update by the API.
LEMMA APIWrites ==
    ASSUME TypeOK, NEW k \in Key, NEW w \in Weight, RegisterAPI(k, w) \/ Update(k, w)
    PROVE  \E b \in Backend : backends' = [backends EXCEPT ![k] = b]
<1>1. ASSUME RegisterAPI(k, w) PROVE \E b \in Backend : backends' = [backends EXCEPT ![k] = b]
  <2>1. NewBackend("api", w, 0) \in Backend
    BY NewBackendType, MaxAgeBounds DEF Source
  <2>2. Computed(NewBackend("api", w, 0)) \in Backend
    BY <2>1, ComputedFacts
  <2> QED BY <1>1, <2>2 DEF RegisterAPI, Put
<1>2. ASSUME Update(k, w) PROVE \E b \in Backend : backends' = [backends EXCEPT ![k] = b]
  <2> DEFINE new == [backends[k] EXCEPT !.weight = w]
  <2>1. new \in Backend
    BY <1>2 DEF Update, TypeOK, Present, Backend
  <2>2. Computed(new) \in Backend
    BY <2>1, ComputedFacts
  <2> QED BY <1>2, <2>2 DEF Update, Put
<1> QED BY <1>1, <1>2

\* Every step of the process preserves the invariant.
LEMMA DNSNextInv ==
    TypeOK /\ TypeOK' /\ DNSInv /\ [DNSNext]_allVars => DNSInv'
<1> SUFFICES ASSUME TypeOK, TypeOK', DNSInv, [DNSNext]_allVars PROVE DNSInv'
  OBVIOUS
<1>0. Gossip \in Caller /\ APICaller \subseteq Caller
  BY DEF Caller
<1>1. ASSUME NEW a \in Agent, NEW k \in Key, NEW w \in Weight, NEW h \in BOOLEAN,
             Heartbeat(a, k, w, h)
      PROVE  DNSInv'
  <2>1. PICK b \in Backend : backends' = [backends EXCEPT ![k] = b]
    BY <1>1, RegisterWrites DEF Heartbeat
  <2>2. b # NoBackend /\ backends'[k] = b
    BY <2>1, NoBackendAssumption DEF TypeOK
  <2>3. TodoSound(Callback(k, OldStatus(k)))
    BY <2>1, <2>2, CallbackSound
  <2>4. TodoSound(Callback(k, OldStatus(k)) \o <<[key |-> k, server |-> w]>>)
    BY <2>2, <2>3, HeartbeatSound
  <2>5. Free(Gossip) /\ Later(Gossip, Callback(k, OldStatus(k)) \o <<[key |-> k, server |-> w]>>)
    BY <1>1 DEF Heartbeat
  <2> QED BY <1>0, <2>4, <2>5, LaterKeepsInv
<1>2. ASSUME NEW a \in Agent, NEW k \in Key, NEW w \in Weight, RegisterMessage(a, k, w)
      PROVE  DNSInv'
  <2>1. PICK b \in Backend : backends' = [backends EXCEPT ![k] = b]
    BY <1>2, RegisterWrites DEF RegisterMessage
  <2>2. b # NoBackend
    BY NoBackendAssumption
  <2>3. TodoSound(Callback(k, OldStatus(k)))
    BY <2>1, <2>2, CallbackSound
  <2>4. Free(Gossip) /\ Later(Gossip, Callback(k, OldStatus(k)))
    BY <1>2 DEF RegisterMessage
  <2> QED BY <1>0, <2>3, <2>4, LaterKeepsInv
<1>3. ASSUME NEW c \in Caller, NEW k \in Key, Deregister(k), Free(c),
             Later(c, Callback(k, backends[k].status))
      PROVE  DNSInv'
  <2>1. backends' = [backends EXCEPT ![k] = NoBackend]
    BY <1>3 DEF Deregister, Put
  <2>2. TodoSound(Callback(k, backends[k].status))
    BY <2>1, CallbackSound
  <2> QED BY <1>3, <2>2, LaterKeepsInv
<1>4. ASSUME NEW c \in Caller, NEW k \in Key, NEW w \in Weight, NEW old,
             RegisterAPI(k, w) \/ Update(k, w), Free(c), Later(c, Callback(k, old))
      PROVE  DNSInv'
  <2>1. PICK b \in Backend : backends' = [backends EXCEPT ![k] = b]
    BY <1>4, APIWrites
  <2>2. b # NoBackend
    BY NoBackendAssumption
  <2>3. TodoSound(Callback(k, old))
    BY <2>1, <2>2, CallbackSound
  <2> QED BY <1>4, <2>3, LaterKeepsInv
<1>5. CASE GossipStep
  <2>1. ASSUME NEW a \in Agent, NEW d \in BOOLEAN, HeartbeatPredictive(a, d) PROVE DNSInv'
    BY <2>1, LockedKeepsInv DEF HeartbeatPredictive
  <2>2. ASSUME NEW k \in Key, DeregisterMessage(k) PROVE DNSInv'
    BY <1>0, <1>3, <2>2 DEF DeregisterMessage
  <2> QED BY <1>1, <1>2, <1>5, <2>1, <2>2 DEF GossipStep
<1>6. ASSUME NEW c \in APICaller, APIStep(c) PROVE DNSInv'
  <2>0. c \in Caller
    BY <1>0
  <2>1. ASSUME NEW k \in Key, NEW w \in Weight, createServer(c, k, w) PROVE DNSInv'
    BY <1>4, <2>0, <2>1 DEF createServer, CreateServer
  <2>2. ASSUME NEW k \in Key, NEW w \in Weight, updateServer(c, k, w) PROVE DNSInv'
    BY <1>4, <2>0, <2>2 DEF updateServer, UpdateServer
  <2>3. ASSUME NEW k \in Key, deleteServer(c, k) PROVE DNSInv'
    BY <1>3, <2>0, <2>3 DEF deleteServer, DeleteServer
  <2>4. ASSUME NEW k \in Key, Override(c, k) PROVE DNSInv'
    BY <2>4, LockedKeepsInv DEF Override
  <2> QED BY <1>6, <2>1, <2>2, <2>3, <2>4 DEF APIStep, HandleServers
<1>7. ASSUME NEW c \in Caller, DNSCall(c) PROVE DNSInv'
  BY <1>7, CallKeepsInv
<1>8. ASSUME NEW k \in Key, NEW v \in Verdict \ {"none"}, Validated(k, v) PROVE DNSInv'
  BY <1>8, LockedKeepsInv DEF Validated
<1>9. CASE StaleCheck
  BY <1>9, LockedKeepsInv DEF StaleCheck
<1>10. CASE Time
  <2>1. \A k \in Key : Present(k) => Present(k)'
    BY <1>10, OlderType DEF Time, Tick, Present, TypeOK
  <2> QED BY <1>10, <2>1, QuietKeepsInv DEF Time
<1>11. ASSUME NEW cfg \in Configs, NEW known \in Domains,
              DNSBoot(cfg, known) \/ Reload(cfg, known)
       PROVE  DNSInv'
  <2>1. /\ backends' = backends /\ calls' = calls /\ domains' = known /\ config' = cfg
        /\ dns' = ServersOf(cfg, known)
        /\ \A k \in overtaken : Registering(k) => k \in overtaken'
    BY <1>11 DEF DNSBoot, Boot, Reload, vars
  <2>2. \A k \in Key : Registering(k)' <=> Registering(k)
    BY <2>1 DEF Registering
  <2>3. RegistrationsKnown'
    BY <2>1, <2>2 DEF DNSInv, RegistrationsKnown, Present
  <2>4. ASSUME NEW k \in domains', dns'[k] # NoServer PROVE Listed(k)'
    BY <2>1, <2>4, DNSAssumption DEF ServersOf, Listed
  <2>5. dns' \in [Key -> Weight \cup {NoServer}]
    BY <2>1 DEF ServersOf
  <2> QED BY <2>1, <2>3, <2>4, <2>5, DNSAssumption DEF DNSInv, NoServerLeftBehind
<1>12. ASSUME NEW k \in Key, NEW w \in Weight, DNSRegisterStatic(k, w) PROVE DNSInv'
  <2>1. \A j \in Key : Present(j) => Present(j)'
    <3>1. PICK b : backends' = [backends EXCEPT ![k] = Computed(b)] /\ b \in Backend
      <4> DEFINE b == IF Present(k) THEN [backends[k] EXCEPT !.weight = w]
                                    ELSE NewBackend("static", w, MaxAge)
      <4>1. b \in Backend
        <5>1. CASE Present(k)
          BY <5>1 DEF TypeOK, Present, Backend
        <5>2. CASE ~Present(k)
          BY <5>2, NewBackendType, MaxAgeBounds DEF Source
        <5> QED BY <5>1, <5>2
      <4>2. backends' = [backends EXCEPT ![k] = Computed(b)]
        BY <1>12 DEF DNSRegisterStatic, RegisterStatic, Put
      <4> QED BY <4>1, <4>2
    <3>2. Computed(b) # NoBackend
      BY <3>1, ComputedFacts, NoBackendAssumption
    <3> QED BY <3>1, <3>2 DEF TypeOK, Present
  <2> QED BY <1>12, <2>1, QuietKeepsInv DEF DNSRegisterStatic
<1>13. ASSUME NEW loaded \in SUBSET Stored, DNSStart(loaded) PROVE DNSInv'
  <2>1. /\ domains' = domains /\ config' = config /\ calls' = calls /\ overtaken' = overtaken
        /\ dns' = [k \in Key |-> IF k \in domains \cap loaded THEN ServerFor(backends'[k])
                                                            ELSE dns[k]]
    BY <1>13 DEF DNSStart
  <2>2. \A k \in loaded : k \in Key /\ backends'[k] = Computed(store[k]) /\ Computed(store[k]) \in Backend
    BY <1>13, ComputedFacts DEF DNSStart, Start, Stored, TypeOK
  <2>3. \A k \in loaded : Present(k)'
    BY <2>2, NoBackendAssumption DEF Present
  <2>4. \A k \in Key \ loaded : backends'[k] = backends[k]
    BY <1>13 DEF DNSStart, Start
  <2>5. \A k \in Key : Present(k) => Present(k)'
    BY <2>3, <2>4 DEF Present
  <2>6. \A k \in Key : /\ Registering(k)' <=> Registering(k)
                       /\ Outstanding(k)' <=> Outstanding(k)
                       /\ Listed(k)' <=> Listed(k)
    BY <2>1 DEF Registering, Outstanding, Listed
  <2>7. \A k \in Key : ServerFor(backends'[k]) \in Weight \cup {NoServer}
    BY DEF ServerFor, TypeOK, Backend
  <2>8. dns' \in [Key -> Weight \cup {NoServer}]
    BY <2>1, <2>7 DEF DNSInv
  <2>9. \A k \in Key : dns'[k] # dns[k] => Present(k)'
    BY <2>1, <2>3
  <2> QED
    BY <2>1, <2>5, <2>6, <2>8, <2>9 DEF DNSInv, RegistrationsKnown, NoServerLeftBehind
<1>14. CASE DNSShutdown
  BY <1>14, QuietKeepsInv DEF DNSShutdown, Shutdown, Present
<1>15. CASE DNSExit
  <2>1. /\ domains' = {} /\ calls' = [c \in Caller |-> <<>>]
        /\ dns' = [k \in Key |-> NoServer]
    BY <1>15 DEF DNSExit
  <2>2. \A k \in Key : ~Registering(k)'
    BY <2>1 DEF Registering
  <2> QED BY <2>1, <2>2 DEF DNSInv, RegistrationsKnown, NoServerLeftBehind
<1>16. CASE UNCHANGED allVars
  BY <1>16, QuietKeepsInv DEF allVars, vars, Present
<1>17. CASE DNSLifeCycle
  BY <1>11, <1>12, <1>13, <1>14, <1>15, <1>17 DEF DNSLifeCycle
<1> QED
  BY <1>5, <1>6, <1>7, <1>8, <1>9, <1>10, <1>16, <1>17 DEF DNSNext

\* In any interleaving of gossip, API requests, validator, stale loop, reloads,
\* restarts and failed store operations, a DNS server whose calls are all made
\* and whose backend did not go before a registration of it had reached DNS is
\* known to the backend registry or to the configuration in force.
THEOREM DNSFollowsRegistry == DNSSpec => []NoServerLeftBehind
<1>1. DNSInit => DNSInv
  BY DEF DNSInit, DNSInv, RegistrationsKnown, NoServerLeftBehind, Registering
<1>2. DNSInv => NoServerLeftBehind
  BY DEF DNSInv
<1>3. TypeOK /\ [Next]_vars => TypeOK'
  BY NextType
<1>4. DNSInit => Init
  BY DEF DNSInit
<1>5. Init => TypeOK
  BY InitType
<1> QED BY <1>1, <1>2, <1>3, <1>4, <1>5, DNSNextInv, StepIsRegistryStep, PTL DEF DNSSpec

=============================================================================
