---------------------------- MODULE StoreAPIProofs ----------------------------
(***************************************************************************)
(* What the API stores, what GET returns and what the DNS registry serves  *)
(* agree about every name that no two requests worked on at a time, for    *)
(* any callers, names, backends, configurations and number of requests.    *)
(*                                                                         *)
(* The argument is about one domain.  A request brings it from one state   *)
(* in which store and registry agree to the next through states in which   *)
(* they do not: Progress says, for each operation and step, what is left   *)
(* of the agreement.  A step of a request for another name changes none of *)
(* the facts Progress is about.                                            *)
(***************************************************************************)
EXTENDS StoreAPI, TLAPS

\* The requests that are being executed, and those for n among them.
Active(c) == req[c] # None
For(c, n) == Active(c) /\ req[c].name = n

\* Which steps an operation has, and what it works on.
Shape(r) ==
    /\ r.name \in Domain =>
          \/ r.op = "create" /\ r.at \in {"set", "dns"}
          \/ r.op = "update" /\ r.at \in {"get", "set", "dns"}
          \/ r.op = "delete" /\ r.at \in {"list", "backends", "dns"}
          \/ r.op = "add" /\ r.at \in {"check", "set", "dns"}
    /\ r.name \in Region =>
          \/ r.op = "create" /\ r.at = "set"
          \/ r.op = "update" /\ r.at \in {"get", "set"}
          \/ r.op = "delete" /\ r.at = "delete"
    /\ r.name \in Server => r.at \in {"set", "delete"} /\ r.op # "add"
    /\ IF r.op = "add" THEN \E a \in Address : r.key = BackendKey(r.name, a)
       ELSE r.key = r.name

\* The configuration's names are neither created nor deleted, and are updated
\* only when they were stored already.
FileNameKept(r) ==
    r.name \in boot => /\ r.op \notin {"create", "delete"}
                       /\ r.op = "update" /\ r.at # "get" => Stored(r.name)

Types ==
    /\ TypeOK
    /\ up \in BOOLEAN /\ reloaded \in BOOLEAN
    /\ ~up => \A c \in Caller : ~Active(c)

Requests == \A c \in Caller : Active(c) => Shape(req[c]) /\ FileNameKept(req[c])

\* A domain of the file that was never stored has its static server.
FileDomainServed ==
    \A n \in boot \cap Domain : up /\ ~Stored(n) /\ ~reloaded =>
        dns[n] # None /\ StaticAddr \in dns[n].servers

-----------------------------------------------------------------------------
(* What holds of one domain *)

Listed(n) == Stored(n) \/ n \in boot

Serves(n) ==
    dns[n] # None =>
        /\ Stored(n) \/ n \in config
        /\ ~reloaded => dns[n].servers \subseteq GetDomainBackends(n)

HasEntry(n) == ~reloaded /\ Listed(n) /\ n \notin refused => dns[n] # None

HasValue(n) ==
    ~reloaded /\ Listed(n) /\ dns[n] # None /\ KnownPolicy(GetDomain(n)) =>
        dns[n].value = Effective(GetDomain(n))

\* ... but for the backends of A.
HasServers(n, A) ==
    ~reloaded /\ Listed(n) /\ dns[n] # None /\ n \in APIOnly =>
        BackendsOf(n) \cap IPAddress \subseteq dns[n].servers \cup A

NoOrphan(n) == n \in APIOnly /\ BackendsOf(n) # {} => Stored(n)

Agree(n) == Serves(n) /\ HasEntry(n) /\ HasValue(n) /\ HasServers(n, {}) /\ NoOrphan(n)

\* While r is the one request for n.
Progress(n, r) ==
    /\ r.op = "create" /\ r.at = "set" => Agree(n) /\ ~Stored(n)
    /\ r.op = "create" /\ r.at = "dns" =>
          Serves(n) /\ store[n] = r.value /\ (n \in APIOnly => BackendsOf(n) = {})
    /\ r.op = "update" /\ r.at = "get" => Agree(n)
    /\ r.op = "update" /\ r.at = "set" => Agree(n) /\ Stored(n)
    /\ r.op = "update" /\ r.at = "dns" =>
          Serves(n) /\ HasEntry(n) /\ HasServers(n, {}) /\ store[n] = r.value
    /\ r.op = "add" => (n \in APIOnly => Stored(n))
    /\ r.op = "add" /\ r.at # "dns" => Agree(n)
    /\ r.op = "add" /\ r.at = "dns" =>
          /\ Serves(n) /\ HasEntry(n) /\ HasValue(n) /\ HasServers(n, {r.key[2]})
          /\ Stored(r.key)
    /\ r.op = "delete" /\ r.at = "list" => Agree(n) /\ Stored(n)
    /\ r.op = "delete" /\ r.at = "backends" => Stored(n) /\ BackendsOf(n) \subseteq r.todo
    /\ r.op = "delete" /\ r.at = "dns" => ~Stored(n) /\ BackendsOf(n) = {}

Alone(n) == \A c, d \in Caller : For(c, n) /\ For(d, n) => c = d

Good(n) ==
    n \notin disturbed =>
        /\ NoOrphan(n)
        /\ Alone(n)
        /\ up /\ ~Busy(n) => Agree(n)
        /\ \A c \in Caller : For(c, n) => Progress(n, req[c])

IInv == Types /\ Requests /\ FileDomainServed /\ \A n \in Domain : Good(n)

-----------------------------------------------------------------------------
(* Keys *)

LEMMA Keys ==
  /\ Name \subseteq Key
  /\ \A n \in Domain, a \in Address : BackendKey(n, a) \in Key /\ BackendKey(n, a) \notin Name
  /\ \A n, m, a, b : BackendKey(n, a) = BackendKey(m, b) <=> n = m /\ a = b
  BY StoreAPIAssumption DEF Key, Name, BackendKey

LEMMA Kinds ==
  /\ Domain \cup Region \cup Server = Name
  /\ \A n \in Domain : n \notin Region /\ n \notin Server
  /\ \A n \in Region : n \notin Server
  BY StoreAPIAssumption DEF Name

LEMMA FileNames == Types => boot \subseteq Domain \cup Region /\ boot \cap APIOnly = {}
  BY StoreAPIAssumption DEF Types, TypeOK, APIOnly

-----------------------------------------------------------------------------
(* Requests and the rest of the state keep their types *)

LEMMA ActiveType == ASSUME Types, NEW c \in Caller, Active(c) PROVE req[c] \in Request
  BY DEF Types, TypeOK, Active

LEMMA Replaced ==
  ASSUME Types, NEW c \in Caller, NEW x \in Request, req' = [req EXCEPT ![c] = x]
  PROVE  /\ req' \in [Caller -> Request \cup {None}]
         /\ req'[c] = x /\ Active(c)'
         /\ \A d \in Caller \ {c} : req'[d] = req[d]
  BY NoneAssumption DEF Types, TypeOK, Active

\* The request of c moves on to step `to' with T left to delete.
Goes(c, to, T) == req' = [req EXCEPT ![c] = [req[c] EXCEPT !.at = to, !.todo = T]]

LEMMA GoesStep ==
  ASSUME Types, NEW c \in Caller, Active(c), NEW to \in Step, NEW T \in SUBSET Address,
         Goes(c, to, T)
  PROVE  /\ req' \in [Caller -> Request \cup {None}]
         /\ Active(c)' /\ req'[c] \in Request /\ req'[c].at = to /\ req'[c].todo = T
         /\ req'[c].op = req[c].op /\ req'[c].name = req[c].name
         /\ req'[c].key = req[c].key /\ req'[c].value = req[c].value
         /\ \A d \in Caller \ {c} : req'[d] = req[d]
  <1> DEFINE x == [req[c] EXCEPT !.at = to, !.todo = T]
  <1>1. req[c] \in Request
    BY ActiveType
  <1>2. /\ x \in Request /\ x.at = to /\ x.todo = T
        /\ x.op = req[c].op /\ x.name = req[c].name
        /\ x.key = req[c].key /\ x.value = req[c].value
    BY <1>1 DEF Request
  <1>3. req' = [req EXCEPT ![c] = x]
    BY DEF Goes
  <1> HIDE DEF x
  <1> QED BY <1>2, <1>3, Replaced

LEMMA MoveStep ==
  ASSUME Types, NEW c \in Caller, Active(c), NEW to \in Step, Move(c, to)
  PROVE  Goes(c, to, req[c].todo) /\ req[c].todo \in SUBSET Address
  <1>1. req[c] \in Request
    BY ActiveType
  <1>2. [req[c] EXCEPT !.at = to, !.todo = req[c].todo] = [req[c] EXCEPT !.at = to]
    BY <1>1 DEF Request
  <1>3. req' = [req EXCEPT ![c] = [req[c] EXCEPT !.at = to]]
    BY DEF Move
  <1> QED BY <1>1, <1>2, <1>3 DEF Request, Goes

LEMMA FinishStep ==
  ASSUME Types, NEW c \in Caller, Finish(c)
  PROVE  /\ req' \in [Caller -> Request \cup {None}]
         /\ req'[c] = None /\ ~Active(c)'
         /\ \A d \in Caller \ {c} : req'[d] = req[d]
  BY DEF Types, TypeOK, Finish, Active

-----------------------------------------------------------------------------
(* One domain *)

\* The state of n outside the requests is as before.
Same(n) ==
    /\ store'[n] = store[n]
    /\ \A a \in Address : store'[BackendKey(n, a)] = store[BackendKey(n, a)]
    /\ dns'[n] = dns[n]
    /\ n \in refused' <=> n \in refused
    /\ UNCHANGED <<boot, config, reloaded>>

LEMMA SameFacts ==
  ASSUME NEW n \in Domain, Same(n)
  PROVE  /\ Stored(n)' = Stored(n)
         /\ BackendsOf(n)' = BackendsOf(n)
         /\ Serves(n)' = Serves(n)
         /\ HasEntry(n)' = HasEntry(n)
         /\ HasValue(n)' = HasValue(n)
         /\ NoOrphan(n)' = NoOrphan(n)
         /\ \A A : HasServers(n, A)' = HasServers(n, A)
         /\ Agree(n)' = Agree(n)
  <1>1. Stored(n)' = Stored(n) /\ BackendsOf(n)' = BackendsOf(n)
    BY DEF Same, Stored, BackendsOf
  <1>2. GetDomainBackends(n)' = GetDomainBackends(n) /\ GetDomain(n)' = GetDomain(n)
    BY <1>1 DEF Same, GetDomainBackends, GetDomain
  <1>3. Listed(n)' = Listed(n)
    BY <1>1 DEF Same, Listed
  <1>4. Serves(n)' = Serves(n) /\ HasEntry(n)' = HasEntry(n) /\ HasValue(n)' = HasValue(n)
    BY <1>1, <1>2, <1>3 DEF Same, Serves, HasEntry, HasValue, KnownPolicy, Effective
  <1>5. NoOrphan(n)' = NoOrphan(n) /\ \A A : HasServers(n, A)' = HasServers(n, A)
    BY <1>1, <1>3 DEF Same, NoOrphan, HasServers
  <1> QED BY <1>1, <1>4, <1>5 DEF Agree

LEMMA SameProgress ==
  ASSUME NEW n \in Domain, Same(n), NEW r, Shape(r), r.name = n, Progress(n, r)
  PROVE  Progress(n, r)'
  <1>1. r.op = "add" => Stored(r.key)' = Stored(r.key)
    BY DEF Shape, Same, Stored
  <1>2. store'[n] = store[n]
    BY DEF Same
  <1> QED BY <1>1, <1>2, SameFacts DEF Progress

\* A step that is not about n.
LEMMA OtherGood ==
  ASSUME IInv, NEW n \in Domain, Same(n), up' = up,
         n \notin disturbed' => n \notin disturbed,
         \A c \in Caller : For(c, n) \/ For(c, n)' => req'[c] = req[c]
  PROVE  Good(n)'
  <1> SUFFICES ASSUME n \notin disturbed'
               PROVE  /\ NoOrphan(n)'
                      /\ Alone(n)'
                      /\ up' /\ ~Busy(n)' => Agree(n)'
                      /\ \A c \in Caller : For(c, n)' => Progress(n, req[c])'
    BY DEF Good
  <1>1. n \notin disturbed /\ Good(n)
    BY DEF IInv
  <1>2. \A c \in Caller : For(c, n)' <=> For(c, n)
    BY DEF For, Active
  <1>3. NoOrphan(n)' /\ Alone(n)'
    BY <1>1, <1>2, SameFacts DEF Good, Alone
  <1>4. up' /\ ~Busy(n)' => Agree(n)'
    BY <1>1, <1>2, SameFacts DEF Good, Busy, For, Active
  <1>5. ASSUME NEW c \in Caller, For(c, n)' PROVE Progress(n, req[c])'
    <2>1. For(c, n) /\ req'[c] = req[c]
      BY <1>2, <1>5
    <2>2. Shape(req[c]) /\ req[c].name = n /\ Progress(n, req[c])
      BY <1>1, <2>1 DEF IInv, Requests, For, Good
    <2>3. \A r : r = req[c] => Progress(n, r)'
      BY <2>2, SameProgress
    <2> QED BY <2>1, <2>3 DEF Progress
  <1> QED BY <1>3, <1>4, <1>5

\* A step of the one request for n.
LEMMA OwnGood ==
  ASSUME IInv, NEW n \in Domain, NEW c \in Caller, For(c, n), up' = up,
         n \notin disturbed' => n \notin disturbed,
         \A d \in Caller \ {c} : req'[d] = req[d],
         n \notin disturbed' /\ Progress(n, req[c]) =>
            /\ NoOrphan(n)'
            /\ For(c, n)' => Progress(n, req[c])'
            /\ ~For(c, n)' => Agree(n)'
  PROVE  Good(n)'
  <1> SUFFICES ASSUME n \notin disturbed'
               PROVE  /\ NoOrphan(n)'
                      /\ Alone(n)'
                      /\ up' /\ ~Busy(n)' => Agree(n)'
                      /\ \A d \in Caller : For(d, n)' => Progress(n, req[d])'
    BY DEF Good
  <1>1. n \notin disturbed /\ Good(n)
    BY DEF IInv
  <1>2. Alone(n) /\ Progress(n, req[c])
    BY <1>1 DEF Good
  <1>3. \A d \in Caller : For(d, n)' => d = c
    BY <1>2 DEF Alone, For, Active
  <1>4. Alone(n)' /\ NoOrphan(n)'
    BY <1>1, <1>2, <1>3 DEF Alone
  <1>5. \A d \in Caller : For(d, n)' => Progress(n, req[d])'
    BY <1>1, <1>2, <1>3
  <1>6. ~Busy(n)' => ~For(c, n)'
    BY DEF Busy, For, Active
  <1> QED BY <1>1, <1>2, <1>4, <1>5, <1>6

-----------------------------------------------------------------------------
(* The later steps of a request *)

\* Requests do not store or delete the configuration's names.
FileStoreKept == \A n \in boot : Stored(n)' = Stored(n)

\* What a step of the request of c does to the rest of the state.
Confined(c) ==
    /\ Still /\ UNCHANGED overrides
    /\ store' \in [Key -> Value \cup {None}]
    /\ dns' \in [Domain -> Entry \cup {None}]
    /\ refused' \subseteq Domain
    /\ req' \in [Caller -> Request \cup {None}]
    /\ disturbed' \in {disturbed, disturbed \cup {req[c].name}}
    /\ \A d \in Caller \ {c} : req'[d] = req[d]
    /\ \A n \in Domain : n # req[c].name => Same(n)
    /\ FileStoreKept

LEMMA LaterStep ==
  ASSUME IInv, NEW c \in Caller, Active(c), up, Confined(c),
         Active(c)' => /\ req'[c].name = req[c].name
                       /\ Shape(req'[c]) /\ FileNameKept(req[c])',
         \A n \in boot \cap Domain : ~Stored(n) /\ ~reloaded =>
            dns'[n] # None /\ StaticAddr \in dns'[n].servers,
         \A n \in Domain : n = req[c].name /\ n \notin disturbed' /\ Progress(n, req[c]) =>
            /\ NoOrphan(n)'
            /\ Active(c)' => Progress(n, req[c])'
            /\ ~Active(c)' => Agree(n)'
  PROVE  IInv'
  <1>0. /\ UNCHANGED <<up, boot, config, reloaded>>
        /\ \A n : n \notin disturbed' => n \notin disturbed
    BY DEF Confined, Still
  <1>1. Types'
    <2>1. req[c].name \in Name
      BY ActiveType DEF IInv, Request
    <2> QED BY <1>0, <2>1 DEF IInv, Types, TypeOK, Confined
  <1>2. Requests'
    <2> SUFFICES ASSUME NEW d \in Caller, Active(d)'
                 PROVE  Shape(req'[d]) /\ FileNameKept(req[d])'
      BY DEF Requests, Shape
    <2>1. CASE d = c
      BY <2>1
    <2>2. CASE d # c
      <3>1. req'[d] = req[d] /\ Active(d) /\ Shape(req[d]) /\ FileNameKept(req[d])
        BY <2>2 DEF Confined, Active, IInv, Requests
      <3>2. FileNameKept(req[d])'
        BY <1>0, <3>1 DEF FileNameKept, Confined, FileStoreKept
      <3> QED BY <3>1, <3>2
    <2> QED BY <2>1, <2>2
  <1>3. FileDomainServed'
    BY <1>0 DEF FileDomainServed, Confined, FileStoreKept
  <1>4. ASSUME NEW n \in Domain PROVE Good(n)'
    <2>1. CASE n # req[c].name
      <3>1. Same(n) /\ ~For(c, n) /\ ~For(c, n)'
        BY <2>1 DEF Confined, For
      <3>2. \A d \in Caller : For(d, n) \/ For(d, n)' => req'[d] = req[d]
        BY <3>1 DEF Confined
      <3> QED BY <1>0, <3>1, <3>2, OtherGood
    <2>2. CASE n = req[c].name
      <3>1. For(c, n) /\ (For(c, n)' <=> Active(c)')
        BY <2>2 DEF For
      <3>2. \A d \in Caller \ {c} : req'[d] = req[d]
        BY DEF Confined
      <3>3. n \notin disturbed' /\ Progress(n, req[c]) =>
               /\ NoOrphan(n)'
               /\ For(c, n)' => Progress(n, req[c])'
               /\ ~For(c, n)' => Agree(n)'
        BY <2>2, <3>1
      <3> QED BY <1>0, <3>1, <3>2, <3>3, OwnGood
    <2> QED BY <2>1, <2>2
  <1> QED BY <1>1, <1>2, <1>3, <1>4 DEF IInv

LEMMA AtStep ==
  ASSUME IInv, NEW c \in Caller, NEW step, At(c, step)
  PROVE  /\ up /\ Active(c) /\ req[c].at = step /\ req[c] \in Request
         /\ Shape(req[c]) /\ FileNameKept(req[c])
  BY ActiveType DEF IInv, Requests, At, Active

\* A step that writes nothing.
LEMMA ReadStep ==
  ASSUME IInv, NEW c \in Caller, Still, UNCHANGED <<store, dns, refused, overrides>>,
         disturbed' \in {disturbed, disturbed \cup {req[c].name}},
         req' \in [Caller -> Request \cup {None}],
         \A d \in Caller \ {c} : req'[d] = req[d]
  PROVE  /\ Confined(c) /\ \A n \in Domain : Same(n)
         /\ \A k : Stored(k)' = Stored(k)
         /\ \A n \in boot \cap Domain : up /\ ~Stored(n) /\ ~reloaded =>
               dns'[n] # None /\ StaticAddr \in dns'[n].servers
  <1>1. \A n \in Domain : Same(n)
    BY DEF Same, Still
  <1>2. \A k : Stored(k)' = Stored(k)
    BY DEF Stored
  <1>3. \A n \in boot \cap Domain : up /\ ~Stored(n) /\ ~reloaded =>
           dns'[n] # None /\ StaticAddr \in dns'[n].servers
    BY DEF IInv, FileDomainServed
  <1> QED BY <1>1, <1>2, <1>3 DEF Confined, FileStoreKept, IInv, Types, TypeOK

LEMMA UpdateGetStep == ASSUME IInv, NEW c \in Caller, UpdateGet(c) PROVE IInv'
  <1>1. At(c, "get") /\ Still /\ UNCHANGED <<store, dns, refused, overrides, disturbed>>
    BY DEF UpdateGet
  <1>2. /\ up /\ Active(c) /\ req[c].at = "get" /\ req[c] \in Request /\ req[c].op = "update"
        /\ Shape(req[c]) /\ req[c].key = req[c].name /\ Types
    <2>1. req[c].name \in Domain \cup Region \cup Server
      BY <1>1, AtStep, Kinds DEF Request
    <2> QED BY <1>1, <2>1, AtStep DEF Shape, IInv
  <1>3. CASE Stored(req[c].key) /\ Move(c, "set")
    <2>1. /\ req' \in [Caller -> Request \cup {None}] /\ Active(c)'
          /\ req'[c].at = "set" /\ req'[c].op = "update" /\ req'[c].name = req[c].name
          /\ req'[c].key = req[c].key
          /\ \A d \in Caller \ {c} : req'[d] = req[d]
      BY <1>2, <1>3, MoveStep, GoesStep DEF Step
    <2>2. /\ Confined(c) /\ \A n \in Domain : Same(n)
          /\ \A k : Stored(k)' = Stored(k)
          /\ \A n \in boot \cap Domain : up /\ ~Stored(n) /\ ~reloaded =>
                dns'[n] # None /\ StaticAddr \in dns'[n].servers
      BY <1>1, <2>1, ReadStep
    <2>3. Shape(req'[c]) /\ FileNameKept(req[c])'
      BY <1>2, <1>3, <2>1, <2>2 DEF Shape, FileNameKept
    <2>4. ASSUME NEW n \in Domain, n = req[c].name, Progress(n, req[c])
          PROVE  NoOrphan(n)' /\ Progress(n, req[c])'
      <3>1. Agree(n)' /\ Stored(n)'
        BY <1>2, <1>3, <2>2, <2>4, SameFacts DEF Progress
      <3> QED BY <2>1, <3>1 DEF Progress, Agree
    <2> QED BY <1>2, <2>1, <2>2, <2>3, <2>4, LaterStep
  <1>4. CASE Finish(c)
    <2>1. /\ req' \in [Caller -> Request \cup {None}] /\ ~Active(c)'
          /\ \A d \in Caller \ {c} : req'[d] = req[d]
      BY <1>2, <1>4, FinishStep
    <2>2. /\ Confined(c) /\ \A n \in Domain : Same(n)
          /\ \A n \in boot \cap Domain : up /\ ~Stored(n) /\ ~reloaded =>
                dns'[n] # None /\ StaticAddr \in dns'[n].servers
      BY <1>1, <2>1, ReadStep
    <2>3. ASSUME NEW n \in Domain, n = req[c].name, Progress(n, req[c])
          PROVE  NoOrphan(n)' /\ Agree(n)'
      BY <1>2, <2>2, <2>3, SameFacts DEF Progress, Agree
    <2> QED BY <1>2, <2>1, <2>2, <2>3, LaterStep
  <1> QED BY <1>3, <1>4 DEF UpdateGet

LEMMA AddCheckStep == ASSUME IInv, NEW c \in Caller, AddCheck(c) PROVE IInv'
  <1>1. At(c, "check") /\ Still /\ UNCHANGED <<store, dns, refused, overrides, disturbed>>
    BY DEF AddCheck
  <1>2. /\ up /\ Active(c) /\ req[c].at = "check" /\ req[c] \in Request /\ req[c].op = "add"
        /\ Shape(req[c]) /\ req[c].name \in Domain /\ Types
    <2>1. req[c].name \in Domain \cup Region \cup Server
      BY <1>1, AtStep, Kinds DEF Request
    <2> QED BY <1>1, <2>1, AtStep DEF Shape, IInv
  <1>3. CASE Move(c, "set")
    <2>1. /\ req' \in [Caller -> Request \cup {None}] /\ Active(c)'
          /\ req'[c].at = "set" /\ req'[c].op = "add" /\ req'[c].name = req[c].name
          /\ req'[c].key = req[c].key
          /\ \A d \in Caller \ {c} : req'[d] = req[d]
      BY <1>2, <1>3, MoveStep, GoesStep DEF Step
    <2>2. /\ Confined(c) /\ \A n \in Domain : Same(n)
          /\ \A k : Stored(k)' = Stored(k)
          /\ \A n \in boot \cap Domain : up /\ ~Stored(n) /\ ~reloaded =>
                dns'[n] # None /\ StaticAddr \in dns'[n].servers
      BY <1>1, <2>1, ReadStep
    <2>3. Shape(req'[c]) /\ FileNameKept(req[c])'
      BY <1>2, <2>1, Kinds DEF Shape, FileNameKept
    <2>4. ASSUME NEW n \in Domain, n = req[c].name, Progress(n, req[c])
          PROVE  NoOrphan(n)' /\ Progress(n, req[c])'
      <3>1. Agree(n)' /\ (n \in APIOnly => Stored(n)')
        BY <1>2, <2>2, <2>4, SameFacts DEF Progress
      <3> QED BY <2>1, <3>1 DEF Progress, Agree
    <2> QED BY <1>2, <2>1, <2>2, <2>3, <2>4, LaterStep
  <1>4. CASE Finish(c)
    <2>1. /\ req' \in [Caller -> Request \cup {None}] /\ ~Active(c)'
          /\ \A d \in Caller \ {c} : req'[d] = req[d]
      BY <1>2, <1>4, FinishStep
    <2>2. /\ Confined(c) /\ \A n \in Domain : Same(n)
          /\ \A n \in boot \cap Domain : up /\ ~Stored(n) /\ ~reloaded =>
                dns'[n] # None /\ StaticAddr \in dns'[n].servers
      BY <1>1, <2>1, ReadStep
    <2>3. ASSUME NEW n \in Domain, n = req[c].name, Progress(n, req[c])
          PROVE  NoOrphan(n)' /\ Agree(n)'
      BY <1>2, <2>2, <2>3, SameFacts DEF Progress, Agree
    <2> QED BY <1>2, <2>1, <2>2, <2>3, LaterStep
  <1> QED BY <1>3, <1>4 DEF AddCheck

LEMMA DeleteListStep == ASSUME IInv, NEW c \in Caller, DeleteList(c) PROVE IInv'
  <1>1. At(c, "list") /\ Still /\ UNCHANGED <<store, dns, refused, overrides, disturbed>>
    BY DEF DeleteList
  <1>2. /\ up /\ Active(c) /\ req[c].at = "list" /\ req[c] \in Request /\ req[c].op = "delete"
        /\ Shape(req[c]) /\ FileNameKept(req[c]) /\ req[c].name \in Domain /\ Types
    <2>1. req[c].name \in Domain \cup Region \cup Server
      BY <1>1, AtStep, Kinds DEF Request
    <2> QED BY <1>1, <2>1, AtStep DEF Shape, IInv
  <1> DEFINE T == BackendsOf(req[c].name)
  <1>3. Goes(c, "backends", T) /\ T \in SUBSET Address
    BY DEF DeleteList, Goes, BackendsOf, IInv, Types, TypeOK
  <1> HIDE DEF T
  <1>4. /\ req' \in [Caller -> Request \cup {None}] /\ Active(c)'
        /\ req'[c].at = "backends" /\ req'[c].todo = T
        /\ req'[c].op = "delete" /\ req'[c].name = req[c].name /\ req'[c].key = req[c].key
        /\ \A d \in Caller \ {c} : req'[d] = req[d]
    BY <1>2, <1>3, GoesStep DEF Step
  <1>5. /\ Confined(c) /\ \A n \in Domain : Same(n)
        /\ \A n \in boot \cap Domain : up /\ ~Stored(n) /\ ~reloaded =>
              dns'[n] # None /\ StaticAddr \in dns'[n].servers
    BY <1>1, <1>4, ReadStep
  <1>6. Shape(req'[c]) /\ FileNameKept(req[c])'
    BY <1>1, <1>2, <1>4, Kinds DEF Shape, FileNameKept, Still
  <1>7. ASSUME NEW n \in Domain, n = req[c].name, Progress(n, req[c])
        PROVE  NoOrphan(n)' /\ Progress(n, req[c])'
    <2>1. Agree(n)' /\ Stored(n)' /\ BackendsOf(n)' = T
      BY <1>2, <1>5, <1>7, SameFacts DEF Progress, T
    <2> QED BY <1>4, <2>1 DEF Progress, Agree
  <1> QED BY <1>2, <1>4, <1>5, <1>6, <1>7, LaterStep

LEMMA Written ==
  ASSUME Types, NEW k \in Key, NEW v \in Value \cup {None}, store' = [store EXCEPT ![k] = v]
  PROVE  /\ store' \in [Key -> Value \cup {None}]
         /\ store'[k] = v
         /\ \A j \in Key \ {k} : store'[j] = store[j] /\ Stored(j)' = Stored(j)
  BY DEF Types, TypeOK, Stored

\* Writing a domain's own key.
LEMMA DomainWritten ==
  ASSUME Types, NEW n \in Domain, NEW v \in Value \cup {None}, store' = [store EXCEPT ![n] = v]
  PROVE  store'[n] = v /\ BackendsOf(n)' = BackendsOf(n)
  <1>1. n \in Name
    BY Kinds
  <1>2. n \in Key /\ \A a \in Address : BackendKey(n, a) \in Key \ {n}
    BY <1>1, Keys
  <1> QED BY <1>2, Written DEF BackendsOf

\* Writing the key of one of its backends.
LEMMA BackendWritten ==
  ASSUME Types, NEW n \in Domain, NEW a \in Address, NEW v \in Value \cup {None},
         store' = [store EXCEPT ![BackendKey(n, a)] = v]
  PROVE  /\ store'[n] = store[n] /\ Stored(n)' = Stored(n)
         /\ BackendsOf(n)' = IF v = None THEN BackendsOf(n) \ {a} ELSE BackendsOf(n) \cup {a}
  <1>1. n \in Key /\ n # BackendKey(n, a) /\ BackendKey(n, a) \in Key
    BY Keys, Kinds
  <1>2. \A b \in Address \ {a} : BackendKey(n, b) \in Key \ {BackendKey(n, a)}
    BY Keys
  <1>3. Stored(BackendKey(n, a))' = (v # None)
    BY <1>1, Written DEF Stored
  <1> QED BY <1>1, <1>2, <1>3, Written DEF BackendsOf

\* Either leaves the other domains alone.
LEMMA OthersSame ==
  ASSUME Types, NEW m \in Name, NEW k \in Key, NEW v \in Value \cup {None},
         store' = [store EXCEPT ![k] = v],
         k = m \/ (m \in Domain /\ \E a \in Address : k = BackendKey(m, a)),
         UNCHANGED <<dns, refused, boot, config, reloaded>>
  PROVE  \A n \in Domain : n # m => Same(n)
  <1> SUFFICES ASSUME NEW n \in Domain, n # m PROVE Same(n)
    OBVIOUS
  <1>1. n \in Key \ {k}
    BY Keys, Kinds
  <1>2. \A b \in Address : BackendKey(n, b) \in Key \ {k}
    BY Keys
  <1> QED BY <1>1, <1>2, Written DEF Same

LEMMA ValueStored == ASSUME NEW v \in Value PROVE v # None
  BY StoreAPIAssumption

LEMMA SetStep == ASSUME IInv, NEW c \in Caller, Set(c) PROVE IInv' /\ FileStoreKept
  <1> DEFINE r == req[c]
  <1>1. /\ At(c, "set") /\ Still /\ UNCHANGED <<dns, refused, overrides, disturbed>>
        /\ store' = [store EXCEPT ![r.key] = r.value] /\ ToDNS(c)
    BY DEF Set
  <1>2. /\ up /\ Active(c) /\ r.at = "set" /\ r \in Request
        /\ Shape(r) /\ FileNameKept(r) /\ Types
    BY <1>1, AtStep DEF IInv
  <1>3. /\ r.name \in Name /\ r.key \in Key /\ r.value \in Value
        /\ UNCHANGED <<boot, config, reloaded>>
    BY <1>1, <1>2 DEF Request, Still
  <1>4. r.op = "add" => r.name \in Domain
    BY <1>2, <1>3, Kinds DEF Shape
  <1>5. \A n \in Domain : n # r.name => Same(n)
    <2>1. r.key = r.name \/ (r.name \in Domain /\ \E a \in Address : r.key = BackendKey(r.name, a))
      BY <1>2, <1>4 DEF Shape
    <2> QED BY <1>1, <1>2, <1>3, <2>1, OthersSame
  <1>6. FileStoreKept
    <2> SUFFICES ASSUME NEW n \in boot PROVE Stored(n)' = Stored(n)
      BY DEF FileStoreKept
    <2>1. n \in Domain \cup Region /\ n \in Name /\ n \in Key
      BY <1>2, FileNames, Kinds, Keys
    <2>2. CASE n # r.key
      BY <1>1, <1>2, <1>3, <2>1, <2>2, Written
    <2>3. CASE n = r.key
      <3>1. r.op # "add"
        BY <1>2, <1>4, <2>1, <2>3, Keys DEF Shape
      <3>2. r.name = n
        BY <1>2, <2>3, <3>1 DEF Shape
      <3>3. r.op = "update"
        BY <1>2, <2>1, <3>1, <3>2, Kinds DEF Shape, FileNameKept
      <3>4. Stored(n)
        BY <1>2, <3>2, <3>3 DEF FileNameKept
      <3>5. Stored(n)'
        BY <1>1, <1>2, <1>3, <2>3, Written, ValueStored DEF Stored
      <3> QED BY <3>4, <3>5
    <2> QED BY <2>2, <2>3
  <1>7. \A n \in boot \cap Domain : up /\ ~Stored(n) /\ ~reloaded =>
           dns'[n] # None /\ StaticAddr \in dns'[n].servers
    BY <1>1 DEF IInv, FileDomainServed
  <1>8. /\ store' \in [Key -> Value \cup {None}]
        /\ refused' \subseteq Domain /\ dns' \in [Domain -> Entry \cup {None}]
    BY <1>1, <1>2, <1>3, Written DEF Types, TypeOK
  <1>9. CASE r.name \in Domain
    <2>1. Move(c, "dns")
      BY <1>1, <1>9 DEF ToDNS
    <2>2. /\ req' \in [Caller -> Request \cup {None}] /\ Active(c)'
          /\ req'[c].at = "dns" /\ req'[c].op = r.op /\ req'[c].name = r.name
          /\ req'[c].key = r.key /\ req'[c].value = r.value
          /\ \A d \in Caller \ {c} : req'[d] = req[d]
      BY <1>2, <2>1, MoveStep, GoesStep DEF Step
    <2>3. Confined(c)
      BY <1>1, <1>5, <1>6, <1>8, <2>2 DEF Confined
    <2>4. Shape(req'[c])
      BY <1>2, <1>9, <2>2, Kinds DEF Shape
    <2>5. FileNameKept(req[c])'
      BY <1>2, <1>3, <1>6, <2>2 DEF FileNameKept, FileStoreKept
    <2>6. ASSUME NEW n \in Domain, n = r.name, Progress(n, r)
          PROVE  NoOrphan(n)' /\ Progress(n, req[c])'
      <3>1. CASE r.op \in {"create", "update"}
        <4>1. store'[n] = r.value /\ Stored(n)' /\ BackendsOf(n)' = BackendsOf(n)
          BY <1>1, <1>2, <1>3, <2>6, <3>1, DomainWritten, ValueStored DEF Shape, Stored
        <4>2. Serves(n) /\ HasEntry(n) /\ HasServers(n, {}) /\ NoOrphan(n)
          BY <1>2, <2>6, <3>1 DEF Progress, Agree
        <4>3. Serves(n)' /\ NoOrphan(n)'
          BY <1>1, <1>3, <4>1, <4>2 DEF Serves, GetDomainBackends, NoOrphan
        <4>4. CASE r.op = "create"
          BY <1>2, <2>2, <2>6, <4>1, <4>2, <4>3, <4>4 DEF Progress, NoOrphan
        <4>5. CASE r.op = "update"
          <5>1. Stored(n)
            BY <1>2, <2>6, <4>5 DEF Progress
          <5>2. HasEntry(n)' /\ HasServers(n, {})'
            BY <1>1, <1>3, <4>1, <4>2, <5>1 DEF HasEntry, HasServers, Listed
          <5> QED BY <2>2, <4>1, <4>3, <4>5, <5>2 DEF Progress
        <4> QED BY <3>1, <4>4, <4>5, <4>3
      <3>2. CASE r.op = "add"
        <4>1. PICK a \in Address : r.key = BackendKey(n, a)
          BY <1>2, <2>6, <3>2 DEF Shape
        <4>2. /\ store'[n] = store[n] /\ Stored(n)' = Stored(n)
              /\ BackendsOf(n)' = BackendsOf(n) \cup {a}
          BY <1>1, <1>2, <1>3, <4>1, BackendWritten, ValueStored
        <4>3. store'[r.key] # None /\ r.key[2] = a
          <5>1. store'[r.key] = r.value
            BY <1>1, <1>2, <1>3, Written
          <5>2. r.value # None
            BY <1>3, ValueStored
          <5>3. r.key[2] = a
            BY <4>1 DEF BackendKey
          <5> QED BY <5>1, <5>2, <5>3
        <4>4. Agree(n) /\ (n \in APIOnly => Stored(n))
          BY <1>2, <2>6, <3>2 DEF Progress
        <4>5. Serves(n)' /\ NoOrphan(n)' /\ HasEntry(n)'
          BY <1>1, <1>3, <4>2, <4>4
          DEF Agree, Serves, GetDomainBackends, NoOrphan, HasEntry, Listed
        <4>6. HasValue(n)' /\ HasServers(n, {a})'
          BY <1>1, <1>3, <4>2, <4>4
          DEF Agree, HasValue, GetDomain, HasServers, Listed, KnownPolicy, Effective
        <4>7. (req'[c].key)[2] = a /\ Stored(req[c].key)'
          BY <2>2, <4>3 DEF Stored
        <4> QED BY <2>2, <3>2, <4>2, <4>4, <4>5, <4>6, <4>7 DEF Progress
      <3> QED BY <1>2, <1>9, <2>6, <3>1, <3>2 DEF Shape
    <2> QED BY <1>2, <1>6, <1>7, <2>2, <2>3, <2>4, <2>5, <2>6, LaterStep
  <1>10. CASE r.name \notin Domain
    <2>1. Finish(c)
      BY <1>1, <1>10 DEF ToDNS
    <2>2. /\ req' \in [Caller -> Request \cup {None}] /\ ~Active(c)'
          /\ \A d \in Caller \ {c} : req'[d] = req[d]
      BY <1>2, <2>1, FinishStep
    <2>3. Confined(c)
      BY <1>1, <1>5, <1>6, <1>8, <2>2 DEF Confined
    <2> QED BY <1>2, <1>6, <1>7, <1>10, <2>2, <2>3, LaterStep
  <1> QED BY <1>9, <1>10

LEMMA DeleteBackendStep ==
  ASSUME IInv, NEW c \in Caller, NEW a \in Address, DeleteBackend(c, a)
  PROVE  IInv' /\ FileStoreKept
  <1> DEFINE r == req[c]
  <1>1. /\ At(c, "backends") /\ Still /\ UNCHANGED <<dns, refused, overrides, disturbed>>
        /\ store' = [store EXCEPT ![BackendKey(r.name, a)] = None]
        /\ req' = [req EXCEPT ![c].todo = @ \ {a}]
    BY DEF DeleteBackend
  <1>2. /\ up /\ Active(c) /\ r.at = "backends" /\ r \in Request /\ r.op = "delete"
        /\ Shape(r) /\ FileNameKept(r) /\ r.name \in Domain /\ Types
        /\ UNCHANGED <<boot, config, reloaded>>
    <2>1. req[c].name \in Domain \cup Region \cup Server
      BY <1>1, AtStep, Kinds DEF Request
    <2> QED BY <1>1, <2>1, AtStep DEF Shape, IInv, Still
  <1>3. BackendKey(r.name, a) \in Key /\ BackendKey(r.name, a) \notin Name
    BY <1>2, Keys
  <1>4. \A n \in Domain : n # r.name => Same(n)
    BY <1>1, <1>2, <1>3, Kinds, OthersSame
  <1>5. FileStoreKept
    <2> SUFFICES ASSUME NEW n \in boot PROVE Stored(n)' = Stored(n)
      BY DEF FileStoreKept
    <2>1. n \in Key /\ n \in Name
      BY <1>2, FileNames, Kinds, Keys
    <2> QED BY <1>1, <1>2, <1>3, <2>1, Written
  <1>6. Goes(c, "backends", r.todo \ {a}) /\ r.todo \ {a} \in SUBSET Address
    <2>1. [r EXCEPT !.at = "backends", !.todo = r.todo \ {a}] = [r EXCEPT !.todo = r.todo \ {a}]
      BY <1>2 DEF Request
    <2>2. req' = [req EXCEPT ![c] = [r EXCEPT !.todo = r.todo \ {a}]]
      BY <1>1
    <2> QED BY <1>2, <2>1, <2>2 DEF Goes, Request
  <1>7. /\ req' \in [Caller -> Request \cup {None}] /\ Active(c)'
        /\ req'[c].at = "backends" /\ req'[c].todo = r.todo \ {a}
        /\ req'[c].op = "delete" /\ req'[c].name = r.name /\ req'[c].key = r.key
        /\ \A d \in Caller \ {c} : req'[d] = req[d]
    BY <1>2, <1>6, GoesStep DEF Step
  <1>8. Confined(c)
    <2>1. /\ store' \in [Key -> Value \cup {None}]
          /\ refused' \subseteq Domain /\ dns' \in [Domain -> Entry \cup {None}]
      BY <1>1, <1>2, <1>3, Written DEF Types, TypeOK
    <2> QED BY <1>1, <1>4, <1>5, <1>7, <2>1 DEF Confined
  <1>9. Shape(req'[c]) /\ FileNameKept(req[c])'
    BY <1>2, <1>7, Kinds DEF Shape, FileNameKept
  <1>10. ASSUME NEW n \in Domain, n = r.name, Progress(n, r)
         PROVE  NoOrphan(n)' /\ Progress(n, req[c])'
    <2>1. Stored(n)' = Stored(n) /\ BackendsOf(n)' = BackendsOf(n) \ {a}
      BY <1>1, <1>2, <1>10, BackendWritten
    <2>2. Stored(n) /\ BackendsOf(n) \subseteq r.todo
      BY <1>2, <1>10 DEF Progress
    <2> QED BY <1>7, <2>1, <2>2 DEF Progress, NoOrphan
  <1>11. \A n \in boot \cap Domain : ~Stored(n) /\ ~reloaded =>
            dns'[n] # None /\ StaticAddr \in dns'[n].servers
    BY <1>1, <1>2 DEF IInv, FileDomainServed
  <1> QED BY <1>2, <1>5, <1>7, <1>8, <1>9, <1>10, <1>11, LaterStep

LEMMA DeleteStep == ASSUME IInv, NEW c \in Caller, Delete(c) PROVE IInv' /\ FileStoreKept
  <1> DEFINE r == req[c]
  <1>1. /\ Still /\ UNCHANGED <<dns, refused, overrides, disturbed>>
        /\ store' = [store EXCEPT ![r.key] = None] /\ ToDNS(c)
    BY DEF Delete
  <1>2. /\ up /\ Active(c) /\ r \in Request /\ Shape(r) /\ FileNameKept(r) /\ Types
        /\ r.at \in {"delete", "backends"} /\ (r.at = "backends" => r.todo = {})
        /\ UNCHANGED <<boot, config, reloaded>>
    BY <1>1, AtStep DEF Delete, IInv, Still
  <1>3. /\ r.name \in Name /\ r.key = r.name /\ r.name \in Key
        /\ r.name \in Domain => r.at = "backends"
        /\ r.name \in Domain \cup Region => r.op = "delete"
    <2>1. r.name \in Name /\ r.name \in Domain \cup Region \cup Server
      BY <1>2, Kinds DEF Request
    <2> QED BY <1>2, <2>1, Keys DEF Shape
  <1>4. \A n \in Domain : n # r.name => Same(n)
    BY <1>1, <1>2, <1>3, OthersSame
  <1>5. FileStoreKept
    <2> SUFFICES ASSUME NEW n \in boot PROVE Stored(n)' = Stored(n)
      BY DEF FileStoreKept
    <2>1. n \in Domain \cup Region /\ n \in Key
      BY <1>2, FileNames, Kinds, Keys
    <2>2. n # r.name
      BY <1>2, <1>3, <2>1 DEF FileNameKept
    <2> QED BY <1>1, <1>2, <1>3, <2>1, <2>2, Written
  <1>6. /\ store' \in [Key -> Value \cup {None}]
        /\ refused' \subseteq Domain /\ dns' \in [Domain -> Entry \cup {None}]
    BY <1>1, <1>2, <1>3, Written DEF Types, TypeOK
  <1>7. \A n \in boot \cap Domain : ~Stored(n) /\ ~reloaded =>
           dns'[n] # None /\ StaticAddr \in dns'[n].servers
    BY <1>1, <1>2 DEF IInv, FileDomainServed
  <1>8. CASE r.name \in Domain
    <2>1. Move(c, "dns")
      BY <1>1, <1>8 DEF ToDNS
    <2>2. /\ req' \in [Caller -> Request \cup {None}] /\ Active(c)'
          /\ req'[c].at = "dns" /\ req'[c].op = "delete" /\ req'[c].name = r.name
          /\ req'[c].key = r.key
          /\ \A d \in Caller \ {c} : req'[d] = req[d]
      BY <1>2, <1>3, <1>8, <2>1, MoveStep, GoesStep DEF Step
    <2>3. Confined(c)
      BY <1>1, <1>4, <1>5, <1>6, <2>2 DEF Confined
    <2>4. Shape(req'[c]) /\ FileNameKept(req[c])'
      BY <1>2, <1>3, <1>8, <2>2, Kinds DEF Shape, FileNameKept
    <2>5. ASSUME NEW n \in Domain, n = r.name, Progress(n, r)
          PROVE  NoOrphan(n)' /\ Progress(n, req[c])'
      <3>1. store'[n] = None /\ BackendsOf(n)' = BackendsOf(n)
        BY <1>1, <1>2, <1>3, <2>5, DomainWritten
      <3>2. BackendsOf(n) = {}
        BY <1>2, <1>3, <1>8, <2>5 DEF Progress
      <3> QED BY <2>2, <3>1, <3>2 DEF Progress, NoOrphan, Stored
    <2> QED BY <1>2, <1>5, <1>7, <2>2, <2>3, <2>4, <2>5, LaterStep
  <1>9. CASE r.name \notin Domain
    <2>1. Finish(c)
      BY <1>1, <1>9 DEF ToDNS
    <2>2. /\ req' \in [Caller -> Request \cup {None}] /\ ~Active(c)'
          /\ \A d \in Caller \ {c} : req'[d] = req[d]
      BY <1>2, <2>1, FinishStep
    <2>3. Confined(c)
      BY <1>1, <1>4, <1>5, <1>6, <2>2 DEF Confined
    <2> QED BY <1>2, <1>5, <1>7, <1>9, <2>2, <2>3, LaterStep
  <1> QED BY <1>8, <1>9

LEMMA StoreFailsStep == ASSUME IInv, NEW c \in Caller, StoreFails(c) PROVE IInv'
  <1> DEFINE r == req[c]
  <1>1. /\ Still /\ UNCHANGED <<store, dns, refused, overrides>>
        /\ disturbed' = disturbed \cup {r.name}
    BY DEF StoreFails
  <1>2. /\ up /\ Active(c) /\ r \in Request /\ Shape(r) /\ FileNameKept(r) /\ Types
        /\ UNCHANGED boot
    BY <1>1, AtStep DEF StoreFails, IInv, Still
  <1>3. CASE Finish(c)
    <2>1. /\ req' \in [Caller -> Request \cup {None}] /\ ~Active(c)'
          /\ \A d \in Caller \ {c} : req'[d] = req[d]
      BY <1>2, <1>3, FinishStep
    <2>2. /\ Confined(c)
          /\ \A n \in boot \cap Domain : up /\ ~Stored(n) /\ ~reloaded =>
                dns'[n] # None /\ StaticAddr \in dns'[n].servers
      BY <1>1, <2>1, ReadStep
    <2> QED BY <1>1, <1>2, <2>1, <2>2, LaterStep
  <1>4. ASSUME r.at = "backends", NEW a \in r.todo, req' = [req EXCEPT ![c].todo = @ \ {a}]
        PROVE  IInv'
    <2>1. Goes(c, "backends", r.todo \ {a}) /\ r.todo \ {a} \in SUBSET Address
      <3>1. [r EXCEPT !.at = "backends", !.todo = r.todo \ {a}] = [r EXCEPT !.todo = r.todo \ {a}]
        BY <1>2, <1>4 DEF Request
      <3>2. req' = [req EXCEPT ![c] = [r EXCEPT !.todo = r.todo \ {a}]]
        BY <1>4
      <3> QED BY <1>2, <3>1, <3>2 DEF Goes, Request
    <2>2. /\ req' \in [Caller -> Request \cup {None}] /\ Active(c)'
          /\ req'[c].at = r.at /\ req'[c].op = r.op /\ req'[c].name = r.name
          /\ req'[c].key = r.key
          /\ \A d \in Caller \ {c} : req'[d] = req[d]
      <3>1. "backends" \in Step
        BY DEF Step
      <3> QED BY <1>2, <1>4, <2>1, <3>1, GoesStep
    <2>3. /\ Confined(c) /\ \A k : Stored(k)' = Stored(k)
          /\ \A n \in boot \cap Domain : up /\ ~Stored(n) /\ ~reloaded =>
                dns'[n] # None /\ StaticAddr \in dns'[n].servers
      BY <1>1, <2>2, ReadStep
    <2>4. Shape(req'[c]) /\ FileNameKept(req[c])'
      BY <1>2, <2>2, <2>3 DEF Shape, FileNameKept
    <2> QED BY <1>1, <1>2, <2>2, <2>3, <2>4, LaterStep
  <1>5. At(c, "backends") => r.at = "backends"
    BY DEF At
  <1>6. ASSUME At(c, "list"), Move(c, "backends") PROVE IInv'
    <2>1. r.at = "list" /\ r.name \in Domain /\ r.op = "delete"
      <3>1. r.name \in Domain \cup Region \cup Server
        BY <1>2, Kinds DEF Request
      <3> QED BY <1>2, <1>6, <3>1 DEF Shape, At
    <2>2. /\ req' \in [Caller -> Request \cup {None}] /\ Active(c)'
          /\ req'[c].at = "backends" /\ req'[c].op = r.op /\ req'[c].name = r.name
          /\ req'[c].key = r.key
          /\ \A d \in Caller \ {c} : req'[d] = req[d]
      BY <1>2, <1>6, MoveStep, GoesStep DEF Step
    <2>3. /\ Confined(c) /\ \A k : Stored(k)' = Stored(k)
          /\ \A n \in boot \cap Domain : up /\ ~Stored(n) /\ ~reloaded =>
                dns'[n] # None /\ StaticAddr \in dns'[n].servers
      BY <1>1, <2>2, ReadStep
    <2>4. Shape(req'[c]) /\ FileNameKept(req[c])'
      BY <1>2, <2>1, <2>2, <2>3, Kinds DEF Shape, FileNameKept
    <2> QED BY <1>1, <1>2, <2>2, <2>3, <2>4, LaterStep
  <1> QED BY <1>3, <1>4, <1>5, <1>6 DEF StoreFails

LEMMA EffectiveValue == \A v \in Value : Effective(v) \in Value
  BY StoreAPIAssumption DEF Effective

\* The entry TellDNS leaves, operation by operation.
LEMMA EntryAfter ==
  ASSUME Types, NEW r \in Request, r.name \in Domain, Shape(r), r.at = "dns"
  PROVE  /\ DNSAfter(r) \in Entry \cup {None}
         /\ r.op = "create" /\ KnownPolicy(r.value) =>
               /\ DNSAfter(r) # None
               /\ DNSAfter(r).value = Effective(r.value) /\ DNSAfter(r).servers = {}
         /\ r.op = "create" /\ ~KnownPolicy(r.value) => DNSAfter(r) = dns[r.name]
         /\ r.op = "delete" => DNSAfter(r) = None
         /\ r.op \in {"update", "add"} => (DNSAfter(r) = None <=> dns[r.name] = None)
         /\ r.op = "update" /\ dns[r.name] # None =>
               /\ KnownPolicy(r.value) => DNSAfter(r).value = Effective(r.value)
               /\ DNSAfter(r).servers = dns[r.name].servers
         /\ r.op = "add" /\ dns[r.name] # None =>
               /\ DNSAfter(r).value = dns[r.name].value
               /\ DNSAfter(r).servers = dns[r.name].servers \cup ({r.key[2]} \cap IPAddress)
  <1> DEFINE old == dns[r.name]
             w == Effective(r.value)
  <1>1. old \in Entry \cup {None}
    BY DEF Types, TypeOK
  <1>2. w \in Value /\ (r.op = "add" => r.key[2] \in Address)
    BY EffectiveValue DEF Request, Shape, BackendKey
  <1>3. \A e \in Entry : e # None
    BY NoneAssumption
  <1> HIDE DEF w
  <1>4. CASE r.op = "create" /\ KnownPolicy(r.value)
    <2>1. DNSAfter(r) = [value |-> w, servers |-> {}]
      BY <1>4 DEF DNSAfter, RegisterDomain, w
    <2>2. [value |-> w, servers |-> {}] \in Entry
      BY <1>2 DEF Entry
    <2> QED BY <1>3, <1>4, <2>1, <2>2 DEF w
  <1>5. CASE r.op = "delete"
    BY <1>5 DEF DNSAfter
  <1>6. CASE DNSAfter(r) = old /\ r.op = "create" /\ ~KnownPolicy(r.value)
    BY <1>1, <1>6
  <1>7. CASE r.op = "update" /\ old # None /\ KnownPolicy(r.value)
    <2>1. DNSAfter(r) = [old EXCEPT !.value = w]
      BY <1>7 DEF DNSAfter, w
    <2>2. [old EXCEPT !.value = w] \in Entry
      BY <1>1, <1>2, <1>7 DEF Entry
    <2>3. DNSAfter(r).value = w /\ DNSAfter(r).servers = old.servers
      BY <1>1, <1>7, <2>1 DEF Entry
    <2> QED BY <1>3, <1>7, <2>1, <2>2, <2>3 DEF w
  <1>8. CASE r.op = "add" /\ old # None /\ r.key[2] \in IPAddress
    <2>1. DNSAfter(r) = [old EXCEPT !.servers = old.servers \cup {r.key[2]}]
      BY <1>8 DEF DNSAfter
    <2>2. [old EXCEPT !.servers = old.servers \cup {r.key[2]}] \in Entry
      BY <1>1, <1>2, <1>8 DEF Entry
    <2>3. DNSAfter(r).value = old.value /\ DNSAfter(r).servers = old.servers \cup {r.key[2]}
      BY <1>1, <1>8, <2>1 DEF Entry
    <2> QED BY <1>3, <1>8, <2>1, <2>2, <2>3
  <1>9. r.op = "create" /\ ~KnownPolicy(r.value) => DNSAfter(r) = old
    BY DEF DNSAfter
  <1>10. CASE r.op = "update" /\ ~(old # None /\ KnownPolicy(r.value))
    <2>1. DNSAfter(r) = old
      BY <1>10 DEF DNSAfter
    <2> QED BY <1>1, <1>10, <2>1
  <1>11. CASE r.op = "add" /\ ~(old # None /\ r.key[2] \in IPAddress)
    <2>1. DNSAfter(r) = old
      BY <1>11 DEF DNSAfter
    <2> QED BY <1>1, <1>11, <2>1
  <1>12. r.op \in {"create", "update", "add", "delete"}
    BY DEF Shape
  <1> QED BY <1>4, <1>5, <1>6, <1>7, <1>8, <1>9, <1>10, <1>11, <1>12

LEMMA TellDNSStep == ASSUME IInv, NEW c \in Caller, TellDNS(c) PROVE IInv'
  <1> DEFINE r == req[c]
  <1> DEFINE m == r.name
  <1> DEFINE new == DNSAfter(r)
  <1>1. /\ At(c, "dns") /\ Still /\ UNCHANGED <<store, overrides, disturbed>>
        /\ dns' = [dns EXCEPT ![m] = new] /\ Finish(c) /\ NoteRefusal(r)
    BY DEF TellDNS
  <1>2. /\ up /\ Active(c) /\ r.at = "dns" /\ r \in Request /\ Shape(r) /\ FileNameKept(r)
        /\ m \in Domain /\ Types /\ UNCHANGED <<boot, config, reloaded>>
    <2>1. m \in Domain \cup Region \cup Server
      BY <1>1, AtStep, Kinds DEF Request
    <2> QED BY <1>1, <2>1, AtStep DEF Shape, IInv, Still
  <1>3. /\ new \in Entry \cup {None}
        /\ r.op = "create" /\ KnownPolicy(r.value) =>
              new # None /\ new.value = Effective(r.value) /\ new.servers = {}
        /\ r.op = "create" /\ ~KnownPolicy(r.value) => new = dns[m]
        /\ r.op = "delete" => new = None
        /\ r.op \in {"update", "add"} => (new = None <=> dns[m] = None)
        /\ r.op = "update" /\ dns[m] # None =>
              /\ KnownPolicy(r.value) => new.value = Effective(r.value)
              /\ new.servers = dns[m].servers
        /\ r.op = "add" /\ dns[m] # None =>
              /\ new.value = dns[m].value
              /\ new.servers = dns[m].servers \cup ({r.key[2]} \cap IPAddress)
    BY <1>2, EntryAfter
  <1> HIDE DEF new
  <1>4. /\ dns' \in [Domain -> Entry \cup {None}]
        /\ dns'[m] = new /\ \A n \in Domain : n # m => dns'[n] = dns[n]
    BY <1>1, <1>2, <1>3 DEF Types, TypeOK
  <1>5. /\ req' \in [Caller -> Request \cup {None}] /\ ~Active(c)'
        /\ \A d \in Caller \ {c} : req'[d] = req[d]
    BY <1>1, <1>2, FinishStep
  <1>6. /\ \A k : Stored(k)' = Stored(k)
        /\ \A n \in Domain : BackendsOf(n)' = BackendsOf(n)
    BY <1>1 DEF Stored, BackendsOf
  <1>11. /\ refused' \subseteq Domain
         /\ \A n \in Domain : n # m => (n \in refused' <=> n \in refused)
         /\ r.op = "create" => (m \in refused' <=> ~KnownPolicy(r.value))
         /\ r.op \in {"update", "add"} => refused' = refused
    <2>1. refused \subseteq Domain
      BY <1>2 DEF Types, TypeOK
    <2> QED BY <1>1, <1>2, <2>1 DEF NoteRefusal
  <1>7. Confined(c)
    <2>1. \A n \in Domain : n # m => Same(n)
      BY <1>1, <1>2, <1>4, <1>11 DEF Same
    <2> QED BY <1>1, <1>2, <1>4, <1>5, <1>6, <1>11, <2>1 DEF Confined, FileStoreKept, Types, TypeOK
  <1>8. ASSUME NEW n \in boot \cap Domain, ~Stored(n), ~reloaded
        PROVE  dns'[n] # None /\ StaticAddr \in dns'[n].servers
    <2>1. dns[n] # None /\ StaticAddr \in dns[n].servers
      BY <1>2, <1>8 DEF IInv, FileDomainServed
    <2>2. CASE n = m
      <3>1. r.op = "add"
        BY <1>2, <1>8, <2>2 DEF FileNameKept, Shape
      <3> QED BY <1>3, <1>4, <2>1, <2>2, <3>1
    <2> QED BY <1>4, <2>1, <2>2
  <1>9. ASSUME NEW n \in Domain, n = m, Progress(n, r)
        PROVE  Agree(n)'
    <2> USE <1>1, <1>2, <1>3, <1>4, <1>6, <1>9, <1>11
    <2>1. CASE r.op = "create"
      <3>1. /\ store[n] = r.value /\ Stored(n) /\ Serves(n)
            /\ (n \in APIOnly => BackendsOf(n) = {})
        BY <2>1, ValueStored DEF Progress, Stored, Request
      <3>2. Serves(n)' /\ HasEntry(n)' /\ NoOrphan(n)'
        BY <2>1, <3>1 DEF Serves, HasEntry, NoOrphan, GetDomainBackends
      <3>3. HasValue(n)' /\ HasServers(n, {})'
        BY <2>1, <3>1 DEF HasValue, HasServers, GetDomain, KnownPolicy, Effective
      <3> QED BY <3>2, <3>3 DEF Agree
    <2>2. CASE r.op = "update"
      <3>1. /\ store[n] = r.value /\ Stored(n)
            /\ Serves(n) /\ HasEntry(n) /\ HasServers(n, {})
        BY <2>2, ValueStored DEF Progress, Stored, Request
      <3>2. Serves(n)' /\ HasEntry(n)' /\ NoOrphan(n)'
        BY <2>2, <3>1 DEF Serves, HasEntry, NoOrphan, Listed, GetDomainBackends
      <3>3. HasValue(n)' /\ HasServers(n, {})'
        BY <2>2, <3>1 DEF HasEntry, HasValue, HasServers, GetDomain, Listed, KnownPolicy, Effective
      <3> QED BY <3>2, <3>3 DEF Agree
    <2>3. CASE r.op = "add"
      <3>1. PICK a \in Address : r.key = BackendKey(n, a)
        BY <2>3 DEF Shape
      <3>2. r.key[2] = a /\ a \in BackendsOf(n)
        BY <2>3, <3>1 DEF Progress, BackendsOf, BackendKey
      <3>3. /\ n \in APIOnly => Stored(n)
            /\ Serves(n) /\ HasEntry(n) /\ HasValue(n) /\ HasServers(n, {a})
        BY <2>3, <3>2 DEF Progress
      <3>4. Serves(n)' /\ HasEntry(n)' /\ NoOrphan(n)'
        BY <2>3, <3>2, <3>3 DEF Serves, HasEntry, NoOrphan, Listed, GetDomainBackends
      <3>5. HasValue(n)' /\ HasServers(n, {})'
        BY <2>3, <3>2, <3>3
        DEF HasEntry, HasValue, HasServers, GetDomain, Listed, KnownPolicy, Effective
      <3> QED BY <3>4, <3>5 DEF Agree
    <2>4. CASE r.op = "delete"
      <3>1. ~Stored(n) /\ BackendsOf(n) = {} /\ n \notin boot
        BY <2>4 DEF Progress, FileNameKept
      <3> QED BY <2>4, <3>1 DEF Agree, Serves, HasEntry, HasValue, HasServers, NoOrphan, Listed
    <2> QED BY <2>1, <2>2, <2>3, <2>4 DEF Shape
  <1>10. \A n \in Domain : Agree(n)' => NoOrphan(n)'
    BY DEF Agree
  <1> QED BY <1>2, <1>5, <1>7, <1>8, <1>9, <1>10, LaterStep

-----------------------------------------------------------------------------
(* Starting a request *)

LEMMA BeginStep ==
  ASSUME IInv, NEW c \in Caller, NEW op, NEW step \in Step, NEW m \in Name, NEW k \in Key,
         NEW v \in Value, op \in {"create", "update", "delete", "add", "set", "clear"},
         Begin(c, op, step, m, k, v),
         overrides' \in [Server -> Value \cup {None}],
         NEW x, x = [op |-> op, at |-> step, name |-> m, key |-> k, value |-> v, todo |-> {}],
         Shape(x), FileNameKept(x),
         m \in Domain /\ Agree(m) => Progress(m, x)
  PROVE  IInv'
  <1>1. /\ up /\ ~Active(c) /\ req' = [req EXCEPT ![c] = x]
        /\ disturbed' = IF Busy(m) THEN disturbed \cup {m} ELSE disturbed
        /\ UNCHANGED <<store, dns, refused, up, boot, config, reloaded>>
    BY DEF Begin, Active
  <1>2. x \in Request /\ x.name = m
    BY DEF Request
  <1>3. /\ req' \in [Caller -> Request \cup {None}] /\ req'[c] = x /\ Active(c)'
        /\ \A d \in Caller \ {c} : req'[d] = req[d]
    BY <1>1, <1>2, Replaced DEF IInv
  <1>4. /\ \A y : FileNameKept(y) => FileNameKept(y)'
        /\ \A n \in Domain : Same(n)
        /\ \A n : n \notin disturbed' => n \notin disturbed
    BY <1>1 DEF FileNameKept, Stored, Same
  <1>5. Types'
    BY <1>1, <1>3 DEF IInv, Types, TypeOK
  <1>6. Requests'
    <2> SUFFICES ASSUME NEW d \in Caller, Active(d)'
                 PROVE  Shape(req'[d]) /\ FileNameKept(req[d])'
      BY DEF Requests, Shape
    <2>1. CASE d = c
      BY <1>3, <1>4, <2>1 DEF FileNameKept, Stored
    <2>2. CASE d # c
      <3>1. req'[d] = req[d] /\ Shape(req[d]) /\ FileNameKept(req[d])
        BY <1>3, <2>2 DEF IInv, Requests, Active
      <3> QED BY <1>1, <3>1 DEF FileNameKept, Stored
    <2> QED BY <2>1, <2>2
  <1>7. FileDomainServed'
    BY <1>1 DEF IInv, FileDomainServed, Stored
  <1>8. ASSUME NEW n \in Domain PROVE Good(n)'
    <2>1. CASE n # m
      <3>1. \A d \in Caller : For(d, n) \/ For(d, n)' => req'[d] = req[d]
        BY <1>1, <1>2, <1>3, <2>1 DEF For
      <3> QED BY <1>1, <1>4, <3>1, OtherGood
    <2>2. CASE n = m
      <3> SUFFICES ASSUME n \notin disturbed'
                   PROVE  NoOrphan(n)' /\ Alone(n)' /\ Busy(n)'
                          /\ \A d \in Caller : For(d, n)' => Progress(n, req[d])'
        BY DEF Good
      <3>1. n \notin disturbed /\ ~Busy(n) /\ Agree(n)
        BY <1>1, <2>2 DEF IInv, Good
      <3>2. \A d \in Caller : For(d, n)' <=> d = c
        BY <1>2, <1>3, <2>2, <3>1 DEF Busy, For, Active
      <3>3. NoOrphan(n)' /\ Alone(n)' /\ Busy(n)'
        BY <1>4, <3>1, <3>2, SameFacts DEF Agree, Alone, Busy, For, Active
      <3>4. Progress(n, x)'
        BY <1>2, <1>4, <2>2, <3>1, SameProgress
      <3>5. Progress(n, req[c])'
        BY <1>3, <3>4 DEF Progress
      <3> QED BY <3>2, <3>3, <3>5
    <2> QED BY <2>1, <2>2
  <1> QED BY <1>5, <1>6, <1>7, <1>8 DEF IInv

LEMMA AnyValueStored == AnyValue \in Value
  BY StoreAPIAssumption DEF AnyValue

LEMMA DomainsStep == ASSUME IInv, NEW c \in Caller, HandleDomains(c) PROVE IInv'
  <1> USE Kinds, Keys, AnyValueStored
  <1>0. overrides \in [Server -> Value \cup {None}] /\ \A n \in Domain : n \in Name /\ n \in Key
    BY DEF IInv, Types, TypeOK
  <1>1. ASSUME NEW n \in Domain, NEW u \in Value, CreateDomain(c, n, u) PROVE IInv'
    <2> DEFINE v == Effective(u)
    <2> DEFINE x == [op |-> "create", at |-> "set", name |-> n, key |-> n, value |-> v, todo |-> {}]
    <2>1. Begin(c, "create", "set", n, n, v) /\ overrides' = overrides
      BY <1>1 DEF CreateDomain
    <2>5. v \in Value
      BY EffectiveValue
    <2> HIDE DEF v
    <2>2. Shape(x) /\ FileNameKept(x)
      BY <1>1 DEF CreateDomain, Shape, FileNameKept
    <2>3. Agree(n) => Progress(n, x)
      BY <1>1 DEF CreateDomain, Progress
    <2>4. "set" \in Step
      BY DEF Step
    <2> HIDE DEF x
    <2> QED BY <1>0, <2>1, <2>2, <2>3, <2>4, <2>5, BeginStep DEF x
  <1>2. ASSUME NEW n \in Domain, NEW v \in Value,
               Begin(c, "update", "get", n, n, v), overrides' = overrides
        PROVE  IInv'
    <2> DEFINE x == [op |-> "update", at |-> "get", name |-> n, key |-> n, value |-> v, todo |-> {}]
    <2>1. Shape(x) /\ FileNameKept(x)
      BY DEF Shape, FileNameKept
    <2>2. Agree(n) => Progress(n, x)
      BY DEF Progress
    <2>3. "get" \in Step
      BY DEF Step
    <2> HIDE DEF x
    <2> QED BY <1>0, <1>2, <2>1, <2>2, <2>3, BeginStep DEF x
  <1>3. ASSUME NEW n \in Domain, DeleteDomain(c, n) PROVE IInv'
    <2> DEFINE x == [op |-> "delete", at |-> "list", name |-> n, key |-> n,
                     value |-> AnyValue, todo |-> {}]
    <2>1. Begin(c, "delete", "list", n, n, AnyValue) /\ overrides' = overrides
      BY <1>3 DEF DeleteDomain
    <2>2. Shape(x) /\ FileNameKept(x)
      BY <1>3 DEF DeleteDomain, Shape, FileNameKept
    <2>3. Agree(n) => Progress(n, x)
      BY <1>3 DEF DeleteDomain, Progress
    <2>4. "list" \in Step
      BY DEF Step
    <2> HIDE DEF x
    <2> QED BY <1>0, <2>1, <2>2, <2>3, <2>4, BeginStep DEF x
  <1>4. ASSUME NEW n \in Domain, NEW a \in Address, AddDomainBackend(c, n, a) PROVE IInv'
    <2> DEFINE x == [op |-> "add", at |-> "check", name |-> n, key |-> BackendKey(n, a),
                     value |-> AnyValue, todo |-> {}]
    <2>1. Begin(c, "add", "check", n, BackendKey(n, a), AnyValue) /\ overrides' = overrides
      BY <1>4 DEF AddDomainBackend
    <2>2. Shape(x) /\ FileNameKept(x)
      BY DEF Shape, FileNameKept
    <2>3. n \in APIOnly => Stored(n)
      <3>1. n \in APIOnly => n \notin boot /\ n \notin AgentDomain
        <4>1. n \in APIOnly => n \notin AgentDomain
          BY DEF APIOnly
        <4> QED BY <4>1, FileNames DEF IInv
      <3> QED BY <1>4, <3>1 DEF AddDomainBackend, GetDomain
    <2>4. Agree(n) => Progress(n, x)
      BY <2>3 DEF Progress
    <2>5. "check" \in Step /\ BackendKey(n, a) \in Key
      BY DEF Step
    <2> HIDE DEF x
    <2> QED BY <1>0, <2>1, <2>2, <2>4, <2>5, BeginStep DEF x
  <1>5. \A v \in Asked : v \in Value /\ Preset(v) \in Value
    BY StoreAPIAssumption DEF Preset
  <1> QED
    BY <1>1, <1>2, <1>3, <1>4, <1>5
    DEF HandleDomains, createDomain, updateDomain, deleteDomain, addDomainBackend

LEMMA RegionsStep == ASSUME IInv, NEW c \in Caller, HandleRegions(c) PROVE IInv'
  <1> USE Kinds, Keys, AnyValueStored
  <1>0. /\ overrides \in [Server -> Value \cup {None}]
        /\ \A n \in Region : n \in Name /\ n \in Key /\ n \notin Domain
    BY DEF IInv, Types, TypeOK
  <1>1. ASSUME NEW n \in Region, NEW v \in Value, CreateRegion(c, n, v) PROVE IInv'
    <2> DEFINE x == [op |-> "create", at |-> "set", name |-> n, key |-> n, value |-> v, todo |-> {}]
    <2>1. Begin(c, "create", "set", n, n, v) /\ overrides' = overrides
      BY <1>1 DEF CreateRegion
    <2>2. Shape(x) /\ FileNameKept(x)
      BY <1>1 DEF CreateRegion, Shape, FileNameKept
    <2>3. "set" \in Step
      BY DEF Step
    <2> HIDE DEF x
    <2> QED BY <1>0, <2>1, <2>2, <2>3, BeginStep DEF x
  <1>2. ASSUME NEW n \in Region, NEW v \in Value,
               Begin(c, "update", "get", n, n, v), overrides' = overrides
        PROVE  IInv'
    <2> DEFINE x == [op |-> "update", at |-> "get", name |-> n, key |-> n, value |-> v, todo |-> {}]
    <2>1. Shape(x) /\ FileNameKept(x)
      BY DEF Shape, FileNameKept
    <2>2. "get" \in Step
      BY DEF Step
    <2> HIDE DEF x
    <2> QED BY <1>0, <1>2, <2>1, <2>2, BeginStep DEF x
  <1>3. ASSUME NEW n \in Region, DeleteRegion(c, n) PROVE IInv'
    <2> DEFINE x == [op |-> "delete", at |-> "delete", name |-> n, key |-> n,
                     value |-> AnyValue, todo |-> {}]
    <2>1. Begin(c, "delete", "delete", n, n, AnyValue) /\ overrides' = overrides
      BY <1>3 DEF DeleteRegion
    <2>2. Shape(x) /\ FileNameKept(x)
      BY <1>3 DEF DeleteRegion, Shape, FileNameKept
    <2>3. "delete" \in Step
      BY DEF Step
    <2> HIDE DEF x
    <2> QED BY <1>0, <2>1, <2>2, <2>3, BeginStep DEF x
  <1> QED BY <1>1, <1>2, <1>3, StoreAPIAssumption DEF HandleRegions, createRegion, updateRegion, deleteRegion

LEMMA OverridesStep == ASSUME IInv, NEW c \in Caller, HandleOverrides(c) PROVE IInv'
  <1> USE Kinds, Keys, AnyValueStored
  <1>0. /\ overrides \in [Server -> Value \cup {None}]
        /\ \A s \in Server : s \in Name /\ s \in Key /\ s \notin Domain /\ s \notin boot
    BY FileNames DEF IInv, Types, TypeOK
  <1>1. ASSUME NEW s \in Server, NEW v \in Value, SetOverride(c, s, v) PROVE IInv'
    <2> DEFINE x == [op |-> "set", at |-> "set", name |-> s, key |-> s, value |-> v, todo |-> {}]
    <2>1. /\ Begin(c, "set", "set", s, s, v)
          /\ overrides' \in [Server -> Value \cup {None}]
      BY <1>0, <1>1 DEF SetOverride
    <2>2. Shape(x) /\ FileNameKept(x)
      BY <1>0 DEF Shape, FileNameKept
    <2>3. "set" \in Step
      BY DEF Step
    <2> HIDE DEF x
    <2> QED BY <1>0, <2>1, <2>2, <2>3, BeginStep DEF x
  <1>2. ASSUME NEW s \in Server, ClearOverride(c, s) PROVE IInv'
    <2> DEFINE x == [op |-> "clear", at |-> "delete", name |-> s, key |-> s,
                     value |-> AnyValue, todo |-> {}]
    <2>1. /\ Begin(c, "clear", "delete", s, s, AnyValue)
          /\ overrides' \in [Server -> Value \cup {None}]
      BY <1>0, <1>2 DEF ClearOverride
    <2>2. Shape(x) /\ FileNameKept(x)
      BY <1>0 DEF Shape, FileNameKept
    <2>3. "delete" \in Step
      BY DEF Step
    <2> HIDE DEF x
    <2> QED BY <1>0, <2>1, <2>2, <2>3, BeginStep DEF x
  <1> QED BY <1>1, <1>2, StoreAPIAssumption DEF HandleOverrides, HandleSetOverride, HandleClearOverride

-----------------------------------------------------------------------------
(* The process *)

LEMMA BootStep == ASSUME IInv, NEW cfg \in Configs, Boot(cfg) PROVE IInv'
  <1>1. /\ ~up /\ up' = TRUE /\ boot' = cfg /\ config' = cfg /\ reloaded' = FALSE
        /\ dns' = LoadStored(BuildRegistry(cfg))
        /\ refused' = {n \in Domain \ cfg : Stored(n) /\ ~Loadable(n)}
        /\ disturbed' = (disturbed \ {n \in Domain : Stored(n)}) \cup {s \in Server : Stored(s)}
        /\ UNCHANGED <<store, overrides, req>>
    BY DEF Boot
  <1>2. \A c \in Caller : ~Active(c) /\ ~Active(c)'
    BY <1>1 DEF IInv, Types, Active
  <1>3. /\ \A k : Stored(k)' = Stored(k)
        /\ \A n \in Domain : BackendsOf(n)' = BackendsOf(n)
    BY <1>1 DEF Stored, BackendsOf
  <1>4. ASSUME NEW n \in Domain
        PROVE  /\ Loadable(n) =>
                     /\ dns'[n] \in Entry
                     /\ dns'[n].value = Effective(store[n])
                     /\ dns'[n].servers = BackendsOf(n) \cap IPAddress
               /\ ~Loadable(n) /\ n \in cfg =>
                     /\ dns'[n] \in Entry
                     /\ dns'[n].value = FileValue /\ dns'[n].servers = {StaticAddr}
               /\ ~Loadable(n) /\ n \notin cfg => dns'[n] = None
    <2> DEFINE w == Effective(store[n])
    <2> DEFINE A == BackendsOf(n) \cap IPAddress
    <2> DEFINE s == [value |-> w, servers |-> A]
               f == [value |-> FileValue, servers |-> {StaticAddr}]
    <2>1. dns'[n] = IF Loadable(n) THEN s ELSE IF n \in cfg THEN f ELSE None
      BY <1>1 DEF LoadStored, BuildRegistry, RegisterDomain
    <2>2. Loadable(n) => s \in Entry
      <3>1. Loadable(n) => store[n] \in Value
        BY Kinds, Keys DEF Loadable, Stored, IInv, Types, TypeOK
      <3>2. Loadable(n) => w \in Value
        BY <3>1, EffectiveValue
      <3>3. A \subseteq Address
        BY DEF BackendsOf
      <3> HIDE DEF w, A
      <3> QED BY <3>2, <3>3 DEF Entry
    <2>3. f \in Entry
      BY DEF Entry
    <2> HIDE DEF w, A
    <2>4. /\ s.value = w /\ s.servers = A
          /\ f.value = FileValue /\ f.servers = {StaticAddr}
      OBVIOUS
    <2> HIDE DEF s, f
    <2> QED BY <2>1, <2>2, <2>3, <2>4 DEF w, A
  <1>5. \A n \in Domain : dns'[n] \in Entry \cup {None}
    BY <1>4
  <1>6. Types'
    <2>1. dns' \in [Domain -> Entry \cup {None}]
      BY <1>1, <1>5 DEF LoadStored
    <2>2. disturbed' \subseteq Name /\ refused' \subseteq Domain
      BY <1>1, Kinds DEF IInv, Types, TypeOK
    <2> QED BY <1>1, <2>1, <2>2 DEF IInv, Types, TypeOK
  <1>7. Requests'
    BY <1>2 DEF Requests
  <1>8. \A e \in Entry : e # None
    BY NoneAssumption
  <1>9. FileDomainServed'
    BY <1>1, <1>3, <1>4, <1>8 DEF FileDomainServed, Loadable
  <1>10. ASSUME NEW n \in Domain PROVE Good(n)'
    <2> SUFFICES ASSUME n \notin disturbed' PROVE Agree(n)'
      BY <1>2 DEF Good, Agree, Alone, For
    <2>1. NoOrphan(n)'
      <3>1. Stored(n) \/ n \notin disturbed
        BY <1>1
      <3>2. NoOrphan(n)
        BY <3>1 DEF IInv, Good, NoOrphan
      <3> QED BY <1>3, <3>2 DEF NoOrphan
    <2>2. CASE Loadable(n)
      <3>1. /\ dns'[n] # None /\ dns'[n].value = Effective(store[n]) /\ Stored(n)
            /\ dns'[n].servers = BackendsOf(n) \cap IPAddress
        BY <1>4, <1>8, <2>2 DEF Loadable
      <3>2. Serves(n)' /\ HasEntry(n)'
        BY <1>3, <3>1 DEF Serves, HasEntry, GetDomainBackends
      <3>3. HasValue(n)' /\ HasServers(n, {})'
        BY <1>1, <1>3, <3>1 DEF HasValue, HasServers, GetDomain, Effective
      <3> QED BY <2>1, <3>2, <3>3 DEF Agree
    <2>3. CASE ~Loadable(n) /\ n \in cfg
      <3>1. dns'[n] # None /\ dns'[n].value = FileValue /\ dns'[n].servers = {StaticAddr}
        BY <1>4, <1>8, <2>3
      <3>2. Serves(n)' /\ HasEntry(n)'
        BY <1>1, <1>3, <2>3, <3>1 DEF Serves, HasEntry, GetDomainBackends
      <3>3. HasValue(n)'
        <4>1. CASE Stored(n)
          <5>1. ~KnownPolicy(store[n]) /\ GetDomain(n)' = store[n]
            BY <1>1, <1>3, <2>3, <4>1 DEF Loadable, GetDomain
          <5> QED BY <5>1 DEF HasValue, KnownPolicy, Effective
        <4>2. CASE ~Stored(n)
          <5>1. GetDomain(n)' = FileValue /\ Effective(FileValue) = FileValue
            BY <1>1, <1>3, <2>3, <4>2, StoreAPIAssumption DEF GetDomain, Effective
          <5> QED BY <3>1, <5>1 DEF HasValue, Effective
        <4> QED BY <4>1, <4>2
      <3>4. HasServers(n, {})'
        BY <2>3 DEF HasServers, APIOnly
      <3> QED BY <2>1, <3>2, <3>3, <3>4 DEF Agree
    <2>4. CASE ~Loadable(n) /\ n \notin cfg
      <3>1. dns'[n] = None /\ (Listed(n)' => n \in refused')
        BY <1>1, <1>3, <1>4, <2>4 DEF Listed
      <3> QED BY <2>1, <3>1 DEF Agree, Serves, HasEntry, HasValue, HasServers
    <2> QED BY <2>2, <2>3, <2>4
  <1> QED BY <1>6, <1>7, <1>9, <1>10 DEF IInv

LEMMA ReloadStep == ASSUME IInv, NEW cfg \in Configs, Reload(cfg) PROVE IInv'
  <1>1. /\ config' = cfg /\ dns' = BuildRegistry(cfg) /\ reloaded' = TRUE
        /\ UNCHANGED <<store, overrides, up, boot, req, refused, disturbed>>
    BY DEF Reload
  <1>2. /\ \A k : Stored(k)' = Stored(k)
        /\ \A n \in Domain : BackendsOf(n)' = BackendsOf(n)
    BY <1>1 DEF Stored, BackendsOf
  <1>3. ASSUME NEW n \in Domain
        PROVE  dns'[n] \in Entry \cup {None} /\ (dns'[n] # None => n \in cfg)
    BY <1>1 DEF BuildRegistry, Entry
  <1>4. Types'
    <2>1. dns' \in [Domain -> Entry \cup {None}]
      BY <1>1, <1>3 DEF BuildRegistry
    <2> QED BY <1>1, <2>1 DEF IInv, Types, TypeOK, Active
  <1>5. Requests' /\ FileDomainServed'
    BY <1>1, <1>2 DEF IInv, Requests, FileDomainServed, Active, FileNameKept, Shape
  <1>6. ASSUME NEW n \in Domain PROVE Good(n)'
    <2>1. /\ Serves(n)' /\ HasEntry(n)' /\ HasValue(n)'
          /\ \A A : HasServers(n, A)'
      BY <1>1, <1>3 DEF Serves, HasEntry, HasValue, HasServers
    <2>2. NoOrphan(n)' = NoOrphan(n) /\ Alone(n)' = Alone(n)
      BY <1>1, <1>2 DEF NoOrphan, Alone, For, Active
    <2>3. ASSUME NEW c \in Caller, Progress(n, req[c]), NoOrphan(n)
          PROVE  Progress(n, req[c])'
      <3>1. Agree(n)'
        BY <2>1, <2>2, <2>3 DEF Agree
      <3>2. store' = store /\ req' = req
        BY <1>1
      <3> QED BY <1>2, <2>1, <2>3, <3>1, <3>2 DEF Progress
    <2>4. NoOrphan(n)' => Agree(n)'
      BY <2>1 DEF Agree
    <2> QED BY <1>1, <2>2, <2>3, <2>4 DEF IInv, Good, For, Active
  <1> QED BY <1>4, <1>5, <1>6 DEF IInv

LEMMA CrashStep == ASSUME IInv, Crash PROVE IInv'
  <1>1. /\ up' = FALSE /\ boot' = {} /\ config' = {}
        /\ dns' = [n \in Domain |-> None] /\ overrides' = [s \in Server |-> None]
        /\ req' = [c \in Caller |-> None] /\ refused' = {}
        /\ UNCHANGED <<store, reloaded, disturbed>>
    BY DEF Crash
  <1>2. \A c \in Caller : ~Active(c)'
    BY <1>1 DEF Active
  <1>3. Types'
    BY <1>1, <1>2 DEF IInv, Types, TypeOK
  <1>4. Requests' /\ FileDomainServed'
    BY <1>1, <1>2 DEF Requests, FileDomainServed
  <1>5. ASSUME NEW n \in Domain PROVE Good(n)'
    <2>1. NoOrphan(n)' = NoOrphan(n)
      BY <1>1 DEF NoOrphan, Stored, BackendsOf
    <2> QED BY <1>1, <1>2, <2>1 DEF IInv, Good, Alone, For
  <1> QED BY <1>3, <1>4, <1>5 DEF IInv

LEMMA InitIInv == Init => IInv
  <1> SUFFICES ASSUME Init PROVE IInv
    OBVIOUS
  <1>1. \A c \in Caller : ~Active(c)
    BY DEF Init, Active
  <1>2. Types
    BY <1>1 DEF Init, Types, TypeOK
  <1>3. Requests /\ FileDomainServed
    BY <1>1 DEF Init, Requests, FileDomainServed
  <1>4. ASSUME NEW n \in Domain PROVE Good(n)
    <2>1. BackendsOf(n) = {}
      BY Keys DEF Init, BackendsOf, Stored
    <2> QED BY <1>1, <2>1 DEF Init, Good, NoOrphan, Alone, For
  <1> QED BY <1>2, <1>3, <1>4 DEF IInv

LEMMA Unchanged == ASSUME IInv, UNCHANGED vars PROVE IInv' /\ FileStoreKept
  <1>1. Types' /\ Requests' /\ FileDomainServed' /\ FileStoreKept
    BY DEF IInv, vars, Types, TypeOK, Active, Requests, FileNameKept, Shape,
           FileDomainServed, Stored, FileStoreKept
  <1>2. ASSUME NEW n \in Domain PROVE Good(n)'
    <2>1. Same(n) /\ up' = up /\ disturbed' = disturbed /\ req' = req
      BY DEF vars, Same
    <2> QED BY <2>1, OtherGood
  <1> QED BY <1>1, <1>2 DEF IInv

\* Every step keeps the invariant, and no step of a running process stores or
\* deletes a name of its configuration.
LEMMA NextStep == ASSUME IInv, [Next]_vars PROVE IInv' /\ (up /\ up' => FileStoreKept)
  <1>1. store' = store => FileStoreKept
    BY DEF FileStoreKept, Stored
  <1>2. ASSUME NEW c \in Caller, HandleDomains(c) \/ HandleRegions(c) \/ HandleOverrides(c)
        PROVE  IInv' /\ FileStoreKept
    <2>1. store' = store
      BY <1>2
      DEF HandleDomains, createDomain, updateDomain, deleteDomain, addDomainBackend,
          CreateDomain, DeleteDomain, AddDomainBackend,
          HandleRegions, createRegion, updateRegion, deleteRegion, CreateRegion, DeleteRegion,
          HandleOverrides, HandleSetOverride, HandleClearOverride, SetOverride, ClearOverride, Begin
    <2> QED BY <1>1, <1>2, <2>1, DomainsStep, RegionsStep, OverridesStep
  <1>3. ASSUME NEW c \in Caller, Continue(c) PROVE IInv' /\ FileStoreKept
    <2>1. CASE UpdateGet(c)
      BY <1>1, <2>1, UpdateGetStep DEF UpdateGet
    <2>2. CASE AddCheck(c)
      BY <1>1, <2>2, AddCheckStep DEF AddCheck
    <2>3. CASE DeleteList(c)
      BY <1>1, <2>3, DeleteListStep DEF DeleteList
    <2>4. CASE StoreFails(c)
      BY <1>1, <2>4, StoreFailsStep DEF StoreFails
    <2>5. CASE TellDNS(c)
      BY <1>1, <2>5, TellDNSStep DEF TellDNS
    <2>6. CASE Set(c) \/ Delete(c)
      BY <2>6, SetStep, DeleteStep
    <2>7. ASSUME NEW a \in Address, DeleteBackend(c, a) PROVE IInv' /\ FileStoreKept
      BY <2>7, DeleteBackendStep
    <2> QED
      BY <1>3, <2>1, <2>2, <2>3, <2>4, <2>5, <2>6, <2>7 DEF Continue, UpdateDomain, UpdateRegion
  <1>4. ASSUME NEW cfg \in Configs, Boot(cfg) PROVE IInv' /\ ~up
    BY <1>4, BootStep DEF Boot
  <1>5. ASSUME NEW cfg \in Configs, Reload(cfg) PROVE IInv' /\ FileStoreKept
    BY <1>1, <1>5, ReloadStep DEF Reload
  <1>6. CASE Crash
    BY <1>6, CrashStep DEF Crash
  <1> QED BY <1>2, <1>3, <1>4, <1>5, <1>6, Unchanged DEF Next

LEMMA BootKept == ASSUME [Next]_vars, up, up' PROVE boot' = boot
  <1>1. ASSUME NEW c \in Caller, HandleDomains(c) \/ HandleRegions(c) \/ HandleOverrides(c)
        PROVE  boot' = boot
    BY <1>1
    DEF HandleDomains, createDomain, updateDomain, deleteDomain, addDomainBackend,
        CreateDomain, DeleteDomain, AddDomainBackend,
        HandleRegions, createRegion, updateRegion, deleteRegion, CreateRegion, DeleteRegion,
        HandleOverrides, HandleSetOverride, HandleClearOverride, SetOverride, ClearOverride, Begin
  <1>2. ASSUME NEW c \in Caller, Continue(c) PROVE boot' = boot
    BY <1>2
    DEF Continue, UpdateDomain, UpdateRegion, UpdateGet, AddCheck, Set, DeleteList,
        DeleteBackend, Delete, StoreFails, TellDNS, Still
  <1> QED BY <1>1, <1>2 DEF Next, Boot, Reload, Crash, vars

LEMMA Inductive == Spec => []IInv
  <1>1. IInv /\ [Next]_vars => IInv'
    BY NextStep
  <1> QED BY InitIInv, <1>1, PTL DEF Spec

-----------------------------------------------------------------------------
(* Theorems *)

\* What the variables hold, for any callers, names and values.
THEOREM TypeCorrect == Spec => []TypeOK
  <1>1. IInv => TypeOK
    BY DEF IInv, Types
  <1> QED BY Inductive, <1>1, PTL

\* What GET lists is what the DNS registry serves (providers.go, registry.go),
\* but for what RegisterDomainDynamic, UpdateDomainSettings and RegisterServer
\* refuse, after any interleaving of requests for other names, crashes between
\* any two steps, and restarts.
THEOREM GetIsServed == Spec => []DomainsServed
  <1>1. IInv => DomainsServed
    <2> SUFFICES ASSUME IInv, NEW n \in ListDomains \ ReportedOnly, Settled(n), ~reloaded
                 PROVE  /\ n \notin refused => dns[n] # None
                        /\ dns[n] # None =>
                              /\ KnownPolicy(GetDomain(n)) => dns[n].value = Effective(GetDomain(n))
                              /\ n \in APIOnly =>
                                    GetDomainBackends(n) \cap IPAddress \subseteq dns[n].servers
      BY DEF DomainsServed
    <2>1. n \in Domain /\ Listed(n)
      BY StoreAPIAssumption DEF ListDomains, ReportedOnly, Listed
    <2>2. Agree(n)
      BY <2>1 DEF IInv, Good, Settled
    <2>3. n \in APIOnly => n \notin boot
      BY FileNames DEF IInv
    <2> QED
      BY <2>1, <2>2, <2>3 DEF Agree, HasEntry, HasValue, HasServers, GetDomainBackends
  <1> QED BY Inductive, <1>1, PTL

\* What is deleted is not served any more: the DNS registry holds only what GET
\* shows, however requests for other names, crashes and restarts interleave.
THEOREM DeletedIsGone == Spec => []NothingDeletedServed
  <1>1. IInv => NothingDeletedServed
    <2>1. IInv => \A n \in Domain : Settled(n) => Serves(n)
      BY DEF IInv, Good, Settled, Agree
    <2> QED BY <2>1 DEF NothingDeletedServed, Serves
  <1> QED BY Inductive, <1>1, PTL

\* DeleteDomain removes the backends before the domain: no crash leaves one
\* behind.
THEOREM BackendsGoFirst == Spec => []NoOrphanBackends
  <1>1. IInv => NoOrphanBackends
    BY DEF IInv, Good, NoOrphan, NoOrphanBackends, APIOnly
  <1> QED BY Inductive, <1>1, PTL

\* No request stores, deletes or takes the static server from a name of the
\* file, whatever overlaps or fails.
THEOREM FileNamesKept == Spec => ConfigNamesKept
  <1>1. IInv /\ IInv' /\ [Next]_vars =>
           [up /\ up' => \A n \in boot : ~Stored(n) =>
               /\ ~Stored(n)'
               /\ n \in Domain /\ ~reloaded' =>
                     dns'[n] # None /\ StaticAddr \in dns'[n].servers]_vars
    <2> SUFFICES ASSUME IInv, IInv', [Next]_vars, up, up', NEW n \in boot, ~Stored(n)
                 PROVE  /\ ~Stored(n)'
                        /\ n \in Domain /\ ~reloaded' =>
                              dns'[n] # None /\ StaticAddr \in dns'[n].servers
      OBVIOUS
    <2>1. ~Stored(n)'
      BY NextStep DEF FileStoreKept
    <2>2. boot' = boot
      BY BootKept
    <2> QED BY <2>1, <2>2 DEF IInv, FileDomainServed
  <1> QED BY Inductive, <1>1, PTL DEF Spec, ConfigNamesKept
=============================================================================
