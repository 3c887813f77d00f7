------------------------ MODULE LatencyLearningProofs ------------------------
(***************************************************************************)
(* How old a latency in use may be and where it comes from, for any        *)
(* agents, clients, round-trip times, limits and ages.                     *)
(*                                                                         *)
(* Update applies the subnets of a report in any order, which the model    *)
(* writes as a recursive function on sets of subnets.  That there is such  *)
(* a function, and that what its steps keep all of it keeps, is shown with *)
(* a smallest counterexample.                                              *)
(***************************************************************************)
EXTENDS LatencyLearning, Integers, FiniteSetTheorems, WellFoundedInduction, TLAPS

-----------------------------------------------------------------------------
(* The inductive invariant *)

\* The round-trip times in a set O of observations that agents of region r made of
\* clients in subnet p.
SeenIn(O, r, p) == {rtt \in RTT : <<r, p, rtt>> \in O}

Between(x, R) == \E l, h \in R : l <= x /\ x <= h

\* How old an observation an entry may rest on when it is made.
AgeLimit == SubnetTTL + PruneEvery + MaxDelay

\* Statistics of subnet p at an agent of region r, at time t.
GoodStats(t, O, r, p, s) ==
    /\ s.at \in Nat /\ s.at <= t
    /\ s.ewma \in Nat /\ Between(s.ewma, SeenIn(O, r, p))

\* The entry of subnet p for b, a service and a region.
GoodEntry(t, O, p, b, e) ==
    /\ e.at \in Nat /\ e.seen \in Nat
    /\ e.at <= t /\ e.at <= e.seen + AgeLimit
    /\ e.source = "test" \/ Between(e.ewma, SeenIn(O, b[2], p))

GoodTable(t, O, T) ==
    \A p \in DOMAIN T : \A b \in DOMAIN T[p] : GoodEntry(t, O, p, b, T[p][b])

Clocks ==
    /\ now \in Nat
    /\ running \in [Agent -> BOOLEAN]
    /\ pruned \in [Agent -> Nat]
    /\ DOMAIN queue = Agent /\ DOMAIN agg = Agent
    /\ \A a \in Agent : /\ pruned[a] <= now
                        /\ running[a] => now <= pruned[a] + PruneEvery

\* Observations do not grow old in the channel.
GoodQueue(t, O, a, q) ==
    /\ q \in Seq([addr : Addr, rtt : RTT, at : {t}])
    /\ \A i \in 1 .. Len(q) : q[i].rtt \in SeenIn(O, AgentRegion[a], AgentPrefix[q[i].addr])

\* What the last pruning left was not older than SubnetTTL then.
GoodAgg(t, O, a, g, last) ==
    /\ IsFiniteSet(DOMAIN g)
    /\ \A p \in DOMAIN g : /\ GoodStats(t, O, AgentRegion[a], p, g[p])
                           /\ last <= g[p].at + SubnetTTL

\* A stopped agent has nothing that it could report.
StoppedIsEmpty(a) == ~running[a] => queue[a] = <<>> /\ DOMAIN agg[a] = {}

GoodReport(t, O, m) ==
    /\ m.from \in Agent
    /\ m.sent \in Nat /\ m.sent <= t /\ t <= m.sent + MaxDelay
    /\ IsFiniteSet(DOMAIN m.subnets)
    /\ \A p \in DOMAIN m.subnets : /\ GoodStats(t, O, AgentRegion[m.from], p, m.subnets[p])
                                   /\ m.sent <= m.subnets[p].at + SubnetTTL + PruneEvery

IInv ==
    /\ Clocks
    /\ \A a \in Agent : /\ GoodQueue(now, observed, a, queue[a])
                        /\ GoodAgg(now, observed, a, agg[a], pruned[a])
                        /\ StoppedIsEmpty(a)
    /\ \A m \in net : GoodReport(now, observed, m)
    /\ GoodTable(now, observed, table)

-----------------------------------------------------------------------------
(* Arithmetic and functions *)

LEMMA Products ==
  ASSUME NEW a \in Int, NEW b \in Int, NEW d \in Nat, a <= b
  PROVE  d * a <= d * b
  <1>1. b - a >= 0 /\ d * b - d * a = d * (b - a)
    OBVIOUS
  <1>2. d * (b - a) >= 0
    BY <1>1
  <1> QED BY <1>1, <1>2

LEMMA ProductsInv ==
  ASSUME NEW a \in Int, NEW b \in Int, NEW d \in Nat \ {0}, d * a < d * b
  PROVE  a < b
  <1> SUFFICES ASSUME b <= a PROVE FALSE
    OBVIOUS
  <1>1. d * b <= d * a
    BY Products
  <1>2. d * a \in Int /\ d * b \in Int
    OBVIOUS
  <1> QED BY <1>1, <1>2

\* The quotient of a number between multiples.
LEMMA Quotient ==
  ASSUME NEW z \in Nat, NEW d \in Nat \ {0}, NEW lo \in Nat, NEW hi \in Nat,
         d * lo <= z, z <= d * hi
  PROVE  z \div d \in Nat /\ lo <= z \div d /\ z \div d <= hi
  <1> DEFINE q == z \div d
  <1>1. q \in Int /\ d * q <= z /\ z < d * (q + 1)
    OBVIOUS
  <1> HIDE DEF q
  <1>2. d * lo \in Int /\ d * q \in Int /\ d * (q + 1) \in Int /\ d * (hi + 1) \in Int
    BY <1>1
  <1>3. lo < q + 1
    <2>1. d * lo < d * (q + 1)
      BY <1>1, <1>2
    <2> QED BY <1>1, <2>1, ProductsInv
  <1>4. q < hi + 1
    <2>1. d * (hi + 1) = d * hi + d
      OBVIOUS
    <2>2. d * q < d * (hi + 1)
      BY <1>1, <1>2, <2>1
    <2> QED BY <1>1, <2>2, ProductsInv
  <1>5. q \in Nat /\ lo <= q /\ q <= hi
    BY <1>1, <1>3, <1>4
  <1> QED BY <1>5 DEF q

\* The smoothed latency lies between what it is made from.
LEMMA Average ==
  ASSUME NEW n \in Nat, NEW d \in Nat \ {0}, n <= d, NEW x \in Nat, NEW y \in Nat,
         NEW lo \in Nat, NEW hi \in Nat, lo <= x, lo <= y, x <= hi, y <= hi
  PROVE  /\ (n * x + (d - n) * y) \div d \in Nat
         /\ lo <= (n * x + (d - n) * y) \div d
         /\ (n * x + (d - n) * y) \div d <= hi
  <1> DEFINE m == d - n
  <1>1. m \in Nat
    OBVIOUS
  <1> HIDE DEF m
  <1>2. /\ n * lo <= n * x /\ n * x <= n * hi
        /\ m * lo <= m * y /\ m * y <= m * hi
    BY <1>1, Products
  <1>3. n * x \in Nat /\ m * y \in Nat /\ n * lo \in Nat /\ m * lo \in Nat /\ n * hi \in Nat /\ m * hi \in Nat
    BY <1>1
  <1>4. d = n + m
    BY DEF m
  <1>5. d * lo = n * lo + m * lo /\ d * hi = n * hi + m * hi
    BY <1>1, <1>4
  <1> DEFINE z == n * x + m * y
  <1>6. z \in Nat /\ d * lo <= z /\ z <= d * hi
    BY <1>2, <1>3, <1>5
  <1> HIDE DEF z
  <1>7. z \div d \in Nat /\ lo <= z \div d /\ z \div d <= hi
    BY <1>6, Quotient
  <1> QED BY <1>7 DEF z, m

LEMMA BetweenAverage ==
  ASSUME NEW R, R \subseteq Nat, NEW x \in R, NEW y \in Nat, Between(y, R)
  PROVE  LET avg == (AlphaNum * x + (AlphaDen - AlphaNum) * y) \div AlphaDen
         IN  avg \in Nat /\ Between(avg, R)
  <1>1. PICK l, h \in R : l <= y /\ y <= h
    BY DEF Between
  <1>2. l \in Nat /\ h \in Nat /\ x \in Nat
    OBVIOUS
  <1>3. PICK lo \in R : lo <= x /\ lo <= y
    <2>1. CASE l <= x
      BY <2>1, <1>1
    <2>2. CASE x <= l
      BY <2>2, <1>1, <1>2
    <2> QED BY <1>2, <2>1, <2>2
  <1>4. PICK hi \in R : x <= hi /\ y <= hi
    <2>1. CASE x <= h
      BY <2>1, <1>1
    <2>2. CASE h <= x
      BY <2>2, <1>1, <1>2
    <2> QED BY <1>2, <2>1, <2>2
  <1>5. AlphaNum \in Nat /\ AlphaDen \in Nat \ {0} /\ AlphaNum <= AlphaDen
    BY LatencyAssumption
  <1>6. lo \in Nat /\ hi \in Nat
    OBVIOUS
  <1> DEFINE avg == (AlphaNum * x + (AlphaDen - AlphaNum) * y) \div AlphaDen
  <1>7. avg \in Nat /\ lo <= avg /\ avg <= hi
    BY <1>2, <1>3, <1>4, <1>5, <1>6, Average
  <1> HIDE DEF avg
  <1>8. avg \in Nat /\ Between(avg, R)
    BY <1>7 DEF Between
  <1> QED BY <1>8 DEF avg

LEMMA WithoutDef ==
  ASSUME NEW f, NEW p
  PROVE  /\ DOMAIN Without(f, p) \subseteq DOMAIN f
         /\ \A q \in DOMAIN Without(f, p) : Without(f, p)[q] = f[q]
  BY DEF Without

LEMMA EmptyDef == DOMAIN Empty = {}
  BY DEF Empty

LEMMA Constants ==
  /\ AgentRegion \in [Agent -> Region] /\ RTT \subseteq Nat
  /\ SubnetTTL \in Nat /\ PruneEvery \in Nat /\ MaxDelay \in Nat /\ EntryTTL \in Nat
  /\ AgeLimit \in Nat
  BY LatencyAssumption DEF AgeLimit

-----------------------------------------------------------------------------
(* Update *)

\* The tables after the subnets S, when f has those after one subnet less.
AfterOne(f, T, m, S) ==
    IF S = {} THEN {T}
    ELSE UNION {UNION {UpdateSubnet(U, p, m) : U \in f[S \ {p}]} : p \in S}

IsAfter(f, T, m, D) == f = [S \in SUBSET D |-> AfterOne(f, T, m, S)]

LEMMA AfterOneDepends ==
  ASSUME NEW f, NEW g, NEW T, NEW m, NEW S, \A p \in S : f[S \ {p}] = g[S \ {p}]
  PROVE  AfterOne(f, T, m, S) = AfterOne(g, T, m, S)
  <1>1. \A p \in S : {UpdateSubnet(U, p, m) : U \in f[S \ {p}]}
                       = {UpdateSubnet(U, p, m) : U \in g[S \ {p}]}
    OBVIOUS
  <1> DEFINE F(p) == {UpdateSubnet(U, p, m) : U \in f[S \ {p}]}
  <1> DEFINE G(p) == {UpdateSubnet(U, p, m) : U \in g[S \ {p}]}
  <1>2. \A p \in S : F(p) = G(p)
    BY <1>1
  <1>3. AfterOne(f, T, m, S) = IF S = {} THEN {T} ELSE UNION {UNION F(p) : p \in S}
    BY DEF AfterOne
  <1>4. AfterOne(g, T, m, S) = IF S = {} THEN {T} ELSE UNION {UNION G(p) : p \in S}
    BY DEF AfterOne
  <1> HIDE DEF F, G
  <1>5. {UNION F(p) : p \in S} = {UNION G(p) : p \in S}
    BY <1>2
  <1> QED BY <1>3, <1>4, <1>5

LEMMA Smaller ==
  ASSUME NEW S, IsFiniteSet(S), NEW p \in S
  PROVE  /\ Cardinality(S \ {p}) \in Nat /\ Cardinality(S) \in Nat
         /\ Cardinality(S \ {p}) = Cardinality(S) - 1
  BY FS_RemoveElement, FS_CardinalityType

LEMMA SmallestNat ==
  ASSUME NEW I, I \subseteq Nat, I # {}
  PROVE  \E x \in I : \A y \in I : x <= y
  <1>1. PICK x \in I : \A y \in I : ~(<<y, x>> \in OpToRel(<, Nat))
    BY NatLessThanWellFounded, WFMin
  <1>2. \A y \in I : x <= y
    <2> SUFFICES ASSUME NEW y \in I, y < x PROVE FALSE
      OBVIOUS
    <2>1. <<y, x>> \in Nat \X Nat /\ <<y, x>>[1] < <<y, x>>[2]
      OBVIOUS
    <2>2. <<y, x>> \in OpToRel(<, Nat)
      BY <2>1 DEF OpToRel
    <2> QED BY <1>1, <2>2
  <1> QED BY <1>2

\* The recursion of Update defines a function.
LEMMA Recursion ==
  ASSUME NEW T, NEW m, NEW D, IsFiniteSet(D)
  PROVE  \E f : IsAfter(f, T, m, D)
  <1> DEFINE UpTo(n) == {S \in SUBSET D : Cardinality(S) <= n}
  <1> DEFINE Fits(f, n) == f = [S \in UpTo(n) |-> AfterOne(f, T, m, S)]
  <1> DEFINE B == {n \in Nat : ~\E f : Fits(f, n)}
  <1>1. ASSUME NEW S \in SUBSET D
        PROVE  /\ IsFiniteSet(S) /\ Cardinality(S) \in Nat /\ Cardinality(S) <= Cardinality(D)
               /\ Cardinality(D) \in Nat
    BY FS_Subset, FS_CardinalityType
  <1>2. ASSUME B # {} PROVE FALSE
    <2>1. B \subseteq Nat
      OBVIOUS
    <2>2. PICK n \in B : \A k \in B : n <= k
      <3> HIDE DEF B
      <3> QED BY <1>2, <2>1, SmallestNat
    <2>3. n \in Nat /\ ~\E f : Fits(f, n)
      OBVIOUS
    <2>4. PICK g : n > 0 => Fits(g, n - 1)
      <3>1. CASE n = 0
        BY <3>1
      <3>2. CASE n > 0
        <4>1. n - 1 \in Nat /\ n - 1 \notin B
          <5>1. n \in B
            OBVIOUS
          <5> HIDE DEF B
          <5> QED BY <5>1, <2>2, <2>3, <3>2
        <4>2. \E f : Fits(f, n - 1)
          <5> HIDE DEF Fits
          <5> QED BY <4>1
        <4> HIDE DEF Fits
        <4> QED BY <4>2
      <3> QED BY <2>3, <3>1, <3>2
    <2> DEFINE f == [S \in UpTo(n) |-> AfterOne(g, T, m, S)]
    <2>5. ASSUME NEW S \in UpTo(n), NEW p \in S PROVE f[S \ {p}] = g[S \ {p}]
      <3> DEFINE R == S \ {p}
      <3>1. S \in SUBSET D /\ Cardinality(S) <= n /\ IsFiniteSet(S)
        BY <1>1
      <3>2. /\ Cardinality(R) \in Nat /\ Cardinality(S) \in Nat
            /\ Cardinality(R) = Cardinality(S) - 1
        BY <3>1, Smaller
      <3>3. R \in SUBSET D
        BY <3>1
      <3> HIDE DEF R
      <3>4. n > 0 /\ Cardinality(R) <= n - 1
        BY <2>3, <3>1, <3>2
      <3>5. R \in UpTo(n - 1) /\ R \in UpTo(n)
        BY <2>3, <3>2, <3>3, <3>4
      <3>6. g[R] = AfterOne(g, T, m, R)
        BY <2>4, <3>4, <3>5
      <3>7. f[R] = AfterOne(g, T, m, R)
        BY <3>5
      <3> QED BY <3>6, <3>7 DEF R
    <2>6. ASSUME NEW S \in UpTo(n) PROVE AfterOne(f, T, m, S) = AfterOne(g, T, m, S)
      <3> HIDE DEF f
      <3> QED BY <2>5, AfterOneDepends
    <2>7. f = [S \in UpTo(n) |-> AfterOne(f, T, m, S)]
      BY <2>6
    <2> QED BY <2>3, <2>7
  <1>3. Cardinality(D) \in Nat
    BY FS_CardinalityType
  <1>4. PICK f : Fits(f, Cardinality(D))
    BY <1>2, <1>3
  <1>5. UpTo(Cardinality(D)) = SUBSET D
    BY <1>1
  <1> QED BY <1>4, <1>5 DEF IsAfter

\* Update has what f says of all the subnets.
UpdatesBy(f, T, m) ==
    /\ Update(T, m) = f[DOMAIN m.subnets]
    /\ \A S \in SUBSET DOMAIN m.subnets : f[S] = AfterOne(f, T, m, S)

LEMMA UpdateIsRecursive ==
  ASSUME NEW T, NEW m, IsFiniteSet(DOMAIN m.subnets)
  PROVE  \E f : UpdatesBy(f, T, m)
  <1> DEFINE D == DOMAIN m.subnets
  <1> DEFINE f == CHOOSE f : IsAfter(f, T, m, D)
  <1>1. Update(T, m) = f[D]
    BY DEF Update, AfterOne, IsAfter
  <1>2. IsAfter(f, T, m, D)
    <2>1. IsFiniteSet(D)
      OBVIOUS
    <2> HIDE DEF D
    <2>2. \E g : IsAfter(g, T, m, D)
      BY <2>1, Recursion
    <2> QED BY <2>2
  <1> HIDE DEF f
  <1>3. \A S \in SUBSET D : f[S] = AfterOne(f, T, m, S)
    BY <1>2 DEF IsAfter
  <1> QED BY <1>1, <1>3 DEF UpdatesBy

\* Later, and with more observations, all this is still so.
LEMMA SeenMore ==
  ASSUME NEW O, NEW P, O \subseteq P, NEW r, NEW p, NEW x, Between(x, SeenIn(O, r, p))
  PROVE  Between(x, SeenIn(P, r, p))
  BY DEF Between, SeenIn

LEMMA StatsMore ==
  ASSUME NEW O, NEW P, O \subseteq P, NEW t \in Nat, NEW u \in Nat, t <= u,
         NEW r, NEW p, NEW s, GoodStats(t, O, r, p, s)
  PROVE  GoodStats(u, P, r, p, s)
  BY SeenMore DEF GoodStats

LEMMA TableMore ==
  ASSUME NEW O, NEW P, O \subseteq P, NEW t \in Nat, NEW u \in Nat, t <= u,
         NEW T, GoodTable(t, O, T)
  PROVE  GoodTable(u, P, T)
  <1> SUFFICES ASSUME NEW p \in DOMAIN T, NEW b \in DOMAIN T[p]
               PROVE  GoodEntry(u, P, p, b, T[p][b])
    BY DEF GoodTable
  <1>1. GoodEntry(t, O, p, b, T[p][b])
    BY DEF GoodTable
  <1> QED BY <1>1, SeenMore DEF GoodEntry

LEMMA AggMore ==
  ASSUME NEW O, NEW P, O \subseteq P, NEW t \in Nat, NEW u \in Nat, t <= u,
         NEW a, NEW g, NEW last, GoodAgg(t, O, a, g, last)
  PROVE  GoodAgg(u, P, a, g, last)
  BY StatsMore DEF GoodAgg

LEMMA ReportMore ==
  ASSUME NEW O, NEW P, O \subseteq P, NEW t \in Nat, NEW u \in Nat, t <= u,
         NEW m, GoodReport(t, O, m), u <= m.sent + MaxDelay
  PROVE  GoodReport(u, P, m)
  <1>1. \A p \in DOMAIN m.subnets : GoodStats(u, P, AgentRegion[m.from], p, m.subnets[p])
    BY StatsMore DEF GoodReport
  <1> QED BY <1>1 DEF GoodReport

LEMMA QueueMore ==
  ASSUME NEW O, NEW P, O \subseteq P, NEW t, NEW a, NEW q, GoodQueue(t, O, a, q)
  PROVE  GoodQueue(t, P, a, q)
  BY DEF GoodQueue, SeenIn

LEMMA EmptyQueue == ASSUME NEW t, NEW O, NEW a PROVE GoodQueue(t, O, a, <<>>)
  BY DEF GoodQueue

LEMMA EmptyAgg == ASSUME NEW t, NEW O, NEW a, NEW last PROVE GoodAgg(t, O, a, Empty, last)
  BY EmptyDef, FS_EmptySet DEF GoodAgg

-----------------------------------------------------------------------------
(* The table *)

LEMMA WithoutTable ==
  ASSUME NEW t, NEW O, NEW T, GoodTable(t, O, T), NEW p
  PROVE  GoodTable(t, O, Without(T, p))
  BY WithoutDef DEF GoodTable

LEMMA PutTable ==
  ASSUME NEW t, NEW O, NEW T, GoodTable(t, O, T), NEW p, NEW b, NEW e,
         GoodEntry(t, O, p, b, e)
  PROVE  GoodTable(t, O, Put(T, p, Put(IF p \in DOMAIN T THEN T[p] ELSE Empty, b, e)))
  <1> DEFINE f == IF p \in DOMAIN T THEN T[p] ELSE Empty
  <1> DEFINE new == Put(f, b, e)
  <1>1. \A c \in DOMAIN f : GoodEntry(t, O, p, c, f[c])
    BY EmptyDef DEF GoodTable
  <1> HIDE DEF f
  <1>2. /\ DOMAIN new = DOMAIN f \cup {b} /\ new[b] = e
        /\ \A c \in DOMAIN f : c # b => new[c] = f[c]
    BY DEF Put
  <1> HIDE DEF new
  <1>3. \A c \in DOMAIN new : GoodEntry(t, O, p, c, new[c])
    BY <1>1, <1>2
  <1>4. /\ DOMAIN Put(T, p, new) = DOMAIN T \cup {p} /\ Put(T, p, new)[p] = new
        /\ \A q \in DOMAIN T : q # p => Put(T, p, new)[q] = T[q]
    BY DEF Put
  <1>5. GoodTable(t, O, Put(T, p, new))
    BY <1>3, <1>4 DEF GoodTable
  <1> QED BY <1>5 DEF new, f

LEMMA UpdateSubnetGood ==
  ASSUME now \in Nat, NEW T, GoodTable(now, observed, T), NEW m, GoodReport(now, observed, m),
         NEW p \in DOMAIN m.subnets, NEW V \in UpdateSubnet(T, p, m)
  PROVE  GoodTable(now, observed, V)
  <1> DEFINE key   == <<m.service, AgentRegion[m.from]>>
  <1> DEFINE entry == [ewma |-> m.subnets[p].ewma, samples |-> m.subnets[p].count,
                       at |-> now, source |-> m.from, seen |-> m.subnets[p].at]
  <1>1. GoodEntry(now, observed, p, key, entry)
    <2>1. /\ GoodStats(now, observed, AgentRegion[m.from], p, m.subnets[p])
          /\ m.sent <= m.subnets[p].at + SubnetTTL + PruneEvery
          /\ m.sent \in Nat /\ now <= m.sent + MaxDelay
      BY DEF GoodReport
    <2>2. now <= m.subnets[p].at + AgeLimit /\ m.subnets[p].at \in Nat
      BY <2>1, Constants DEF AgeLimit, GoodStats
    <2>3. Between(m.subnets[p].ewma, SeenIn(observed, AgentRegion[m.from], p))
      BY <2>1 DEF GoodStats
    <2>4. /\ key[2] = AgentRegion[m.from] /\ entry.at = now
          /\ entry.seen = m.subnets[p].at /\ entry.ewma = m.subnets[p].ewma
      OBVIOUS
    <2> HIDE DEF key, entry
    <2> QED BY <2>2, <2>3, <2>4 DEF GoodEntry
  <1>2. PICK U \in (IF p \in DOMAIN T THEN {T} ELSE MakeRoom(T)) :
           V = Put(U, p, Put(IF p \in DOMAIN U THEN U[p] ELSE Empty, key, entry))
    BY DEF UpdateSubnet
  <1> HIDE DEF key, entry
  <1>3. U = T \/ \E q : U = Without(T, q)
    BY DEF MakeRoom, EvictOldest
  <1>4. GoodTable(now, observed, U)
    BY <1>3, WithoutTable
  <1> QED BY <1>1, <1>2, <1>4, PutTable

\* Reports leave the table good, in whatever order their subnets are taken.
LEMMA UpdateGood ==
  ASSUME now \in Nat, NEW T, GoodTable(now, observed, T), NEW m, GoodReport(now, observed, m),
         NEW V \in Update(T, m)
  PROVE  GoodTable(now, observed, V)
  <1> DEFINE D == DOMAIN m.subnets
  <1>1. IsFiniteSet(D)
    BY DEF GoodReport
  <1>2. PICK f : UpdatesBy(f, T, m)
    BY <1>1, UpdateIsRecursive
  <1>3. Update(T, m) = f[D] /\ \A S \in SUBSET D : f[S] = AfterOne(f, T, m, S)
    BY <1>2 DEF UpdatesBy
  <1> HIDE DEF D
  <1> DEFINE Bad == {S \in SUBSET D : \E U \in f[S] : ~GoodTable(now, observed, U)}
  <1> DEFINE I == {Cardinality(S) : S \in Bad}
  <1>4. ASSUME NEW S \in SUBSET D PROVE IsFiniteSet(S) /\ Cardinality(S) \in Nat
    BY <1>1, FS_Subset, FS_CardinalityType
  <1>5. ASSUME Bad # {} PROVE FALSE
    <2>1. I \subseteq Nat /\ I # {}
      BY <1>4, <1>5
    <2>2. PICK x \in I : \A y \in I : x <= y
      <3> HIDE DEF I
      <3> QED BY <2>1, SmallestNat
    <2>3. PICK S \in Bad : x = Cardinality(S)
      OBVIOUS
    <2>4. PICK U \in f[S] : ~GoodTable(now, observed, U)
      OBVIOUS
    <2>5. S \in SUBSET D /\ IsFiniteSet(S) /\ U \in AfterOne(f, T, m, S)
      BY <1>3, <1>4
    <2>6. S # {}
      BY <2>4, <2>5 DEF AfterOne
    <2>7. PICK p \in S : \E W \in f[S \ {p}] : U \in UpdateSubnet(W, p, m)
      BY <2>5, <2>6 DEF AfterOne
    <2>8. PICK W \in f[S \ {p}] : U \in UpdateSubnet(W, p, m)
      BY <2>7
    <2>9. ~GoodTable(now, observed, W)
      BY <2>4, <2>5, <2>8, UpdateSubnetGood DEF D
    <2>10. S \ {p} \in Bad
      BY <2>5, <2>8, <2>9
    <2>11. Cardinality(S \ {p}) < Cardinality(S) /\ Cardinality(S \ {p}) \in Nat /\ x \in Nat
      BY <2>5, <2>3, Smaller
    <2>12. x <= Cardinality(S \ {p})
      BY <2>2, <2>10
    <2> QED BY <2>3, <2>11, <2>12
  <1>6. D \notin Bad
    BY <1>5
  <1> QED BY <1>3, <1>6

-----------------------------------------------------------------------------
(* Induction *)

LEMMA Initially == Init => IInv
  <1> SUFFICES ASSUME Init PROVE IInv
    OBVIOUS
  <1>1. Clocks
    BY Constants DEF Init, Clocks
  <1>2. ASSUME NEW a \in Agent
        PROVE  /\ GoodQueue(now, observed, a, queue[a])
               /\ GoodAgg(now, observed, a, agg[a], pruned[a]) /\ StoppedIsEmpty(a)
    <2>1. queue[a] = <<>> /\ agg[a] = Empty /\ running[a]
      BY DEF Init
    <2> QED BY <2>1, EmptyQueue, EmptyAgg DEF StoppedIsEmpty
  <1>3. GoodTable(now, observed, table)
    BY EmptyDef DEF Init, GoodTable
  <1>4. net = {}
    BY DEF Init
  <1> QED BY <1>1, <1>2, <1>3, <1>4 DEF IInv

LEMMA TickKeeps == ASSUME IInv, Tick PROVE IInv'
  <1>1. /\ now \in Nat /\ now' \in Nat /\ now' = now + 1 /\ now <= now' /\ observed' = observed
        /\ UNCHANGED <<running, queue, agg, pruned, net, table>>
    BY DEF IInv, Clocks, Tick, agentVars
  <1>2. Clocks'
    <2>1. \A a \in Agent : /\ pruned[a] <= now + 1
                           /\ running[a] => now + 1 <= pruned[a] + PruneEvery
      BY Constants DEF IInv, Clocks, Tick
    <2> QED BY <1>1, <2>1 DEF IInv, Clocks
  <1>3. ASSUME NEW a \in Agent
        PROVE  /\ GoodQueue(now', observed', a, queue'[a])
               /\ GoodAgg(now', observed', a, agg'[a], pruned'[a]) /\ StoppedIsEmpty(a)'
    <2>1. queue'[a] = <<>>
      BY <1>1 DEF Tick
    <2>2. GoodAgg(now', observed', a, agg'[a], pruned'[a])
      BY <1>1, AggMore DEF IInv
    <2> QED BY <1>1, <2>1, <2>2, EmptyQueue DEF IInv, StoppedIsEmpty
  <1>4. ASSUME NEW m \in net' PROVE GoodReport(now', observed', m)
    <2>1. m \in net /\ GoodReport(now, observed, m) /\ now - m.sent < MaxDelay
      BY <1>1 DEF IInv, Tick
    <2>2. now' <= m.sent + MaxDelay
      BY <1>1, <2>1, Constants DEF GoodReport
    <2> QED BY <1>1, <2>1, <2>2, ReportMore
  <1>5. GoodTable(now', observed', table')
    BY <1>1, TableMore DEF IInv
  <1> QED BY <1>2, <1>3, <1>4, <1>5 DEF IInv

LEMMA ObserveKeeps ==
  ASSUME IInv, NEW a \in Agent, NEW x \in Addr, NEW rtt \in RTT, Observe(a, x, rtt)
  PROVE  IInv'
  <1>1. /\ now \in Nat /\ UNCHANGED <<now, running, agg, pruned, net, table>>
        /\ observed' = observed \cup {<<AgentRegion[a], AgentPrefix[x], rtt>>}
        /\ observed \subseteq observed' /\ running[a] /\ now <= now /\ now' = now
    BY DEF IInv, Clocks, Observe
  <1> DEFINE o == [addr |-> x, rtt |-> rtt, at |-> now]
  <1>2. queue' = [queue EXCEPT ![a] = Append(@, o)] \/ queue' = queue
    BY DEF Observe
  <1>3. Clocks'
    BY <1>1, <1>2 DEF IInv, Clocks
  <1>4. ASSUME NEW c \in Agent
        PROVE  GoodQueue(now', observed', c, queue'[c])
    <2>1. GoodQueue(now, observed', c, queue[c])
      BY <1>1, QueueMore DEF IInv
    <2>2. CASE queue'[c] = queue[c]
      BY <1>1, <2>1, <2>2
    <2>3. CASE c = a /\ queue'[c] = Append(queue[c], o)
      <3> DEFINE Obs == [addr : Addr, rtt : RTT, at : {now}]
      <3>1. queue[c] \in Seq(Obs) /\ o \in Obs
        BY <2>1 DEF GoodQueue
      <3>2. rtt \in SeenIn(observed', AgentRegion[c], AgentPrefix[x])
        BY <1>1, <2>3 DEF SeenIn
      <3>3. o.rtt = rtt /\ o.addr = x
        OBVIOUS
      <3> DEFINE q == Append(queue[c], o)
      <3> HIDE DEF Obs, o
      <3>4. /\ q \in Seq(Obs) /\ Len(q) = Len(queue[c]) + 1 /\ Len(queue[c]) \in Nat
            /\ q[Len(queue[c]) + 1] = o
            /\ \A i \in 1 .. Len(queue[c]) : q[i] = queue[c][i]
        BY <3>1
      <3> HIDE DEF q
      <3>5. \A i \in 1 .. Len(q) : i = Len(queue[c]) + 1 \/ i \in 1 .. Len(queue[c])
        BY <3>4
      <3>6. \A i \in 1 .. Len(q) :
               q[i].rtt \in SeenIn(observed', AgentRegion[c], AgentPrefix[q[i].addr])
        BY <2>1, <3>2, <3>3, <3>4, <3>5 DEF GoodQueue
      <3>7. GoodQueue(now, observed', c, q)
        BY <3>4, <3>6 DEF GoodQueue, Obs
      <3> QED BY <1>1, <2>3, <3>7 DEF q
    <2> QED BY <1>2, <2>2, <2>3 DEF IInv, Clocks
  <1>5. ASSUME NEW c \in Agent
        PROVE  GoodAgg(now', observed', c, agg'[c], pruned'[c]) /\ StoppedIsEmpty(c)'
    <2>1. GoodAgg(now', observed', c, agg'[c], pruned'[c])
      BY <1>1, AggMore DEF IInv
    <2>2. queue'[c] = queue[c] \/ c = a
      BY <1>2 DEF IInv, Clocks
    <2> QED BY <1>1, <2>1, <2>2 DEF IInv, StoppedIsEmpty
  <1>6. ASSUME NEW m \in net' PROVE GoodReport(now', observed', m)
    <2>1. GoodReport(now, observed, m) /\ now' <= m.sent + MaxDelay
      BY <1>1 DEF IInv, GoodReport
    <2> QED BY <1>1, <2>1, ReportMore
  <1>7. GoodTable(now', observed', table')
    BY <1>1, TableMore DEF IInv
  <1> QED BY <1>3, <1>4, <1>5, <1>6, <1>7 DEF IInv

LEMMA StopKeeps == ASSUME IInv, NEW a \in Agent, Stop(a) PROVE IInv'
  <1>1. /\ UNCHANGED <<now, pruned, net, table, observed>>
        /\ running' = [running EXCEPT ![a] = FALSE]
        /\ queue' = [queue EXCEPT ![a] = <<>>] /\ agg' = [agg EXCEPT ![a] = Empty]
    BY DEF Stop
  <1>2. Clocks'
    BY <1>1 DEF IInv, Clocks
  <1>3. ASSUME NEW c \in Agent
        PROVE  /\ GoodQueue(now', observed', c, queue'[c])
               /\ GoodAgg(now', observed', c, agg'[c], pruned'[c]) /\ StoppedIsEmpty(c)'
    <2>1. CASE c = a
      <3>1. queue'[c] = <<>> /\ agg'[c] = Empty
        BY <1>1, <2>1 DEF IInv, Clocks
      <3> QED BY <1>1, <3>1, EmptyQueue, EmptyAgg, EmptyDef DEF StoppedIsEmpty
    <2>2. CASE c # a
      <3>1. queue'[c] = queue[c] /\ agg'[c] = agg[c] /\ running'[c] = running[c]
        BY <1>1, <2>2 DEF IInv, Clocks
      <3> QED BY <1>1, <3>1 DEF IInv, StoppedIsEmpty
    <2> QED BY <2>1, <2>2
  <1> QED BY <1>1, <1>2, <1>3 DEF IInv

\* The room that WithRoom makes only takes a subnet away.
LEMMA RoomGood ==
  ASSUME NEW t, NEW O, NEW a, NEW g, NEW last, GoodAgg(t, O, a, g, last), NEW p,
         NEW f \in WithRoom(g, p)
  PROVE  GoodAgg(t, O, a, f, last)
  <1>1. f = g \/ \E q : f = Without(g, q)
    BY DEF WithRoom, Evictions
  <1>2. ASSUME NEW q, f = Without(g, q) PROVE GoodAgg(t, O, a, f, last)
    <2>1. /\ DOMAIN f \in SUBSET DOMAIN g
          /\ \A x \in DOMAIN f : f[x] = g[x]
      BY <1>2, WithoutDef
    <2>2. IsFiniteSet(DOMAIN g)
      BY DEF GoodAgg
    <2>3. IsFiniteSet(DOMAIN f)
      BY <2>1, <2>2, FS_Subset
    <2> QED BY <2>1, <2>3 DEF GoodAgg
  <1> QED BY <1>1, <1>2

LEMMA RecordKeeps == ASSUME IInv, NEW a \in Agent, Record(a) PROVE IInv'
  <1> DEFINE q == queue[a]
  <1> DEFINE o == Head(q)
  <1> DEFINE p == AgentPrefix[o.addr]
  <1> DEFINE R == SeenIn(observed, AgentRegion[a], p)
  <1>1. GoodQueue(now, observed, a, q) /\ GoodAgg(now, observed, a, agg[a], pruned[a])
    BY DEF IInv
  <1>2. PICK f \in WithRoom(agg[a], p) :
           LET old == IF p \in DOMAIN f THEN f[p] ELSE [ewma |-> 0, count |-> 0, at |-> o.at]
           IN  agg' = [agg EXCEPT ![a] = Put(f, p,
                          [ewma |-> Smooth(old, o.rtt), count |-> old.count + 1, at |-> o.at])]
    BY DEF Record
  <1>3. /\ q # <<>> /\ queue' = [queue EXCEPT ![a] = Tail(@)]
        /\ UNCHANGED <<now, running, pruned, net, table, observed>>
    BY DEF Record
  <1> DEFINE Obs == [addr : Addr, rtt : RTT, at : {now}]
  <1>4. q \in Seq(Obs) /\ o = q[1] /\ 1 \in 1 .. Len(q) /\ o \in Obs
    <2>1. q \in Seq(Obs)
      BY <1>1 DEF GoodQueue
    <2>2. q # <<>>
      BY <1>3
    <2> HIDE DEF Obs, q
    <2>3. Len(q) \in Nat /\ Len(q) # 0 /\ o = q[1]
      BY <2>1, <2>2
    <2>4. 1 \in 1 .. Len(q)
      BY <2>3
    <2>5. q[1] \in Obs
      BY <2>1, <2>4
    <2> QED BY <2>1, <2>3, <2>4, <2>5
  <1>5. o.at = now /\ o.rtt \in R /\ now \in Nat
    BY <1>1, <1>4 DEF GoodQueue, IInv, Clocks
  <1>6. GoodAgg(now, observed, a, f, pruned[a])
    BY <1>1, RoomGood
  <1> DEFINE old == IF p \in DOMAIN f THEN f[p] ELSE [ewma |-> 0, count |-> 0, at |-> o.at]
  <1> DEFINE new == [ewma |-> Smooth(old, o.rtt), count |-> old.count + 1, at |-> o.at]
  <1>7. R \subseteq Nat
    BY Constants DEF SeenIn
  <1>8. p \in DOMAIN f => old.ewma \in Nat /\ Between(old.ewma, R)
    BY <1>6 DEF GoodAgg, GoodStats
  <1>9. p \notin DOMAIN f => old.count = 0
    OBVIOUS
  <1>10. agg' = [agg EXCEPT ![a] = Put(f, p, new)]
    BY <1>2
  <1>11. new.ewma = Smooth(old, o.rtt) /\ new.at = now
    BY <1>5
  <1> HIDE DEF old, new, R, o, p, q, Obs
  <1>12. Smooth(old, o.rtt) \in Nat /\ Between(Smooth(old, o.rtt), R)
    <2>1. CASE old.count = 0
      <3>1. Smooth(old, o.rtt) = o.rtt
        BY <2>1 DEF Smooth
      <3>2. o.rtt \in Nat /\ o.rtt \in R
        BY <1>5, <1>7
      <3>3. o.rtt <= o.rtt
        BY <3>2
      <3>4. Between(o.rtt, R)
        BY <3>2, <3>3 DEF Between
      <3> QED BY <3>1, <3>2, <3>4
    <2>2. CASE old.count # 0
      <3>1. Smooth(old, o.rtt)
              = (AlphaNum * o.rtt + (AlphaDen - AlphaNum) * old.ewma) \div AlphaDen
        BY <2>2 DEF Smooth
      <3>2. old.ewma \in Nat /\ Between(old.ewma, R)
        BY <2>2, <1>8, <1>9
      <3> QED BY <3>1, <3>2, <1>5, <1>7, BetweenAverage
    <2> QED BY <2>1, <2>2
  <1>13. GoodAgg(now, observed, a, Put(f, p, new), pruned[a])
    <2> DEFINE g == Put(f, p, new)
    <2>1. /\ DOMAIN g = DOMAIN f \cup {p} /\ g[p] = new
          /\ \A x \in DOMAIN f : x # p => g[x] = f[x]
      BY DEF Put
    <2> HIDE DEF g
    <2>2. IsFiniteSet(DOMAIN g)
      BY <1>6, <2>1, FS_AddElement DEF GoodAgg
    <2>3. GoodStats(now, observed, AgentRegion[a], p, new)
      BY <1>5, <1>11, <1>12 DEF GoodStats, R
    <2>4. pruned[a] <= new.at + SubnetTTL
      BY <1>5, <1>11, Constants DEF IInv, Clocks
    <2>5. GoodAgg(now, observed, a, g, pruned[a])
      BY <1>6, <2>1, <2>2, <2>3, <2>4 DEF GoodAgg
    <2> QED BY <2>5 DEF g
  <1>14. GoodQueue(now, observed, a, Tail(q))
    <2>1. /\ Tail(q) \in Seq(Obs) /\ Len(Tail(q)) = Len(q) - 1
          /\ \A i \in 1 .. Len(Tail(q)) : i + 1 \in 1 .. Len(q) /\ Tail(q)[i] = q[i + 1]
      BY <1>3, <1>4
    <2> QED BY <1>1, <2>1 DEF GoodQueue, Obs
  <1>15. Clocks'
    BY <1>3, <1>10 DEF IInv, Clocks
  <1>16. ASSUME NEW c \in Agent
         PROVE  /\ GoodQueue(now', observed', c, queue'[c])
                /\ GoodAgg(now', observed', c, agg'[c], pruned'[c]) /\ StoppedIsEmpty(c)'
    <2>1. CASE c = a
      <3>1. queue'[c] = Tail(q) /\ agg'[c] = Put(f, p, new)
        BY <1>3, <1>10, <2>1 DEF IInv, Clocks, q
      <3>2. running[a]
        BY <1>3 DEF IInv, StoppedIsEmpty, q
      <3> QED BY <1>3, <1>13, <1>14, <2>1, <3>1, <3>2 DEF StoppedIsEmpty
    <2>2. CASE c # a
      <3>1. queue'[c] = queue[c] /\ agg'[c] = agg[c]
        BY <1>3, <1>10, <2>2 DEF IInv, Clocks
      <3> QED BY <1>3, <3>1 DEF IInv, StoppedIsEmpty
    <2> QED BY <2>1, <2>2
  <1> QED BY <1>3, <1>15, <1>16 DEF IInv

LEMMA PruneKeeps == ASSUME IInv, NEW a \in Agent, Prune(a) PROVE IInv'
  <1> DEFINE g == agg[a]
  <1> DEFINE f == [p \in {p \in DOMAIN g : now - g[p].at <= SubnetTTL} |-> g[p]]
  <1>1. /\ agg' = [agg EXCEPT ![a] = f] /\ pruned' = [pruned EXCEPT ![a] = now]
        /\ UNCHANGED <<now, running, queue, net, table, observed>> /\ running[a]
    BY DEF Prune
  <1>2. GoodAgg(now, observed, a, g, pruned[a]) /\ now \in Nat
    BY DEF IInv, Clocks
  <1>3. /\ DOMAIN f \in SUBSET DOMAIN g
        /\ \A p \in DOMAIN f : f[p] = g[p] /\ now - g[p].at <= SubnetTTL
    OBVIOUS
  <1> HIDE DEF f, g
  <1>4. GoodAgg(now, observed, a, f, now)
    <2>1. IsFiniteSet(DOMAIN f)
      BY <1>2, <1>3, FS_Subset DEF GoodAgg
    <2>2. ASSUME NEW p \in DOMAIN f
          PROVE  /\ GoodStats(now, observed, AgentRegion[a], p, f[p])
                 /\ now <= f[p].at + SubnetTTL
      <3>1. GoodStats(now, observed, AgentRegion[a], p, f[p]) /\ now - f[p].at <= SubnetTTL
        BY <1>2, <1>3 DEF GoodAgg
      <3> QED BY <1>2, <3>1, Constants DEF GoodStats
    <2> QED BY <2>1, <2>2 DEF GoodAgg
  <1>5. Clocks'
    <2>1. pruned' \in [Agent -> Nat] /\ DOMAIN agg' = Agent
      BY <1>1, <1>2 DEF IInv, Clocks
    <2>2. ASSUME NEW c \in Agent
          PROVE  pruned'[c] <= now /\ (running[c] => now <= pruned'[c] + PruneEvery)
      <3>1. pruned'[c] = now \/ pruned'[c] = pruned[c]
        BY <1>1 DEF IInv, Clocks
      <3> QED BY <1>2, <3>1, Constants DEF IInv, Clocks
    <2> QED BY <1>1, <2>1, <2>2 DEF IInv, Clocks
  <1>6. ASSUME NEW c \in Agent
        PROVE  /\ GoodQueue(now', observed', c, queue'[c])
               /\ GoodAgg(now', observed', c, agg'[c], pruned'[c]) /\ StoppedIsEmpty(c)'
    <2>1. CASE c = a
      <3>1. agg'[c] = f /\ pruned'[c] = now
        BY <1>1, <2>1 DEF IInv, Clocks
      <3> QED BY <1>1, <1>4, <2>1, <3>1 DEF IInv, StoppedIsEmpty
    <2>2. CASE c # a
      <3>1. agg'[c] = agg[c] /\ pruned'[c] = pruned[c]
        BY <1>1, <2>2 DEF IInv, Clocks
      <3> QED BY <1>1, <3>1 DEF IInv, StoppedIsEmpty
    <2> QED BY <2>1, <2>2
  <1> QED BY <1>1, <1>5, <1>6 DEF IInv

LEMMA SendKeeps == ASSUME IInv, NEW a \in Agent, SendLatencyReports(a) PROVE IInv'
  <1> DEFINE f == [p \in GetReportable(a) |-> agg[a][p]]
  <1>1. /\ net' = net \cup {[from |-> a, service |-> s, sent |-> now, subnets |-> f] : s \in Service}
        /\ UNCHANGED <<now, running, queue, agg, pruned, table, observed>> /\ running[a]
    BY DEF SendLatencyReports, agentVars
  <1>2. /\ DOMAIN f \in SUBSET DOMAIN agg[a] /\ \A p \in DOMAIN f : f[p] = agg[a][p]
    BY DEF GetReportable
  <1> HIDE DEF f
  <1>3. GoodAgg(now, observed, a, agg[a], pruned[a]) /\ now \in Nat
    BY DEF IInv, Clocks
  <1>4. IsFiniteSet(DOMAIN f)
    BY <1>2, <1>3, FS_Subset DEF GoodAgg
  <1>5. ASSUME NEW p \in DOMAIN f
        PROVE  /\ GoodStats(now, observed, AgentRegion[a], p, f[p])
               /\ now <= f[p].at + SubnetTTL + PruneEvery
    <2>1. /\ GoodStats(now, observed, AgentRegion[a], p, f[p])
          /\ pruned[a] <= f[p].at + SubnetTTL
      BY <1>2, <1>3 DEF GoodAgg
    <2>2. pruned[a] \in Nat /\ now <= pruned[a] + PruneEvery
      BY <1>1 DEF IInv, Clocks
    <2> QED BY <1>3, <2>1, <2>2, Constants DEF GoodStats
  <1>6. ASSUME NEW s PROVE GoodReport(now, observed, [from |-> a, service |-> s, sent |-> now, subnets |-> f])
    <2> DEFINE m == [from |-> a, service |-> s, sent |-> now, subnets |-> f]
    <2>1. m.from = a /\ m.sent = now /\ m.subnets = f
      OBVIOUS
    <2> HIDE DEF m
    <2>2. GoodReport(now, observed, m)
      BY <1>3, <1>4, <1>5, <2>1, Constants DEF GoodReport
    <2> QED BY <2>2 DEF m
  <1>7. \A m \in net' : GoodReport(now, observed, m)
    BY <1>1, <1>6 DEF IInv
  <1>8. Clocks'
    BY <1>1 DEF IInv, Clocks
  <1> QED BY <1>1, <1>7, <1>8 DEF IInv, StoppedIsEmpty

LEMMA TableKeeps ==
  ASSUME IInv, UNCHANGED <<now, running, queue, agg, pruned, observed>>, net' \subseteq net,
         GoodTable(now, observed, table')
  PROVE  IInv'
  <1>1. Clocks'
    BY DEF IInv, Clocks
  <1> QED BY <1>1 DEF IInv, StoppedIsEmpty

LEMMA InjectGood ==
  ASSUME IInv, NEW p, NEW s, NEW r
  PROVE  GoodTable(now, observed, InjectTestData(p, s, r))
  <1> DEFINE e == [ewma |-> Min(RTT), samples |-> MinSamples, at |-> now, source |-> "test", seen |-> now]
  <1>1. e.at = now /\ e.seen = now /\ e.source = "test" /\ now \in Nat
    BY DEF IInv, Clocks
  <1>2. InjectTestData(p, s, r)
          = Put(table, p, Put(IF p \in DOMAIN table THEN table[p] ELSE Empty, <<s, r>>, e))
    BY DEF InjectTestData
  <1> HIDE DEF e
  <1>3. GoodEntry(now, observed, p, <<s, r>>, e)
    BY <1>1, Constants DEF GoodEntry
  <1>4. GoodTable(now, observed, table)
    BY DEF IInv
  <1> QED BY <1>2, <1>3, <1>4, PutTable

LEMMA Inductive == IInv /\ [Next]_vars => IInv'
  <1> SUFFICES ASSUME IInv, [Next]_vars PROVE IInv'
    OBVIOUS
  <1>1. CASE Tick
    BY <1>1, TickKeeps
  <1>2. ASSUME NEW a \in Agent, AgentStep(a) PROVE IInv'
    BY <1>2, StopKeeps, ObserveKeeps, RecordKeeps, PruneKeeps, SendKeeps DEF AgentStep
  <1>3. ASSUME NEW m \in net, Deliver(m) PROVE IInv'
    <2>1. /\ table' \in Update(table, m) /\ net' \subseteq net
          /\ UNCHANGED <<now, running, queue, agg, pruned, observed>>
      BY <1>3 DEF Deliver, agentVars
    <2>2. GoodTable(now, observed, table')
      BY <2>1, UpdateGood DEF IInv, Clocks
    <2> QED BY <2>1, <2>2, TableKeeps
  <1>4. ASSUME NEW m \in net, Lose(m) PROVE IInv'
    <2>1. /\ table' = table /\ net' \subseteq net
          /\ UNCHANGED <<now, running, queue, agg, pruned, observed>>
      BY <1>4 DEF Lose, agentVars
    <2> QED BY <2>1, TableKeeps DEF IInv
  <1>5. ASSUME NEW p, NEW s, NEW r, handleLatencyTablePost(p, s, r) PROVE IInv'
    <2>1. /\ table' = InjectTestData(p, s, r) /\ net' \subseteq net
          /\ UNCHANGED <<now, running, queue, agg, pruned, observed>>
      BY <1>5 DEF handleLatencyTablePost, agentVars
    <2>2. GoodTable(now, observed, table')
      BY <2>1, InjectGood
    <2> QED BY <2>1, <2>2, TableKeeps
  <1>6. CASE UNCHANGED vars
    <2>1. /\ table' = table /\ net' \subseteq net
          /\ UNCHANGED <<now, running, queue, agg, pruned, observed>>
      BY <1>6 DEF vars, agentVars
    <2> QED BY <2>1, TableKeeps DEF IInv
  <1> QED BY <1>1, <1>2, <1>3, <1>4, <1>5, <1>6 DEF Next

-----------------------------------------------------------------------------
(* Theorems *)

\* How the stages of passive learning hand on what they know: the channel of the
\* collector, the aggregator with its eviction and pruning, the reports on their way
\* and the Overwatch's table (aggregator.go, latency_table.go).
THEOREM StagesAgree == Spec => []IInv
  BY Initially, Inductive, PTL DEF Spec

\* GetLatencyForBackendInRegion never returns a latency that rests on an observation
\* older than the ages that pruning, datagrams and the table allow one after the other.
THEOREM UsedIsFresh == Spec => []LatencyFresh
  <1>1. IInv => LatencyFresh
    <2> SUFFICES ASSUME IInv, NEW x \in Addr, NEW s \in Service, NEW r \in Region,
                        NEW e \in Lookup(x, s, r)
                 PROVE  now - e.seen <= SubnetTTL + PruneEvery + MaxDelay + EntryTTL
      BY DEF LatencyFresh
    <2> DEFINE p == TablePrefix[x]
    <2>1. /\ p \in DOMAIN table /\ <<s, r>> \in DOMAIN table[p]
          /\ e = table[p][<<s, r>>] /\ now - e.at <= EntryTTL
      BY DEF Lookup
    <2>2. GoodEntry(now, observed, p, <<s, r>>, e) /\ now \in Nat
      BY <2>1 DEF IInv, GoodTable, Clocks
    <2> QED BY <2>1, <2>2, Constants DEF GoodEntry, AgeLimit
  <1> QED BY <1>1, StagesAgree, PTL

\* Smoothing in integers, eviction, relearning and overtaking reports never lead to a
\* latency outside of what agents of the region saw of clients in the subnet.
THEOREM TableIsObserved == Spec => []LatencyObserved
  <1>1. IInv => LatencyObserved
    BY DEF IInv, GoodTable, GoodEntry, Between, SeenIn, LatencyObserved
  <1> QED BY <1>1, StagesAgree, PTL

=============================================================================
