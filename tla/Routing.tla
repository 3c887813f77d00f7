------------------------------- MODULE Routing -------------------------------
(***************************************************************************)
(* The router of one domain (pkg/routing): round robin, weighted,          *)
(* failover, geolocation, latency and learned latency.                     *)
(*                                                                         *)
(* A router is called with a pool, the sequence of the servers that passed *)
(* the health check, by any number of queries at once.  Its only state is  *)
(* the round-robin counter, which it increments atomically, so that a call *)
(* is one step.  The last three algorithms own a round robin they fall     *)
(* back on; it has a counter of its own, which is theirs alone because a   *)
(* domain has one router.                                                  *)
(***************************************************************************)
EXTENDS ServerPool

CONSTANTS
    Region,         \* the names of the regions
    NoRegion,       \* the empty region name
    RegionOf,       \* Server.Region
    WeightOf,       \* Server.Weight, not necessarily positive
    DefaultRegion,  \* the geo resolver's default region
    MinSamples,     \* LatencyRouterConfig.MinSamples
    MaxLatency,     \* LatencyRouterConfig.MaxLatencyMs, 0 for none
    Datum,          \* what a latency table may say of a server or a region
    Pools,          \* the pools that queries bring
    MaxTurns        \* bound on the round-robin turns that are remembered

NoPool == <<>>

ASSUME RoutingAssumption ==
    /\ NoRegion \notin Region
    /\ RegionOf \in [Server -> Region \cup {NoRegion}]
    /\ WeightOf \in [Server -> Int]
    /\ DefaultRegion \in Region \cup {NoRegion}
    /\ MinSamples \in Nat \ {0}
    /\ MaxLatency \in Nat
    /\ Datum \subseteq [samples : Nat, latency : Nat, stale : BOOLEAN]
    /\ Pools \subseteq Seq(Server) \ {NoPool}
    /\ MaxTurns \in Nat \ {0}

Algorithm == {"round_robin", "weighted", "failover", "geolocation",
              "latency", "learned_latency"}

VARIABLES
    router,     \* the router: its algorithm, its counter, and whether it has
                \*   a geo resolver and a learned-latency table
    decision,   \* the call that is about to return: its inputs and its server
    turns       \* history: the round-robin turns over one and the same pool
                \*   since another pool came, and how often the counter wrapped

routingVars == <<router, decision, turns>>

NoDecision == [pool |-> NoPool]

-----------------------------------------------------------------------------
(***************************************************************************)
(* The algorithms.                                                         *)
(***************************************************************************)

\* Weights that are not positive count as 1.
EffectiveWeight(s) == IF WeightOf[s] <= 0 THEN 1 ELSE WeightOf[s]

\* Of each place of the pool, the weight of the servers up to there.
Cumulative(pool) ==
    LET sum[i \in 0 .. Len(pool)] ==
            IF i = 0 THEN 0 ELSE sum[i - 1] + EffectiveWeight(pool[i])
    IN  sum

TotalWeight(pool) == Cumulative(pool)[Len(pool)]

\* Faulty: point <= cumulative instead of point < cumulative.
WeightedAtLate(pool, point) ==
    pool[CHOOSE i \in DOMAIN pool :
            /\ point <= Cumulative(pool)[i]
            /\ i > 1 => Cumulative(pool)[i - 1] < point]

\* The server at a point of the weight space: the first one at which the sum of
\* the weights so far exceeds it.
WeightedAt(pool, point) ==
    pool[CHOOSE i \in DOMAIN pool :
            /\ point < Cumulative(pool)[i]
            /\ Cumulative(pool)[i - 1] <= point]

Failover(pool) == Head(pool)

\* Faulty: the database is asked before the operator's mappings.
ResolveCountryFirst(client) ==
    IF client.country # NoRegion THEN client.country
    ELSE IF client.continent # NoRegion THEN client.continent
    ELSE IF client.custom # NoRegion THEN client.custom ELSE DefaultRegion

\* Resolver.Resolve: an operator's CIDR mapping, then the country's region, then
\* the continent's, then the default.  NoRegion says that a step finds nothing.
Resolve(client) ==
    CASE client.custom # NoRegion    -> client.custom
      [] /\ client.custom = NoRegion
         /\ client.country # NoRegion -> client.country
      [] /\ client.custom = NoRegion
         /\ client.country = NoRegion
         /\ client.continent # NoRegion -> client.continent
      [] OTHER -> DefaultRegion

\* The servers of a pool that are in S, in their order.
Keep(pool, S) ==
    LET kept[i \in 0 .. Len(pool)] ==
            IF i = 0 THEN NoPool
            ELSE IF pool[i] \in S THEN Append(kept[i - 1], pool[i]) ELSE kept[i - 1]
    IN  kept[Len(pool)]

FilterByRegion(pool, r) == Keep(pool, {s \in Server : RegionOf[s] = r})

\* No caller of NewFactory gives it a DefaultRegion.
RouterDefaultRegion == NoRegion

\* The servers among which GeoRouter takes turns.
GeoPool(pool, client) ==
    LET region  == Resolve(client)
        near    == FilterByRegion(pool, region)
        default == FilterByRegion(pool, RouterDefaultRegion)
    IN  IF near # NoPool THEN near
        ELSE IF region # RouterDefaultRegion /\ default # NoPool THEN default
        ELSE pool

\* The servers with enough data: data[s] is what GetLatency says of a server.
WithLatency(pool, data) ==
    Keep(pool, {s \in ToSet(pool) : data[s].samples >= MinSamples})

\* Learned data belong to a region, age, and do not exist for the empty region.
WithLearnedLatency(pool, data) ==
    Keep(pool, {s \in ToSet(pool) : /\ RegionOf[s] # NoRegion
                                    /\ data[s].samples >= MinSamples
                                    /\ ~data[s].stale})

WithinThreshold(servers, data) ==
    LET within == Keep(servers, {s \in ToSet(servers) : data[s].latency <= MaxLatency})
    IN  IF MaxLatency > 0 /\ within # NoPool THEN within ELSE servers

\* Faulty: the comparison is with the first server instead of the lowest so far.
SelectLowerThanFirst(servers, data) ==
    LET lowest[i \in 1 .. Len(servers)] ==
            IF i = 1 THEN servers[1]
            ELSE IF data[servers[i]].latency < data[servers[1]].latency THEN servers[i]
            ELSE lowest[i - 1]
    IN  lowest[Len(servers)]

SelectLowestLatency(servers, data) ==
    LET lowest[i \in 1 .. Len(servers)] ==
            IF i = 1 THEN servers[1]
            ELSE LET low == lowest[i - 1]
                 IN  IF data[servers[i]].latency < data[low].latency THEN servers[i] ELSE low
    IN  lowest[Len(servers)]

-----------------------------------------------------------------------------
(***************************************************************************)
(* A call of Route.                                                        *)
(***************************************************************************)

\* Where a client is: what each source of the resolver says of its address.
\* known is FALSE when the query has no usable address.
Client == [known : BOOLEAN, custom : Region \cup {NoRegion},
           country : Region \cup {NoRegion}, continent : Region \cup {NoRegion}]

NoClient == [known |-> FALSE, custom |-> NoRegion,
             country |-> NoRegion, continent |-> NoRegion]

NoDatum == [samples |-> 0, latency |-> 0, stale |-> FALSE]

NoData(pool) == [s \in ToSet(pool) |-> NoDatum]

\* The router has algorithm a, and its call begins.
Called(a) == decision = NoDecision /\ router.algorithm = a

Decide(pool, client, data, s) ==
    decision' = [pool |-> pool, client |-> client, data |-> data, server |-> s]

\* RoundRobinRouter.Route over candidates, which are the pool or a part of it.
TakeTurn(pool, candidates, client, data) ==
    LET s     == RoundRobin(router.counter, candidates)
        wraps == IF router.counter + 1 = CounterLimit THEN 1 ELSE 0
    IN  /\ router' = [router EXCEPT !.counter = NextTurn(@)]
        /\ turns' = IF turns.pool = candidates /\ Len(turns.chosen) < MaxTurns
                    THEN [turns EXCEPT !.chosen = Append(@, s), !.wraps = @ + wraps]
                    ELSE [pool |-> candidates, chosen |-> <<s>>, wraps |-> wraps]
        /\ Decide(pool, client, data, s)

RouteRoundRobin(pool) ==
    /\ Called("round_robin")
    /\ TakeTurn(pool, pool, NoClient, NoData(pool))

RouteWeighted(pool) ==
    /\ Called("weighted")
    /\ \E point \in 0 .. TotalWeight(pool) - 1 :
          Decide(pool, NoClient, NoData(pool), WeightedAt(pool, point))
    /\ UNCHANGED <<router, turns>>

RouteFailover(pool) ==
    /\ Called("failover")
    /\ Decide(pool, NoClient, NoData(pool), Failover(pool))
    /\ UNCHANGED <<router, turns>>

RouteGeo(pool) ==
    /\ Called("geolocation")
    /\ \E client \in {c \in Client : c.known} \cup {NoClient} :
          TakeTurn(pool,
                   IF client.known /\ router.resolver THEN GeoPool(pool, client) ELSE pool,
                   client, NoData(pool))

\* The lowest latency among the usable servers, or a turn when there is none.
RouteLowest(pool, usable, client, data) ==
    \/ /\ usable = NoPool
       /\ TakeTurn(pool, pool, client, data)
    \/ /\ usable # NoPool
       /\ Decide(pool, client, data,
                 SelectLowestLatency(WithinThreshold(usable, data), data))
       /\ UNCHANGED <<router, turns>>

RouteLatency(pool) ==
    /\ Called("latency")
    /\ \E data \in [ToSet(pool) -> Datum] :
          RouteLowest(pool, WithLatency(pool, data), NoClient, data)

\* What the table says of the servers, learned[r] being its entry for the client's
\* subnet, the domain and r.
LearnedData(pool, learned) ==
    [s \in ToSet(pool) |-> IF RegionOf[s] = NoRegion THEN NoDatum ELSE learned[RegionOf[s]]]

RouteLearnedLatency(pool) ==
    /\ Called("learned_latency")
    /\ \E client \in {NoClient, [NoClient EXCEPT !.known = TRUE]}, learned \in [Region -> Datum] :
          LET data == LearnedData(pool, learned)
          IN  RouteLowest(pool,
                          IF client.known /\ router.learned
                          THEN WithLearnedLatency(pool, data) ELSE NoPool,
                          client, data)

\* The call returns.
Return ==
    /\ decision # NoDecision
    /\ decision' = NoDecision
    /\ UNCHANGED <<router, turns>>

-----------------------------------------------------------------------------
(***************************************************************************)
(* The life of the router: made at boot, and again by a reload or by an    *)
(* update of the domain.  The factories of the latter two are given no     *)
(* learned-latency table.                                                  *)
(***************************************************************************)

NewRouter(a, resolver, learned) ==
    [algorithm |-> a, counter |-> 0, resolver |-> resolver, learned |-> learned]

NoTurns == [pool |-> NoPool, chosen |-> <<>>, wraps |-> 0]

RoutingInit ==
    /\ \E a \in Algorithm, resolver, learned \in BOOLEAN :
          router = NewRouter(a, resolver, learned)
    /\ decision = NoDecision
    /\ turns = NoTurns

ReplaceRouter(a) ==
    /\ decision = NoDecision
    /\ router' = NewRouter(a, router.resolver, FALSE)
    /\ UNCHANGED decision
    /\ turns' = NoTurns

RoutingNext ==
    \/ \E pool \in Pools : RouteRoundRobin(pool)
    \/ \E pool \in Pools : RouteWeighted(pool)
    \/ \E pool \in Pools : RouteFailover(pool)
    \/ \E pool \in Pools : RouteGeo(pool)
    \/ \E pool \in Pools : RouteLatency(pool)
    \/ \E pool \in Pools : RouteLearnedLatency(pool)
    \/ Return
    \/ \E a \in Algorithm : ReplaceRouter(a)

RoutingSpec == RoutingInit /\ [][RoutingNext]_routingVars

-----------------------------------------------------------------------------
(***************************************************************************)
(* Properties.                                                             *)
(***************************************************************************)

\* Type correctness of the router, the last decision and the remembered turns.
RoutingTypeOK ==
    /\ router \in [algorithm : Algorithm, counter : 0 .. CounterLimit - 1,
                   resolver : BOOLEAN, learned : BOOLEAN]
    /\ decision # NoDecision =>
          /\ decision.pool \in Pools
          /\ decision.client \in Client
          /\ decision.data \in [ToSet(decision.pool) ->
                                   [samples : Nat, latency : Nat, stale : BOOLEAN]]
          /\ decision.server \in ToSet(decision.pool)
    /\ turns.pool \in Seq(Server)
    /\ turns.chosen \in Seq(Server)
    /\ turns.wraps \in Nat

Chosen(s) == Cardinality({i \in DOMAIN turns.chosen : turns.chosen[i] = s})

\* Round robin (roundrobin.go, and the fallback of the other routers): as long as
\* the pool stays the same, no server of it is ahead of another by more than one
\* turn, and by one more for every time the counter overflowed meanwhile, when its
\* range is no multiple of the number of servers.
EvenTurns ==
    \A s, t \in ToSet(turns.pool) : Chosen(s) <= Chosen(t) + 1 + turns.wraps

\* Geolocation (geo.go): the server is in the region of the most specific source that
\* knows the client, if the pool has one there; if not, it is one without a region,
\* if there is one.
NearestRegion ==
    (/\ decision # NoDecision
     /\ router.algorithm = "geolocation" /\ router.resolver /\ decision.client.known) =>
    LET c == decision.client
        sources == <<c.custom, c.country, c.continent, DefaultRegion>>
        known == {i \in 1 .. 4 : sources[i] # NoRegion}
        home == IF known = {} THEN NoRegion ELSE sources[Min(known)]
        Distance(s) == CASE RegionOf[s] = home -> 0
                         [] RegionOf[s] # home /\ RegionOf[s] = NoRegion -> 1
                         [] OTHER -> 2
    IN  \A s \in ToSet(decision.pool) : Distance(decision.server) <= Distance(s)

\* Latency and learned latency: the data of s are enough and not out of date.
Usable(s) ==
    /\ decision.data[s].samples >= MinSamples
    /\ router.algorithm = "learned_latency" =>
          /\ router.learned /\ decision.client.known
          /\ RegionOf[s] # NoRegion /\ ~decision.data[s].stale

\* A usable server that is within the threshold, if there is one (0 is none).
Eligible(s) == Usable(s) /\ (MaxLatency > 0 => decision.data[s].latency <= MaxLatency)

\* Latency and learned latency (latency.go, learned_latency.go): if any server of the
\* pool has enough data that are not out of date and is within the threshold, the
\* answer is one of these and none of them is faster, in whatever order they come and
\* whatever else the pool holds.
LowestLatency ==
    (/\ decision # NoDecision
     /\ router.algorithm \in {"latency", "learned_latency"}
     /\ \E s \in ToSet(decision.pool) : Eligible(s)) =>
    /\ Eligible(decision.server)
    /\ \A s \in ToSet(decision.pool) : Eligible(s) =>
          decision.data[decision.server].latency <= decision.data[s].latency

\* Weighted (weighted.go): of the points that rand.Intn can return, as many lead to a
\* server as its weight says, and none is left over, in a pool of positive weights.
WeightedShare ==
    (/\ decision # NoDecision /\ router.algorithm = "weighted"
     /\ \A s \in ToSet(decision.pool) : WeightOf[s] > 0) =>
    \A s \in ToSet(decision.pool) :
        Cardinality({point \in 0 .. TotalWeight(decision.pool) - 1 :
                        WeightedAt(decision.pool, point) = s}) = WeightOf[s]

=============================================================================
