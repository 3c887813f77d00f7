-------------------------- MODULE LatencyLearning ---------------------------
(***************************************************************************)
(* Passive latency learning (ADR-017): each agent polls the kernel for the *)
(* round-trip times of its connections, smooths them per client subnet     *)
(* (pkg/agent/latency), and reports the subnets to the Overwatch over UDP; *)
(* the Overwatch keeps them in its latency table, which routing reads.     *)
(*                                                                         *)
(* An agent forgets a subnet SubnetTTL after its last observation, when    *)
(* the hourly pruning comes round; until then it goes on reporting it, and *)
(* the Overwatch counts EntryTTL from the report.  Time is a small number. *)
(***************************************************************************)
EXTENDS Naturals, Sequences, FiniteSets, FiniteSetsExt

CONSTANTS
    Agent, Region, AgentRegion, \* AgentRegion[a] is the region of agent a
    Service,                    \* the services whose ports an agent watches
    Addr,                       \* client addresses
    AgentPrefix,                \* Aggregator.toSubnet, from the agent's ipv4_prefix
    TablePrefix,                \* the /24 or /48 that a lookup takes of an address
    RTT,                        \* round-trip times
    AlphaNum, AlphaDen,         \* ewma_alpha
    QueueCap,                   \* room in the collector's channel
    MaxSubnets, SubnetTTL, MinSamples, PruneEvery, \* the agent's settings
    MaxEntries, EntryTTL,       \* the table's
    MaxDelay,                   \* the longest a datagram is on its way
    MaxNow, MaxObs, MaxReports, MaxInjected \* bounds: clock, observations, reports
                                \* on their way, injections

Prefix == {AgentPrefix[x] : x \in Addr} \cup {TablePrefix[x] : x \in Addr}

ASSUME LatencyAssumption ==
    /\ AgentRegion \in [Agent -> Region]
    /\ RTT \subseteq Nat
    /\ {AlphaNum, AlphaDen, QueueCap, SubnetTTL, MinSamples, PruneEvery, EntryTTL,
        MaxDelay, MaxNow, MaxObs, MaxReports, MaxInjected} \subseteq Nat
    /\ {MaxSubnets, MaxEntries} \subseteq Nat \ {0}
    /\ 0 < AlphaNum /\ AlphaNum <= AlphaDen

VARIABLES
    now,
    running,  \* Agent.running
    queue,    \* the channel of observations
    agg,      \* Aggregator.subnets: prefix -> statistics
    pruned,   \* when the agent last pruned
    net,      \* reports on their way
    table,    \* LearnedLatencyTable.data: prefix -> <<service, region>> -> entry
    observed, \* the observations made so far: <<region, prefix, rtt>>
    obs, injected

agentVars == <<running, queue, agg, pruned>>
vars == <<now, agentVars, net, table, observed, obs, injected>>

Empty == [p \in {} |-> {}]
Without(f, p) == [q \in DOMAIN f \ {p} |-> f[q]]
Put(f, p, v) == [q \in DOMAIN f \cup {p} |-> IF q = p THEN v ELSE f[q]]

Init ==
    /\ now = 0
    /\ running = [a \in Agent |-> TRUE]
    /\ queue = [a \in Agent |-> <<>>]
    /\ agg = [a \in Agent |-> Empty]
    /\ pruned = [a \in Agent |-> 0]
    /\ net = {}
    /\ table = Empty
    /\ observed = {}
    /\ obs = 0 /\ injected = 0

-----------------------------------------------------------------------------
(* The collector *)

\* One established connection of a watched port, when the kernel is asked: its
\* observation is dropped when the channel is full.
Observe(a, x, rtt) ==
    /\ running[a]
    /\ obs < MaxObs
    /\ obs' = obs + 1
    /\ \/ /\ Len(queue[a]) < QueueCap
          /\ queue' = [queue EXCEPT ![a] = Append(@, [addr |-> x, rtt |-> rtt, at |-> now])]
       \/ /\ Len(queue[a]) >= QueueCap
          /\ UNCHANGED queue
    /\ observed' = observed \cup {<<AgentRegion[a], AgentPrefix[x], rtt>>}
    /\ UNCHANGED <<now, running, agg, pruned, net, table, injected>>

\* The three goroutines end; what the channel and the aggregator hold is not
\* looked at any more.
Stop(a) ==
    /\ running[a]
    /\ running' = [running EXCEPT ![a] = FALSE]
    /\ queue' = [queue EXCEPT ![a] = <<>>]
    /\ agg' = [agg EXCEPT ![a] = Empty]
    /\ UNCHANGED <<now, pruned, net, table, observed, obs, injected>>

-----------------------------------------------------------------------------
(* The aggregator *)

\* The subnets without one whose last observation is the oldest; all of equal
\* age are candidates, as a map is iterated in any order.
Evictions(subnets) ==
    {Without(subnets, p) : p \in {p \in DOMAIN subnets :
                                    \A q \in DOMAIN subnets : subnets[p].at <= subnets[q].at}}

WithRoom(subnets, p) ==
    IF p \in DOMAIN subnets \/ Cardinality(DOMAIN subnets) < MaxSubnets
    THEN {subnets}
    ELSE Evictions(subnets)

\* Faulty: a new subnet starts from zero instead of its first sample.
SmoothFromZero(old, rtt) == (AlphaNum * rtt + (AlphaDen - AlphaNum) * old.ewma) \div AlphaDen

Smooth(old, rtt) ==
    IF old.count = 0
    THEN rtt
    ELSE (AlphaNum * rtt + (AlphaDen - AlphaNum) * old.ewma) \div AlphaDen

\* The consumer takes an observation off the channel.
Record(a) ==
    /\ queue[a] # <<>>
    /\ LET o == Head(queue[a])
           p == AgentPrefix[o.addr]
       IN  \E subnets \in WithRoom(agg[a], p) :
              LET old == IF p \in DOMAIN subnets THEN subnets[p]
                         ELSE [ewma |-> 0, count |-> 0, at |-> o.at]
              IN  agg' = [agg EXCEPT ![a] = Put(subnets, p,
                             [ewma |-> Smooth(old, o.rtt), count |-> old.count + 1, at |-> o.at])]
    /\ queue' = [queue EXCEPT ![a] = Tail(@)]
    /\ UNCHANGED <<now, running, pruned, net, table, observed, obs, injected>>

\* Faulty: nothing is ever pruned.
KeepAll(a) ==
    /\ running[a] /\ pruned[a] < now
    /\ pruned' = [pruned EXCEPT ![a] = now]
    /\ UNCHANGED <<now, running, queue, agg, net, table, observed, obs, injected>>

Prune(a) ==
    /\ running[a] /\ pruned[a] < now
    /\ agg' = [agg EXCEPT ![a] =
                  [p \in {p \in DOMAIN @ : now - @[p].at <= SubnetTTL} |-> @[p]]]
    /\ pruned' = [pruned EXCEPT ![a] = now]
    /\ UNCHANGED <<now, running, queue, net, table, observed, obs, injected>>

GetReportable(a) == {p \in DOMAIN agg[a] : agg[a][p].count >= MinSamples}

\* A report for every service, each with the same subnets.
SendLatencyReports(a) ==
    /\ running[a]
    /\ GetReportable(a) # {}
    /\ Cardinality(net) < MaxReports
    /\ net' = net \cup {[from |-> a, service |-> s, sent |-> now,
                         subnets |-> [p \in GetReportable(a) |-> agg[a][p]]] : s \in Service}
    /\ UNCHANGED <<now, agentVars, table, observed, obs, injected>>

-----------------------------------------------------------------------------
(* The latency table *)

\* evictOldest: the subnet with the oldest entry goes, with all its entries.
EvictOldest(T) ==
    LET ages(p) == {T[p][b].at : b \in DOMAIN T[p]}
        oldest  == Min(UNION {ages(p) : p \in DOMAIN T})
    IN  {Without(T, p) : p \in {p \in DOMAIN T : oldest \in ages(p)}}

MakeRoom(T) == IF Cardinality(DOMAIN T) >= MaxEntries THEN EvictOldest(T) ELSE {T}

UpdateSubnet(T, p, m) ==
    LET key   == <<m.service, AgentRegion[m.from]>>
        entry == [ewma |-> m.subnets[p].ewma, samples |-> m.subnets[p].count,
                  at |-> now, source |-> m.from, seen |-> m.subnets[p].at]
    IN  {Put(U, p, Put(IF p \in DOMAIN U THEN U[p] ELSE Empty, key, entry)) :
            U \in IF p \in DOMAIN T THEN {T} ELSE MakeRoom(T)}

\* Update, under the table's lock: the subnets of a report come in any order.
Update(T, m) ==
    LET After[S \in SUBSET DOMAIN m.subnets] ==
            IF S = {} THEN {T}
            ELSE UNION {UNION {UpdateSubnet(U, p, m) : U \in After[S \ {p}]} : p \in S}
    IN  After[DOMAIN m.subnets]

\* Reports overtake each other, and some are lost.
Deliver(m) ==
    /\ m \in net
    /\ net' = net \ {m}
    /\ table' \in Update(table, m)
    /\ UNCHANGED <<now, agentVars, observed, obs, injected>>

Lose(m) ==
    /\ m \in net
    /\ net' = net \ {m}
    /\ UNCHANGED <<now, agentVars, table, observed, obs, injected>>

\* The table with an entry that no agent reported: no capacity is checked.
InjectTestData(p, s, r) ==
    Put(table, p, Put(IF p \in DOMAIN table THEN table[p] ELSE Empty, <<s, r>>,
        [ewma |-> Min(RTT), samples |-> MinSamples, at |-> now, source |-> "test", seen |-> now]))

\* POST /api/v1/overwatch/latency.  What latency is injected makes no
\* difference here.
handleLatencyTablePost(p, s, r) ==
    /\ injected < MaxInjected
    /\ injected' = injected + 1
    /\ table' = InjectTestData(p, s, r)
    /\ UNCHANGED <<now, agentVars, net, observed, obs>>

\* GetLatencyForBackendInRegion: the entry that routing uses, if there is one.
Lookup(x, s, r) ==
    LET p == TablePrefix[x]
    IN  IF /\ p \in DOMAIN table /\ <<s, r>> \in DOMAIN table[p]
           /\ now - table[p][<<s, r>>].at <= EntryTTL
        THEN {table[p][<<s, r>>]}
        ELSE {}

-----------------------------------------------------------------------------
\* Time passes only so far: a datagram is on its way for MaxDelay at most, the
\* pruning comes round every PruneEvery, and the consumer of the observations,
\* who does nothing else, leaves none behind.
Tick ==
    /\ now < MaxNow
    /\ \A m \in net : now - m.sent < MaxDelay
    /\ \A a \in Agent : queue[a] = <<>>
    /\ \A a \in Agent : running[a] => now - pruned[a] < PruneEvery
    /\ now' = now + 1
    /\ UNCHANGED <<agentVars, net, table, observed, obs, injected>>

AgentStep(a) ==
    \/ Stop(a)
    \/ \E x \in Addr, rtt \in RTT : Observe(a, x, rtt)
    \/ Record(a) \/ Prune(a) \/ SendLatencyReports(a)

Next ==
    \/ Tick
    \/ \E a \in Agent : AgentStep(a)
    \/ \E m \in net : Deliver(m) \/ Lose(m)
    \/ \E p \in Prefix, s \in Service, r \in Region : handleLatencyTablePost(p, s, r)

Spec == Init /\ [][Next]_vars

-----------------------------------------------------------------------------
(* Properties *)

\* A latency that routing uses rests on an observation that is not older than
\* all the ages the stages allow, one after the other: pruned late, delayed on
\* the way, kept in the table.
LatencyFresh ==
    \A x \in Addr, s \in Service, r \in Region : \A e \in Lookup(x, s, r) :
        now - e.seen <= SubnetTTL + PruneEvery + MaxDelay + EntryTTL

\* It lies between round-trip times of clients in that subnet, whatever was
\* evicted, relearned, rounded or overtaken.
LatencyObserved ==
    \A p \in DOMAIN table : \A b \in DOMAIN table[p] :
        LET e    == table[p][b]
            rtts == {rtt \in RTT : <<b[2], p, rtt>> \in observed}
        IN  e.source = "test" \/ (\E l, h \in rtts : l <= e.ewma /\ e.ewma <= h)

\* What MaxEntries' comment says: "the maximum number of subnet entries to
\* store".
TableBounded == Cardinality(DOMAIN table) <= MaxEntries

\* What the configuration reference says of ipv4_prefix, "IPv4 subnet prefix
\* for aggregation": what was learned of a client's subnet is found for the
\* client.
LearnedIsFound ==
    \A x \in Addr, s \in Service, r \in Region :
        AgentPrefix[x] \in DOMAIN table =>
            (<<s, r>> \in DOMAIN table[AgentPrefix[x]] /\ now = table[AgentPrefix[x]][<<s, r>>].at
                => Lookup(x, s, r) # {})
=============================================================================
