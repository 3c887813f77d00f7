---------------------------- MODULE DomainAnswers ----------------------------
(***************************************************************************)
(* Queries for one domain (pkg/dns/handler.go) against changes of its      *)
(* entry in the DNS registry (pkg/dns/registry.go).                        *)
(*                                                                         *)
(* Lookup returns a pointer to the entry and releases the registry's lock. *)
(* What a query does with the entry afterwards, reading the slice of its   *)
(* servers, one after the other, and calling its router, is not protected  *)
(* from RegisterServer and DeregisterServer, which change the same slice   *)
(* in place.  These races are modelled at the grain of one word or cell:   *)
(* a slice is an array of cells (as long as its capacity) and a length,    *)
(* a query reads the two at once and then one cell at a time, and an       *)
(* operation writes a cell and the length in two steps.                    *)
(*                                                                         *)
(* Servers stand for their address; weight and region do not matter here,  *)
(* the routers are in the module Routing.                                  *)
(***************************************************************************)
EXTENDS ServerPool

CONSTANTS
    NoServer,       \* the contents of a cell that was never written
    IPv4,           \* the servers with an IPv4 address; the others have IPv6
    Query,          \* the queries in progress
    Configuration,  \* the orders in which a configuration may list servers
    Algorithms,     \* the algorithms that the domain may be given
    MaxChanges      \* bound on the changes of the entry and of health

ASSUME AnswersAssumption ==
    /\ NoServer \notin Server
    /\ IPv4 \subseteq Server
    /\ Configuration \subseteq {c \in Seq(Server) : IsInjective(c)}
    /\ Algorithms \subseteq {"round_robin", "weighted", "failover"}
    /\ MaxChanges \in Nat

VARIABLES
    entry,       \* the registry's entry for the domain, or NoEntry
    writing,     \* the second half of the operation that holds the lock, or NoWrite
    healthy,     \* the servers for which IsHealthy returns TRUE
    query,       \* the queries
    registered,  \* history: the servers the registry was told of, in place now
    configured,  \* history: the order of the configuration in force
    rotation,    \* history: the last round-robin answer for each type of query since
                 \*   the entry changed
    changes      \* the changes so far

answerVars == <<entry, writing, healthy, query, registered, configured, rotation, changes>>

Type == {"A", "AAAA"}

NoEntry == [cells |-> <<>>, len |-> 0, algorithm |-> "none", counter |-> 0]
NoWrite == [what |-> "none"]
NoTurn  == [t \in Type |-> [pool |-> <<>>, server |-> NoServer]]

\* A query that is not in progress.
Idle == [phase |-> "idle"]

InProgress(q) == query[q].phase \in {"found", "scan", "check"}

\* The entry a query points to: the registry's, or one the registry has dropped.
EntryOf(q) == IF query[q].orphan = NoEntry THEN entry ELSE query[q].orphan

\* The array a query reads: its entry's, or one that the entry has outgrown.
CellsOf(q) == IF query[q].outgrown = <<>> THEN EntryOf(q).cells ELSE query[q].outgrown

Servers(e) == SubSeq(e.cells, 1, e.len)

-----------------------------------------------------------------------------
(***************************************************************************)
(* What each step adds to what is remembered of the queries in progress:   *)
(* the servers that were registered at some time, those that were healthy  *)
(* at some time, those that were both all the time, and which kinds of     *)
(* change overlapped the query.                                            *)
(***************************************************************************)

Witness(qs, now, well, kind) ==
    [q \in Query |->
        IF qs[q].phase \in {"found", "scan", "check"}
        THEN [qs[q] EXCEPT !.present = @ \cup now,
                           !.well    = @ \cup well,
                           !.steady  = @ \cap (now \cap well),
                           !.overlap = @ \cup kind]
        ELSE qs[q]]

\* The queries keep the entry that the registry drops, and its array.
Orphaned ==
    [q \in Query |-> IF InProgress(q) /\ query[q].orphan = NoEntry
                     THEN [query[q] EXCEPT !.orphan = entry] ELSE query[q]]

\* Queries that read the array keep it when the entry moves to a larger one.
Outgrown ==
    [q \in Query |->
        IF /\ query[q].phase \in {"scan", "check"}
           /\ query[q].orphan = NoEntry /\ query[q].outgrown = <<>>
        THEN [query[q] EXCEPT !.outgrown = entry.cells] ELSE query[q]]

Changed == changes < MaxChanges /\ changes' = changes + 1 /\ rotation' = NoTurn

\* The registry's lock is free.
Unlocked == writing = NoWrite

-----------------------------------------------------------------------------
(***************************************************************************)
(* The registry.                                                           *)
(***************************************************************************)

\* append grows an array that is full to the double of its capacity.
Grown(cells) ==
    cells \o [i \in 1 .. (IF Len(cells) = 0 THEN 1 ELSE Len(cells)) |-> NoServer]

\* RegisterServer of a server that the slice does not hold: append.  (For one that it
\* holds, the cell gets the same address again, with a weight and a region that do not
\* matter here: the entry, and so the state of this model, stays as it is.)  In an array
\* with room the new cell and the new length are written in either order; a larger
\* array is filled in before or after the entry refers to it.
RegisterServer(s) ==
    /\ Unlocked /\ entry # NoEntry /\ s \notin ToSet(Servers(entry))
    /\ Changed
    /\ LET full  == entry.len = Len(entry.cells)
           cells == IF full THEN Grown(entry.cells) ELSE entry.cells
           n     == entry.len + 1
       IN  /\ registered' = registered \cup {s}
           /\ \/ /\ entry' = [entry EXCEPT !.cells = cells, !.len = n]
                 /\ writing' = [what |-> "cell", at |-> n, server |-> s]
              \/ /\ entry' = [entry EXCEPT !.cells = [cells EXCEPT ![n] = s]]
                 /\ writing' = [what |-> "length", len |-> n]
           /\ query' = Witness(IF full THEN Outgrown ELSE query,
                               registered', healthy, {"append"})
    /\ UNCHANGED <<healthy, configured>>

\* DeregisterServer: the last server takes the place of the removed one, then the
\* slice is shortened.
DeregisterServer(s) ==
    /\ Unlocked /\ entry # NoEntry /\ s \in ToSet(Servers(entry))
    /\ Changed
    /\ LET i == SelectInSeq(Servers(entry), LAMBDA t : t = s)
       IN  entry' = [entry EXCEPT !.cells[i] = entry.cells[entry.len]]
    /\ registered' = registered \ {s}
    /\ writing' = [what |-> "length", len |-> entry.len - 1]
    /\ query' = Witness(query, registered', healthy, {"remove"})
    /\ UNCHANGED <<healthy, configured>>

\* The second write of an operation, after which it unlocks.
FinishWrite ==
    /\ ~Unlocked
    /\ entry' = IF writing.what = "cell"
                THEN [entry EXCEPT !.cells[writing.at] = writing.server]
                ELSE [entry EXCEPT !.len = writing.len]
    /\ writing' = NoWrite
    /\ UNCHANGED <<healthy, query, registered, configured, rotation, changes>>

\* BuildRegistry makes a slice of just the servers that the configuration lists.
NewEntry(c, a) == [cells |-> c, len |-> Len(c), algorithm |-> a, counter |-> 0]

\* Registry.ReplaceAll, on a reload, with a configuration that lists the domain.
ReplaceAllEntries(c, a) ==
    /\ Unlocked /\ Changed
    /\ entry' = NewEntry(c, a)
    /\ registered' = ToSet(c)
    /\ configured' = c
    /\ query' = Witness(Orphaned, registered', healthy, {})
    /\ UNCHANGED <<writing, healthy>>

\* RegisterDomain: the API creates the domain, or creates it anew, without servers.
RegisterDomain(a) == ReplaceAllEntries(<<>>, a)

\* Remove: the API deletes the domain.
RemoveDomain ==
    /\ Unlocked /\ Changed /\ entry # NoEntry
    /\ entry' = NoEntry
    /\ registered' = {}
    /\ configured' = <<>>
    /\ query' = Witness(Orphaned, {}, healthy, {})
    /\ UNCHANGED <<writing, healthy>>

\* UpdateDomainSettings gives the entry a new router and leaves its servers alone.
UpdateDomainSettings(a) ==
    /\ Unlocked /\ Changed /\ entry # NoEntry
    /\ entry' = [entry EXCEPT !.algorithm = a, !.counter = 0]
    /\ UNCHANGED <<writing, healthy, query, registered, configured>>

\* The health provider changes its mind about a server.
HealthChanges(s) ==
    /\ Changed
    /\ healthy' = (healthy \ {s}) \cup ({s} \ healthy)
    /\ query' = Witness(query, registered, healthy', {})
    /\ UNCHANGED <<entry, writing, registered, configured>>

-----------------------------------------------------------------------------
(***************************************************************************)
(* The handler.                                                            *)
(***************************************************************************)

\* Registry.Lookup, for an A or an AAAA query; NXDOMAIN when there is no entry.
Lookup(q, type) ==
    /\ query[q].phase = "idle" /\ Unlocked
    /\ query' = [query EXCEPT ![q] =
          IF entry = NoEntry THEN [phase |-> "done", rcode |-> "NXDOMAIN"]
          ELSE [phase |-> "found", type |-> type, orphan |-> NoEntry, outgrown |-> <<>>,
                n |-> 0, i |-> 0, server |-> NoServer, pool |-> <<>>,
                present |-> registered, well |-> healthy,
                steady |-> registered \cap healthy,
                overlap |-> {}]]
    /\ UNCHANGED <<entry, writing, healthy, registered, configured, rotation, changes>>

\* The last server is left out, or one is read that is not there.
ReadSliceShort(q) ==
    /\ query[q].phase = "found"
    /\ query' = [query EXCEPT ![q].phase = "scan", ![q].i = 1,
                              ![q].n = IF EntryOf(q).len > 0 THEN EntryOf(q).len - 1 ELSE 0]
    /\ UNCHANGED <<entry, writing, healthy, registered, configured, rotation, changes>>
\* range entry.Servers evaluates the slice once.  What is read between the two
\* writes of an operation is remembered.
ReadSlice(q) ==
    /\ query[q].phase = "found"
    /\ query' = [query EXCEPT ![q].phase = "scan",
                              ![q].n = EntryOf(q).len,
                              ![q].i = 1,
                              ![q].overlap = @ \cup
                                  (IF writing.what # "none" /\ query[q].orphan = NoEntry
                                   THEN {writing.what} ELSE {})]
    /\ UNCHANGED <<entry, writing, healthy, registered, configured, rotation, changes>>

Wanted(q, s) == IF query[q].type = "A" THEN s \in IPv4 ELSE s \in Server \ IPv4

\* The next cell is copied; one that is of the other kind, or empty, is passed over.
ReadServer(q) ==
    /\ query[q].phase = "scan" /\ query[q].i <= query[q].n
    /\ LET s == CellsOf(q)[query[q].i]
       IN  query' = [query EXCEPT ![q] =
              IF Wanted(q, s) THEN [query[q] EXCEPT !.phase = "check", !.server = s]
              ELSE [query[q] EXCEPT !.i = query[q].i + 1]]
    /\ UNCHANGED <<entry, writing, healthy, registered, configured, rotation, changes>>

\* A server that is not healthy is left in.
CheckHealthNever(q) ==
    /\ query[q].phase = "check"
    /\ query' = [query EXCEPT ![q].phase = "scan", ![q].i = @ + 1,
                              ![q].pool = Append(@, query[q].server)]
    /\ UNCHANGED <<entry, writing, healthy, registered, configured, rotation, changes>>

\* The search ends with the first healthy server.
CheckHealthFirstOnly(q) ==
    /\ query[q].phase = "check"
    /\ query' = [query EXCEPT ![q].phase = "scan", ![q].server = NoServer,
                              ![q].i = IF query[q].server \in healthy
                                       THEN query[q].n + 1 ELSE @ + 1,
                              ![q].pool = IF query[q].server \in healthy
                                          THEN Append(@, query[q].server) ELSE @]
    /\ UNCHANGED <<entry, writing, healthy, registered, configured, rotation, changes>>

\* IsHealthy is asked about the copy.
CheckHealth(q) ==
    /\ query[q].phase = "check"
    /\ query' = [query EXCEPT ![q].phase = "scan", ![q].i = @ + 1, ![q].server = NoServer,
                              ![q].pool = IF query[q].server \in healthy
                                          THEN Append(@, query[q].server) ELSE @]
    /\ UNCHANGED <<entry, writing, healthy, registered, configured, rotation, changes>>

\* The servers that the router of e may return for a pool.
Selectable(e, pool) ==
    CASE e.algorithm = "round_robin" -> {RoundRobin(e.counter, pool)}
      [] e.algorithm = "failover"    -> {Head(pool)}
      [] e.algorithm = "weighted"    -> ToSet(pool)

\* The response, with what is remembered of the query; order and before are the
\* configuration's order and the last answer by rotation, if its entry is in force.
Respond(q, rcode, s) ==
    query' = [query EXCEPT ![q] =
        [phase |-> "done", rcode |-> rcode, server |-> s, type |-> query[q].type,
         algorithm |-> EntryOf(q).algorithm, pool |-> query[q].pool,
         present |-> query[q].present, well |-> query[q].well,
         steady |-> {t \in query[q].steady : Wanted(q, t)}, overlap |-> query[q].overlap,
         order  |-> IF query[q].orphan = NoEntry THEN configured ELSE <<>>,
         before |-> IF query[q].orphan = NoEntry THEN rotation[query[q].type]
                    ELSE NoTurn[query[q].type]]]

\* The end of handleAQuery and handleAAAAQuery: SERVFAIL for an empty pool, or the
\* router of the entry chooses.
Answer(q) ==
    /\ query[q].phase = "scan" /\ query[q].i > query[q].n
    /\ \/ /\ query[q].pool = <<>>
          /\ Respond(q, "SERVFAIL", NoServer)
          /\ UNCHANGED <<entry, rotation>>
       \/ /\ query[q].pool # <<>>
          /\ \E s \in Selectable(EntryOf(q), query[q].pool) :
                /\ Respond(q, "NOERROR", s)
                /\ IF query[q].orphan = NoEntry /\ entry.algorithm = "round_robin"
                   THEN /\ entry' = [entry EXCEPT !.counter = NextTurn(@)]
                        /\ rotation' = [rotation EXCEPT ![query[q].type] =
                                           [pool |-> query[q].pool, server |-> s]]
                   ELSE UNCHANGED <<entry, rotation>>
    /\ UNCHANGED <<writing, healthy, registered, configured, changes>>

\* The response is written and the handler returns.
Written(q) ==
    /\ query[q].phase = "done"
    /\ query' = [query EXCEPT ![q] = Idle]
    /\ UNCHANGED <<entry, writing, healthy, registered, configured, rotation, changes>>

-----------------------------------------------------------------------------
AnswersInit ==
    /\ \E c \in Configuration, a \in Algorithms :
          entry = NewEntry(c, a) /\ configured = c /\ registered = ToSet(c)
    /\ writing = NoWrite
    /\ healthy \in SUBSET Server
    /\ query = [q \in Query |-> Idle]
    /\ rotation = NoTurn
    /\ changes = 0

AnswersNext ==
    \/ \E s \in Server : RegisterServer(s)
    \/ \E s \in Server : DeregisterServer(s)
    \/ FinishWrite
    \/ \E c \in Configuration, a \in Algorithms : ReplaceAllEntries(c, a)
    \/ \E a \in Algorithms : RegisterDomain(a)
    \/ RemoveDomain
    \/ \E a \in Algorithms : UpdateDomainSettings(a)
    \/ \E s \in Server : HealthChanges(s)
    \/ \E q \in Query, type \in Type : Lookup(q, type)
    \/ \E q \in Query : ReadSlice(q)
    \/ \E q \in Query : ReadServer(q)
    \/ \E q \in Query : CheckHealth(q)
    \/ \E q \in Query : Answer(q)
    \/ \E q \in Query : Written(q)

AnswersSpec == AnswersInit /\ [][AnswersNext]_answerVars

-----------------------------------------------------------------------------
(***************************************************************************)
(* Properties.                                                             *)
(***************************************************************************)

\* Type correctness of the entry, the pending write and the queries.
AnswersTypeOK ==
    /\ entry.cells \in Seq(Server \cup {NoServer})
    /\ entry.len \in 0 .. Len(entry.cells)
    /\ ToSet(Servers(entry)) \subseteq Server \/ writing.what = "cell"
    /\ entry.counter \in 0 .. CounterLimit - 1
    /\ writing.what \in {"none", "cell", "length"}
    /\ healthy \in SUBSET Server
    /\ registered \in SUBSET Server
    /\ \A q \in Query :
          /\ query[q].phase \in {"idle", "found", "scan", "check", "done"}
          /\ InProgress(q) =>
                /\ query[q].pool \in Seq(Server)
                /\ query[q].n <= Len(CellsOf(q))
                /\ query[q].i \in 0 .. query[q].n + 1

Done(q, rcode) == query[q].phase = "done" /\ query[q].rcode = rcode

\* handler.go: an answer is a server that was registered at some time while the query
\* was worked on, and healthy at some time, although the registry and the verdicts
\* change under the query.  The one exception is a query that reads the slice in the
\* middle of an append, when a cell may still hold what was there before.
AnswerWasServing ==
    \A q \in Query : Done(q, "NOERROR") =>
        /\ query[q].server \in query[q].well
        /\ query[q].server \in query[q].present \/ "cell" \in query[q].overlap

\* handler.go: SERVFAIL means that no server of the kind that was asked for was
\* registered and healthy throughout, unless both a removal and an append overlapped
\* the query: then the last server may have moved to a cell that was read already and
\* another one have taken its place.
FailureJustified ==
    \A q \in Query : Done(q, "SERVFAIL") =>
        \/ query[q].steady = {}
        \/ {"remove", "append"} \subseteq query[q].overlap

\* handler.go: every server that was registered and healthy throughout is in the pool,
\* once, so that the router weighs it as it should, unless the slice was changed in
\* place meanwhile.
PoolFair ==
    \A q \in Query : (Done(q, "NOERROR") /\ query[q].overlap = {}) =>
        /\ IsInjective(query[q].pool)
        /\ query[q].steady \subseteq ToSet(query[q].pool)

\* docs/configuration.md: "Server priority is determined by the order in the
\* configuration file".  The code takes the order of the slice, which a removal changes.
FailoverPriority ==
    \A q \in Query :
        (/\ Done(q, "NOERROR") /\ query[q].algorithm = "failover"
         /\ query[q].overlap = {} /\ query[q].server \in ToSet(query[q].order)) =>
        LET Place(s) == SelectInSeq(query[q].order, LAMBDA t : t = s)
        IN  ~\E s \in query[q].steady \cap ToSet(query[q].order) :
                Place(s) < Place(query[q].server)

\* README.md: "Even distribution across healthy servers with per-domain rotation".  Two
\* successive A queries over the same pool get different servers; in the code, the AAAA
\* query between them takes a turn of the same counter.
RotatesForEachType ==
    \A q \in Query :
        (/\ Done(q, "NOERROR") /\ query[q].algorithm = "round_robin"
         /\ query[q].pool = query[q].before.pool /\ Len(query[q].pool) > 1) =>
        query[q].server # query[q].before.server

=============================================================================
