----------------------------- MODULE ServerPool -----------------------------
(***************************************************************************)
(* What the handler of queries (pkg/dns/handler.go) and the routers        *)
(* (pkg/routing) have in common: the servers of a domain, and the turns of *)
(* a round-robin counter in a pool of them.                                *)
(***************************************************************************)
EXTENDS Integers, FiniteSets, SequencesExt

CONSTANTS
    Server,         \* the servers a pool may hold
    CounterLimit    \* the round-robin counter is an unsigned integer below this

ASSUME PoolAssumption == CounterLimit \in Nat \ {0}

\* Faulty: a bound that is one too low never reaches the last server.
RoundRobinShort(counter, pool) ==
    pool[(counter % (IF Len(pool) > 1 THEN Len(pool) - 1 ELSE 1)) + 1]

\* The server whose turn it is.
RoundRobin(counter, pool) == pool[(counter % Len(pool)) + 1]

\* atomic.AddUint64
NextTurn(counter) == (counter + 1) % CounterLimit

=============================================================================
