------------------------------ MODULE MCRouting ------------------------------
(***************************************************************************)
(* Three servers, one in each of two regions and one without a region;     *)
(* one weight is zero, one is above one.                                   *)
(***************************************************************************)
EXTENDS Routing

MCServer   == {"s1", "s2", "s3"}
MCRegionOf == [s1 |-> "east", s2 |-> "west", s3 |-> ""]
MCWeightOf == [s1 |-> 2, s2 |-> 0, s3 |-> 3]

\* Too few samples or none, old, and latencies on either side of the threshold.
MCDatum == {[samples |-> 1, latency |-> 0, stale |-> FALSE],
            [samples |-> 2, latency |-> 0, stale |-> TRUE]} \cup
           {[samples |-> 2, latency |-> l, stale |-> FALSE] : l \in 1 .. 5}

\* Pools of one, two and three servers, the last also as a removal reorders it.
MCPools == {<<"s1">>, <<"s1", "s2">>, <<"s2", "s3">>, <<"s3", "s1">>,
            <<"s1", "s2", "s3">>, <<"s3", "s2", "s1">>}


=============================================================================
