------------------------- MODULE MCLatencyLearning --------------------------
(* An agent in one of two regions, three client subnets and room for two.  *)
EXTENDS LatencyLearning, TLC

CONSTANTS a1, east, west

MCAgentRegion == [a \in Agent |-> east]
MCPrefix == [x \in Addr |-> x]

Clients == Permutations(Addr)

=============================================================================
