----------------------------- MODULE MCKeySync ------------------------------
(* Two Overwatches that poll each other, one zone.                         *)
EXTENDS KeySync

CONSTANTS n1, n2

MCPeers == [n \in Node |-> Node \ {n}]
=============================================================================
