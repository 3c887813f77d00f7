---------------------------- MODULE MCAgentGossip ----------------------------
(* Small instances of AgentGossip for TLC. *)
EXTENDS AgentGossip

CONSTANTS k1, a1, w1

NoConfigs == {{}}
=============================================================================
