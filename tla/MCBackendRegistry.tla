-------------------------- MODULE MCBackendRegistry --------------------------
(* Small instances of BackendRegistry for TLC. *)
EXTENDS BackendRegistry, TLC

CONSTANTS k1, w1, w2

\* No static servers, k1 in one region, and k1 listed in two regions.
MCConfigs == {{}, {<<k1, w1>>}, {<<k1, w2>>}, {<<k1, w1>>, <<k1, w2>>}}

WeightSymmetry == Permutations({w1, w2})
=============================================================================
