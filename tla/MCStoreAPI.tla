----------------------------- MODULE MCStoreAPI -----------------------------
(* Two callers, a domain the file may list, one only the API knows;        *)
(* requests for settings that the DNS registry takes, for some without a   *)
(* TTL, which is v2 where it is served, and for some with an unknown       *)
(* routing policy; a backend with an IP address and one without.           *)
EXTENDS StoreAPI, TLC

CONSTANTS c1, c2, filed, free, r1, s1, v1, v2, noTTL, bogus, a1, host

MCConfigs == {{}, {filed, r1}}
MCDefaults == [v \in {noTTL} |-> v2]
MCPresets == [v \in {noTTL} |-> v1]
MCSymmetry == Permutations({c1, c2})
=============================================================================
