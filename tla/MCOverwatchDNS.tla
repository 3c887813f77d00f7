--------------------------- MODULE MCOverwatchDNS ---------------------------
(* Small instances of OverwatchDNS for TLC. *)
EXTENDS OverwatchDNS

CONSTANTS k1, w1, w2

\* k1 a static server or not; its domain configured or not.
MCConfigs == {{}, {<<k1, w1>>}}
MCConfigsNone == {{}}
MCDomainsAll == {{k1}}
=============================================================================
