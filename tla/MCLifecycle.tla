---------------------------- MODULE MCLifecycle -----------------------------
(* Two backends, one of which answers, two versions of the configuration.  *)
EXTENDS Lifecycle, TLC

CONSTANTS b1, b2, v1, v2
=============================================================================
