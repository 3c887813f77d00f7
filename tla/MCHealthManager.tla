--------------------------- MODULE MCHealthManager ---------------------------
(* A small instance of HealthManager for TLC. *)
EXTENDS HealthManager

\* Every server list.
MCLists == UNION {[S -> Conf] : S \in SUBSET Server}
=============================================================================
