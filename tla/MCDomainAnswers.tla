--------------------------- MODULE MCDomainAnswers ---------------------------
(***************************************************************************)
(* Three servers, two of them IPv4, and the orders a configuration may     *)
(* list them in.                                                           *)
(***************************************************************************)
EXTENDS DomainAnswers

CONSTANTS a, b, c

MCConfiguration == {<<a, b>>, <<b, a, c>>}
=============================================================================
