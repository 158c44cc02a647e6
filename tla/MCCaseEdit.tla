----------------------------- MODULE MCCaseEdit -----------------------------
(* One page on which the case is edited, and one request to send it.       *)
EXTENDS CaseEdit

CONSTANTS p1, s1, outsop, xml
=============================================================================
