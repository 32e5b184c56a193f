---------------------------- MODULE MCFullDocument ----------------------------
(* FullDocument with two keys and two documents, one of which lacks the      *)
(* second.                                                                   *)
EXTENDS FullDocument

CONSTANTS d1, d2, k1, k2

OneLacks == [d \in Docs |-> IF d = d1 THEN {k1} ELSE Keys]

=============================================================================
