----------------------------- MODULE MCOpenMirror -----------------------------
(* OpenMirror with one table of two rows, or two tables of one or two rows.  *)
EXTENDS OpenMirror

CONSTANTS orders, loans, k1, k2, k3

OneTable == [k \in Keys |-> orders]

TwoTables == [k \in Keys |-> IF k = k1 THEN orders ELSE loans]

Uneven == [k \in Keys |-> IF k = k3 THEN loans ELSE orders]

=============================================================================
