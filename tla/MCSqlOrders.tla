---------------------------- MODULE MCSqlOrders ----------------------------
(* SqlOrders with three documents: a first version, the same version         *)
(* generated again with fewer blocks, and a second version.                  *)
EXTENDS SqlOrders

CONSTANTS first, again, second, k1, k2

MCVersion == [d \in Docs |-> IF d = second THEN 2 ELSE 1]

MCBlocks == [d \in Docs |-> CASE d = first  -> {k1, k2}
                              [] d = again  -> {k1}
                              [] d = second -> {k2}]

=============================================================================
