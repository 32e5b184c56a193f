--------------------------- MODULE MCCosmosOrders ---------------------------
(* CosmosOrders with three documents: a first version that has a block in    *)
(* two chunks, the same version generated again smaller, with that block in  *)
(* one item and without the other, and a second version.                     *)
EXTENDS CosmosOrders, TLC

CONSTANTS first, again, second, k1, k2

MCVersion == [d \in Docs |-> IF d = second THEN 2 ELSE 1]

MCParts == [d \in Docs |-> CASE d = first  -> (k1 :> 1 @@ k2 :> 2)
                             [] d = again  -> (k1 :> 0 @@ k2 :> 1)
                             [] d = second -> (k1 :> 1 @@ k2 :> 0)]

\* One block in two chunks: what the run of concurrent ingests needs.
OneBlock == [d \in Docs |-> (k2 :> 2)]

=============================================================================
