----------------------------- MODULE MCIngestRun -----------------------------
(* IngestRun with a run of two orders, which fill its dictionary of futures, *)
(* and a run of the first of them.                                           *)
EXTENDS IngestRun

CONSTANTS r1, r2

MCOrders == [r \in Runs |-> IF r = r1 THEN 2 ELSE 1]

=============================================================================
