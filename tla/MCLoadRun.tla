------------------------------ MODULE MCLoadRun ------------------------------
(* LoadRun with a warm-up of up to two requests and repeats of one, two      *)
(* workers, and rings of one record, which late answers overflow.            *)
EXTENDS LoadRun

MCPerPhase == [p \in 0..Repeats |-> IF p = 0 THEN 2 ELSE 1]

=============================================================================
