------------------------------ MODULE MCAnalytics ------------------------------
(* Bounded instances of Analytics for TLC. *)
EXTENDS Analytics

CONSTANTS o1, o2

\* A first version, the same again with a charge block and a loan more, and the
\* next one with another block, whose text is not ASCII, and a loan less
MCVersion == [first |-> 1, more |-> 1, next |-> 2]

MCBlocks == [first |-> {"TOTALS"}, more |-> {"TOTALS", "SERVICES"}, next |-> {"TOTALS", "TITLE"}]

MCLoans == [first |-> {"l1"}, more |-> {"l1", "l2"}, next |-> {"l1"}]

\* No property says anything of a reconciliation that a commit disturbed.
Undisturbed == cmd.kind \in {"operational", "fabric"} /\ Running => cmd.quiet
=============================================================================
