----------------------------- MODULE OrderStore -----------------------------
(***************************************************************************)
(* What OrderRepository (app/repositories/base.py) promises about the      *)
(* writes of one order, whichever database is behind it: a document        *)
(* replaces the whole order in one step, a block edit changes one block    *)
(* and nothing else, and a header edit changes the header alone.           *)
(*                                                                         *)
(* The contract does not say what an edit of a block the order lacks does, *)
(* and the backends differ: EditCreates makes each of them say it.         *)
(*                                                                         *)
(* A value is known by its stamp: the document it came with, or the client *)
(* that edited it last.                                                    *)
(***************************************************************************)

CONSTANTS
  Clients,      \* the callers that write
  Docs,         \* the source documents of this order
  Keys,         \* keys of logical blocks (type, sub-type, sequence)
  Blocks,       \* the keys of the blocks each document splits into
  NoDoc,        \* no such order, or no such block in it
  EditCreates   \* whether editing a block the order lacks creates it

VARIABLE store    \* the order: its document, its header and its blocks

Init == store = [doc |-> NoDoc, header |-> NoDoc, blocks |-> [k \in Keys |-> NoDoc]]

\* ingest_order: "Upsert one complete order version."
Ingest(d) ==
  store' = [doc    |-> d,
            header |-> d,
            blocks |-> [k \in Keys |-> IF k \in Blocks[d] THEN d ELSE NoDoc]]

\* update_block: "Targeted update of a single business block".
EditBlock(c, k) ==
  /\ store.doc # NoDoc
  /\ EditCreates \/ store.blocks[k] # NoDoc
  /\ store' = [store EXCEPT !.blocks = [@ EXCEPT ![k] = c]]

\* update_order_header: "Targeted update of scalar header fields".
EditHeader(c) ==
  /\ store.doc # NoDoc
  /\ store' = [store EXCEPT !.header = c]

Next ==
  \/ \E d \in Docs : Ingest(d)
  \/ \E c \in Clients : EditHeader(c) \/ \E k \in Keys : EditBlock(c, k)

Spec == Init /\ [][Next]_store

=============================================================================
