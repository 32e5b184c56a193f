------------------------------ MODULE SqlOrders ------------------------------
(***************************************************************************)
(* One order in Azure SQL: SqlOrderRepository of                           *)
(* app/repositories/sql_repository.py over the tables of                   *)
(* sql/schema/01_schema.sql, with callers that run at the same time.       *)
(*                                                                         *)
(* ingest_order is one transaction of many statements; update_block,       *)
(* update_order_header and the reads run with autocommit, so every         *)
(* statement of theirs is a transaction of its own.                        *)
(*                                                                         *)
(* A stored value is its stamp: the document that wrote it, or the client  *)
(* that edited it.  Properties, OrderParties and Loans are deleted and     *)
(* inserted together and are one field, children.  Customers and Parties   *)
(* are shared between orders and no read modelled here depends on them;    *)
(* waiting for their rows is what makes a transaction a deadlock victim,   *)
(* one of the reasons for which a statement may fail.                      *)
(*                                                                         *)
(* The database is external.  A read sees what was committed when its      *)
(* statement began; a write waits for the row locks it needs, which a      *)
(* transaction keeps until it ends.                                        *)
(***************************************************************************)
EXTENDS Integers

CONSTANTS
  Clients,      \* callers of the repository
  Docs,         \* the source documents of this order
  Version,      \* the order version of each document
  Keys,         \* keys of logical blocks (type, sub-type, sequence)
  Blocks,       \* the keys of the blocks each document splits into
  NoDoc,        \* no row
  NoClient      \* no transaction holds the row of ord.Orders

ASSUME SqlAssumption ==
  /\ Version \in [Docs -> Nat \ {0}]
  /\ Blocks \in [Docs -> SUBSET Keys]
  /\ \A d \in Docs : Blocks[d] # {}
  /\ Clients \cap Docs = {}
  /\ NoDoc \notin Docs \cup Clients
  /\ NoClient \notin Clients

VARIABLES
  db,           \* the committed rows of this order
  tx,           \* the rows as each client's open transaction sees them
  lock,         \* whose transaction holds the row of ord.Orders
  at,           \* the statement each client runs next
  doc,          \* the document each client ingests, or NoDoc
  got,          \* what each client has read so far, and at last returned
  overtaken     \* the clients during whose read in got, of two statements, an
                \* ingest has committed (history)

vars == <<db, tx, lock, at, doc, got, overtaken>>

Versions == {Version[d] : d \in Docs}

Stamps == Docs \cup Clients

\* CurrentVersion is 0 while ord.Orders has no row for the order.
NoRows ==
  [current  |-> 0,
   header   |-> NoDoc,
   versions |-> [v \in Versions |-> NoDoc],
   children |-> NoDoc,
   blocks   |-> [p \in Versions \X Keys |-> NoDoc]]

Nothing == [kind |-> "nothing"]

\* The statements of a transaction, in their order.
TxSteps == {"orders", "versions", "delete", "children", "blocks", "commit"}

Init ==
  /\ db = NoRows
  /\ tx = [c \in Clients |-> NoRows]
  /\ lock = NoClient
  /\ at = [c \in Clients |-> "idle"]
  /\ doc = [c \in Clients |-> NoDoc]
  /\ got = [c \in Clients |-> Nothing]
  /\ overtaken = {}

----------------------------------------------------------------------------
(* ingest_order                                                            *)

Goto(c, l) == at' = [at EXCEPT ![c] = l]

AutocommitLeftOn(c, rows) ==    \* mutant: conn.autocommit = False is dropped
  /\ tx' = [tx EXCEPT ![c] = rows]
  /\ db' = rows

\* A statement of the transaction: its effect is the transaction's own.
Execute(c, rows) ==
  /\ tx' = [tx EXCEPT ![c] = rows]
  /\ UNCHANGED db

\* The document is parsed and split before a connection is taken; the MERGE
\* into ord.Customers touches nothing of this order.
IngestBegins(c, d) ==
  /\ at[c] = "idle"
  /\ doc' = [doc EXCEPT ![c] = d]
  /\ got' = [got EXCEPT ![c] = Nothing]
  /\ overtaken' = overtaken \ {c}
  /\ Goto(c, "orders")
  /\ UNCHANGED <<db, tx, lock>>

\* MERGE ord.Orders sets every column, CurrentVersion included, whatever
\* version was there.  It waits for the row and keeps it.
MergeOrders(c) ==
  /\ at[c] = "orders"
  /\ lock = NoClient
  /\ Execute(c, [db EXCEPT !.current = Version[doc[c]], !.header = doc[c]])
  /\ lock' = c
  /\ Goto(c, "versions")
  /\ UNCHANGED <<doc, got, overtaken>>

PutVersion(versions, d) == [versions EXCEPT ![Version[d]] = d]

MergeVersions(c) ==
  /\ at[c] = "versions"
  /\ Execute(c, [tx[c] EXCEPT !.versions = PutVersion(@, doc[c])])
  /\ Goto(c, "delete")
  /\ UNCHANGED <<lock, doc, got, overtaken>>

DeleteSameVersion(blocks, d) ==    \* mutant: only the document's own version
  [p \in DOMAIN blocks |-> IF p[1] = Version[d] THEN NoDoc ELSE blocks[p]]

\* DELETE ... WHERE OrderId = ?: the rows of every version.
DeleteBlocks(blocks, d) == [p \in DOMAIN blocks |-> NoDoc]

DeleteChildren(c) ==
  /\ at[c] = "delete"
  /\ Execute(c, [tx[c] EXCEPT !.blocks = DeleteBlocks(@, doc[c]), !.children = NoDoc])
  /\ Goto(c, "children")
  /\ UNCHANGED <<lock, doc, got, overtaken>>

InsertChildren(c) ==
  /\ at[c] = "children"
  /\ Execute(c, [tx[c] EXCEPT !.children = doc[c]])
  /\ Goto(c, "blocks")
  /\ UNCHANGED <<lock, doc, got, overtaken>>

PutBlocks(blocks, d) ==
  [p \in DOMAIN blocks |-> IF p \in {Version[d]} \X Blocks[d] THEN d ELSE blocks[p]]

InsertBlocks(c) ==
  /\ at[c] = "blocks"
  /\ Execute(c, [tx[c] EXCEPT !.blocks = PutBlocks(@, doc[c])])
  /\ Goto(c, "commit")
  /\ UNCHANGED <<lock, doc, got, overtaken>>

CallEnds(c) ==
  /\ tx' = [tx EXCEPT ![c] = NoRows]
  /\ doc' = [doc EXCEPT ![c] = NoDoc]
  /\ got' = [got EXCEPT ![c] = Nothing]
  /\ Goto(c, "idle")

\* conn.commit().  Whether the call then returns or the answer is lost on the
\* way, the rows are committed and the locks are gone.
Commit(c) ==
  /\ at[c] = "commit"
  /\ db' = tx[c]
  /\ lock' = NoClient
  /\ overtaken' = overtaken \cup {u \in Clients : at[u] \in {"reading", "roles"}}
  /\ CallEnds(c)

BackInPoolUnfinished == lock    \* mutant: no rollback, or not broken when it fails

LockAfterError == NoClient

\* Any statement of any call raises: a lost connection, a deadlock, a PropertyId or LoanId
\* that another order already has, a commit that never reached the server.
\* rollback undoes the transaction, or fails and the connection is closed as
\* broken, which makes the server undo it.
CallFails(c) ==
  /\ at[c] # "idle"
  /\ lock' = IF lock = c THEN LockAfterError ELSE lock
  /\ overtaken' = overtaken \ {c}
  /\ CallEnds(c)
  /\ UNCHANGED db

----------------------------------------------------------------------------
(* update_block and update_order_header                                    *)

Matches(c, p) == db.blocks[p] # NoDoc /\ p = <<got[c].version, got[c].key>>

\* The UPDATE of update_block begins: its subquery reads CurrentVersion.
EditBegins(c, k) ==
  /\ at[c] = "idle"
  /\ got' = [got EXCEPT ![c] = [kind |-> "edit", version |-> db.current, key |-> k]]
  /\ overtaken' = overtaken \ {c}
  /\ Goto(c, "editing")
  /\ UNCHANGED <<db, tx, lock, doc>>

\* It waits for the rows a transaction has deleted or inserted, and changes
\* the rows that match by then: perhaps none, which is no error.
EditApplies(c) ==
  /\ at[c] = "editing"
  /\ \A u \in Clients : lock = u => at[u] \in {"versions", "delete"}
  /\ db' = [db EXCEPT !.blocks = [p \in Versions \X Keys |-> IF Matches(c, p) THEN c ELSE @[p]]]
  /\ Goto(c, "touching")
  /\ UNCHANGED <<tx, lock, doc, got, overtaken>>

\* The second statement sets ModifiedDate in ord.Orders: nothing depends on
\* it, but it waits for the row.
EditTouches(c) ==
  /\ at[c] = "touching"
  /\ lock = NoClient
  /\ CallEnds(c)
  /\ UNCHANGED <<db, lock, overtaken>>

\* Columns of ord.Orders change; the ORDER / HEADER block does not.
EditHeader(c) ==
  /\ at[c] = "idle"
  /\ lock = NoClient
  /\ db.current # 0
  /\ db' = [db EXCEPT !.header = c]
  /\ got' = [got EXCEPT ![c] = Nothing]
  /\ overtaken' = overtaken \ {c}
  /\ UNCHANGED <<tx, lock, at, doc>>

----------------------------------------------------------------------------
(* get_full_order, get_summary, get_block and search_orders                *)

\* The first statement: the row of ord.Orders and the ExtractTimestamp of its
\* OrderVersions row.
ReadHead(c) ==
  /\ at[c] = "idle"
  /\ db.current # 0
  /\ got' = [got EXCEPT ![c] =
       [kind |-> "head", version |-> db.current, extract |-> db.versions[db.current]]]
  /\ overtaken' = overtaken \ {c}
  /\ Goto(c, "reading")
  /\ UNCHANGED <<db, tx, lock, doc>>

EveryRow(c) == {p \in Versions \X Keys : db.blocks[p] # NoDoc}    \* mutant: no OrderVersion in WHERE

RowsOfHead(c) == {p \in Versions \X Keys : db.blocks[p] # NoDoc /\ p[1] = got[c].version}

\* The second statement: the block rows of the version read before.  An empty
\* result is not told from an order without blocks.
ReadBlocks(c) ==
  /\ at[c] = "reading"
  /\ got' = [got EXCEPT ![c] =
       [kind |-> "full", version |-> got[c].version, extract |-> got[c].extract,
        blocks |-> [p \in RowsOfHead(c) |-> db.blocks[p]]]]
  /\ Goto(c, "idle")
  /\ UNCHANGED <<db, tx, lock, doc, overtaken>>

\* SUMMARY_SQL: columns of ord.Orders, and counts over the children.
ReadSummary(c) ==
  /\ at[c] = "idle"
  /\ db.current # 0
  /\ got' = [got EXCEPT ![c] =
       [kind |-> "row", version |-> db.current, header |-> db.header, counts |-> db.children]]
  /\ overtaken' = overtaken \ {c}
  /\ Goto(c, "roles")
  /\ UNCHANGED <<db, tx, lock, doc>>

\* _roles, on a connection taken anew.
ReadRoles(c) ==
  /\ at[c] = "roles"
  /\ got' = [got EXCEPT ![c] =
       [kind |-> "summary", version |-> got[c].version, header |-> got[c].header,
        counts |-> got[c].counts, roles |-> db.children]]
  /\ Goto(c, "idle")
  /\ UNCHANGED <<db, tx, lock, doc, overtaken>>

\* get_block and search_orders are one statement and keep nothing: their
\* answer is a function of the committed rows.  The blocks are joined to the
\* current version; a version without the block is an order without it.
BlockRead(k) ==
  IF db.current # 0 /\ db.blocks[<<db.current, k>>] # NoDoc
    THEN [found |-> TRUE, version |-> db.current, by |-> db.blocks[<<db.current, k>>]]
    ELSE [found |-> FALSE]

SearchRow ==
  IF db.current # 0 THEN [found |-> TRUE, version |-> db.current, header |-> db.header]
  ELSE [found |-> FALSE]

----------------------------------------------------------------------------

\* The rest of a call that has begun: the caller is a thread that runs it to
\* its end, and the database answers every statement or fails it.
Step(c) ==
  \/ MergeOrders(c)
  \/ MergeVersions(c)
  \/ DeleteChildren(c)
  \/ InsertChildren(c)
  \/ InsertBlocks(c)
  \/ Commit(c)
  \/ EditApplies(c)
  \/ EditTouches(c)
  \/ ReadBlocks(c)
  \/ ReadRoles(c)

Next ==
  \E c \in Clients :
    \/ \E d \in Docs : IngestBegins(c, d)
    \/ \E k \in Keys : EditBegins(c, k)
    \/ EditHeader(c)
    \/ ReadHead(c)
    \/ ReadSummary(c)
    \/ Step(c)
    \/ CallFails(c)

Spec == Init /\ [][Next]_vars

\* Calls end.  Waiters for a row are served in some fair order, hence strong
\* fairness.
FairSpec == Spec /\ \A c \in Clients : SF_vars(Step(c))

----------------------------------------------------------------------------

Rows == [current  : Versions \cup {0},
         header   : Stamps \cup {NoDoc},
         versions : [Versions -> Docs \cup {NoDoc}],
         children : Docs \cup {NoDoc},
         blocks   : [Versions \X Keys -> Stamps \cup {NoDoc}]]

Kinds == {"nothing", "edit", "head", "full", "row", "summary"}

TypeOK ==
  /\ db \in Rows
  /\ tx \in [Clients -> Rows]
  /\ lock \in Clients \cup {NoClient}
  /\ at \in [Clients -> {"idle", "editing", "touching", "reading", "roles"} \cup TxSteps]
  /\ doc \in [Clients -> Docs \cup {NoDoc}]
  /\ overtaken \in SUBSET Clients
  /\ DOMAIN got = Clients
  /\ \A c \in Clients : got[c].kind \in Kinds

\* The row of ord.Orders is locked by an open transaction that has written it,
\* and by no one else: a connection never goes back to the pool with its
\* transaction still open, whichever statement failed.
LockIsTransaction == \A c \in Clients : lock = c <=> at[c] \in TxSteps \ {"orders"}

\* The rows of one whole document at its version, edits included.
WholeDoc(r, d) ==
  /\ r.current = Version[d]
  /\ r.header \in {d} \cup Clients
  /\ r.versions[Version[d]] = d
  /\ r.children = d
  /\ \A p \in Versions \X Keys :
       IF p \in {Version[d]} \X Blocks[d]
         THEN r.blocks[p] \in {d} \cup Clients
         ELSE r.blocks[p] = NoDoc

\* Whatever interleaves and whatever fails, the committed rows are those of
\* one document: ord.Orders, OrderVersions (and the PayloadHash there), the
\* child tables and the blocks never speak of two documents, and no row of a
\* superseded version is left behind.
CurrentVersionIsWhole == db = NoRows \/ \E d \in Docs : WholeDoc(db, d)

\* get_full_order never mixes two documents: the blocks it returns are all the
\* blocks of one document at the version in its envelope.  It returns none
\* only if an ingest committed between its two statements.
FullReadIsOneDocument ==
  \A c \in Clients : got[c].kind = "full" =>
    \/ DOMAIN got[c].blocks = {} /\ c \in overtaken
    \/ \E d \in Docs :
         /\ got[c].version = Version[d]
         /\ DOMAIN got[c].blocks = {Version[d]} \X Blocks[d]
         /\ \A p \in DOMAIN got[c].blocks : got[c].blocks[p] \in {d} \cup Clients

\* The summary get_summary returns: its version, its columns and its counts are
\* of one document, and its roles are all those of one document, which is the
\* same one unless an ingest committed before the second statement.
SummaryIsOneDocument ==
  \A c \in Clients : got[c].kind = "summary" =>
    /\ got[c].roles \in Docs
    /\ \E d \in Docs :
         /\ got[c].version = Version[d]
         /\ got[c].header \in {d} \cup Clients
         /\ got[c].counts = d
         /\ c \notin overtaken => got[c].roles = d

\* At every moment a search row and the blocks that can be read are of one
\* document: the version they name, and every block of it but no other.
SingleReadsAgree ==
  SearchRow.found =>
    \E d \in Docs :
      /\ SearchRow.version = Version[d] /\ SearchRow.header \in {d} \cup Clients
      /\ \A k \in Keys :
           /\ BlockRead(k).found <=> k \in Blocks[d]
           /\ BlockRead(k).found => BlockRead(k).version = Version[d] /\ BlockRead(k).by \in {d} \cup Clients

\* Whatever is read while documents replace each other: a search row and a
\* block are of one document, a full order has the blocks of one document or,
\* overtaken by an ingest, none, and a summary is of one document unless it was
\* overtaken.
ReadsAreOneDocument == FullReadIsOneDocument /\ SummaryIsOneDocument /\ SingleReadsAgree

\* "Complete reconstructed order" (base.py): an order that is found has its
\* blocks.  A document that replaces the order between the two statements of
\* get_full_order takes away the rows of the version read first.
FullOrderIsComplete ==
  \A c \in Clients : got[c].kind = "full" => DOMAIN got[c].blocks # {}

\* A summary never mixes two documents, overtaken or not: violated, its roles
\* are read by a second statement, which runs on a connection taken anew and
\* sees what has been committed meanwhile.
SummaryNeverMixes ==
  \A c \in Clients : got[c].kind = "summary" => got[c].roles = got[c].counts

\* Every call ends, so no failed transaction leaves the row of ord.Orders
\* locked for the callers after it.
CallsEnd == \A c \in Clients : at[c] # "idle" ~> at[c] = "idle"

\* The current rows as one order.
StoreView ==
  [doc    |-> IF db.current = 0 THEN NoDoc ELSE db.versions[db.current],
   header |-> db.header,
   blocks |-> [k \in Keys |-> IF db.current = 0 THEN NoDoc ELSE db.blocks[<<db.current, k>>]]]

\* The statements of concurrent callers add up to whole-order writes: the
\* repository implements OrderStore, where an edit of a block the order lacks
\* does nothing.
Store == INSTANCE OrderStore WITH store <- StoreView, EditCreates <- FALSE

ImplementsStore == Store!Spec

=============================================================================
