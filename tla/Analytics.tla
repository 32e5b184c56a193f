------------------------------- MODULE Analytics -------------------------------
(***************************************************************************)
(* What reads the mirrors of the two operational stores in Fabric:         *)
(*   FabricOrderRepository of app/repositories/fabric_repository.py,       *)
(*   tools/reconciliation.py, the two checks,                              *)
(*   tools/run_analytics.py, which builds the warehouse of                 *)
(*     fabric/warehouse/analytics_model.sql and measures freshness.        *)
(*                                                                         *)
(* A table is a function from keys to rows.  The stores commit while a     *)
(* command runs, a push lands the rows of the tables in files and the      *)
(* replicator merges the file of each table on its own.                    *)
(* SqlOrders, CosmosOrders and OpenMirror model those steps in detail; of  *)
(* a row the command sees the document it comes from, and of an order or a *)
(* header also the Project that a freshness run gave it.                   *)
(*                                                                         *)
(* A command changes nothing that another one reads, except the warehouse, *)
(* which is built by one operator: so one command runs at a time.          *)
(*                                                                         *)
(* AnalyticsInit, AnalyticsSpec and so on carry the name of the module,    *)
(* which Fabric_proofs extends together with FabricSetup.                  *)
(***************************************************************************)
EXTENDS Integers, Sequences, FiniteSets, Functions

CONSTANTS
  Orders,       \* order ids
  Docs,         \* source documents: any order may be ingested with any of them
  Version,      \* the order version of each document
  Blocks,       \* the blocks of each document
  Loans,        \* the rows that each document has in a child table
  Wide,         \* the blocks whose text is not ASCII
  Charges,      \* the CDF blocks of the six sub-types that hold charges, as JSON
  NoDoc,        \* no row
  Built,        \* an earlier build has left its tables, here loaded once
  Kinds,        \* the commands that are run
  DateBatches,  \* the INSERTs that fill DimDate (8 in the code)
  ListLimit,    \* the limit of list_order_ids (20,000 in the code)
  MaxCommits, MaxPushes, MaxCommands, MaxFailures     \* bounds

ASSUME AnalyticsAssumption ==
  /\ Version \in [Docs -> Nat \ {0}]
  /\ DOMAIN Blocks = Docs /\ DOMAIN Loans = Docs
  /\ NoDoc \notin Docs
  /\ IsFiniteSet(Orders) /\ \A d \in Docs : IsFiniteSet(Blocks[d])
  /\ Kinds \subseteq {"full", "block", "summary", "search", "operational", "fabric", "build", "sql", "cosmos"}
  /\ {ListLimit, MaxCommits, MaxPushes, MaxCommands, MaxFailures} \subseteq Nat
  /\ DateBatches \in Nat \ {0}

SqlTables == {"Orders", "OrderJsonBlocks", "Loans"}
Tables == SqlTables \cup {"CosmosOrderItems"}

VARIABLES
  sql,          \* the row of ord.Orders; the child rows are those of its document
  items,        \* the Cosmos items
  landed,       \* the rows of each table that were pushed and are not merged yet
  mirror,       \* the mirrored tables
  facts,        \* the warehouse: what each table was loaded with
  cmd,          \* the command that runs, or the last one
  shrunk,       \* a re-ingest deleted rows from the database for good (history)
  commits, pushes, commands, failures

stores == <<sql, items>>
replica == <<landed, mirror>>
bounds == <<commits, pushes, commands, failures>>
analyticsVars == <<stores, replica, facts, cmd, shrunk, bounds>>

Nothing == [k \in {} |-> k]

Put(f, k, row) == [j \in DOMAIN f \cup {k} |-> IF j = k THEN row ELSE f[j]]

\* The rows of g replace those of f with the same key.
Merged(f, g) == [k \in DOMAIN f \cup DOMAIN g |-> IF k \in DOMAIN g THEN g[k] ELSE f[k]]

\* What a row shows of the document it comes from and of the marker that a
\* freshness run wrote to Project; 0 is none
Row(d) == [doc |-> d, mark |-> 0]

\* The tables of the warehouse; FactLoan and the other dimensions are made and
\* loaded as FactOrderCharge is.
Warehouse == <<"DimDate", "FactOrder", "FactOrderCharge">>

Earlier == [t \in {Warehouse[i] : i \in 1..3} |-> <<[by |-> 0, from |-> "sql", rows |-> {}]>>]

AnalyticsInit ==
  /\ sql = [o \in Orders |-> Row(NoDoc)]
  /\ items = Nothing
  /\ landed = [t \in Tables |-> Nothing]
  /\ mirror = [t \in Tables |-> Nothing]
  /\ facts = IF Built THEN Earlier ELSE Nothing
  /\ cmd = [kind |-> "none", order |-> NoDoc, todo |-> <<>>, seen |-> Nothing, failed |-> {},
            calm |-> FALSE, quiet |-> FALSE]
  /\ shrunk = FALSE
  /\ commits = 0 /\ pushes = 0 /\ commands = 0 /\ failures = 0

----------------------------------------------------------------------------
(* The tables                                                              *)

Stored == {o \in Orders : sql[o].doc # NoDoc}

BlockKeys(o, d) == {<<o, Version[d], b>> : b \in Blocks[d]}

LoanKeys(o, d) == {<<o, l>> : l \in Loans[d]}

\* The rows of a child table: nothing of them but their keys is looked at.
Children(keys(_, _)) ==
  [k \in UNION {keys(o, sql[o].doc) : o \in Stored} |-> Row(NoDoc)]

Rows(t) ==
  CASE t = "Orders" -> Restrict(sql, Stored)
    [] t = "OrderJsonBlocks" -> Children(BlockKeys)
    [] t = "Loans" -> Children(LoanKeys)
    [] t = "CosmosOrderItems" -> items

Header(o, v) == <<o, v, "HEADER">>

Headers(table) == {k \in DOMAIN table : k[3] = "HEADER"}

ChildKeys(o, d) == IF d = NoDoc THEN {} ELSE BlockKeys(o, d) \cup LoanKeys(o, d)

\* Every table of the mirror shows the rows of its store, or more.
Settled ==
  \A t \in Tables :
    /\ landed[t] = Nothing
    /\ \A k \in DOMAIN Rows(t) : k \in DOMAIN mirror[t] /\ mirror[t][k] = Rows(t)[k]

----------------------------------------------------------------------------
(* The stores and the mirrors                                              *)

Running == cmd.todo # <<>>

Commits ==
  /\ commits < MaxCommits
  /\ commits' = commits + 1
  /\ UNCHANGED <<replica, facts, pushes, commands>>

\* What runs notices nothing of a commit (history).
Disturbs == cmd' = [cmd EXCEPT !.calm = FALSE, !.quiet = FALSE] /\ UNCHANGED failures

\* ingest_order of the SQL backend, once it commits: the child rows of the
\* order, of whatever version, are deleted and those of the document inserted.
SqlIngest(o, d) ==
  /\ Commits /\ Disturbs
  /\ sql' = [sql EXCEPT ![o] = Row(d)]
  /\ shrunk' = (shrunk \/ ~ChildKeys(o, sql[o].doc) \subseteq ChildKeys(o, d))
  /\ UNCHANGED items

\* ingest_order of the Cosmos backend, one upsert: the header comes first.
CosmosUpsert(o, d, k) ==
  /\ Commits /\ Disturbs
  /\ k = Header(o, Version[d]) \/ Header(o, Version[d]) \in DOMAIN items
  /\ items' = Put(items, k, Row(IF k = Header(o, Version[d]) THEN d ELSE NoDoc))
  /\ UNCHANGED <<sql, shrunk>>

\* A push of the tables of one backend, one file for each table with rows.  It
\* reads one table after the other, here all at once: a table that it read
\* after a later commit is in the mirror the same as one that a later push
\* read, and whose file is merged first.
Push(tables) ==
  /\ pushes < MaxPushes
  /\ \A t \in tables : landed[t] = Nothing
  /\ pushes' = pushes + 1
  /\ landed' = [t \in Tables |-> IF t \in tables THEN Rows(t) ELSE landed[t]]
  /\ UNCHANGED <<stores, mirror, facts, cmd, shrunk, commits, commands, failures>>

\* The replicator merges the file of a table: nothing is ever deleted.
Merge(t) ==
  /\ landed[t] # Nothing
  /\ mirror' = [mirror EXCEPT ![t] = Merged(@, landed[t])]
  /\ landed' = [landed EXCEPT ![t] = Nothing]
  /\ UNCHANGED <<stores, facts, cmd, shrunk, bounds>>

----------------------------------------------------------------------------
(* Commands and requests                                                   *)

\* analytics_model.sql, the statements that make the tables ...
Definitions == [i \in 1..6 |-> <<IF i % 2 = 1 THEN "drop" ELSE "create", Warehouse[(i + 1) \div 2]>>]

\* ... those that load them, and populate_dim_date
Loading ==
  <<<<"sql", "FactOrder">>, <<"cosmos", "FactOrder">>, <<"sql", "FactOrderCharge">>,
    <<"delete", "DimDate">>>>
  \o [i \in 1..DateBatches |-> <<"client", "DimDate">>]

\* The counts that reconcile_fabric asserts on, in the order of its queries
Counts == <<"srcOrders", "srcBlocks", "fabOrders", "fabBlocks", "fabInvalid", "fabTruncated",
            "srcItems", "srcHeaders", "fabItems", "fabHeaders">>

FabricCounts == {"fabOrders", "fabBlocks", "fabInvalid", "fabTruncated", "fabItems", "fabHeaders"}

Plan(kind) ==
  CASE kind = "full" -> <<"head", "blocks">>
    [] kind = "block" -> <<"join">>
    [] kind = "summary" -> <<"row", "counts", "roles">>
    [] kind = "search" -> <<"rows">>
    [] kind = "operational" -> <<"sqlList", "cosmosList">>
    [] kind = "fabric" -> Counts
    [] kind = "build" -> Definitions \o Loading
    [] kind \in {"sql", "cosmos"} -> <<"write", "push", "poll">>

Begins(kind, o) ==
  /\ ~Running /\ commands < MaxCommands
  /\ commands' = commands + 1
  /\ cmd' = [kind |-> kind, order |-> o, todo |-> Plan(kind), seen |-> Nothing, failed |-> {},
             calm |-> Settled, quiet |-> TRUE]
  /\ UNCHANGED <<stores, replica, facts, shrunk, commits, pushes, failures>>

At(kinds, step) == cmd.kind \in kinds /\ Running /\ Head(cmd.todo) = step

\* The command has seen something and goes on, or ends.
Sees(x) ==
  cmd' = [cmd EXCEPT !.todo = Tail(@), !.seen = Put(@, Head(cmd.todo), x)]

Answers(x) == cmd' = [cmd EXCEPT !.todo = <<>>, !.seen = Put(@, Head(cmd.todo), x)]

ReadsOnly == UNCHANGED <<stores, replica, facts, shrunk, bounds>>

Breaks == failures < MaxFailures /\ failures' = failures + 1

order == cmd.order

\* A query raises, and with it the request or the command.
Fails ==
  /\ Running /\ cmd.kind # "build" /\ Breaks
  /\ cmd.kind = "fabric" => Head(cmd.todo) \notin FabricCounts
  /\ cmd' = [cmd EXCEPT !.todo = <<>>, !.failed = @ \cup {Head(cmd.todo)}]
  /\ UNCHANGED <<stores, replica, facts, shrunk, commits, pushes, commands>>

----------------------------------------------------------------------------
(* FabricOrderRepository                                                   *)

\* The version that the mirrored row of the order names
MirroredVersion == Version[mirror["Orders"][order].doc]

InMirror == order \in DOMAIN mirror["Orders"]

\* get_full_order reads the row of the order ...
ReadHead ==
  /\ At({"full"}, "head")
  /\ IF InMirror THEN Sees(mirror["Orders"][order].doc) ELSE Answers(NoDoc)
  /\ ReadsOnly

\* Mutant: the blocks of every version
AnyBlocks(v) == Restrict(mirror["OrderJsonBlocks"], {k \in DOMAIN mirror["OrderJsonBlocks"] : k[1] = order})

BlocksAt(v) ==
  Restrict(mirror["OrderJsonBlocks"],
           {k \in DOMAIN mirror["OrderJsonBlocks"] : k[1] = order /\ k[2] = v})

\* ... and in a second query the blocks of the version it has read.
ReadBlocks ==
  /\ At({"full"}, "blocks")
  /\ Sees(BlocksAt(Version[cmd.seen["head"]]))
  /\ ReadsOnly

\* get_block joins them in one query.  All the blocks of the order stand for
\* those of one type.
ReadJoined ==
  /\ At({"block"}, "join")
  /\ Sees(IF InMirror THEN BlocksAt(MirroredVersion) ELSE Nothing)
  /\ ReadsOnly

LoansOf(table) == {k \in DOMAIN table : k[1] = order}

\* get_summary reads the row, then the counts, then a property and the roles,
\* all from child tables.
ReadRow ==
  /\ At({"summary"}, "row")
  /\ IF InMirror THEN Sees(mirror["Orders"][order].doc) ELSE Answers(NoDoc)
  /\ ReadsOnly

ReadChildren ==
  /\ At({"summary"}, "counts") \/ At({"summary"}, "roles")
  /\ Sees(LoansOf(mirror["Loans"]))
  /\ ReadsOnly

AtMost(S) == {T \in SUBSET S : Cardinality(T) = IF Cardinality(S) < ListLimit THEN Cardinality(S) ELSE ListLimit}

\* The criteria of a search, as the documents they select: all of them, which
\* is list_order_ids too, or those of one status, state or amount
Criteria == {Docs} \cup {{d} : d \in Docs}

\* search_orders is one query of the orders, of at most a limit of rows.
Matching(wanted) == {p \in DOMAIN mirror["Orders"] : mirror["Orders"][p].doc \in wanted}

ReadMatches(wanted) ==
  /\ At({"search"}, "rows")
  /\ \E os \in AtMost(Matching(wanted)) :
       Sees([wanted |-> wanted, found |-> Restrict(mirror["Orders"], os)])
  /\ ReadsOnly

----------------------------------------------------------------------------
(* reconcile_operational                                                   *)

\* {orderId: version}
SqlList ==
  /\ At({"operational"}, "sqlList")
  /\ \E os \in AtMost(Stored) : Sees([p \in os |-> Version[sql[p].doc]])
  /\ ReadsOnly

\* The same of the headers: of two headers of an order the later one in the
\* answer is in the dictionary, and the query states no order.
CosmosList ==
  /\ At({"operational"}, "cosmosList")
  /\ \E hs \in AtMost(Headers(items)) :
       \E last \in [{h[1] : h \in hs} -> hs] :
         /\ \A p \in DOMAIN last : last[p][1] = p
         /\ LET listed == [p \in DOMAIN last |-> last[p][2]]
                seen == Put(Put(cmd.seen, "cosmosList", listed), "agree", Nothing)
            IN cmd' = [cmd EXCEPT !.seen = seen, !.todo =
                         IF DOMAIN listed \cap DOMAIN seen["sqlList"] = {} THEN <<>> ELSE <<"sqlSummary">>]
  /\ ReadsOnly

\* The orders in both lists: at most 25 of them are compared in depth.
InBoth == DOMAIN cmd.seen["sqlList"] \cap DOMAIN cmd.seen["cosmosList"]

\* Two summaries agree if the rows are of one document and have one Project.
SameSummary(a, b) == a.doc = b.doc /\ a.mark = b.mark

\* The orders whose summaries are not compared yet
Uncompared == InBoth \ DOMAIN cmd.seen["agree"]

\* sql.get_summary, then ...
SqlSummary(p) ==
  /\ At({"operational"}, "sqlSummary") /\ p \in Uncompared
  /\ cmd' = [cmd EXCEPT !.todo = <<"cosmosSummary">>, !.order = p, !.seen = Put(@, "row", sql[p])]
  /\ ReadsOnly

\* ... cosmos.get_summary of the same order, from any of its headers; the last
\* of them ends the check.
CosmosSummary(h) ==
  /\ At({"operational"}, "cosmosSummary")
  /\ h \in Headers(items) /\ h[1] = order
  /\ LET agree == Put(cmd.seen["agree"], order, SameSummary(cmd.seen["row"], items[h]))
     IN cmd' = [cmd EXCEPT !.todo = IF DOMAIN agree = InBoth THEN <<>> ELSE <<"sqlSummary">>,
                           !.seen = Put(@, "agree", agree)]
  /\ ReadsOnly

\* Mutant: orders only in Cosmos are reported and not asserted.
NoneOnlyInSql ==
  /\ DOMAIN cmd.seen["sqlList"] \subseteq DOMAIN cmd.seen["cosmosList"]
  /\ \A p \in InBoth : cmd.seen["sqlList"][p] = cmd.seen["cosmosList"][p]
  /\ \A p \in InBoth : cmd.seen["agree"][p]

\* What the report calls passed
OperationalPassed ==
  /\ DOMAIN cmd.seen["sqlList"] = DOMAIN cmd.seen["cosmosList"]
  /\ \A p \in InBoth : cmd.seen["sqlList"][p] = cmd.seen["cosmosList"][p]
  /\ \A p \in InBoth : cmd.seen["agree"][p]

----------------------------------------------------------------------------
(* reconcile_fabric                                                        *)

BlockRows == mirror["OrderJsonBlocks"]

\* LEN counts characters, PayloadBytes bytes.
OffLength == {k \in DOMAIN BlockRows : k[3] \in Wide}

\* SUM over no rows is NULL, which is not 0.
SumOver(table, n) == IF DOMAIN table = {} THEN -1 ELSE n

CountOf(name) ==
  CASE name = "srcOrders" -> Cardinality(Stored)
    [] name = "srcBlocks" -> Cardinality(DOMAIN Rows("OrderJsonBlocks"))
    [] name = "fabOrders" -> Cardinality(DOMAIN mirror["Orders"])
    [] name = "fabBlocks" -> Cardinality(DOMAIN BlockRows)
    [] name = "fabInvalid" -> SumOver(BlockRows, 0)
    [] name = "fabTruncated" -> SumOver(BlockRows, Cardinality(OffLength))
    [] name = "srcItems" -> Cardinality(DOMAIN items)
    [] name = "srcHeaders" -> Cardinality(Headers(items))
    [] name = "fabItems" -> Cardinality(DOMAIN mirror["CosmosOrderItems"])
    [] name = "fabHeaders" -> Cardinality(Headers(mirror["CosmosOrderItems"]))

SourceOf == [fabOrders |-> "srcOrders", fabBlocks |-> "srcBlocks", fabItems |-> "srcItems",
             fabHeaders |-> "srcHeaders"]

\* What is kept of a count: of the store's the number, of the mirror's whether
\* it is the same, of the two sums whether it is 0
Kept(name, n) ==
  IF name \notin FabricCounts THEN n
  ELSE IF name \in DOMAIN SourceOf THEN cmd.seen[SourceOf[name]] = n
  ELSE n = 0

\* A store's count is not looked at again once it is compared.
Counted(n) ==
  LET name == Head(cmd.todo)
      used == {SourceOf[c] : c \in {name} \cap DOMAIN SourceOf}
  IN Put(Restrict(cmd.seen, DOMAIN cmd.seen \ used), name, Kept(name, n))

Count ==
  /\ cmd.kind = "fabric" /\ Running
  /\ cmd' = [cmd EXCEPT !.todo = Tail(@), !.seen = Counted(CountOf(Head(cmd.todo)))]
  /\ ReadsOnly

\* A query of the warehouse raises: scalar() answers 0, its default.
CountFails ==
  /\ cmd.kind = "fabric" /\ Running /\ Head(cmd.todo) \in FabricCounts /\ Breaks
  /\ cmd' = [cmd EXCEPT !.todo = Tail(@), !.seen = Counted(0), !.failed = @ \cup {Head(cmd.todo)}]
  /\ UNCHANGED <<stores, replica, facts, shrunk, commits, pushes, commands>>

\* Mutant: the blocks are counted and not asserted.
OrdersMatch == cmd.seen["fabOrders"]

\* rowCountsMatch of sqlToFabric
SqlRowsMatch == cmd.seen["fabOrders"] /\ cmd.seen["fabBlocks"]

JsonIntact == cmd.seen["fabInvalid"] /\ cmd.seen["fabTruncated"]

CosmosRowsMatch == cmd.seen["fabItems"] /\ cmd.seen["fabHeaders"]

FabricPassed == SqlRowsMatch /\ JsonIntact /\ CosmosRowsMatch

----------------------------------------------------------------------------
(* run_analytics.py --build                                                *)

statement == Head(cmd.todo)
target == statement[2]

\* The blocks whose lines are loaded.
\* Mutant: joined to their order without the version
BlocksOfOrders == {k \in DOMAIN BlockRows : k[1] \in DOMAIN mirror["Orders"] /\ k[3] \in Charges}

CurrentBlocks ==
  {k \in DOMAIN BlockRows :
     /\ k[1] \in DOMAIN mirror["Orders"] /\ k[2] = Version[mirror["Orders"][k[1]].doc]
     /\ k[3] \in Charges}

\* The rows that a statement selects: the orders, the headers, the charge
\* blocks of the version that the order names
Selected ==
  CASE statement = <<"sql", "FactOrder">> -> DOMAIN mirror["Orders"]
    [] statement = <<"cosmos", "FactOrder">> -> Headers(mirror["CosmosOrderItems"])
    [] statement = <<"sql", "FactOrderCharge">> -> CurrentBlocks
    [] OTHER -> {}

Load == [by |-> commands, from |-> statement[1], rows |-> Selected]

Exists == target \in DOMAIN facts

\* DROP TABLE IF EXISTS, CREATE TABLE, DELETE and INSERT: what a statement
\* needs to run, and what it leaves
Runs == IF statement[1] = "create" THEN ~Exists ELSE statement[1] = "drop" \/ Exists

Executed ==
  CASE statement[1] = "drop" -> Restrict(facts, DOMAIN facts \ {target})
    [] statement[1] \in {"create", "delete"} -> Put(facts, target, <<>>)
    [] OTHER -> Put(facts, target, Append(facts[target], Load))

Building == cmd.kind = "build" /\ Running

StatementRuns ==
  /\ Building /\ Runs
  /\ facts' = Executed
  /\ cmd' = [cmd EXCEPT !.todo = Tail(@)]
  /\ UNCHANGED <<stores, replica, shrunk, bounds>>

\* build_model records the statement and goes on; populate_dim_date does not
\* catch it, so the command ends without a report.
StatementFails ==
  /\ Building
  /\ IF Runs THEN Breaks ELSE UNCHANGED failures
  /\ cmd' = [cmd EXCEPT !.todo = IF Len(@) <= DateBatches + 1 THEN <<>> ELSE Tail(@),
                        !.failed = @ \cup {statement}]
  /\ UNCHANGED <<stores, replica, facts, shrunk, commits, pushes, commands>>

----------------------------------------------------------------------------
(* measure_freshness                                                       *)

Backends == {"sql", "cosmos"}

\* FRESHNESS-{seconds}: no two runs begin in one second.
Marker == commands

Marks(row) == [row EXCEPT !.mark = Marker]

\* update_order_header of an order that list_order_ids returned; of Cosmos, of
\* any header of it (read and put back: CosmosOrders has the two steps)
WriteMarker ==
  /\ At(Backends, "write")
  /\ IF cmd.kind = "sql"
     THEN \E p \in Stored :
            /\ sql' = [sql EXCEPT ![p] = Marks(@)]
            /\ cmd' = [cmd EXCEPT !.order = p, !.todo = Tail(@)]
            /\ UNCHANGED items
     ELSE \E h \in Headers(items) :
            /\ items' = [items EXCEPT ![h] = Marks(@)]
            /\ cmd' = [cmd EXCEPT !.order = h[1], !.todo = Tail(@)]
            /\ UNCHANGED sql
  /\ commits' = commits + 1
  /\ UNCHANGED <<replica, facts, shrunk, pushes, commands, failures>>

\* SystemExit: no orders available
NothingToWrite ==
  /\ At(Backends, "write")
  /\ IF cmd.kind = "sql" THEN Stored = {} ELSE Headers(items) = {}
  /\ cmd' = [cmd EXCEPT !.todo = <<>>]
  /\ ReadsOnly

\* The push that it runs as another process is among those of Push; how it
\* ended is printed and not looked at.
PushReturns ==
  /\ At(Backends, "push")
  /\ cmd' = [cmd EXCEPT !.todo = Tail(@)]
  /\ ReadsOnly

\* The rows with the marker in the mirrored table
Polled ==
  IF cmd.kind = "sql"
  THEN {mirror["Orders"][p] : p \in {q \in DOMAIN mirror["Orders"] : q = order}}
  ELSE {mirror["CosmosOrderItems"][h] : h \in {g \in Headers(mirror["CosmosOrderItems"]) : g[1] = order}}

Found == {row \in Polled : row.mark = Marker}

PollFinds ==
  /\ At(Backends, "poll") /\ Found # {}
  /\ Sees(Found)
  /\ ReadsOnly

\* The deadline passes between two polls: a poll that finds nothing, or raises,
\* changes nothing.
PollGivesUp ==
  /\ At(Backends, "poll")
  /\ Sees({})
  /\ ReadsOnly

----------------------------------------------------------------------------
(* The specification                                                       *)

\* A statement that only defines or fills a table reads nothing of the stores
\* and the mirrors: what they do at the same time, they can do before it.
Unseen == Building /\ statement \notin {<<b, t>> : b \in Backends, t \in SqlTables \cup {Warehouse[i] : i \in 2..3}}

\* Bound: the stores and the mirrors stop with the last command.
Environment ==
  /\ ~Unseen /\ (Running \/ commands < MaxCommands)
  /\ \/ \E p \in Orders, d \in Docs :
          \/ SqlIngest(p, d)
          \/ \E b \in Blocks[d] \cup {"HEADER"} : CosmosUpsert(p, d, <<p, Version[d], b>>)
     \/ Push(SqlTables) \/ Push({"CosmosOrderItems"})
     \/ \E t \in Tables : Merge(t)

CommandStep ==
  \/ ReadHead \/ ReadBlocks \/ ReadJoined \/ ReadRow \/ ReadChildren
  \/ \E wanted \in Criteria : ReadMatches(wanted)
  \/ SqlList \/ CosmosList \/ Count \/ CountFails
  \/ \E p \in Orders : SqlSummary(p)
  \/ \E h \in Headers(items) : CosmosSummary(h)
  \/ StatementRuns \/ StatementFails
  \/ WriteMarker \/ NothingToWrite \/ PushReturns \/ PollFinds \/ PollGivesUp
  \/ Fails

AnalyticsNext == Environment \/ CommandStep \/ \E kind \in Kinds, p \in Orders : Begins(kind, p)

AnalyticsSpec == AnalyticsInit /\ [][AnalyticsNext]_analyticsVars

Done(kinds) == cmd.kind \in kinds /\ ~Running /\ cmd.failed = {}

AnalyticsTypeOK ==
  /\ sql \in [Orders -> [doc : Docs \cup {NoDoc}, mark : Nat]]
  /\ \A k \in DOMAIN items :
       /\ \E p \in Orders, d \in Docs : k = Header(p, Version[d]) \/ k \in BlockKeys(p, d)
       /\ items[k] \in [doc : Docs \cup {NoDoc}, mark : Nat]
  /\ DOMAIN landed = Tables /\ DOMAIN mirror = Tables
  /\ DOMAIN facts \subseteq {Warehouse[i] : i \in 1..3}
  /\ cmd.kind \in Kinds \cup {"none"} /\ cmd.calm \in BOOLEAN /\ cmd.quiet \in BOOLEAN
  /\ shrunk \in BOOLEAN
  /\ commits <= MaxCommits + commands /\ pushes <= MaxPushes
  /\ commands <= MaxCommands /\ failures <= MaxFailures

\* What a full order or a block read returns is of the version that the answer
\* names, whatever the tables of the mirror show by then; and if the mirror had
\* caught up and nothing was committed meanwhile, no block of the order is
\* missing and no order that is stored is not found (fabric_repository.py:173-219).
Served == IF cmd.kind = "full" THEN cmd.seen["blocks"] ELSE cmd.seen["join"]

ReadsAreOfOneVersion ==
  Done({"full", "block"}) =>
    \/ cmd.kind = "full" /\ cmd.seen["head"] = NoDoc /\ (cmd.calm => order \notin Stored)
    \/ /\ \A j, k \in DOMAIN Served : j[1] = order /\ j[2] = k[2]
       /\ cmd.kind = "full" => \A k \in DOMAIN Served : k[2] = Version[cmd.seen["head"]]
       /\ cmd.calm /\ order \in Stored => BlockKeys(order, sql[order].doc) \subseteq DOMAIN Served

\* If the mirror had caught up and nothing was committed meanwhile, the counts
\* and the roles of a summary are those of the child rows of the order, as
\* long as no re-ingest deleted one (fabric_repository.py:108-171).
SettledSummaryIsExact ==
  Done({"summary"}) /\ cmd.calm /\ ~shrunk /\ order \in Stored =>
    /\ cmd.seen["row"] = sql[order].doc
    /\ cmd.seen["counts"] = LoanKeys(order, sql[order].doc)
    /\ cmd.seen["roles"] = cmd.seen["counts"]

\* "Do the two operational stores hold the same orders": the check passes only
\* if they do, each order with its current version, unless something was
\* committed meanwhile or the lists were cut (reconciliation.py:54-124).
PassMeansTheSameOrders ==
  Done({"operational"}) /\ cmd.quiet /\ OperationalPassed
    /\ Cardinality(Stored) <= ListLimit /\ Cardinality(Headers(items)) <= ListLimit =>
    /\ {h[1] : h \in Headers(items)} = Stored
    /\ \A p \in Stored : Header(p, Version[sql[p].doc]) \in Headers(items)

\* If the mirror had caught up and nothing was committed meanwhile, a search has
\* the rows of the orders in the database that it selects, below the limit, and
\* no other: no order is ever deleted (fabric_repository.py:221-266).
SettledSearchIsExact ==
  Done({"search"}) /\ cmd.calm =>
    LET answer == cmd.seen["rows"]
        selected == {p \in Stored : sql[p].doc \in answer.wanted}
    IN Cardinality(selected) <= ListLimit => answer.found = Restrict(sql, selected)

\* The reads of FabricOrderRepository together
FabricReadsAreRight == ReadsAreOfOneVersion /\ SettledSummaryIsExact /\ SettledSearchIsExact

\* "Did every mirrored row arrive": the check passes only if every order, block
\* and item is in the mirror, whatever queries failed and whatever was merged
\* meanwhile, as long as no re-ingest has deleted a row and nothing was
\* committed meanwhile (reconciliation.py:132-237).
FabricReport == cmd.kind = "fabric" /\ ~Running /\ FabricCounts \subseteq DOMAIN cmd.seen

Arrived(t) == DOMAIN Rows(t) \subseteq DOMAIN mirror[t]

PassMeansArrived ==
  FabricReport /\ FabricPassed /\ cmd.quiet =>
    /\ Arrived("Orders") /\ Arrived("CosmosOrderItems")
    /\ ~shrunk => Arrived("OrderJsonBlocks")

\* The check is no false alarm: caught up and undisturbed it passes, if there
\* is a block at all, if all text is ASCII, and if no re-ingest deleted a row.
SettledPasses ==
  FabricReport /\ cmd.calm /\ cmd.failed = {} /\ ~shrunk /\ DOMAIN BlockRows # {} /\ OffLength = {} =>
    FabricPassed

\* The verdict of reconcile_fabric, both ways
FabricVerdictIsRight == PassMeansArrived /\ SettledPasses

\* A table of the warehouse none of whose statements failed was loaded once
\* from each of its sources, by this build; and if the mirror had caught up and
\* nothing was committed meanwhile, with every order of SQL, with every header
\* of Cosmos, and with every charge block in SQL, none of them of an earlier
\* version and, as long as no re-ingest has deleted a row, no other
\* (run_analytics.py:135-153, analytics_model.sql).
LoadsOf(t) == IF t = "FactOrder" THEN {"sql", "cosmos"} ELSE IF t = "DimDate" THEN {"client"} ELSE {"sql"}

RowsOfLoad(t, from) == UNION {facts[t][i].rows : i \in {j \in DOMAIN facts[t] : facts[t][j].from = from}}

\* The charge blocks in the database
ChargeRows == {k \in DOMAIN Rows("OrderJsonBlocks") : k[3] \in Charges}

OkTableIsOneLoad ==
  cmd.kind = "build" /\ ~Running =>
    \A t \in {Warehouse[i] : i \in 1..3} :
      (\A stmt \in cmd.failed : stmt[2] # t) =>
        /\ t \in DOMAIN facts
        /\ Len(facts[t]) = IF t = "DimDate" THEN DateBatches ELSE Cardinality(LoadsOf(t))
        /\ \A i \in DOMAIN facts[t] : facts[t][i].by = commands
        /\ {facts[t][i].from : i \in DOMAIN facts[t]} = LoadsOf(t)
        /\ cmd.calm =>
             CASE t = "FactOrder" -> RowsOfLoad(t, "sql") = Stored /\ RowsOfLoad(t, "cosmos") = Headers(items)
               [] t = "FactOrderCharge" ->
                    /\ ChargeRows \subseteq RowsOfLoad(t, "sql")
                    /\ \A k \in RowsOfLoad(t, "sql") : k[2] = Version[sql[k[1]].doc]
                    /\ ~shrunk => RowsOfLoad(t, "sql") = ChargeRows
               [] OTHER -> TRUE

\* Not kept: "did every mirrored row arrive" (reconciliation.py:8).  A re-ingest
\* deletes block rows that the mirror keeps: they make up in the count for the
\* ones that have not arrived.
EveryRowArrived == FabricReport /\ FabricPassed /\ cmd.quiet => Arrived("OrderJsonBlocks")

\* Not kept: "same grain" of the two loads of FactOrder (analytics_model.sql:189).
\* The Cosmos load has a row for every version of an order.
SameGrain ==
  cmd.kind = "build" /\ ~Running /\ "FactOrder" \in DOMAIN facts =>
    \A j, k \in RowsOfLoad("FactOrder", "cosmos") : j[1] = k[1] => j = k

\* Not kept: the charges are those of the orders in the database.  A block that
\* a re-ingest of the same version deleted stays in the mirror and is loaded.
ChargesAreStored ==
  /\ cmd.kind = "build" /\ ~Running /\ cmd.calm /\ cmd.failed = {}
  => RowsOfLoad("FactOrderCharge", "sql") = ChargeRows

\* Not kept: "if mirroring had truncated it" the load would show it; "survive
\* intact" (reconciliation.py:9) is also answered by queries that failed.
IntactIsVerified == FabricReport /\ JsonIntact => cmd.failed \cap {"fabInvalid", "fabTruncated"} = {}

\* Not kept: a full order is read as from SQL (fabric_repository.py:43-45).  The
\* row of the order can be ahead of its blocks.
FullReadIsNotHollow ==
  Done({"full"}) /\ cmd.seen["head"] # NoDoc => cmd.seen["blocks"] # Nothing
=============================================================================
