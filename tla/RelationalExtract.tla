-------------------------- MODULE RelationalExtract --------------------------
(***************************************************************************)
(* The relational projection of an order,                                  *)
(* ingestion/parser/relational_extract.py, and what becomes of it: the     *)
(* child tables of the hybrid SQL model, whose property and loan keys are  *)
(* primary keys over ALL orders, and the summary that Cosmos stores on the *)
(* header item.  Both back ends answer /orders/{id}/summary from theirs.   *)
(*                                                                         *)
(* A document is a record of sections, each a sequence of entries.  An     *)
(* entry that is not a JSON object has dict = FALSE.  What may be absent   *)
(* is a set: {} or the singleton of its value.  An identifier is           *)
(* <<"guid", g, 0>> for a GUID of the source, and <<order, kind, index>>   *)
(* for the surrogate that hashes these three.                              *)
(***************************************************************************)
EXTENDS Integers, Sequences, FiniteSets, Functions, FiniteSetsExt

CONSTANTS
  Orders,       \* the order identifiers
  Plans,        \* for each order, the documents that may be ingested for it
  MaxIngests    \* bound on the ingests of each back end

Sections == {"Buyers", "Sellers", "Lenders", "TitleCompanies", "Others"}

\* What may be absent is empty or a singleton.
WellFormed(d) ==
  /\ \A s \in Sections \cup {"Properties", "Loans"} :
       /\ DOMAIN d[s] \subseteq Nat /\ IsFiniteSet(DOMAIN d[s])
       /\ \A i \in DOMAIN d[s] : \A g \in d[s][i].guid : d[s][i].guid = {g}
  /\ \A i \in DOMAIN d.Loans : \A g \in d.Loans[i].lender.guid : d.Loans[i].lender.guid = {g}

ASSUME ExtractAssumption ==
  /\ MaxIngests \in Nat
  /\ "guid" \notin Orders
  /\ \A o \in Orders : \A d \in Plans[o] : WellFormed(d)

VARIABLES
  blocks,         \* ord.Orders and ord.OrderJsonBlocks: the document of each order
  columns,        \* the searched columns of ord.Orders
  properties,     \* ord.Properties
  parties,        \* ord.Parties: a name for each PartyId
  orderParties,   \* ord.OrderParties
  loans,          \* ord.Loans
  items,          \* the block items of each order in Cosmos
  header,         \* the summary on its header item
  refused,        \* the ingests that broke a primary key (history)
  count           \* ingests of each back end

sqlVars == <<blocks, columns, properties, parties, orderParties, loans, refused>>
cosmosVars == <<items, header>>
vars == <<sqlVars, cosmosVars, count>>

-----------------------------------------------------------------------------
(* Keys *)

Guid(g) == <<"guid", g, 0>>

DictsOf(section) == {i \in DOMAIN section : section[i].dict}

\* The GUID of the source is the key of the first entry that carries it.
IsFirst(section, i) ==
  \A j \in DictsOf(section) : j < i => section[j].guid # section[i].guid

\* Mutant: the surrogate does not say which order it is of.
OrderlessKey(o, kind, section, i) ==
  IF section[i].guid # {} /\ IsFirst(section, i)
  THEN Guid(CHOOSE g \in section[i].guid : TRUE)
  ELSE <<"row", kind, i>>

UniqueId(o, kind, section, i) ==
  IF section[i].guid # {} /\ IsFirst(section, i)
  THEN Guid(CHOOSE g \in section[i].guid : TRUE)
  ELSE <<o, kind, i>>

PropertyRows(o, d) ==
  {[key |-> UniqueId(o, "prop", d.Properties, i), order |-> o, seq |-> i,
    place |-> d.Properties[i].place] : i \in DictsOf(d.Properties)}

-----------------------------------------------------------------------------
(* Parties.  A mention is a call of add_party; at is when it is made. *)

SectionRole == [Buyers |-> "BUYER", Sellers |-> "SELLER", Lenders |-> "LENDER",
                TitleCompanies |-> "TITLE_COMPANY", Others |-> "OTHER"]

SectionRank == [Buyers |-> 1, Sellers |-> 2, Lenders |-> 3, TitleCompanies |-> 4, Others |-> 5]

\* said is the role that the description of an entry of Others comes to.
Role(s, entry) ==
  IF s = "Others" /\ entry.said # "" THEN entry.said ELSE SectionRole[s]

PartyId(o, entry, role, seq) ==
  IF entry.guid = {} THEN <<o, role, seq>> ELSE Guid(CHOOSE g \in entry.guid : TRUE)

Mention(o, rank, entry, role, i, seq) ==
  [at |-> <<rank, i>>, pid |-> PartyId(o, entry, role, seq), role |-> role, seq |-> seq,
   name |-> entry.name]

SectionMentions(o, d) ==
  UNION {{Mention(o, SectionRank[s], d[s][i], Role(s, d[s][i]), i, i) : i \in DictsOf(d[s])} :
          s \in Sections}

\* Mutants of add_party for a lender: never; whoever mentioned it before.
AddsNone(o, d, i) == FALSE

AddsAlways(o, d, i) == d.Loans[i].lender.guid # {}

\* The lender of a loan is added when no party has its GUID yet.
AddsLender(o, d, i) ==
  LET lender == d.Loans[i].lender
  IN  /\ lender.guid # {}
      /\ \A m \in SectionMentions(o, d) : m.pid # PartyId(o, lender, "LENDER", 900 + i)
      /\ \A j \in DictsOf(d.Loans) : j < i => d.Loans[j].lender.guid # lender.guid

LenderMentions(o, d) ==
  {Mention(o, 6, d.Loans[i].lender, "LENDER", i, 900 + i) :
     i \in {j \in DictsOf(d.Loans) : AddsLender(o, d, j)}}

Mentions(o, d) == SectionMentions(o, d) \cup LenderMentions(o, d)

Before(m, n) == m.at[1] < n.at[1] \/ (m.at[1] = n.at[1] /\ m.at[2] < n.at[2])

\* setdefault: the first mention of a party names it.
PartyRows(o, d) ==
  [pid \in {m.pid : m \in Mentions(o, d)} |->
     (CHOOSE m \in Mentions(o, d) :
        /\ m.pid = pid
        /\ \A n \in Mentions(o, d) : n.pid = pid => ~Before(n, m)).name]

\* The rows are a set: the ingest drops a repeated one.
OrderPartyRows(o, d) ==
  {[order |-> o, pid |-> m.pid, role |-> m.role, seq |-> m.seq] : m \in Mentions(o, d)}

-----------------------------------------------------------------------------
(* Loans and amounts *)

\* to_decimal(Amount) or to_decimal(AmountFinanced): a zero counts as absent.
LoanAmount(loan) == IF loan.amount \in {{}, {0}} THEN loan.financed ELSE loan.amount

LoanRows(o, d) ==
  {[key |-> UniqueId(o, "loan", d.Loans, i), order |-> o, seq |-> i,
    lender |-> d.Loans[i].lender.guid, amount |-> LoanAmount(d.Loans[i])] :
     i \in DictsOf(d.Loans)}

Priced(rows) == {r \in rows : r.amount # {}}

Cents(r) == CHOOSE n \in r.amount : TRUE

\* SUM(LoanAmount): the sum of no row is NULL.
SumOf(rows) ==
  IF Priced(rows) = {} THEN {} ELSE {MapThenSumSet(Cents, Priced(rows))}

\* sum(...) or None: neither is a sum of zero.
SumOrNone(rows) == SumOf(rows) \ {0}

Highest(rows) ==
  IF Priced(rows) = {} THEN {} ELSE {Max({Cents(r) : r \in Priced(rows)})}

\* SELECT TOP 1 ... ORDER BY Sequence, and properties[0].
FirstPlace(rows) ==
  {r.place : r \in {q \in rows : \A p \in rows : q.seq <= p.seq}}

-----------------------------------------------------------------------------
(* The summary of Cosmos, from the projection, and of SQL, from the tables *)

Summary(o, d) ==
  [place |-> FirstPlace(PropertyRows(o, d)),
   properties |-> Cardinality(PropertyRows(o, d)),
   loans |-> Cardinality(LoanRows(o, d)),
   parties |-> Cardinality(DOMAIN PartyRows(o, d)),
   max |-> Highest(LoanRows(o, d)),
   total |-> SumOrNone(LoanRows(o, d)),
   roles |-> {m.role : m \in Mentions(o, d)}]

Of(table, o) == {r \in table : r.order = o}

SummaryOfTables(o) ==
  [place |-> FirstPlace(Of(properties, o)),
   properties |-> Cardinality(Of(properties, o)),
   loans |-> Cardinality(Of(loans, o)),
   parties |-> Cardinality(Of(orderParties, o)),
   max |-> columns[o],
   total |-> SumOf(Of(loans, o)),
   roles |-> {r.role : r \in Of(orderParties, o)}]

-----------------------------------------------------------------------------
(* The ingests *)

Init ==
  /\ blocks = [o \in Orders |-> {}] /\ columns = [o \in Orders |-> {}]
  /\ properties = {} /\ parties = <<>> /\ orderParties = {} /\ loans = {}
  /\ items = [o \in Orders |-> {}] /\ header = [o \in Orders |-> {}]
  /\ refused = {}
  /\ count = [sql |-> 0, cosmos |-> 0]

\* Mutant: the rows of the order stay.
WithoutNone(table, o) == table

\* DELETE FROM a child table WHERE OrderId = the order
Without(table, o) == table \ Of(table, o)

\* The primary key of ord.Properties and of ord.Loans
KeyBreaks(table, rows) ==
  \/ \E r \in table, n \in rows : r.key = n.key
  \/ \E m, n \in rows : m # n /\ m.key = n.key

Breaks(o, d) ==
  \/ KeyBreaks(Without(properties, o), PropertyRows(o, d))
  \/ KeyBreaks(Without(loans, o), LoanRows(o, d))

\* The transaction of SqlOrderRepository.ingest_order, which commits ...
SqlIngests(o, d) ==
  /\ count.sql < MaxIngests
  /\ ~Breaks(o, d)
  /\ blocks' = [blocks EXCEPT ![o] = {d}]
  /\ columns' = [columns EXCEPT ![o] = Highest(LoanRows(o, d))]
  /\ properties' = Without(properties, o) \cup PropertyRows(o, d)
  /\ parties' = [p \in DOMAIN PartyRows(o, d) \cup DOMAIN parties |->
                   IF p \in DOMAIN PartyRows(o, d) THEN PartyRows(o, d)[p] ELSE parties[p]]
  /\ orderParties' = Without(orderParties, o) \cup OrderPartyRows(o, d)
  /\ loans' = Without(loans, o) \cup LoanRows(o, d)
  /\ count' = [count EXCEPT !.sql = @ + 1]
  /\ UNCHANGED <<refused, cosmosVars>>

\* ... or is rolled back by a primary key.
SqlRefuses(o, d) ==
  /\ count.sql < MaxIngests
  /\ Breaks(o, d)
  /\ refused' = refused \cup {<<o, d>>}
  /\ count' = [count EXCEPT !.sql = @ + 1]
  /\ UNCHANGED <<blocks, columns, properties, parties, orderParties, loans, cosmosVars>>

CosmosIngests(o, d) ==
  /\ count.cosmos < MaxIngests
  /\ items' = [items EXCEPT ![o] = {d}]
  /\ header' = [header EXCEPT ![o] = {Summary(o, d)}]
  /\ count' = [count EXCEPT !.cosmos = @ + 1]
  /\ UNCHANGED sqlVars

Done ==
  /\ count = [sql |-> MaxIngests, cosmos |-> MaxIngests]
  /\ UNCHANGED vars

Next ==
  \/ \E o \in Orders : \E d \in Plans[o] : SqlIngests(o, d) \/ SqlRefuses(o, d) \/ CosmosIngests(o, d)
  \/ Done

Spec == Init /\ [][Next]_vars

-----------------------------------------------------------------------------
(* What the tables promise *)

\* Every column of the tables is of the kind of rows that the ingest writes.
TypeOK ==
  /\ \A t \in {blocks, columns, items, header} : DOMAIN t = Orders
  /\ \A o \in Orders : blocks[o] \subseteq Plans[o] /\ items[o] \subseteq Plans[o]
  /\ \A r \in properties \cup orderParties \cup loans : r.order \in Orders
  /\ refused \subseteq UNION {{o} \X Plans[o] : o \in Orders}
  /\ DOMAIN count = {"sql", "cosmos"}

\* The rows of an order are the projection of the document that its blocks
\* hold, whatever other orders were ingested or refused in between, and
\* whatever was ingested for it before: the delete and reinsert of
\* ingest_order, sql_repository.py:491-556.
TablesFollowTheDocument ==
  \A o \in Orders :
    /\ Of(properties, o) = UNION {PropertyRows(o, d) : d \in blocks[o]}
    /\ Of(orderParties, o) = UNION {OrderPartyRows(o, d) : d \in blocks[o]}
    /\ Of(loans, o) = UNION {LoanRows(o, d) : d \in blocks[o]}

\* Every role of an order is that of a party, the foreign key FK_OP_Parties,
\* and the lender of a loan is a party of the same order: LenderPartyId has
\* no foreign key, it is add_party, called for the lenders that no section
\* mentions, that makes the join meet a row, relational_extract.py:195-198.
LendersAreParties ==
  /\ \A r \in orderParties : r.pid \in DOMAIN parties
  /\ \A l \in loans : \A g \in l.lender :
       \E r \in orderParties : r.order = l.order /\ r.pid = Guid(g)

\* The GUIDs by which a document names its properties and its loans.
GuidsOf(section) == UNION {section[i].guid : i \in DictsOf(section)}

HeldByAnother(o, d) ==
  \E q \in Orders \ {o} : \E e \in blocks[q] :
    \/ GuidsOf(d.Properties) \cap GuidsOf(e.Properties) # {}
    \/ GuidsOf(d.Loans) \cap GuidsOf(e.Loans) # {}

RefusedByAnother ==
  \A o \in Orders : \A d \in Plans[o] : <<o, d>> \in refused' \ refused => HeldByAnother(o, d)

\* An order keeps its rows to itself: SQL refuses an ingest only when ANOTHER
\* order holds a property or a loan with a GUID of the document.  Neither a
\* GUID twice in one document nor a second ingest of the order is refused,
\* _unique_id, relational_extract.py:75-90.
OnlyAnotherOrderRefuses == [][RefusedByAnother]_vars

\* A document whose sections give nobody two roles, or two places in one, and
\* whose loans do not add up to zero
PartiesOnce(o, d) ==
  \A m, n \in SectionMentions(o, d) : m.pid = n.pid => m.role = n.role /\ m.seq = n.seq

Plain(o, d) == PartiesOnce(o, d) /\ SumOf(LoanRows(o, d)) # {0}

\* Two back ends that hold the same document of an order answer the same
\* summary, "Both repositories must produce this exact shape",
\* relational_extract.py:251: SQL by counting and adding up its rows, Cosmos
\* from the projection, as long as the document is a plain one.
SummariesAgree ==
  \A o \in Orders : \A d \in blocks[o] \cap items[o] :
    Plain(o, d) => header[o] = {SummaryOfTables(o)}

\* The same of every document, as the contract tests state it,
\* test_four_backend_equivalence.py:156.  It does not hold: SQL counts the
\* rows of OrderParties and Cosmos the parties, and a total of 0.00 is null
\* in Cosmos only.
SummariesAlwaysAgree ==
  \A o \in Orders : \A d \in blocks[o] \cap items[o] :
    header[o] = {SummaryOfTables(o)}

\* A document that both back ends were given is what both hold, as the write
\* benchmark expects of its "version" shape, run_write_bench.py:115-121.  It
\* does not hold: the documents it writes take their GUIDs from 1000 indices
\* whatever the order, and a GUID that another order holds is refused by SQL
\* alone.
BackendsHoldTheSame ==
  \A o \in Orders : \A d \in items[o] : <<o, d>> \notin refused

=============================================================================
