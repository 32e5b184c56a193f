----------------------------- MODULE CosmosOrders -----------------------------
(***************************************************************************)
(* One order in Cosmos DB: CosmosOrderRepository of                        *)
(* app/repositories/cosmos_repository.py, with callers that run at the     *)
(* same time.                                                              *)
(*                                                                         *)
(* An order version is a header item and one item per block, or several    *)
(* per block that the size guard cut into chunks.  ingest_order upserts    *)
(* them one at a time and deletes nothing: there is no transaction, and    *)
(* what an upsert has stored stays when a later one raises.                *)
(*                                                                         *)
(* Cosmos is external: an upsert or a page of a query is one step, and a   *)
(* query for the items of a version may take several pages.  A value is    *)
(* its stamp: the document that wrote it, or the client that edited it.    *)
(* Two different contents of one block share their fields, so the one that *)
(* reassemble applies last is the one that is seen.                        *)
(*                                                                         *)
(* CosmosInit, CosmosSpec and so on carry the name of the store: the       *)
(* module is extended together with RelationalExtract by Stores_proofs.    *)
(***************************************************************************)
EXTENDS Integers, FiniteSets, Functions

CONSTANTS
  Writers,      \* callers that ingest and edit
  Readers,      \* callers that read: a caller keeps nothing from call to call
  Docs,         \* the source documents of this order
  Version,      \* the order version of each document
  Keys,         \* keys of logical blocks (type, sub-type, sequence)
  Parts,        \* Parts[d][k]: 0 if d has no block k, 1 if it fits one item, else its chunks
  MaxTries,     \* the attempts at one upsert (6 in the code)
  NoDoc         \* the client ingests no document

Clients == Writers \cup Readers

ASSUME CosmosAssumption ==
  /\ Version \in [Docs -> Nat \ {0}]
  /\ Parts \in [Docs -> [Keys -> Nat]]
  /\ MaxTries \in Nat \ {0}
  /\ Clients \cap Docs = {}
  /\ NoDoc \notin Docs
  /\ "HEADER" \notin Keys

VARIABLES
  store,        \* the items of this order, by id
  at,           \* what each client does next
  doc,          \* the document each client ingests, or NoDoc
  todo,         \* the ids it has still to upsert
  tries,        \* the failed attempts at the current upsert
  got,          \* what each client has read so far, and at last returned
  writers,      \* the documents and clients that began to write blocks of a version (history)
  complete,     \* the documents whose ingest_order returned, by version (history)
  last          \* the version of the last of them (history)

cosmosOrderVars == <<store, at, doc, todo, tries, got, writers, complete, last>>

Versions == {Version[d] : d \in Docs}

----------------------------------------------------------------------------
(* Items                                                                   *)

HeaderId(v) == <<v, "HEADER", 0>>

\* Block.key has a suffix only if there are several chunks: part 0 is a whole
\* block, parts 1, 2, ... are chunks.
BlockIds(v, k, n) == IF n <= 1 THEN {<<v, k, 0>>} ELSE {<<v, k, i>> : i \in 1..n}

\* build_items
ItemIds(d) ==
  {HeaderId(Version[d])} \cup
  UNION {BlockIds(Version[d], k, Parts[d][k]) : k \in {j \in Keys : Parts[d][j] > 0}}

Item(d, id) ==
  [by |-> d, count |-> IF id[2] \in Keys THEN Parts[d][id[2]] ELSE 1]

Put(old, id, item) == [i \in DOMAIN old \cup {id} |-> IF i = id THEN item ELSE old[i]]

AtVersion(v) == Restrict(store, {id \in DOMAIN store : id[1] = v})

ChunkIds(seen, k) == {id \in DOMAIN seen : id[2] = k /\ id[3] > 0}

WholeIds(seen, k) == {id \in DOMAIN seen : id[2] = k /\ id[3] = 0}

\* merge_chunks raises ValueError when a block has not the number of chunks
\* that its first one announces.
Raises(seen) ==
  \E k \in Keys : \E id \in ChunkIds(seen, k) :
    /\ \A other \in ChunkIds(seen, k) : id[3] <= other[3]
    /\ seen[id].count # Cardinality(ChunkIds(seen, k))

\* Whose content of a block is seen.  merge_chunks puts the merged chunks
\* after the whole blocks, and reassemble lets the later one win.
Shown(seen, k) ==
  {seen[id].by : id \in IF ChunkIds(seen, k) # {} THEN ChunkIds(seen, k) ELSE WholeIds(seen, k)}

\* The items of parts q read back as those of document d, header edits aside.
ReadsAs(seen, d, q) ==
  /\ "HEADER" \in q => /\ HeaderId(Version[d]) \in DOMAIN seen
                       /\ seen[HeaderId(Version[d])].by = d
  /\ ~Raises(seen)
  /\ \A k \in q \cap Keys : Shown(seen, k) = IF Parts[d][k] > 0 THEN {d} ELSE {}

\* _find_header_by_order: TOP 1 of all the headers of the order, of whatever
\* version, in no stated order.
FoundVersions == {v \in Versions : HeaderId(v) \in DOMAIN store}

Nothing == [kind |-> "nothing"]

CosmosInit ==
  /\ store = [id \in {} |-> Nothing]
  /\ at = [c \in Clients |-> "idle"]
  /\ doc = [c \in Clients |-> NoDoc]
  /\ todo = [c \in Clients |-> {}]
  /\ tries = [c \in Clients |-> 0]
  /\ got = [c \in Clients |-> Nothing]
  /\ writers = [v \in Versions |-> {}]
  /\ complete = [v \in Versions |-> {}]
  /\ last = 0

----------------------------------------------------------------------------
(* ingest_order                                                            *)

Goto(c, l) == at' = [at EXCEPT ![c] = l]

IngestBegins(c, d) ==
  /\ at[c] = "idle"
  /\ doc' = [doc EXCEPT ![c] = d]
  /\ todo' = [todo EXCEPT ![c] = ItemIds(d)]
  /\ got' = [got EXCEPT ![c] = Nothing]
  /\ writers' = [writers EXCEPT ![Version[d]] = @ \cup {d}]
  /\ Goto(c, "upserting")
  /\ UNCHANGED <<store, tries, complete, last>>

HeaderLast(c) ==    \* mutant: the header is appended after the blocks
  IF todo[c] # {HeaderId(Version[doc[c]])}
    THEN todo[c] \ {HeaderId(Version[doc[c]])}
    ELSE todo[c]

\* The header is the first of the list; the order of the blocks in it depends
\* on the document, and any order is allowed here.
NextIds(c) ==
  IF HeaderId(Version[doc[c]]) \in todo[c]
    THEN {HeaderId(Version[doc[c]])}
    ELSE todo[c]

Upsert(c) ==
  /\ at[c] = "upserting"
  /\ \E id \in NextIds(c) :
       /\ store' = Put(store, id, Item(doc[c], id))
       /\ todo' = [todo EXCEPT ![c] = @ \ {id}]
  /\ tries' = [tries EXCEPT ![c] = 0]
  /\ UNCHANGED <<at, doc, got, writers, complete, last>>

TriesLeft(c) == tries[c] + 1 < MaxTries

\* 429: sleep, then try again.
Throttled(c) ==
  /\ at[c] = "upserting"
  /\ todo[c] # {}
  /\ TriesLeft(c)
  /\ tries' = [tries EXCEPT ![c] = @ + 1]
  /\ UNCHANGED <<store, at, doc, todo, got, writers, complete, last>>

Leave(c) ==
  /\ doc' = [doc EXCEPT ![c] = NoDoc]
  /\ todo' = [todo EXCEPT ![c] = {}]
  /\ tries' = [tries EXCEPT ![c] = 0]
  /\ Goto(c, "idle")
  /\ UNCHANGED <<store, got, writers, complete, last>>

ItemSkipped(c) ==    \* mutant: the loop has no else clause that raises
  /\ \E id \in NextIds(c) : todo' = [todo EXCEPT ![c] = @ \ {id}]
  /\ tries' = [tries EXCEPT ![c] = 0]
  /\ UNCHANGED <<store, at, doc, got, writers, complete, last>>

TriesAgain(c) ==    \* mutant: the count of attempts begins again
  /\ tries' = [tries EXCEPT ![c] = 0]
  /\ UNCHANGED <<store, at, doc, todo, got, writers, complete, last>>

OutOfTries(c) == Leave(c)

GivesUp(c) ==
  /\ at[c] = "upserting"
  /\ todo[c] # {}
  /\ ~TriesLeft(c)
  /\ OutOfTries(c)

\* Any other error, the client's crash included, at any item: what has been
\* stored, perhaps with the answer lost, stays.
IngestFails(c) ==
  /\ at[c] = "upserting"
  /\ Leave(c)

IngestReturns(c) ==
  /\ at[c] = "upserting"
  /\ todo[c] = {}
  /\ complete' = [complete EXCEPT ![Version[doc[c]]] = @ \cup {doc[c]}]
  /\ last' = Version[doc[c]]
  /\ doc' = [doc EXCEPT ![c] = NoDoc]
  /\ Goto(c, "idle")
  /\ UNCHANGED <<store, todo, tries, got, writers>>

----------------------------------------------------------------------------
(* update_block and update_order_header                                    *)

EditBegins(c, k) ==
  /\ at[c] = "idle"
  /\ \E v \in FoundVersions :
       got' = [got EXCEPT ![c] = [kind |-> "edit", version |-> v, key |-> k]]
  /\ Goto(c, "editing")
  /\ UNCHANGED <<store, doc, todo, tries, writers, complete, last>>

\* One item with chunkCount 1, whatever was stored for the block before.
EditUpserts(c) ==
  /\ at[c] = "editing"
  /\ store' = Put(store, <<got[c].version, got[c].key, 0>>, [by |-> c, count |-> 1])
  /\ writers' = [writers EXCEPT ![got[c].version] = @ \cup {c}]
  /\ got' = [got EXCEPT ![c] = Nothing]
  /\ Goto(c, "idle")
  /\ UNCHANGED <<doc, todo, tries, complete, last>>

\* update_order_header reads the whole header item ...
HeaderRead(c) ==
  /\ at[c] = "idle"
  /\ \E v \in FoundVersions :
       got' = [got EXCEPT ![c] = [kind |-> "header", version |-> v, item |-> store[HeaderId(v)]]]
  /\ Goto(c, "header")
  /\ UNCHANGED <<store, doc, todo, tries, writers, complete, last>>

\* ... and puts it back with some fields changed and with no etag: a header
\* that was written in between is lost.  The stamp says whose header it is.
HeaderUpserts(c) ==
  /\ at[c] = "header"
  /\ store' = Put(store, HeaderId(got[c].version), got[c].item)
  /\ got' = [got EXCEPT ![c] = Nothing]
  /\ Goto(c, "idle")
  /\ UNCHANGED <<doc, todo, tries, writers, complete, last>>

\* An edit raises before it stores anything.
EditFails(c) ==
  /\ at[c] \in {"editing", "header"}
  /\ got' = [got EXCEPT ![c] = Nothing]
  /\ Goto(c, "idle")
  /\ UNCHANGED <<store, doc, todo, tries, writers, complete, last>>

----------------------------------------------------------------------------
(* get_full_order, get_block, get_summary, search_orders                   *)

\* What a read asks for of the version it found: every item, the items of one
\* block, or the header.
Whole == {"HEADER"} \cup Keys

Wanted(q, v) == {id \in DOMAIN AtVersion(v) : id[2] \in q}

ReadBegins(c, q) ==
  /\ at[c] = "idle"
  /\ \E v \in FoundVersions :
       got' = [got EXCEPT ![c] =
         [kind |-> "stub", of |-> q, version |-> v, complete |-> complete[v], last |-> last]]
  /\ Goto(c, IF q = {"HEADER"} THEN "last page" ELSE "first page")
  /\ UNCHANGED <<store, doc, todo, tries, writers, complete, last>>

FirstPage(c) ==
  /\ at[c] = "first page"
  /\ \E ids \in SUBSET Wanted(got[c].of, got[c].version) :
       got' = [got EXCEPT ![c] =
         [kind |-> "page", of |-> got[c].of, version |-> got[c].version, complete |-> got[c].complete,
          last |-> got[c].last, items |-> Restrict(store, ids)]]
  /\ Goto(c, "last page")
  /\ UNCHANGED <<store, doc, todo, tries, writers, complete, last>>

FirstItems(c) == IF got[c].kind = "page" THEN got[c].items ELSE Restrict(store, {})

\* The items not in the first page, as they are by now; for the summary, a
\* point read of the header.
LastPage(c) ==
  /\ at[c] = "last page"
  /\ got' = [got EXCEPT ![c] =
       [kind |-> "read", of |-> got[c].of, version |-> got[c].version, complete |-> got[c].complete,
        last |-> got[c].last,
        items |-> [id \in Wanted(got[c].of, got[c].version) |->
                     IF id \in DOMAIN FirstItems(c) THEN FirstItems(c)[id] ELSE store[id]]]]
  /\ Goto(c, "idle")
  /\ UNCHANGED <<store, doc, todo, tries, writers, complete, last>>

\* Every header that matches is a row, whatever its version: one query.
Search(c) ==
  /\ at[c] = "idle"
  /\ got' = [got EXCEPT ![c] = [kind |-> "rows", rows |-> [v \in FoundVersions |-> store[HeaderId(v)].by],
                               complete |-> complete, last |-> last]]
  /\ UNCHANGED <<store, at, doc, todo, tries, writers, complete, last>>

----------------------------------------------------------------------------

Ingesting(c) ==
  \/ Upsert(c)
  \/ Throttled(c)
  \/ GivesUp(c)
  \/ IngestFails(c)
  \/ IngestReturns(c)

CosmosNext ==
  \/ \E c \in Writers :
       \/ \E d \in Docs : IngestBegins(c, d)
       \/ Ingesting(c)
       \/ \E k \in Keys : EditBegins(c, k)
       \/ EditUpserts(c)
       \/ HeaderRead(c)
       \/ HeaderUpserts(c)
       \/ EditFails(c)
  \/ \E c \in Readers :
       \/ \E q \in {Whole, {"HEADER"}} \cup {{k} : k \in Keys} : ReadBegins(c, q)
       \/ FirstPage(c)
       \/ LastPage(c)
       \/ Search(c)

CosmosSpec == CosmosInit /\ [][CosmosNext]_cosmosOrderVars

\* The loop of ingest_order runs on, and the service answers every request.
CosmosFairSpec == CosmosSpec /\ \A c \in Writers : WF_cosmosOrderVars(Ingesting(c))

----------------------------------------------------------------------------

CosmosTypeOK ==
  /\ \A id \in DOMAIN store :
       /\ id[1] \in Versions
       /\ store[id].by \in Docs \cup Clients
       /\ store[id].by \in Docs => Version[store[id].by] = id[1]
  /\ at \in [Clients -> {"idle", "upserting", "editing", "header", "first page", "last page"}]
  /\ doc \in [Clients -> Docs \cup {NoDoc}]
  /\ tries \in [Clients -> 0..(MaxTries - 1)]
  /\ writers \in [Versions -> SUBSET (Docs \cup Clients)]
  /\ complete \in [Versions -> SUBSET Docs]
  /\ last \in Versions \cup {0}

\* Every stored block can be found: reads look for the header of a version
\* first, so a version must never have blocks and no header, wherever the
\* ingest stopped.
BlocksAreReachable == \A id \in DOMAIN store : HeaderId(id[1]) \in DOMAIN store

\* Ids are deterministic, so an ingest may be tried again after any failure,
\* and twice at once: if one document alone has been ingested at a version, and
\* one of the attempts returned before a read began, the read gives back exactly
\* that document, or its block, or its summary, and a search lists it.
RetriesConverge ==
  \A c \in Readers :
    /\ got[c].kind = "read" =>
         \A d \in got[c].complete :
           writers[got[c].version] = {d} => ReadsAs(got[c].items, d, got[c].of)
    /\ got[c].kind = "rows" =>
         \A v \in Versions : \A d \in got[c].complete[v] :
           writers[v] = {d} => v \in DOMAIN got[c].rows /\ got[c].rows[v] = d

\* ingest_order gives up or returns: no item is tried forever.
IngestEnds == \A c \in Writers : at[c] = "upserting" ~> at[c] # "upserting"

----------------------------------------------------------------------------
(* What the documentation says and the code does not keep.                 *)

\* With one writer: when ingest_order has stored its last item, the order reads
\* back as the document ("Upsert one complete order version", base.py), also
\* if the version was ingested before from other content.
ReingestReplaces ==
  \A c \in Writers :
    at[c] = "upserting" /\ todo[c] = {} => ReadsAs(AtVersion(Version[doc[c]]), doc[c], Whole)

\* An order that is found is complete ("Complete reconstructed order", base.py).
FullOrderIsComplete ==
  \A c \in Readers : got[c].kind = "read" /\ got[c].of = Whole =>
    \E d \in Docs :
      /\ Version[d] = got[c].version
      /\ ~Raises(got[c].items)
      /\ \A k \in Keys : Parts[d][k] > 0 => Shown(got[c].items, k) # {}

\* With one writer: when the ingest of an older version and then of a newer one
\* have returned, a read that begins does not find the older one ("correct for
\* a read-your-writes operational API", COSMOS_DESIGN.md).
ReadsOwnIngest ==
  \A c \in Readers :
    got[c].kind = "read" /\ got[c].complete # {} => got[c].version >= got[c].last

\* An order is one row of a search, that of its current version, as in the
\* other backends ("Filtered list projection" of orders, base.py): each stored
\* version is a row of its own, found by the status it had.
OneRowPerOrder ==
  \A c \in Readers : got[c].kind = "rows" => Cardinality(DOMAIN got[c].rows) <= 1

EditedIds(c) == {id \in DOMAIN store' : id[1] = got[c].version}

\* With one writer: an edit that update_block has stored is what a read shows
\* ("Targeted update of a single business block", base.py).
EditIsVisible ==
  [][\A c \in Writers : EditUpserts(c) => Shown(Restrict(store', EditedIds(c)), got[c].key) = {c}]_cosmosOrderVars

=============================================================================
