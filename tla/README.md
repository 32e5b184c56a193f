# Order storage POC: TLA+ models, model checking and proofs

This directory holds TLA+ models of the order storage proof of concept in this
repository: one JSON order of up to several megabytes, stored four ways (Azure
SQL rows plus JSON blocks, Cosmos DB items, one SQL row with the full JSON, one
Mongo document), split into logical blocks, kept under the Cosmos item limit,
pushed to Fabric through an Open Mirroring landing zone, read, reconciled and
built into a warehouse there, and measured by a load harness. Each model is
checked with TLC on small instances, and the safety properties of all twelve are
proved with TLAPS for every value of the constants, under hypotheses named below.

Paths are relative to the repository root. Line numbers are in `PROJECT.json`,
where `map` gives for every definition the lines it stands for.

## 1. Inventory

### Components, their state and their operations

| Component | State it keeps | Operations | Talks to |
|---|---|---|---|
| **Connection pool** (`app/repositories/sql_repository.py`, `ConnectionPool`, `_CursorCtx`) | LIFO queue of idle connections, `_created`, `_lock` | `acquire`, `release(broken)`, `close` | worker threads of the API, ODBC, the token cache |
| **SQL hybrid repository** (same file, `SqlOrderRepository`) | `ord.Orders`, `OrderVersions`, child tables, `OrderJsonBlocks` | `ingest_order` (one transaction), `update_block`, `update_order_header`, `get_summary`, `get_full_order`, `get_block`, search, list | pool, splitter, relational extract |
| **Cosmos repository** (`cosmos_repository.py`) | a header item and one item per block or chunk, in the customer's partition | `ingest_order` (item by item), edits, paged reads, 429 retries | splitter, size guard |
| **SQL full-JSON repository** (`sql_full_json_repository.py`) | one row of `ord.OrderDocuments`: payload, projected columns, `SummaryJson` | MERGE, `JSON_MODIFY` edits, single-statement reads | pool |
| **Mongo repository** (`mongo_repository.py`) | one document with `_proj`; the RU lock and the connection's "last request" | `replace_one`, `$set` edits, reads, `getLastRequestStatistics` | pymongo |
| **Fabric repository** (`fabric_repository.py`) | none of its own | read-only queries | the mirrored tables |
| **Repository contract** (`base.py`) | — | the abstract operations and canonical answers | API, tests |
| **API service** (`app/api/main.py`) | the repository, the metrics collector | GET endpoints, bench endpoints, lifespan | repository, telemetry |
| **Telemetry** (`app/telemetry/metrics.py`) | per-request counters, a collector behind a lock | record, reset, snapshot | API |
| **Block splitter** (`ingestion/parser/block_splitter.py`) | none | `split_object_data`, `reassemble`, `merge_chunks` | both decomposed backends |
| **Size guard** (`cosmos/modeling/size_guard.py`) | none | `enforce`, recursive chunking | Cosmos repository |
| **Relational extract** (`ingestion/parser/relational_extract.py`) | none | `extract`, `summary_from_projection` | SQL, full-document backends |
| **Raw archive** (`ingestion/archive/raw_archive.py`) | immutable gzip files by order and version | `put`, `get`, `list_versions`, `iter_all` | ingest run |
| **Ingest run** (`ingestion/run_ingest.py`) | jobs in flight, results | `ingest_one`, `run`, `_collect` | archive, repositories |
| **Open mirroring push** (`ingestion/fabric/push_to_onelake.py`, `fabric/repair_open_mirror.py`) | `fabric-push-watermarks.json`, `fabric-parquet-schemas.json`, the landing zone | `push_sql`, `push_cosmos`, upload, repair | SQL, Cosmos, the Fabric replicator |
| **Fabric provisioning** (`fabric/provision_fabric.py`, `setup_mirroring.py`) | the items of a workspace, a state file, a findings file | find or create, follow an operation, record, save | Fabric REST API |
| **Warehouse and freshness** (`tools/run_analytics.py`, `fabric/warehouse`) | the warehouse tables | build, measure freshness | mirrors, stores, push |
| **Reconciliation** (`tools/reconciliation.py`) | a report | operational check, mirror check | stores, mirrors |
| **Load generator** (`loadtests/operational`) | list of tasks, recorder, result | `run_phase`, `server_metrics`, `do_write` | API, repositories |
| **Generators, cost and reporting tools, infrastructure** | files | batch programs | — |

### Hard behaviours

* **Threads and the pool.** Handlers run on worker threads; `_created` is a
  counter of slots that no one reconciles with the connections that exist, and a
  connect can fail after the slot was counted.
* **Transactions beside autocommit.** `ingest_order` is a dozen statements in one
  transaction; edits and reads are one or two autocommit statements that can fall
  between its commit and a second statement of their own.
* **No transaction at all.** In Cosmos an ingest is a sequence of upserts that can
  stop anywhere, be retried, run twice at once, and be read page by page.
* **State outside the document.** The full-document rows keep a projection
  (columns, summary) that every edit has to move along; the Mongo backend asks
  its connection for "the last request" in a second command.
* **Crash and external consumer.** A push keeps its sequences, watermarks and
  schemas in memory and saves them at the end, while an external replicator
  consumes and deletes the files it uploaded and never takes a sequence twice.
* **Many tables, one question.** Mirrors are merged table by table while reads,
  checks and builds take several queries, some of which fail and count as zero.
* **Scripts run again.** Provisioning meets what earlier runs, dead or timed out,
  have left, through calls that fail and operations that settle later.
* **Open-loop measurement.** Requests are given up while their handlers go on, and
  the metrics of several workers are reset and read through one of them.
* **Boundaries.** Splitting and chunking at element, byte and depth limits, with
  composite sections that are objects, arrays, empty, mixed or null.

`hazards` in `PROJECT.json` lists each of these at its line with the properties
that would catch it, or the reason why none does.

### What makes each component correct

* pool: a connection is in one pair of hands; the slot count is exact under every
  failure; the queue has room for whatever comes back; `acquire` always ends;
* SQL repository: committed rows are those of one whole document; a block, a search
  row and the blocks of a full order are of one document, and so is a summary that no
  ingest overtook; no failed call leaves a lock; it implements the contract;
* Cosmos repository: any retry of an ingest converges to the document; blocks are
  never stored without a header to find them by; no item is retried forever;
* full-document backends: the projection agrees with the document; a write never
  reports the charge of another write; they implement the contract;
* splitter and guard: the round trip is exact; block reads of all backends agree;
  chunking ends;
* relational extract: the tables are the projection of the document; an ingest is
  refused only for what another order holds; summaries agree;
* archive and ingest run: every order is counted once; a file is written once; a
  replay gives what was stored;
* push: sequences only grow, past what is consumed; batches match the table's
  first schema; a saved watermark is covered by uploaded data; files get merged;
* Fabric: a full or block read is of one version; an undisturbed check passes only
  if what it asks is true, up to rows that a re-ingest deleted; a table reported as
  built is one load;
* provisioning: the state file names what exists; a rerun finds what is there;
* load harness: every request is one sample; the metrics are those of the repeats.

## 2. Modules

| Module | Models | Checked by | Proved in |
|---|---|---|---|
| `ConnectionPool` | pool, cursor context, transaction's release, shutdown | `MCConnectionPool` | `ConnectionPool_proofs` |
| `OrderStore` | the abstract order: ingest replaces all, a block edit one block, a header edit the header | (as a property) | — |
| `SqlOrders` | SQL repository, statement by statement | `MCSqlOrders` | `SqlOrders_proofs` (with the refinement of `OrderStore`) |
| `CosmosOrders` | Cosmos repository, item by item and page by page | `MCCosmosOrders` | `Stores_proofs` |
| `FullDocument` | SQL full-JSON and Mongo repositories | `MCFullDocument` | `Documents_proofs` (with the refinement of `OrderStore`) |
| `BlockSplit` | split and reassemble, and the block reads of four backends, as operators over documents | `MCBlockSplit` | `Documents_proofs` |
| `SizeGuard` | the guard's work list, chunking and merge | `MCSizeGuard` | `Documents_proofs` |
| `RelationalExtract` | the projection of documents into tables and summaries, over several orders | `MCRelationalExtract` | `Stores_proofs` |
| `IngestRun` | the ingest command and the raw archive it fills and that is replayed, several runs | `MCIngestRun` | `IngestRun_proofs` |
| `LoadRun` | the load harness against several workers, and their metrics | `MCLoadRun` | `LoadRun_proofs` |
| `FabricSetup` | the two provisioning scripts, run again and again | `MCFabricSetup` | `Fabric_proofs` |
| `Analytics` | Fabric reads, reconciliation, warehouse build, freshness, over stores and mirrors | `MCAnalytics` | `Fabric_proofs` |
| `OpenMirror` | the push, its saved state, crashes, the replicator, the repair | `MCOpenMirror` | `OpenMirror_proofs` |

Values are stamps: a row, block or field is known by the document it came with
or the client that wrote it last. That is what the properties distinguish; JSON
text, column values and byte strings are left out except where size is the point
(`SizeGuard`, where sizes are numbers).

### ConnectionPool

`idle` is `_pool` (a `LifoQueue`), `created` is `_created`, `lock` is the holder
of `_lock` across the blocking `_new()`, `pc` and `held` are the threads. `lost`
and `phase` are history. `AcquireIdle`/`AcquireEmpty`/`Reserve`/`MustWait` are
the branches of `acquire`; `Connected` and `ConnectFails` are the two ends of
`_new`; `WaiterServed` and `WaitTimesOut` of `get(timeout)`; `ReleaseGood`,
`ReleaseBroken` and `CloseBroken` are `release`, with the slot given back before
the close; `LeakSlot` is the path of `ingest_order` in which rollback and release
do not both happen. `CloseBegins` is the shutdown, `CloseNext` closes one idle
connection, `CloseRaises` is a `close()` that raises, which ends the drain with the
rest still open, and `CloseEnds` the empty queue.

### OrderStore, SqlOrders

`db` is the committed state of one order's rows, `tx[c]` what the open
transaction of `c` sees, `lock` the row lock on `ord.Orders` that the first MERGE
takes, `at[c]` the next statement. `IngestBegins`, `MergeOrders`,
`MergeVersions`, `DeleteChildren`, `InsertChildren`, `InsertBlocks`, `Commit` are
the statements of `ingest_order` in order; `CallFails` is its except branch at
any of them. `EditBegins`/`EditApplies`/`EditTouches` are `update_block` (two
autocommit statements), `EditHeader` is `update_order_header`,
`ReadHead`/`ReadBlocks` the two statements of `get_full_order`,
`ReadSummary`/`ReadRoles` the two of `get_summary`. `overtaken` (history) has the
callers that an ingest committed past, between the two statements of a read. `get_block` and the search
are one statement each, so they are operators of the committed state
(`BlockRead`, `SearchRow`) and no actions.

`OrderStore` is what `base.py` promises of writes; `SqlOrders` implements it with
`doc` the document recorded in `OrderVersions` for the current version, `header`
the columns of `ord.Orders`, and `blocks` the block rows of the current version. The
contract does not say what an edit of a block that the order lacks does, and the
backends differ: `EditCreates` is `FALSE` for this one, whose UPDATE finds no row, and
`TRUE` for the full-document ones, which create the section.

### CosmosOrders

`store` maps item ids `<<version, key, part>>` to who wrote the item and how many
parts it announced. `IngestBegins` builds the ids, `Upsert` stores one,
`Throttled`/`GivesUp`/`IngestFails` are the 429 and error branches (an upsert may
have been stored with its answer lost), `IngestReturns` the end. A read is
`ReadBegins` (the header lookup, any version), `FirstPage` (any subset of the
items it asks for), `LastPage`; it asks for the whole order, for one block or for
the header alone, which is the summary. `Search` is the rows of a search. `Shown` and `Raises` are what `merge_chunks` and `reassemble`
make of a set of items. `writers`, `complete` and `last` are history variables
that properties compare a read with.

### FullDocument

`row` is the stored row with its projection: `status` is the `Status` column or
`_proj.status`, `summary` the status in `SummaryJson` or `_proj.summary`, `header`
the status in the document. Each write is one statement and so one step
(`Execute`), which may instead raise (`Fail`), with its effect or without. With
`CaptureRu` (Mongo only) a call goes on to `Sample`; `Locks` says that only writes
take `_ru_lock`, as in the code. `Mongo` selects the backend. `FullRead`,
`SummaryRead` and `SearchFinds` are what the reads of one statement answer from
the row, and what the properties compare. A charge knows whose request it is of and
whether of a write (`Request`), since reads sample without the lock.

### BlockSplit, SizeGuard

Pure code as three-state and work-list machines over enumerated inputs. In
`BlockSplit` a document has plain sections (absent, an object or array, a scalar)
and composite ones (absent, null, an object, or an array of objects and other
values); `Split` makes the blocks and keeps one for each key, `Read` reassembles
all of them and those of each type, and reads each type from the whole document
as the SQL full-JSON (`SqlBlock`, JSON_QUERY) and Mongo (`MongoBlock`) backends do.
In `SizeGuard` a payload
is the size of everything else and the sizes of the elements of each array;
`Keep`, `Refuse` and `Chunk` are the guard's branches, and `Merge` takes the chunks
back one at a time, in the order of their index.
`OtherBytes`, `Counted` and `Bytes` count as the code counts, commas and all. An
array inside an element of another array is always smaller than that one, so the
branch of the guard that refuses such an array is dead code and not modelled.

### OpenMirror

`zone` is the landing zone (file by sequence), `consumed` and `first` what the
replicator has processed and the schema the table was created with, `saved` and
`pinned` the two JSON files, `mem` what a running push holds, `push` its place.
`Begin` loads the files, `NoChanges`/`ReadTable`/`RefusePin` treat one table,
`Upload` puts one file, `SaveWatermarks` and `SaveSchemas` end the push, `Crash`
loses `mem`. The repair is call by call and file by file: `RepairLists` (which may
fail and find nothing), `RepairStops`, `RepairDeletes`, `RepairStarts`, whose calls
may be refused and are not looked at, and `RepairClears`, which forgets sequences and
watermarks at last; `RepairDies` ends it anywhere. `repair.swept` (history) says that
it has begun to delete and no repair has cleared since. A replicator that was stopped
and started is taken to start from nothing. `push_cosmos` is the same loop with one table and a fixed
schema.

### IngestRun

Per run, `phase`, `submitted` and `futures` are the main thread of `run`:
`Submit`, `CollectOne` (the dictionary is full), `Exhausted`, `CollectRest`,
`End`. `job` is where the worker of each order is: `Take` (the executor's queue),
`FindsFile` and `FindsNoFile` (the two answers of `exists`, which on ADLS may be a
failed request), `Open` and `Fill` (`_write` empties the file and then fills it),
`Ingest`, `Raise`. `rows` and `failures` count what `_collect` made of each order.
`Kill` ends a process with its threads. `archive` and `stored` know the settings
a content was generated from; ids come from seed and index only, so runs of
different settings meet at the same paths. `dir` says that the directory of the
version exists, which `put` makes before the file: `Listed` is what `iter_all`
yields, `Readable` what `get` can decompress, `Replay` what a replay gives.

### RelationalExtract

Operators over documents whose entries may lack a GUID, repeat one or not be
objects: `UniqueId` is `_unique_id`, `Mentions` and `PartyRows` the parties of all
sections with the lenders of the loans, `PropertyRows`, `LoanRows` and
`OrderPartyRows` the tables, `Summary` is `summary_from_projection`. The tables of
all orders are the state: `SqlIngests` deletes the rows of the order and inserts
the new ones, or `SqlRefuses` because a primary key breaks; `CosmosIngests` stores
the blocks and the summary. `SummaryOfTables` is the query of `get_summary`.

### LoadRun

`stage` is where the harness is: `Issue` and `StopIssuing` are the schedule of
`run_phase` with the pruned list of tasks, `PhaseEnds` its `gather`, `Reset` and
`Scrape` the two metrics calls; `ResetRefused` and `ScrapeRefused` are their answers
with another status, which the run ignores or writes in place of the metrics, and
`CallFails` is a call that raises.
`Send`, `Answer` and `GiveUp` are the coroutine of a request, behind the
semaphore; `Accept`, `Record` and `Trim` its handler on one of the workers: the
append to the ring and the cut to its capacity are two steps under one lock.
`kept` is everything a worker recorded since its reset (history), with which a
scrape is compared.

### FabricSetup

`todo` is what the script has yet to make and `stage` where it is with the first
of it: `ListFinds`, `ListMisses`, `ListFails` (find by name), `PostCreates`,
`PostAccepted`, `PostConflicts`, `PostFails` (create), `PollSucceeds`,
`PollWithoutId`, `PollFails`, `PollTimesOut` (follow the operation), `RelistFinds`
and `RelistFails` (look the item up again); `Record` and `Save` write the two
files, `Finishes` and `Dies` end a run. `OperationSucceeds` and `OperationFails`
are the service, at any time, also after the script has gone.

### Analytics

`sql` and `items` are the two stores, `landed` the rows a push has read and
`mirror` the tables, merged one at a time by `Merge`. A command is a plan of
queries: each is one step (`Answers` with the tables as they are, or `Fails`) and
its answer is kept in `cmd.seen`; the verdicts (`OperationalPassed`,
`FabricPassed`) and the answers of the Fabric repository (`Served`) are operators of
it. `StatementRuns` and `StatementFails` are the build of the warehouse;
`WriteMarker`, `PushReturns`, `PollFinds`, `PollGivesUp` are the measurement of freshness.

## 3. Runs

There is one run for each model, with its safety, action and liveness properties
together; each finishes within two minutes on two cores, and all pass.

| Run | Question |
|---|---|
| `pool` | is a connection in one pair of hands, are slots accounted for, how many connections are open at once, does `acquire` always end? |
| `sql` | are committed rows one whole document, which reads are of one document although ingests overtake them, is `OrderStore` implemented, does every call end? |
| `cosmos` | do retried and concurrent ingests converge for every kind of read, is every block reachable through its header, does an ingest give up or return? |
| `document` | Mongo: do summary and search follow the document, does a write ever report the charge of another write, is `OrderStore` implemented? |
| `split` | round trip of regular documents; do block reads agree between the decomposed and the full-document backends? |
| `guard` | do chunks merge to the block, does chunking end? |
| `extract` | are the tables the projection of the document, is every lender a party, do summaries agree, is an ingest refused only for another order's GUID? |
| `ingest` | is every order counted once, is the archive write-once, does a replay give what was stored? |
| `bench` | is every request one sample, are the metrics the newest of one worker and of the repeats, also when the reset or the scrape is refused? |
| `mirror` | do batches match the first schema, is the watermark covered wherever a push or a repair dies, is every file merged or swept away? |
| `fabric` | does the state file name what exists, are mirrors among the findings, is a name conflict always explained? |
| `analytics` | are Fabric reads of one version, do the two checks pass only when they should, does the mirror check pass when it should, is a built table one load of what the stores hold? |

Some properties speak of the behaviours in which a certain fault has not
happened. They say so in their formula, by a history variable (`met` and
`repair.swept` in `OpenMirror`, `met` in `IngestRun`, `blind` in `FabricSetup`,
`overtaken` in `SqlOrders`, `calm`, `quiet` and `shrunk` in `Analytics`), and the run
has the fault; others set a document aside by a condition in the formula
(`RegularDocument` in `RegularRoundTrip`, `Plain` in `SummariesAgree`), and the run
has documents of the other kind. Three runs do choose what happens: `document` is
the Mongo backend (of the full-JSON one `SummaryFollowsDocument` does not hold);
`cosmos` ingests one document, and a version ingested again from changed content
is in `MCCosmosOrders_reingest`, where the first formulas of the table below fail;
and `analytics` stops looking at a check that a commit has disturbed.

More properties are defined in the modules and hold at the bounds of the runs
when they are added to the configuration: `QueueHasRoom`, `DeadPoolStaysDead`, `LockIsTransaction`, `FullReadIsOneDocument` and
`SequencesIncrease` (all of these also proved), every `TypeOK` (proved where
section 4 says so), `OneArrayIsStored`, `FindingsAreKept`, and the liveness properties `EveryCallEnds`, `RunEnds`,
`HarnessEnds` and `RunsEnd`.

### Statements of the repository that the code does not keep

Each of the following formulas states what a document, a comment or a test of the
repository says; its comment in the module quotes the place. TLC violates it. For
some the configuration is here; for the others it is the module's main one with
the changes given, and the formula in place of the properties.

| Formula | Configuration | What TLC shows |
|---|---|---|
| `SqlOrders!FullOrderIsComplete` | `MCSqlOrders`, `Spec` | an ingest between the two statements of a full read leaves an order without blocks |
| `SqlOrders!SummaryNeverMixes` | `MCSqlOrders`, `Spec` | the roles of a summary are read on a second connection, after an ingest of another document |
| `CosmosOrders!ReingestReplaces` | `MCCosmosOrders_reingest` | a version ingested again from changed content keeps old blocks and chunks |
| `CosmosOrders!FullOrderIsComplete` | `_reingest` with `Readers = {r}`, `Docs = {first, second}` | the header is stored first: an order is found while its blocks are missing |
| `CosmosOrders!ReadsOwnIngest` | `_reingest` with `Readers = {r}`, `Docs = {again, second}` | `TOP 1` over the headers of all versions serves an older one |
| `CosmosOrders!OneRowPerOrder` | the same | a search has a row for every stored version |
| `CosmosOrders!EditIsVisible` | `_reingest`, as a property | an edit of a chunked block is stored and the chunks win |
| `FullDocument!SummaryFollowsDocument` | `MCFullDocument_summary` | full-JSON row: a header edit moves the column and the payload, not `SummaryJson` (`sql_full_json_repository.py:436-438` says both must move) |
| `FullDocument!ChargeIsOwn` | `MCFullDocument` | reads sample the charge without the lock (`mongo_repository.py:90-93` says that requests are serialised) |
| `FullDocument!EditsAsHybrid` | `MCFullDocument`, as a property | an edit creates a section the document does not have; the hybrid backend's edit does nothing |
| `BlockSplit!RoundTrip` | `MCBlockSplit_full` | empty and mixed composite arrays do not survive the split (`docs/ARCHITECTURE.md`) |
| `BlockSplit!AllBlockReadsAgree` | `MCBlockSplit_full` | JSON_QUERY does not see a section that is null or a scalar |
| `SizeGuard!RefusesOnlyIndivisible` | `MCSizeGuard_refuse` | a block is refused although its elements fit |
| `RelationalExtract!SummariesAlwaysAgree` | `MCRelationalExtract_agree` | a party in two roles, or amounts that come to zero, are summed up differently |
| `RelationalExtract!BackendsHoldTheSame` | `MCRelationalExtract_same` | SQL refuses a GUID that another order holds, Cosmos does not |
| `IngestRun!ArchiveHoldsTheOrder` | `MCIngestRun`, `Faults = {}` | a second run stores its own content beside the first run's file |
| `IngestRun!ListedCanBeRead` | `MCIngestRun` | a killed run leaves a directory without a file, which `iter_all` yields |
| `OpenMirror!SequencesAreNeverReused` | `MCOpenMirror_reuse` | a push that refuses a schema exits before it saves its sequences; the next one starts at a consumed sequence, which halts the table (`docs/RUNBOOK.md:343` calls the symptom fixed) |
| `OpenMirror!PinsOutliveRefusals` | `_reuse` with `Keys = {k1, k2, k3}`, `TableOf <- Uneven`, `BatchRows = 2`, `HasNull = {2, 3}` | the same exit loses the schemas the push has pinned for tables it has uploaded; the next push infers others |
| `OpenMirror!KilledRepairsAreHarmless` | `MCOpenMirror` | a repair dies after it has deleted files and before it clears the watermark: their rows are nowhere and are not pushed again |
| `LoadRun!SingleWorkerIsComplete` | `MCLoadRun_complete` | late records of the warm-up take the place of the repeats' in a full ring |
| `LoadRun!PrintedIsWritten` | `MCLoadRun_printed` | a failed scrape loses the file of repeats already printed |
| `FabricSetup!StateIsKept` | `MCFabricSetup_again` | provisioning again writes the state file without the mirrors |
| `FabricSetup!FailureIsRecorded` | `MCFabricSetup`, `Spec`, `MaxRuns = 3` | a second native attempt is recorded as failed over the mirror of the first |
| `Analytics!EveryRowArrived` | `MCAnalytics_arrived` | rows that only the mirror still has make up for rows that have not arrived |
| `Analytics!SameGrain` | `MCAnalytics_grain` | the Cosmos load of FactOrder has a row for every version of an order |
| `Analytics!IntactIsVerified` | `_arrived` | a failed query counts as no truncated row |
| `Analytics!ChargesAreStored` | `MCAnalytics` | a charge block that a re-ingest of the same version deleted stays in the mirror and is loaded |
| `Analytics!FullReadIsNotHollow` | `_arrived` | the row of an order is merged before its blocks |

### Bounds, and why they are enough

* **pool**: three threads and two slots, so one thread waits while two use; four
  connection identities, so broken ones can still be closing.
* **sql**: two callers, three documents: a first version, the same version from
  other content with fewer blocks, a second version; two keys, so that a document
  can lack one. Two callers suffice for a transaction against an edit, a read or
  another transaction, which is all the row lock arbitrates; the proofs cover
  more.
* **cosmos**: two writers and a reader; a document whose block is in two chunks,
  so three items, which edits of the whole block join; for the re-ingest also a
  second block, and the same version with the first in one item. `MaxTries` is 2 instead of 6: the
  counter only decides when to give up.
* **document**: two clients, two keys and two documents, one of which lacks a key,
  up to `MaxCalls = 5` calls, reads among them.
  A violation of any of these properties needs at most two calls after an ingest.
  The run has `Mongo = TRUE`, in which every action happens; the proofs cover
  both backends.
* **split**: two parents of one block type, as CDFs and CDFAmounts are, with one
  declared sub-type and one other key each, arrays of up to two elements
  (`MaxElements`), every combination of object, value, empty, null and absent; and
  a plain section, a header field and a key that no block claims, in each shape.
* **guard**: two arrays at different depths of up to three elements, three sizes
  on both sides of the limit. The code's constants are scaled down with the
  slack and the limit in the same order of size.
* **mirror**: two commits (`MaxClock`, three for `_reuse`) and two pushes (`MaxPushes`) of files of
  one row, one table of two rows, or two tables of one for `_reuse`. A
  reused sequence needs two pushes, a drifted schema two pushes and a NULL commit.
  A refusal that loses the schemas of other tables needs two tables with two rows in
  one of them (`Uneven`), as in the table above.
  A repair may begin whenever no push runs, as often as it likes. Every fault is in the
  run: crashes of pushes and repairs, failed listings, refused calls, late commits.
* **ingest**: a run of two orders with room for two in flight, so that its
  dictionary of futures fills up and drains, and a run of the first order alone:
  two processes meet at one path, which is all they share. Two settings.
* **extract**: two orders, six documents and three of them for the second order,
  three ingests of each back end (`MaxIngests`): an order is ingested, refused or
  replaced, and ingested again. The documents miss, repeat and share GUIDs.
* **bench**: a warm-up of up to two requests, two repeats of one, two workers; the
  semaphore, the list of tasks and the rings have room for one, so that each of
  them fills up.
* **fabric**: four runs (`MaxRuns`) of any of the four command lines and two
  faults (`MaxFaults`): provisioning, a set-up that fails half way, and two more.
* **analytics**: one order, three documents (a first version, the same with more
  rows, a second version with other rows), three commits, two pushes, a failing
  query, and one command of any kind, after a build that has left its tables. One
  command (`MaxCommands`) is enough because a command changes nothing another one
  reads but the warehouse, which starts built; a block is one of the CDF sub-types that hold charges (`Charges`)
  or not. `DateBatches` and `ListLimit` scale 8 and 20,000
  down to 2. `CONSTRAINT Undisturbed` stops looking at a reconciliation that a
  commit has disturbed: no property says anything of it.

### Fairness

* `ConnectionPool`: strong fairness of a thread's progress. `threading.Lock` and
  `LifoQueue` promise no order, so weak fairness would let one thread starve; a
  30 s timeout bounds the wait of the queue.
* `SqlOrders`: strong fairness per caller; SQL Server's lock queue is fair.
* `CosmosOrders`: weak fairness of a writer's loop: the service answers.
* `FullDocument`: weak fairness of a call in progress. The number of calls is
  bounded, so contention for the lock ends by itself and weak fairness is enough.
* `OpenMirror`: weak fairness of the replicator per table, which keeps polling, and of
  a repair that is not killed, whose calls return or raise.
* `SizeGuard`: weak fairness of the only thread.
* `LoadRun`: weak fairness of the harness and of each request's coroutine, which
  is answered or times out; a handler may hang for ever.
* `FabricSetup`: weak fairness of a script's steps; nothing makes an operation of
  Fabric settle.
* `IngestRun`: weak fairness of each process: what its threads call returns or
  raises.

Clients are never obliged to start a call. `CHECK_DEADLOCK FALSE` is set where
the system may stop: when bounded calls, pushes or commits are used up, after
shutdown, or at the end of a pure function.

## 4. Proofs

Proved for every value of the constants under the named assumptions of the
modules (`PoolAssumption`, `SqlAssumption`, `DocumentAssumption`,
`IngestAssumption`, `SetupAssumption`, `MirrorAssumption`,
`LoadAssumption`, `ExtractAssumption`, `CosmosAssumption`, `GuardAssumption`, `SplitAssumption`,
`AnalyticsAssumption`):
finite sets of threads where they are counted, distinct identities, and the
typing of the constants. TLC evaluates these assumptions in the runs.

* **ConnectionPool_proofs**: type correctness, `ExclusiveUse`, `SlotAccounting`,
  `QueueHasRoom`, `OpenBound`, `DeadPoolStaysDead`. `ExclusiveUse` needs that a
  connection just opened is new, and `QueueHasRoom` follows from
  `SlotAccounting` together with `created <= Size`, because a thread that holds a
  connection accounts for a slot that the queue does not. The inductive
  invariant is `TypeOK`, `ExclusiveUse` and `SlotAccounting` with `HeldInv` (who
  holds a connection), `LockInv` (who holds the lock) and `PhaseInv` (the pool
  is closed only when every thread is out).
* **SqlOrders_proofs**: type correctness, `LockIsTransaction`,
  `CurrentVersionIsWhole`, `FullReadIsOneDocument`, `ReadsAreOneDocument`, and
  `ImplementsStore`. `ReadsAreOneDocument` speaks of what each read returns: the blocks of
  a full order, both statements of a summary, a block, a search row.
  `CurrentVersionIsWhole` is not inductive: `Commit` publishes what five earlier
  statements built. `TxInv` says what an open transaction's rows look like before
  each statement, `LockIsTransaction` that no other writer changes what they were
  computed from. The refinement shows that a commit is `Ingest`, an edit
  `EditBlock` or a stutter, a header edit `EditHeader`, and all else a stutter.
* **Documents_proofs**, of `FullDocument`: type correctness, `ColumnFollowsDocument`,
  `SummaryFollowsDocument` (for Mongo), `ChargeIsNoOtherWrite` and
  `ImplementsOrderStore` (the last two without hypotheses). The row
  properties rest on `RowChanges`: a step leaves the row or is one statement.
  `ChargeIsNoOtherWrite` needs `LockIsCall`: between lock and sample a writer holds
  the lock, so that after its statement the connection's last request is its own or
  a read. That the summary needs Mongo the table in section 3 shows.
* **Documents_proofs**, of `SizeGuard`: `MergeIsLossless`, for any arrays, sizes,
  limits and rounds of cutting. What is merged, the chunks not merged yet and the
  work list are, in that order, one line of parts, and for each array the parts
  are its slices between positions that increase (`Tiled`). Cutting a part cuts its slice
  into slices (`PartsTile`, `CutTiles`), merging joins two neighbours
  (`JoinedTiles`), and everything that is no array element is in the first part
  of the line alone (`FirstOfBlock`). When one part is left, it is the block.
* **Documents_proofs**, of `BlockSplit`: `RegularRoundTrip` and `BlockReadsAgree`,
  for any sections, elements and fields. No two blocks of an order have the same
  key (`KeysAreDistinct`), so the store drops none. The parts that reassemble
  gives to a composite section are the blocks of its own objects (`PartsAre`),
  each object's blocks have a sequence of their own (`SamePlace`) and hold all its
  fields (`FieldsOfBlocks`), and sorting 0..n-1 puts each in its place
  (`NthOfPlaces`). The blocks of any set of types therefore make the sections of
  those types (`ReadIsOfTypes`): all types give the document, one type a block.
  `SplitAssumption` says what BLOCK_MAP and COMPOSITE_SPLITS are: the block types
  of composite sections are no others', and two parents of one type share no
  sub-type.
* **IngestRun_proofs**: type correctness, `OrdersAccounted`, `ReplayGivesTheOrder` and
  `WriteOnce`. For the first two the invariant adds
  that an order not yet submitted is counted nowhere, that the dictionary holds
  only submitted orders, and that a run past its loop has submitted them all:
  without the first two an order might be counted before it is submitted, without
  the third a run might end early. The other two are about what no run can see of
  another: as long as no two runs overlap, only one has jobs at all
  (`OneAtATime`), so that a file found absent stays absent until it is opened
  (`NewFiles`), and a file whose writer has gone on is whole (`WholeFiles`) unless
  a write was cut short. `WriteOnce` is an action property on top of it: the only
  steps that touch a file are `Open` and `Fill`, and neither is at a whole file.
* **Fabric_proofs**, of `FabricSetup`: `StateNamesWhatExists`, `MirrorsAreRecorded` and
  `ConflictsAreExplained`. `Place` says what a run has got at each place of its
  plan, which is what the file is made of when it is saved (`GotExists`); findings
  are written before the state (`RecordedFirst`), so a state with mirrors has
  entries for them; and a conflict after a list that succeeded means that the list
  came before the item (`SeenBeforePosted`).
* **Fabric_proofs**, of `Analytics`: all four properties of the run. `MirrorInv` is
  what commits, pushes and the replicator keep: a mirrored or landed row is a row
  of its store unless `shrunk` says that rows were deleted, and while a command is `calm` the mirror shows every row as it
  is in the store (`CalmHolds`). No command writes any of that, and no other step touches what a
  command has seen (`Frames`), so each command gets an invariant of its own over
  the queries of its plan: `OperationalInv` (what the two lists and the summaries were
  when they were read), `ReadsInv` (the Fabric reads), `FabricInv` (each count
  bounds or equals what it counts, and a failed one is zero), `BuildInv` (the
  loads of a table are those of the statements done so far, for any number of
  batches). Type correctness of `Analytics` needs `BuildInv` as well, for the
  tables that a statement makes, and that a freshness run which has not written
  yet has its commit left (`Bounded`). Passing follows from arithmetic on the counts: a mirror has every row
  of its source when their numbers agree and nothing was deleted (`ArrivedByCount`).
* **OpenMirror_proofs**: type correctness (`TypeInv`, which leaves the bound of the
  clock out), `EveryBatchMatches`, `WatermarkIsCovered` and `SequencesIncrease`. What the landing zone comes to once it is merged is
  `After`: of the files with a key the one with the highest sequence decides
  (`AfterPut`), and merging the lowest file changes nothing (`AfterMerge`).
  `WatermarkIsCovered` is not inductive: `DataInv` adds the watermark a push has
  in hand, whose rows are merged, lie there or are about to be uploaded, and that
  a row which changed after it was read is later than every watermark. That needs
  the sequences (`SequencesKnown`: the files lie between the last one consumed and
  the last one used) and that a read has one row of each key (`RowsKnown`).
  A repair joins this with two facts. What it has deleted is set aside until the
  watermark is cleared (`swept`, in `Exact`). And while it deletes, the files that lie
  there are among those it has listed, and the replicator waits, so that nothing is
  left when it starts the mirror again (`InSequence`).
* **LoadRun_proofs**: type correctness, `EveryRequestIsOneSample`,
  `ScrapeIsTheNewest` and `ScrapeIsOfTheRepeats`. The first rests on `Outstanding`: every request that is not
  over is of the current phase and in the list of tasks, whatever was dropped from
  it. The second rests on the lock: between append and trim the ring holds one
  record too many, and nobody can see it (`RingIsTheNewest`).
  The third joins two phases: once the worker is reset, the only records of the
  warm-up that can still come are of clients that have gone (`WarmUpIsGone`), and
  a request of the repeats that a worker answered stays among its records, since
  no later reset follows (`RepeatsAreKept`).
* **Stores_proofs**, of `RelationalExtract`: all four properties of the run. The tables are the
  projection because an ingest deletes what it inserts again and the rows of other
  orders are told apart by their order; the summaries agree because for a plain
  document the keys of its rows are distinct, so that counting and adding rows is
  counting and adding entries.
* **Stores_proofs**, of `CosmosOrders`: type correctness, `BlocksAreReachable` and
  `RetriesConverge`. Reachability rests on `WriterInv`: what an
  ingest does not have left to write is stored, and its header goes first. A version that one
  document alone was written to holds items of that document only (`ItemOK`), and
  all of them once an ingest has returned; a reader keeps which of that held when
  it began (`ReaderInv`), whatever is written between its pages. That exactly
  these items read back as the document is `OwnItemsReadBack`, a lemma about
  `merge_chunks`: the number of chunks found is the number announced
  (`ChunkCount`).

Only model-checked: the liveness properties (fairness is out of the prover's
reach). Every safety and every action property of the runs that pass is stated
by a theorem.


## 5. Not modelled, and simplifications

* `ping`, `resource_stats` and `container_stats` report and change nothing.
* `TokenCache`: what depends on it is that a connect fails, which the pool model
  has; the rest is the clock of the identity service.
* `parse_envelope` and `build_envelope`: the wrapper of a document, whose server
  name no backend keeps.
* `run_write_bench.py` is one thread that calls a repository; its calls are those
  of the repository models, two orders with shared GUIDs are in
  `RelationalExtract`.
* `ord.Customers` and `ord.Parties` are shared between orders; no read modelled
  here depends on them, and waiting for their rows only makes a statement fail.
* A Cosmos read sees the current state of an item, page by page (two pages);
  weaker consistency levels are not modelled.
* The Mongo block read is a projection with an array index in its path. What the
  service makes of such a path is external and not modelled.
* A block edit in the full-document backends leaves the derived amounts and
  counts of the projection alone; only the status is modelled of them.
* Statements that are lost, connection drops and throttling appear as failing
  steps with or without their effect, not as a model of the drivers.
* In `Analytics` a push reads all tables of a backend at once and rows are their
  keys, documents and marks; the detailed push is `OpenMirror`, the detailed
  ingests are `SqlOrders` and `CosmosOrders`.
* The generators, the cost, retention, profile and reporting tools, the index
  experiments and the infrastructure are batch programs over files or one-shot
  measurements: `components` lists them with reasons.

## 6. Findings

The disagreements between what the repository says and what its code does are the
table in section 3. None of them is one of the runs; `PROJECT.json` lists no
finding for that reason.

## 7. Plan

Done, in this order: `ConnectionPool`, `OrderStore`/`SqlOrders`, `CosmosOrders`,
`OpenMirror`, `BlockSplit`, `SizeGuard`, `FullDocument`, `IngestRun`, `LoadRun`,
`RelationalExtract`, `FabricSetup`, `Analytics`.

What is left, in this order:

1. `push_cosmos` as a second kind of table in `OpenMirror`: its schema is a
   constant, its watermark is `_ts`, and a page of changes is a batch.
2. `TokenCache`, with the clock of the identity service, under `_new`.
3. the arithmetic of the retention and cost models against reference definitions.


