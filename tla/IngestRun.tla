------------------------------- MODULE IngestRun -------------------------------
(***************************************************************************)
(* The ingest command, ingestion/run_ingest.py, and the raw archive it     *)
(* fills, ingestion/archive/raw_archive.py.                                *)
(*                                                                         *)
(* A run is one process.  Its main thread generates the orders one after   *)
(* another, hands each to a pool of worker threads and never holds more    *)
(* than Limit of them; its workers archive an order and then give it to    *)
(* the repository.  Several runs may follow each other or overlap; an      *)
(* order's id comes from seed and index alone, so they all meet at the     *)
(* same paths, but its content comes from the settings of the run too.     *)
(*                                                                         *)
(* A directory is made for the version of the order, and in it a file is   *)
(* created, or emptied, and then filled: a process that dies in between    *)
(* leaves a directory without a file, or a file that is not whole.  A      *)
(* replay goes over the directories (iter_all).  The repositories          *)
(* are other modules; here all runs have the same one, and an ingest is    *)
(* one step that may raise.  --skip-archive is not set, and all runs have  *)
(* the same --seed and --customers, without which no two would meet.       *)
(***************************************************************************)
EXTENDS Integers, FiniteSets

CONSTANTS
  Runs,         \* the processes
  NumOrders,    \* --orders of each run
  Workers,      \* --workers
  Backlog,      \* orders in flight for each worker (4 in the code)
  Settings,     \* profile mixes that generate different contents
  NoSettings,   \* the run has not begun
  Faults        \* what may go wrong: see the actions

Orders == UNION {1..NumOrders[r] : r \in Runs}

\* Bound in-flight work so we never hold thousands of multi-MB docs.
Limit == Workers * Backlog

ASSUME IngestAssumption ==
  /\ NumOrders \in [Runs -> Nat]
  /\ Workers \in Nat \ {0}
  /\ Backlog \in Nat \ {0}
  /\ NoSettings \notin Settings
  /\ Faults \subseteq {"kill",      \* a process is killed
                       "raise",     \* a call raises in a worker
                       "blind"}     \* exists answers FALSE because its request failed

VARIABLES
  archive,      \* of each order whether it has a directory, and its file: the settings
                \* it came from, and whether it is whole
  stored,       \* the row of each order in the repository: settings it came from
  setting,      \* the settings of each run
  phase,        \* where the main thread of each run is
  submitted,    \* how many orders it has submitted
  futures,      \* the orders in its dictionary of futures
  job,          \* where the worker of each order of each run is
  rows,         \* how often each order is in the run's rows
  failures,     \* how often each order is in the run's failures
  met           \* what has gone wrong or come together so far (history)

vars == <<archive, stored, setting, phase, submitted, futures, job, rows, failures, met>>

files == <<archive, stored>>
main == <<phase, submitted, futures, rows, failures>>

NoFile == [dir |-> FALSE, by |-> NoSettings, whole |-> FALSE]

Init ==
  /\ archive = [i \in Orders |-> NoFile]
  /\ stored = [i \in Orders |-> NoSettings]
  /\ setting = [r \in Runs |-> NoSettings]
  /\ phase = [r \in Runs |-> "new"]
  /\ submitted = [r \in Runs |-> 0]
  /\ futures = [r \in Runs |-> {}]
  /\ job = [r \in Runs |-> [i \in Orders |-> "none"]]
  /\ rows = [r \in Runs |-> [i \in Orders |-> 0]]
  /\ failures = [r \in Runs |-> [i \in Orders |-> 0]]
  /\ met = {}

----------------------------------------------------------------------------
(* run: the main thread                                                    *)

Active(r) == phase[r] \in {"submitting", "draining"}

Begin(r, s) ==
  /\ phase[r] = "new"
  /\ setting' = [setting EXCEPT ![r] = s]
  /\ phase' = [phase EXCEPT ![r] = "submitting"]
  /\ met' = met \cup (IF \E other \in Runs : Active(other) THEN {"overlap"} ELSE {})
                \cup (IF \E other \in Runs : setting[other] \notin {s, NoSettings}
                        THEN {"changed"} ELSE {})
  /\ UNCHANGED <<files, submitted, futures, job, rows, failures>>

Finished(r, i) == job[r][i] \in {"done", "failed"}

MoreOrders(r) == submitted[r] < NumOrders[r]

Submit(r) ==
  LET i == submitted[r] + 1
  IN  /\ phase[r] = "submitting"
      /\ MoreOrders(r)
      /\ Cardinality(futures[r]) < Limit
      /\ submitted' = [submitted EXCEPT ![r] = i]
      /\ futures' = [futures EXCEPT ![r] = @ \cup {i}]
      /\ job' = [job EXCEPT ![r][i] = "queued"]
      /\ UNCHANGED <<files, setting, phase, rows, failures, met>>

\* _collect
Collect(r, i) ==
  IF job[r][i] = "done"
    THEN rows' = [rows EXCEPT ![r][i] = @ + 1] /\ UNCHANGED failures
    ELSE failures' = [failures EXCEPT ![r][i] = @ + 1] /\ UNCHANGED rows

NotPopped(r, i) == futures[r]    \* mutant: the future stays in the dictionary

Popped(r, i) == futures[r] \ {i}

\* The dictionary is full: next(as_completed(futures)), some finished one.
CollectOne(r, i) ==
  /\ phase[r] = "submitting"
  /\ Cardinality(futures[r]) >= Limit
  /\ i \in futures[r]
  /\ Finished(r, i)
  /\ Collect(r, i)
  /\ futures' = [futures EXCEPT ![r] = Popped(r, i)]
  /\ UNCHANGED <<files, setting, phase, submitted, job, met>>

Exhausted(r) ==
  /\ phase[r] = "submitting"
  /\ ~MoreOrders(r)
  /\ Cardinality(futures[r]) < Limit
  /\ phase' = [phase EXCEPT ![r] = "draining"]
  /\ UNCHANGED <<files, setting, submitted, futures, job, rows, failures, met>>

\* for fut in as_completed(futures): each of the rest, once.
CollectRest(r, i) ==
  /\ phase[r] = "draining"
  /\ i \in futures[r]
  /\ Finished(r, i)
  /\ Collect(r, i)
  /\ futures' = [futures EXCEPT ![r] = @ \ {i}]
  /\ UNCHANGED <<files, setting, phase, submitted, job, met>>

\* The executor is shut down, the summary is written, the repository closed.
End(r) ==
  /\ phase[r] = "draining"
  /\ futures[r] = {}
  /\ phase' = [phase EXCEPT ![r] = "over"]
  /\ UNCHANGED <<files, setting, submitted, futures, job, rows, failures, met>>

----------------------------------------------------------------------------
(* ingest_one and RawArchive.put: a worker thread                          *)

Goto(r, i, l) == job' = [job EXCEPT ![r][i] = l]

Busy(r) == {i \in Orders : job[r][i] \notin {"none", "queued", "done", "failed"}}

\* The executor's queue is first in, first out.
Take(r, i) ==
  /\ job[r][i] = "queued"
  /\ \A j \in Orders : job[r][j] = "queued" => i <= j
  /\ Cardinality(Busy(r)) < Workers
  /\ Goto(r, i, "put")
  /\ UNCHANGED <<files, setting, main, met>>

AlwaysAbsent(i) == FALSE    \* mutant: put writes without asking

Exists(i) == archive[i].by # NoSettings

\* FileExistsError: ingest_one goes on with the path of the file that is there.
FindsFile(r, i) ==
  /\ job[r][i] = "put"
  /\ Exists(i)
  /\ Goto(r, i, "ingest")
  /\ UNCHANGED <<files, setting, main, met>>

\* The directory is made at once: it makes no difference to the other threads.
FindsNoFile(r, i) ==
  /\ job[r][i] = "put"
  /\ Exists(i) => "blind" \in Faults
  /\ met' = IF Exists(i) THEN met \cup {"blind"} ELSE met
  /\ archive' = [archive EXCEPT ![i].dir = TRUE]
  /\ Goto(r, i, "open")
  /\ UNCHANGED <<stored, setting, main>>

\* _write empties the file, whoever made it ...
Open(r, i) ==
  /\ job[r][i] = "open"
  /\ archive' = [archive EXCEPT ![i] = [dir |-> TRUE, by |-> setting[r], whole |-> FALSE]]
  /\ Goto(r, i, "fill")
  /\ UNCHANGED <<stored, setting, main, met>>

\* ... and fills it.  Where another run has opened it with another content in
\* the meantime, the two may end up mixed.
Fill(r, i) ==
  /\ job[r][i] = "fill"
  /\ \E w \in IF archive[i].by = setting[r] THEN {TRUE} ELSE BOOLEAN :
       archive' = [archive EXCEPT ![i] = [dir |-> TRUE, by |-> setting[r], whole |-> w]]
  /\ Goto(r, i, "ingest")
  /\ UNCHANGED <<stored, setting, main, met>>

\* The row holds the hash of this run's bytes and the path.
Ingest(r, i) ==
  /\ job[r][i] = "ingest"
  /\ stored' = [stored EXCEPT ![i] = setting[r]]
  /\ Goto(r, i, "done")
  /\ UNCHANGED <<archive, setting, main, met>>

GoesOn(at) == IF at = "open" THEN "ingest" ELSE "failed"    \* mutant: except Exception around put

AfterError(at) == "failed"

\* The file is there and not filled.
Cut(r, i) == IF job[r][i] = "fill" THEN {"cut"} ELSE {}

\* A call raises: what has been written, perhaps the whole row, stays.
Raise(r, i) ==
  /\ "raise" \in Faults
  /\ job[r][i] \in {"open", "fill", "ingest"}
  /\ \/ UNCHANGED stored
     \/ job[r][i] = "ingest" /\ stored' = [stored EXCEPT ![i] = setting[r]]
  /\ Goto(r, i, AfterError(job[r][i]))
  /\ met' = met \cup Cut(r, i)
  /\ UNCHANGED <<archive, setting, main>>

Kill(r) ==
  /\ "kill" \in Faults
  /\ Active(r)
  /\ phase' = [phase EXCEPT ![r] = "killed"]
  /\ job' = [job EXCEPT ![r] = [i \in Orders |-> "none"]]
  /\ futures' = [futures EXCEPT ![r] = {}]
  /\ met' = met \cup UNION {Cut(r, i) : i \in Orders}
  /\ UNCHANGED <<files, setting, submitted, rows, failures>>

----------------------------------------------------------------------------
(* A replay of the archive                                                 *)

\* iter_all goes over the directories of the versions, whatever they hold.
Listed == {i \in Orders : archive[i].dir}

\* get reads the file and decompresses it: where there is none, or one that is
\* not whole, it raises.
Readable(i) == Exists(i) /\ archive[i].whole

Replay == [i \in {j \in Listed : Readable(j)} |-> archive[i].by]

----------------------------------------------------------------------------

MainStep(r) ==
  \/ Submit(r)
  \/ \E i \in Orders : CollectOne(r, i) \/ CollectRest(r, i)
  \/ Exhausted(r)
  \/ End(r)

WorkerStep(r, i) ==
  \/ Take(r, i)
  \/ FindsFile(r, i)
  \/ FindsNoFile(r, i)
  \/ Open(r, i)
  \/ Fill(r, i)
  \/ Ingest(r, i)
  \/ Raise(r, i)

Running(r) == MainStep(r) \/ \E i \in Orders : WorkerStep(r, i)

Next ==
  \E r \in Runs :
    \/ \E s \in Settings : Begin(r, s)
    \/ Running(r)
    \/ Kill(r)

Spec == Init /\ [][Next]_vars

\* A live process goes on: what its threads call returns or raises.
FairSpec == Spec /\ \A r \in Runs : WF_vars(Running(r))

----------------------------------------------------------------------------

Places == {"none", "queued", "put", "open", "fill", "ingest", "done", "failed"}

TypeOK ==
  /\ archive \in [Orders -> [dir : BOOLEAN, by : Settings \cup {NoSettings}, whole : BOOLEAN]]
  /\ stored \in [Orders -> Settings \cup {NoSettings}]
  /\ setting \in [Runs -> Settings \cup {NoSettings}]
  /\ phase \in [Runs -> {"new", "submitting", "draining", "over", "killed"}]
  /\ submitted \in [Runs -> Nat]
  /\ \A r \in Runs : submitted[r] <= NumOrders[r]
  /\ futures \in [Runs -> SUBSET Orders]
  /\ job \in [Runs -> [Orders -> Places]]
  /\ rows \in [Runs -> [Orders -> Nat]]
  /\ failures \in [Runs -> [Orders -> Nat]]
  /\ met \subseteq {"overlap", "changed", "blind", "cut"}

\* In a run that was not killed, every order that was submitted is either in
\* flight or counted once, as a row or as a failure, a bounded number is in
\* flight, and at the end every order has been counted.
OrdersAccounted ==
  \A r \in Runs : phase[r] # "killed" =>
    /\ \A i \in 1..submitted[r] : rows[r][i] + failures[r][i] = IF i \in futures[r] THEN 0 ELSE 1
    /\ Cardinality(futures[r]) <= Limit
    /\ phase[r] = "over" => submitted[r] = NumOrders[r] /\ futures[r] = {}

\* The archive is write-once: a whole file is never touched again, unless two
\* runs overlap or exists fails to see it.
WriteOnce ==
  [][met' \cap {"overlap", "blind"} = {} =>
       \A i \in Orders : archive[i].whole => archive'[i] = archive[i]]_vars

\* A replay of the archive gives every order of the repository, and gives it as
\* it was stored ("links an order version to its archive URI and payload hash
\* for replay", SQL_DESIGN.md), unless a write was cut short, another run was
\* writing at the same time, or the order was generated with other settings.
\* And while no process is in the middle of it, every file there is can be
\* read, of orders that were never stored too (raw_archive.py:98-153).
ReplayGivesTheOrder ==
  /\ \A i \in Orders : stored[i] # NoSettings => Exists(i) /\ i \in Listed
  /\ met = {} =>
       /\ \A i \in Orders : stored[i] # NoSettings => i \in DOMAIN Replay /\ Replay[i] = stored[i]
       /\ \A i \in Listed : i \notin DOMAIN Replay => ~Exists(i) \/ \E r \in Runs : job[r][i] = "fill"

\* A run that is not killed comes to its end, whatever its workers meet.
RunEnds == \A r \in Runs : Active(r) ~> ~Active(r)

----------------------------------------------------------------------------
(* What the documentation says and the code does not keep.                 *)

\* The archive holds what was stored, whichever runs came before: the row "links
\* an order version to its archive URI and payload hash for replay"
\* (SQL_DESIGN.md).
ArchiveHoldsTheOrder ==
  \A i \in Orders : stored[i] # NoSettings => i \in DOMAIN Replay /\ Replay[i] = stored[i]

\* iter_all yields what can be read.  A process that dies between mkdir and
\* write_bytes leaves a directory that is listed and has no file.
ListedCanBeRead == met = {} => \A i \in Listed : Exists(i) \/ \E r \in Runs : job[r][i] = "open"

=============================================================================
