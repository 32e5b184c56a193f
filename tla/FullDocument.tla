---------------------------- MODULE FullDocument ----------------------------
(***************************************************************************)
(* One order in the two backends that keep it as a single document:        *)
(* SqlFullJsonRepository, a row of ord.OrderDocuments, and                 *)
(* MongoOrderRepository, a document of the collection orders_full. Every   *)
(* write is one statement of the database, so it is one step here; what    *)
(* takes several steps is a Mongo call that also asks the connection for   *)
(* the request charge of "the last request".                               *)
(*                                                                         *)
(* Around its document the row keeps a projection: the status the search   *)
(* filters on and the summary that GET /summary answers from. A value is   *)
(* known by its stamp: the document it came with, or the client that wrote *)
(* it last.                                                                *)
(***************************************************************************)
EXTENDS Integers

CONSTANTS
  Clients,      \* the threads that serve requests
  Docs,         \* the source documents of this order
  Keys,         \* the ObjectData keys of BLOCK_MAP (one per block)
  Blocks,       \* the keys each document has
  NoDoc,        \* no such row, no such key
  NoClient,     \* the lock is free
  Unknown,      \* a charge that could not be sampled
  Mongo,        \* MongoOrderRepository, or SqlFullJsonRepository
  CaptureRu,    \* MONGO_CAPTURE_RU: one connection, sampled after each request
  Ops,          \* the operations clients call
  MaxCalls      \* bound: calls started

ASSUME DocumentAssumption ==
  /\ Mongo \in BOOLEAN /\ CaptureRu \in BOOLEAN /\ (CaptureRu => Mongo)
  /\ Blocks \in [Docs -> SUBSET Keys]
  /\ NoDoc \notin Docs \cup Clients /\ NoClient \notin Clients
  /\ Unknown \notin [by : Clients, write : BOOLEAN]
  /\ Ops \subseteq {"ingest", "block", "header", "read"}
  /\ MaxCalls \in Nat

VARIABLES
  row,      \* the stored row: document, its keys, its projection
  call,     \* what each client is doing, and for which request
  lock,     \* _ru_lock: the client that holds it
  last,     \* getLastRequestStatistics: whose the connection's last request was
  charge,   \* the charge each client's last call with a sample reported
  calls     \* calls started

vars == <<row, call, lock, last, charge, calls>>

Stamps == Docs \cup Clients

NoRow == [doc |-> NoDoc, keys |-> [k \in Keys |-> NoDoc],
          header |-> NoDoc, status |-> NoDoc, summary |-> NoDoc]

Idle == [at |-> "idle"]

\* What a charge is the charge of.
Request(c, q) == [by |-> c, write |-> q.op # "read"]

Requests ==
  {[op |-> "ingest", arg |-> d] : d \in Docs}
    \cup {[op |-> "block", arg |-> k] : k \in Keys}
    \cup {[op |-> "header"], [op |-> "read"]}

Init ==
  /\ row = NoRow
  /\ call = [c \in Clients |-> Idle]
  /\ lock = NoClient
  /\ last = Unknown
  /\ charge = [c \in Clients |-> [write |-> FALSE, of |-> Unknown]]
  /\ calls = 0

-----------------------------------------------------------------------------
(* What a statement does to the row.                                        *)

\* ingest_order: MERGE, or replace_one with upsert: the row is the document
\* and the projection derived from it, whatever was there before.
DocumentOf(d) ==
  [doc |-> d, keys |-> [k \in Keys |-> IF k \in Blocks[d] THEN d ELSE NoDoc],
   header |-> d, status |-> d, summary |-> d]

\* Mutant: the path of the edit stops at ObjectData.
WithEveryKey(c, k) == [row EXCEPT !.keys = [j \in Keys |-> c]]

\* update_block: JSON_MODIFY, or $set on the nested path, of one key of the
\* document; both create the key when the document has none.
WithKey(c, k) == [row EXCEPT !.keys = [@ EXCEPT ![k] = c]]

\* Mutant: no backend moves the summary.
SummaryUnmoved(c) == row.summary

\* update_order_header moves the status in the document and in the
\* projection; only the Mongo repository moves the summary's too.
SummaryStatus(c) == IF Mongo THEN c ELSE row.summary

\* Mutant: the document moves and the column does not.
DocumentOnly(c) == [row EXCEPT !.header = c, !.summary = SummaryStatus(c)]

WithHeader(c) ==
  [row EXCEPT !.header = c, !.status = c, !.summary = SummaryStatus(c)]

Exists == row.doc # NoDoc

\* The row after c's request; an update of no row changes nothing.
After(c, q) ==
  CASE q.op = "ingest" -> DocumentOf(q.arg)
    [] q.op = "block"  -> IF Exists THEN WithKey(c, q.arg) ELSE row
    [] q.op = "header" -> IF Exists THEN WithHeader(c) ELSE row
    [] q.op = "read"   -> row

-----------------------------------------------------------------------------
(* What a read answers: one statement, from the row as it is.               *)

\* get_full_order: the payload, or everything but the metadata.
FullRead == [found |-> Exists, header |-> row.header, keys |-> row.keys]

\* get_summary: SummaryJson, or _proj.summary; the payload is untouched.
SummaryRead == [found |-> Exists, status |-> row.summary]

\* search_orders with status s: a filter on the projected column.
SearchFinds(s) == Exists /\ row.status = s

-----------------------------------------------------------------------------
(* A call.                                                                  *)

Begin(c) ==
  /\ call[c] = Idle
  /\ calls < MaxCalls
  /\ \E q \in Requests :
       /\ q.op \in Ops
       /\ call' = [call EXCEPT ![c] = [at |-> "ready", req |-> q]]
  /\ calls' = calls + 1
  /\ UNCHANGED <<row, lock, last, charge>>

\* Mutant: nobody takes the lock.
NeverLocks(q) == FALSE

\* Only the writes take the lock, and only when charges are captured.
Locks(q) == CaptureRu /\ q.op # "read"

Acquire(c) ==
  /\ call[c].at = "ready" /\ Locks(call[c].req)
  /\ lock = NoClient
  /\ lock' = c
  /\ call' = [call EXCEPT ![c].at = "locked"]
  /\ UNCHANGED <<row, last, charge, calls>>

MayExecute(c) ==
  \/ call[c].at = "locked"
  \/ call[c].at = "ready" /\ ~Locks(call[c].req)

Unlocked(c) == IF lock = c THEN NoClient ELSE lock

\* The statement, committed by the server.  There is one connection, so the
\* requests of the threads go out one after the other.
Execute(c) ==
  /\ MayExecute(c)
  /\ row' = After(c, call[c].req)
  /\ last' = IF CaptureRu THEN Request(c, call[c].req) ELSE last
  /\ call' = [call EXCEPT ![c] = IF CaptureRu THEN [at |-> "executed", req |-> @.req] ELSE Idle]
  /\ UNCHANGED <<lock, charge, calls>>

\* _last_ru: a second command on the same connection; {} when it fails.
Sample(c) ==
  /\ call[c].at = "executed"
  /\ \E answer \in {last, Unknown} :
       charge' = [charge EXCEPT ![c] = [write |-> call[c].req.op # "read", of |-> answer]]
  /\ lock' = Unlocked(c)
  /\ call' = [call EXCEPT ![c] = Idle]
  /\ UNCHANGED <<row, last, calls>>

\* The statement raises: the server did not run it, or it did and the answer
\* was lost. The call ends, and nothing is sampled.
Fail(c) ==
  /\ MayExecute(c)
  /\ \/ UNCHANGED <<row, last>>
     \/ /\ row' = After(c, call[c].req)
        /\ last' = IF CaptureRu THEN Request(c, call[c].req) ELSE last
  /\ lock' = Unlocked(c)
  /\ call' = [call EXCEPT ![c] = Idle]
  /\ UNCHANGED <<charge, calls>>

Next ==
  \E c \in Clients : Begin(c) \/ Acquire(c) \/ Execute(c) \/ Sample(c) \/ Fail(c)

Spec == Init /\ [][Next]_vars

\* A thread that started a call runs on; the lock is released for good once
\* every other call has ended, because calls are bounded.
Fairness == \A c \in Clients : WF_vars(Acquire(c) \/ Execute(c) \/ Sample(c))

FairSpec == Spec /\ Fairness

-----------------------------------------------------------------------------
Rows == [doc : Docs \cup {NoDoc}, keys : [Keys -> Stamps \cup {NoDoc}],
         header : Stamps \cup {NoDoc}, status : Stamps \cup {NoDoc},
         summary : Stamps \cup {NoDoc}]

Charged == [by : Clients, write : BOOLEAN]

Calls == [at : {"ready", "locked", "executed"}, req : Requests]

(* The row, the calls and the charges are of their types.                   *)
TypeOK ==
  /\ row \in Rows
  /\ call \in [Clients -> {Idle} \cup Calls]
  /\ lock \in Clients \cup {NoClient}
  /\ last \in Charged \cup {Unknown}
  /\ charge \in [Clients -> [write : BOOLEAN, of : Charged \cup {Unknown}]]
  /\ calls \in 0..MaxCalls

(* GET /summary finds the order when GET /full does and has its status,     *)
(* after any writes in any order.                                           *)
SummaryFollowsDocument == SummaryRead = [found |-> FullRead.found, status |-> FullRead.header]

(* The search finds the order by the status its document has, and by no     *)
(* other: "Both must move or the row contradicts its own document."         *)
ColumnFollowsDocument ==
  \A s \in Stamps : SearchFinds(s) <=> FullRead.found /\ FullRead.header = s

(* With RU capture on, a write never reports the charge of another write:   *)
(* what it samples is its own, nothing, or the charge of a read, which may  *)
(* get between a write and its sample because reads take no lock.           *)
ChargeIsNoOtherWrite ==
  \A c \in Clients : charge[c].write =>
    charge[c].of \in {[by |-> c, write |-> TRUE], Unknown} \cup [by : Clients, write : {FALSE}]

(* "pin the pool to one connection and serialise, so 'the last request' is  *)
(* unambiguous" (mongo_repository.py:90-93), of every call: violated, the   *)
(* reads sample the connection without the lock.                            *)
ChargeIsOwn ==
  \A c \in Clients : charge[c].of # Unknown =>
    charge[c].of = [by |-> c, write |-> charge[c].write]

(* Every call ends: a failing statement or a failing sample releases the   *)
(* lock, and nobody waits for it for good.                                  *)
EveryCallEnds == \A c \in Clients : call[c] # Idle ~> call[c] = Idle

(* The row implements the order of OrderStore, where an edit of a block the *)
(* order lacks creates it: a document replaces the order, a block edit      *)
(* changes one block, a header edit the header alone; a read, a failed call *)
(* and a sample change nothing.                                             *)
Store == INSTANCE OrderStore WITH
  store <- [doc |-> row.doc, header |-> row.header, blocks |-> row.keys],
  EditCreates <- TRUE

ImplementsOrderStore == Store!Spec

(* The same with the order of the hybrid backend, where such an edit does   *)
(* nothing: violated, the backends do not agree on it.                      *)
HybridStore == INSTANCE OrderStore WITH
  store <- [doc |-> row.doc, header |-> row.header, blocks |-> row.keys],
  EditCreates <- FALSE

EditsAsHybrid == HybridStore!Spec

=============================================================================
