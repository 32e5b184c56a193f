------------------------------- MODULE LoadRun -------------------------------
(***************************************************************************)
(* One run of the load harness, loadtests/operational/run_load.py, against *)
(* the API, app/api/main.py, whose uvicorn workers each keep their own     *)
(* ring of request records, app/telemetry/metrics.py.                      *)
(*                                                                         *)
(* The harness issues requests on a schedule, in phases: a warm-up, and    *)
(* then the repeats.  Between them it resets the metrics of the worker     *)
(* that answers, and after the last it reads those of the worker that      *)
(* answers then.  A client gives up on a request after its time-out, and   *)
(* the worker that handles it does not know.                               *)
(*                                                                         *)
(* Request k of phase p is <<p, k>>; phase 0 is the warm-up.  How many are *)
(* issued before the phase is over is left open, up to PerPhase.           *)
(***************************************************************************)
EXTENDS Integers, Sequences, FiniteSets, Functions

CONSTANTS
  Repeats,      \* --repeats
  PerPhase,     \* bound on the requests of each phase
  MaxInflight,  \* --max-inflight
  TaskCap,      \* tasks kept before the finished ones are dropped (20000 in the code)
  Servers,      \* the uvicorn workers
  Capacity,     \* of a worker's ring (20000 in the code)
  Faults        \* "timeout": a call of the harness raises; "refused": one to the
                \* metrics is answered, but not with success

ASSUME LoadAssumption ==
  /\ Repeats \in Nat \ {0}
  /\ PerPhase \in [0..Repeats -> Nat \ {0}]
  /\ {MaxInflight, Capacity} \subseteq Nat \ {0}
  /\ TaskCap \in Nat
  /\ Servers # {}
  /\ Faults \subseteq {"timeout", "refused"}

Requests == UNION {{p} \X (1..PerPhase[p]) : p \in 0..Repeats}

VARIABLES
  phase,        \* 0 for the warm-up, then the repeat
  stage,        \* what the harness does
  issued,       \* requests issued in this phase
  tasks,        \* the list of tasks of this phase
  client,       \* where the coroutine of each request is
  samples,      \* how often each request is in a Recorder
  server,       \* where the handler of each request is
  ring,         \* _records of each worker
  kept,         \* everything a worker recorded since it was last reset (history)
  cleared,      \* the workers that were reset (history)
  scraped       \* the server metrics of the result: the worker, its records, and its kept

vars == <<phase, stage, issued, tasks, client, samples, server, ring, kept, cleared, scraped>>

harness == <<phase, stage, issued, tasks, cleared, scraped>>
workers == <<server, ring, kept>>

\* What summary makes of the records is left out: it is made of these.
Summary(s) == [by |-> {s}, records |-> ring[s], of |-> kept[s]]

NoScrape == [by |-> {}, records |-> <<>>, of |-> <<>>]

\* --warmup 0 skips the first phase.
Init ==
  /\ phase = 0
  /\ stage \in {"issuing", "resetting"}
  /\ issued = 0
  /\ tasks = {}
  /\ client = [q \in Requests |-> "none"]
  /\ samples = [q \in Requests |-> 0]
  /\ server = [q \in Requests |-> [at |-> "none", by |-> {}, good |-> FALSE]]
  /\ ring = [s \in Servers |-> <<>>]
  /\ kept = [s \in Servers |-> <<>>]
  /\ cleared = {}
  /\ scraped = NoScrape

----------------------------------------------------------------------------
(* run_phase: the schedule                                                 *)

Done(q) == client[q] \in {"ok", "error", "gone"}

KeepsFinished(T) == IF Cardinality(T) > TaskCap THEN {q \in T : Done(q)} ELSE T    \* mutant: not t.done() turned round

Pruned(T) == IF Cardinality(T) > TaskCap THEN {q \in T : ~Done(q)} ELSE T

Issue ==
  LET q == <<phase, issued + 1>>
  IN  /\ stage = "issuing"
      /\ issued < PerPhase[phase]
      /\ issued' = issued + 1
      /\ tasks' = Pruned(tasks \cup {q})
      /\ client' = [client EXCEPT ![q] = "queued"]
      /\ UNCHANGED <<phase, stage, samples, workers, cleared, scraped>>

\* The duration is over; at least one request was issued.
StopIssuing ==
  /\ stage = "issuing"
  /\ issued > 0
  /\ stage' = "gathering"
  /\ UNCHANGED <<phase, issued, tasks, client, samples, workers, cleared, scraped>>

SomeDone == \E q \in tasks : Done(q)    \* mutant: asyncio.wait for the first instead of gather

AllDone == \A q \in tasks : Done(q)

\* summarise has a latency for a phase only if a request of it succeeded;
\* main_async reads it without asking, and a repeat without one ends the run.
HasLatency(p) == \E q \in Requests : q[1] = p /\ client[q] = "ok"

AfterPhase(p) ==
  CASE p = 0 -> "resetting"
    [] p > 0 /\ ~HasLatency(p) -> "crashed"
    [] p = Repeats /\ HasLatency(p) -> "scraping"
    [] OTHER -> "issuing"

PhaseEnds ==
  /\ stage = "gathering"
  /\ AllDone
  /\ stage' = AfterPhase(phase)
  /\ phase' = IF stage' = "issuing" THEN phase + 1 ELSE phase
  /\ issued' = 0
  /\ tasks' = {}
  /\ UNCHANGED <<client, samples, workers, cleared, scraped>>

----------------------------------------------------------------------------
(* worker: one coroutine for each request                                  *)

InFlight == {q \in Requests : client[q] = "sent"}

\* The semaphore serves its waiters in order.
Send(q) ==
  /\ client[q] = "queued"
  /\ \A r \in Requests : client[r] = "queued" => q[2] <= r[2]
  /\ Cardinality(InFlight) < MaxInflight
  /\ client' = [client EXCEPT ![q] = "sent"]
  /\ UNCHANGED <<harness, samples, workers>>

Finish(q, outcome) ==
  /\ client' = [client EXCEPT ![q] = outcome]
  /\ samples' = [samples EXCEPT ![q] = @ + 1]

\* Only a 200 is a success.
Answer(q) ==
  /\ client[q] = "sent"
  /\ server[q].at = "recorded"
  /\ Finish(q, IF server[q].good THEN "ok" ELSE "error")
  /\ UNCHANGED <<harness, workers>>

GiveUp(q) ==
  /\ "timeout" \in Faults
  /\ client[q] = "sent"
  /\ Finish(q, "gone")
  /\ UNCHANGED <<harness, workers>>

----------------------------------------------------------------------------
(* The API: an endpoint inside measure, and the collector of its worker    *)

Accept(q, s) ==
  /\ client[q] = "sent"
  /\ server[q].at = "none"
  /\ server' = [server EXCEPT ![q] = [at |-> "running", by |-> {s}, good |-> FALSE]]
  /\ UNCHANGED <<harness, client, samples, ring, kept>>

NoLock(s) == TRUE    \* mutant: the records are used without the lock

LockFree(s) == \A q \in Requests : ~(server[q].at = "appended" /\ s \in server[q].by)

\* Answered, not found, or raised: measure records it, under the lock ...
Record(q, s, good) ==
  /\ server[q].at = "running"
  /\ s \in server[q].by
  /\ LockFree(s)
  /\ server' = [server EXCEPT ![q].at = "appended", ![q].good = good]
  /\ ring' = [ring EXCEPT ![s] = Append(@, q)]
  /\ kept' = [kept EXCEPT ![s] = Append(@, q)]
  /\ UNCHANGED <<harness, client, samples>>

NewestOf(records) ==
  SubSeq(records, IF Len(records) > Capacity THEN Len(records) - Capacity + 1 ELSE 1, Len(records))

\* ... and drops the oldest over capacity.
Trim(q, s) ==
  /\ server[q].at = "appended"
  /\ s \in server[q].by
  /\ server' = [server EXCEPT ![q].at = "recorded"]
  /\ ring' = [ring EXCEPT ![s] = NewestOf(@)]
  /\ UNCHANGED <<harness, client, samples, kept>>

----------------------------------------------------------------------------
(* main_async: what the harness asks of the metrics                        *)

Reset(s) ==
  /\ stage = "resetting"
  /\ LockFree(s)
  /\ ring' = [ring EXCEPT ![s] = <<>>]
  /\ kept' = [kept EXCEPT ![s] = <<>>]
  /\ cleared' = {s}
  /\ phase' = 1
  /\ stage' = "issuing"
  /\ UNCHANGED <<issued, tasks, client, samples, server, scraped>>

Scrape(s) ==
  /\ stage = "scraping"
  /\ LockFree(s)
  /\ scraped' = Summary(s)
  /\ stage' = "written"
  /\ UNCHANGED <<phase, issued, tasks, client, samples, workers, cleared>>

\* The status of the reset is not looked at: the repeats begin, with the records
\* of the warm-up where they were.
ResetRefused ==
  /\ "refused" \in Faults
  /\ stage = "resetting"
  /\ phase' = 1
  /\ stage' = "issuing"
  /\ UNCHANGED <<issued, tasks, client, samples, workers, cleared, scraped>>

\* The file is written all the same, with the status in place of the metrics.
ScrapeRefused ==
  /\ "refused" \in Faults
  /\ stage = "scraping"
  /\ scraped' = NoScrape
  /\ stage' = "written"
  /\ UNCHANGED <<phase, issued, tasks, client, samples, workers, cleared>>

\* A call that raises: nothing is written, whatever the repeats have printed.
CallFails ==
  /\ "timeout" \in Faults
  /\ stage \in {"resetting", "scraping"}
  /\ stage' = "crashed"
  /\ UNCHANGED <<phase, issued, tasks, client, samples, workers, cleared, scraped>>

----------------------------------------------------------------------------

Harness ==
  \/ Issue
  \/ StopIssuing
  \/ PhaseEnds
  \/ \E s \in Servers : Reset(s) \/ Scrape(s)
  \/ ResetRefused
  \/ ScrapeRefused
  \/ CallFails

Handler(q) ==
  \E s \in Servers :
    \/ Accept(q, s)
    \/ \E good \in BOOLEAN : Record(q, s, good)
    \/ Trim(q, s)

Next ==
  \/ Harness
  \/ \E q \in Requests : Send(q) \/ Answer(q) \/ GiveUp(q) \/ Handler(q)

Spec == Init /\ [][Next]_vars

\* The event loop goes on, and every call of the harness returns or times
\* out.  A handler may hang for ever.
FairSpec ==
  /\ Spec
  /\ WF_vars(Harness)
  /\ \A q \in Requests : WF_vars(Send(q)) /\ WF_vars(Answer(q) \/ GiveUp(q))

----------------------------------------------------------------------------

TypeOK ==
  /\ phase \in 0..Repeats
  /\ stage \in {"issuing", "gathering", "resetting", "scraping", "written", "crashed"}
  /\ issued \in Nat
  /\ tasks \subseteq Requests
  /\ client \in [Requests -> {"none", "queued", "sent", "ok", "error", "gone"}]
  /\ samples \in [Requests -> Nat]
  /\ server \in [Requests -> [at : {"none", "running", "appended", "recorded"},
                              by : SUBSET Servers, good : BOOLEAN]]
  /\ ring \in [Servers -> Seq(Requests)]
  /\ kept \in [Servers -> Seq(Requests)]
  /\ cleared \subseteq Servers
  /\ scraped \in [by : SUBSET Servers, records : Seq(Requests), of : Seq(Requests)]

PhaseOver(p) == p < phase \/ stage \notin {"issuing", "gathering"}

\* When a phase is over none of its requests is outstanding, and each of those
\* issued is one sample, whether it was answered, failed, or was given up, and
\* whichever tasks were dropped from the list: "requests are issued on a fixed
\* schedule regardless of whether earlier ones have finished".
EveryRequestIsOneSample ==
  \A q \in Requests : PhaseOver(q[1]) =>
    /\ client[q] \notin {"queued", "sent"}
    /\ samples[q] = IF Done(q) THEN 1 ELSE 0

\* What the result says of a worker is a whole number of records, in order:
\* the newest it made since it was last reset, all of them if they fit.
ScrapeIsTheNewest == stage = "written" => scraped.records = NewestOf(scraped.of)

\* The metrics of the result, if it has any, are of the repeats: a request of
\* the warm-up is among them only if another worker was reset, or none because
\* the reset was refused, or its client had given up, and every request that
\* this worker answered in the repeats is among them unless the ring was too
\* small.
ScrapeIsOfTheRepeats ==
  stage = "written" =>
    /\ \A q \in Range(scraped.records) :
         q[1] = 0 => scraped.by # cleared \/ client[q] = "gone"
    /\ Len(scraped.of) <= Capacity =>
         \A q \in Requests : q[1] > 0 /\ client[q] \in {"ok", "error"} /\ server[q].by = scraped.by
           => q \in Range(scraped.records)

\* Whatever the API does, the run ends: with a result, or without.
HarnessEnds == <>(stage \in {"written", "crashed"})

----------------------------------------------------------------------------
(* What the code says and does not keep.                                   *)

\* "single worker - metrics are complete" (bench_metrics).
SingleWorkerIsComplete ==
  stage = "written" /\ Cardinality(Servers) = 1 =>
    Range(scraped.records) = {q \in Requests : q[1] > 0 /\ server[q].at = "recorded"}

\* "never prints numbers that are not in that file" (run_load.py): a repeat
\* whose numbers were printed is in a file at the end.
PrintedIsWritten == stage = "crashed" => ~\E p \in 1..Repeats : HasLatency(p) /\ PhaseOver(p)

=============================================================================
