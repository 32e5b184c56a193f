--------------------------- MODULE LoadRun_proofs ---------------------------
(***************************************************************************)
(* LoadRun proved for any number of requests, repeats and workers.         *)
(*                                                                         *)
(* That a phase leaves nothing behind rests on what the list of tasks      *)
(* holds: every request that is outstanding is of the phase that is on,    *)
(* and in the list, whatever was dropped from it (Outstanding).  That the  *)
(* ring is the newest of what was recorded rests on the lock: while a      *)
(* record is appended and not yet trimmed, the ring holds one too many,    *)
(* and nobody else can see it (RingIsTheNewest).  That the result is of    *)
(* the repeats rests on both: once the reset came nobody waits for a       *)
(* request of the warm-up, so a handler that records one late has lost its *)
(* client (WarmUpIsGone), and no request of the repeats was sent before it *)
(* (RepeatsAreKept).                                                       *)
(***************************************************************************)
EXTENDS LoadRun, SequenceTheorems, TLAPS

SampledOnce == \A q \in Requests : samples[q] = IF Done(q) THEN 1 ELSE 0

Outstanding ==
  \A q \in Requests : client[q] \in {"queued", "sent"} =>
    q \in tasks /\ q[1] = phase /\ stage \in {"issuing", "gathering"}

\* Only requests that the schedule has reached are known to anybody.
Reached ==
  /\ \A q \in Requests : client[q] # "none" =>
       q[1] <= phase /\ (q[1] = phase /\ stage \in {"issuing", "gathering"} => q[2] <= issued)
  /\ stage = "resetting" => phase = 0 /\ issued = 0

OneWorker == \A q \in Requests : server[q].at # "none" => \E s \in Servers : server[q].by = {s}

RingIsTheNewest ==
  \A s \in Servers :
    /\ NewestOf(ring[s]) = NewestOf(kept[s])
    /\ LockFree(s) => ring[s] = NewestOf(kept[s])

IInv == TypeOK /\ SampledOnce /\ Outstanding /\ Reached

RingInv == TypeOK /\ OneWorker /\ RingIsTheNewest /\ ScrapeIsTheNewest

----------------------------------------------------------------------------
(* Requests and sequences of them                                          *)

LEMMA RequestType ==
  /\ \A q \in Requests : q = <<q[1], q[2]>> /\ q[1] \in 0..Repeats /\ q[2] \in 1..PerPhase[q[1]]
  /\ \A p \in 0..Repeats : \A k \in 1..PerPhase[p] : <<p, k>> \in Requests
BY DEF Requests

LEMMA NewestType ==
  ASSUME NEW S, NEW w \in Seq(S)
  PROVE  /\ NewestOf(w) \in Seq(S)
         /\ Len(NewestOf(w)) = IF Len(w) > Capacity THEN Capacity ELSE Len(w)
         /\ \A i \in 1..Len(NewestOf(w)) : NewestOf(w)[i] = w[Len(w) - Len(NewestOf(w)) + i]
<1> DEFINE n == Len(w)
           m == IF n > Capacity THEN n - Capacity + 1 ELSE 1
<1>1. Capacity \in Nat /\ Capacity > 0 /\ n \in Nat
  BY LoadAssumption
<1>2. m \in Int /\ m >= 1 /\ NewestOf(w) = SubSeq(w, m, n)
  BY <1>1 DEF NewestOf
<1>3. \A i \in m..n : w[i] \in S
  BY <1>1, <1>2
<1> HIDE DEF m, n
<1>4. /\ SubSeq(w, m, n) \in Seq(S)
      /\ Len(SubSeq(w, m, n)) = IF m <= n THEN n - m + 1 ELSE 0
      /\ \A i \in 1..(n - m + 1) : SubSeq(w, m, n)[i] = w[m + i - 1]
  BY <1>1, <1>2, <1>3, SubSeqProperties
<1>5. (IF m <= n THEN n - m + 1 ELSE 0) = IF n > Capacity THEN Capacity ELSE n
  BY <1>1 DEF m
<1>6. Len(NewestOf(w)) = IF n > Capacity THEN Capacity ELSE n
  BY <1>2, <1>4, <1>5
<1>7. \A i \in 1..Len(NewestOf(w)) : NewestOf(w)[i] = w[n - Len(NewestOf(w)) + i]
  <2> TAKE i \in 1..Len(NewestOf(w))
  <2>1. i \in Nat /\ i >= 1 /\ i <= n - m + 1 /\ Len(NewestOf(w)) = n - m + 1
    BY <1>1, <1>2, <1>4
  <2>2. NewestOf(w)[i] = w[m + i - 1]
    BY <1>1, <1>2, <1>4, <2>1
  <2>3. m + i - 1 = n - Len(NewestOf(w)) + i
    BY <1>1, <1>2, <2>1
  <2> QED BY <2>2, <2>3
<1> QED BY <1>2, <1>4, <1>6, <1>7 DEF n

\* Two sequences of one length with the same elements are the same.
LEMMA SameSequence ==
  ASSUME NEW S, NEW v \in Seq(S), NEW w \in Seq(S),
         Len(v) = Len(w), \A i \in 1..Len(v) : v[i] = w[i]
  PROVE  v = w
BY SeqEqual

LEMMA NewestTwice ==
  ASSUME NEW S, NEW w \in Seq(S)
  PROVE  NewestOf(NewestOf(w)) = NewestOf(w)
<1> DEFINE v == NewestOf(w)
<1>1. Capacity \in Nat /\ Len(w) \in Nat
  BY LoadAssumption
<1>2. v \in Seq(S) /\ Len(v) <= Capacity /\ Len(v) \in Nat
  BY <1>1, NewestType
<1> HIDE DEF v
<1>3. NewestOf(v) = SubSeq(v, 1, Len(v))
  <2>1. ~(Len(v) > Capacity)
    BY <1>1, <1>2
  <2> QED BY ONLY <2>1 DEF NewestOf
<1>4. NewestOf(v) = v
  BY <1>2, <1>3, SubSeqFull
<1> QED BY <1>4 DEF v

\* Trimming after every record keeps what trimming once would keep.
LEMMA NewestAppend ==
  ASSUME NEW S, NEW w \in Seq(S), NEW x \in S
  PROVE  NewestOf(Append(NewestOf(w), x)) = NewestOf(Append(w, x))
<1> DEFINE v == NewestOf(w)
           a == Append(v, x)
           b == Append(w, x)
<1>1. Capacity \in Nat /\ Capacity > 0 /\ Len(w) \in Nat
  BY LoadAssumption
<1>2. /\ v \in Seq(S) /\ Len(v) \in Nat
      /\ Len(v) = IF Len(w) > Capacity THEN Capacity ELSE Len(w)
      /\ \A i \in 1..Len(v) : v[i] = w[Len(w) - Len(v) + i]
  BY <1>1, NewestType
<1> HIDE DEF v
<1>3. /\ a \in Seq(S) /\ Len(a) = Len(v) + 1 /\ a[Len(v) + 1] = x
      /\ \A i \in 1..Len(v) : a[i] = v[i]
  BY <1>2
<1>4. /\ b \in Seq(S) /\ Len(b) = Len(w) + 1 /\ b[Len(w) + 1] = x
      /\ \A i \in 1..Len(w) : b[i] = w[i]
  BY <1>1
<1>5. \A i \in 1..Len(a) : a[i] = b[Len(b) - Len(a) + i]
  <2> TAKE i \in 1..Len(a)
  <2> HIDE DEF a, b
  <2>1. i \in Nat /\ Len(b) - Len(a) + i = Len(w) - Len(v) + i
    BY <1>1, <1>2, <1>3, <1>4
  <2>2. CASE i = Len(v) + 1
    <3>1. Len(w) - Len(v) + i = Len(w) + 1
      <4>1. \A k, l \in Nat : l - k + (k + 1) = l + 1
        OBVIOUS
      <4> QED BY <1>1, <1>2, <2>2, <4>1
    <3>2. a[i] = x /\ b[Len(w) + 1] = x
      BY <1>3, <1>4, <2>2
    <3> QED BY <2>1, <3>1, <3>2
  <2>3. CASE i # Len(v) + 1
    <3>1. i \in 1..Len(v) /\ Len(w) - Len(v) + i \in 1..Len(w)
      BY <1>1, <1>2, <1>3, <2>3
    <3> QED BY <1>2, <1>3, <1>4, <2>1, <3>1
  <2> QED BY <2>2, <2>3
<1> HIDE DEF a, b
<1>6. /\ NewestOf(a) \in Seq(S)
      /\ Len(NewestOf(a)) = IF Len(a) > Capacity THEN Capacity ELSE Len(a)
      /\ \A i \in 1..Len(NewestOf(a)) : NewestOf(a)[i] = a[Len(a) - Len(NewestOf(a)) + i]
  BY <1>3, NewestType
<1>7. /\ NewestOf(b) \in Seq(S)
      /\ Len(NewestOf(b)) = IF Len(b) > Capacity THEN Capacity ELSE Len(b)
      /\ \A i \in 1..Len(NewestOf(b)) : NewestOf(b)[i] = b[Len(b) - Len(NewestOf(b)) + i]
  BY <1>4, NewestType
<1>8. Len(NewestOf(a)) = Len(NewestOf(b)) /\ Len(NewestOf(a)) <= Len(a) /\ Len(NewestOf(a)) \in Nat
  BY <1>1, <1>2, <1>3, <1>4, <1>6, <1>7
<1>9. \A i \in 1..Len(NewestOf(a)) : NewestOf(a)[i] = NewestOf(b)[i]
  <2> TAKE i \in 1..Len(NewestOf(a))
  <2> DEFINE j == Len(a) - Len(NewestOf(a)) + i
  <2>1. j \in 1..Len(a)
    BY <1>3, <1>2, <1>8
  <2>2. NewestOf(a)[i] = a[j]
    BY <1>6
  <2>3. a[j] = b[Len(b) - Len(a) + j]
    BY <2>1, <1>5
  <2>4. Len(b) - Len(a) + j = Len(b) - Len(NewestOf(b)) + i
    <3>1. i \in Int /\ Len(a) \in Int /\ Len(b) \in Int /\ Len(NewestOf(a)) \in Int
      BY <1>1, <1>2, <1>3, <1>4, <1>8
    <3>2. \A k, l, m, n \in Int : l - k + (k - m + n) = l - m + n
      OBVIOUS
    <3> QED BY <1>8, <3>1, <3>2
  <2>5. NewestOf(b)[i] = b[Len(b) - Len(NewestOf(b)) + i]
    BY <1>7, <1>8
  <2> QED BY <2>2, <2>3, <2>4, <2>5
<1>10. NewestOf(a) = NewestOf(b)
  BY <1>6, <1>7, <1>8, <1>9, SameSequence
<1> QED BY <1>10 DEF a, b, v

----------------------------------------------------------------------------
(* Types                                                                   *)

LEMMA EmptyNewest == NewestOf(<<>>) = <<>>
<1>1. ~(Len(<<>>) > Capacity) /\ Len(<<>>) = 0 /\ <<>> \in Seq(Requests)
  BY LoadAssumption
<1>2. NewestOf(<<>>) = SubSeq(<<>>, 1, Len(<<>>))
  BY ONLY <1>1 DEF NewestOf
<1> QED BY <1>1, <1>2, SubSeqFull

LEMMA InitIsFine == Init => IInv /\ RingInv
<1> SUFFICES ASSUME Init PROVE IInv /\ RingInv
  OBVIOUS
<1>1. TypeOK
  BY LoadAssumption, RequestType DEF Init, TypeOK, NoScrape
<1>2. SampledOnce /\ Outstanding /\ Reached /\ OneWorker /\ ScrapeIsTheNewest
  BY DEF Init, SampledOnce, Outstanding, Reached, OneWorker, ScrapeIsTheNewest, Done
<1>4. RingIsTheNewest
  BY EmptyNewest DEF Init, RingIsTheNewest
<1> QED BY <1>1, <1>2, <1>4 DEF IInv, RingInv

LEMMA NextRequest ==
  ASSUME TypeOK, Issue
  PROVE  /\ phase \in Int /\ issued \in Int
         /\ <<phase, issued + 1>> \in Requests
<1>1. phase \in 0..Repeats /\ issued \in Nat /\ issued < PerPhase[phase]
  BY DEF Issue, TypeOK
<1>2. PerPhase[phase] \in Nat /\ phase \in Int
  BY <1>1, LoadAssumption
<1>3. issued + 1 \in 1..PerPhase[phase]
  BY <1>1, <1>2
<1> QED BY <1>1, <1>2, <1>3, RequestType

LEMMA HarnessTypes ==
  ASSUME TypeOK, Harness
  PROVE  TypeOK'
<1>1. CASE Issue
  <2>1. <<phase, issued + 1>> \in Requests
    BY <1>1, NextRequest
  <2>2. tasks' \subseteq Requests
    <3>1. tasks' \subseteq tasks \cup {<<phase, issued + 1>>}
      BY <1>1 DEF Issue, Pruned
    <3> QED BY <2>1, <3>1 DEF TypeOK
  <2>3. client' \in [Requests -> {"none", "queued", "sent", "ok", "error", "gone"}]
    <3>1. client' = [client EXCEPT ![<<phase, issued + 1>>] = "queued"]
      BY <1>1 DEF Issue
    <3> QED BY <2>1, <3>1 DEF TypeOK
  <2>4. issued' \in Nat /\ UNCHANGED <<phase, stage, samples, server, ring, kept, cleared, scraped>>
    BY <1>1 DEF Issue, TypeOK, workers
  <2> QED BY <2>2, <2>3, <2>4 DEF TypeOK
<1>2. CASE StopIssuing
  BY <1>2 DEF StopIssuing, TypeOK, workers
<1>3. CASE PhaseEnds
  <2>1. phase' \in 0..Repeats /\ stage' \in {"issuing", "resetting", "scraping", "crashed"}
    <3>1. phase \in 0..Repeats /\ Repeats \in Nat
      BY LoadAssumption DEF TypeOK
    <3>2. stage' = AfterPhase(phase) /\ phase' = IF stage' = "issuing" THEN phase + 1 ELSE phase
      BY <1>3 DEF PhaseEnds
    <3>3. AfterPhase(phase) \in {"issuing", "resetting", "scraping", "crashed"}
      BY DEF AfterPhase
    <3>4. AfterPhase(phase) = "issuing" => phase < Repeats
      BY <3>1 DEF AfterPhase
    <3> QED BY <3>1, <3>2, <3>3, <3>4
  <2> QED BY <1>3, <2>1 DEF PhaseEnds, TypeOK, workers
<1>4. ASSUME NEW s \in Servers, Reset(s) PROVE TypeOK'
  <2>1. phase' \in 0..Repeats
    BY <1>4, LoadAssumption DEF Reset
  <2> QED BY <1>4, <2>1 DEF Reset, TypeOK
<1>5. ASSUME NEW s \in Servers, Scrape(s) PROVE TypeOK'
  BY <1>5 DEF Scrape, Summary, TypeOK, workers
<1>6. CASE CallFails
  BY <1>6 DEF CallFails, TypeOK, workers
<1>7. CASE ResetRefused
  BY <1>7, LoadAssumption DEF ResetRefused, TypeOK, workers
<1>8. CASE ScrapeRefused
  <2>1. NoScrape \in [by : SUBSET Servers, records : Seq(Requests), of : Seq(Requests)]
    BY DEF NoScrape
  <2> QED BY <1>8, <2>1 DEF ScrapeRefused, TypeOK, workers
<1> QED BY <1>1, <1>2, <1>3, <1>4, <1>5, <1>6, <1>7, <1>8 DEF Harness

LEMMA RequestTypes ==
  ASSUME TypeOK, NEW q \in Requests, Send(q) \/ Answer(q) \/ GiveUp(q)
  PROVE  TypeOK'
<1>1. CASE Send(q)
  BY <1>1 DEF Send, TypeOK, harness, workers
<1>2. CASE Answer(q)
  BY <1>2 DEF Answer, Finish, TypeOK, harness, workers
<1>3. CASE GiveUp(q)
  BY <1>3 DEF GiveUp, Finish, TypeOK, harness, workers
<1> QED BY <1>1, <1>2, <1>3

LEMMA HandlerTypes ==
  ASSUME TypeOK, NEW q \in Requests, Handler(q)
  PROVE  TypeOK'
<1> DEFINE Work == [at : {"none", "running", "appended", "recorded"},
                    by : SUBSET Servers, good : BOOLEAN]
<1>1. server \in [Requests -> Work] /\ server[q] \in Work
  BY DEF TypeOK
<1>2. ASSUME NEW s \in Servers, Accept(q, s) PROVE TypeOK'
  <2>1. [at |-> "running", by |-> {s}, good |-> FALSE] \in Work
    OBVIOUS
  <2> HIDE DEF Work
  <2>2. server' \in [Requests -> Work]
    BY <1>1, <1>2, <2>1 DEF Accept
  <2> QED BY <1>2, <2>2 DEF Accept, TypeOK, harness, Work
<1>3. ASSUME NEW s \in Servers, NEW good \in BOOLEAN, Record(q, s, good) PROVE TypeOK'
  <2>1. /\ ring \in [Servers -> Seq(Requests)] /\ kept \in [Servers -> Seq(Requests)]
        /\ Append(ring[s], q) \in Seq(Requests) /\ Append(kept[s], q) \in Seq(Requests)
    BY DEF TypeOK
  <2>2. ring' \in [Servers -> Seq(Requests)] /\ kept' \in [Servers -> Seq(Requests)]
    BY <1>3, <2>1 DEF Record
  <2>3. [server[q] EXCEPT !.at = "appended", !.good = good] \in Work
    BY <1>1
  <2>4. server' = [server EXCEPT ![q] = [server[q] EXCEPT !.at = "appended", !.good = good]]
    BY <1>1, <1>3 DEF Record
  <2> HIDE DEF Work
  <2>5. server' \in [Requests -> Work]
    BY <1>1, <2>3, <2>4
  <2> QED BY <1>3, <2>2, <2>5 DEF Record, TypeOK, harness, Work
<1>4. ASSUME NEW s \in Servers, Trim(q, s) PROVE TypeOK'
  <2>1. ring' \in [Servers -> Seq(Requests)]
    <3>1. ring \in [Servers -> Seq(Requests)] /\ NewestOf(ring[s]) \in Seq(Requests)
      BY NewestType DEF TypeOK
    <3> QED BY <1>4, <3>1 DEF Trim
  <2>2. [server[q] EXCEPT !.at = "recorded"] \in Work
    BY <1>1
  <2>3. server' = [server EXCEPT ![q] = [server[q] EXCEPT !.at = "recorded"]]
    BY <1>1, <1>4 DEF Trim
  <2> HIDE DEF Work
  <2>4. server' \in [Requests -> Work]
    BY <1>1, <2>2, <2>3
  <2> QED BY <1>4, <2>1, <2>4 DEF Trim, TypeOK, harness, Work
<1> QED BY <1>2, <1>3, <1>4 DEF Handler

LEMMA NextType == TypeOK /\ [Next]_vars => TypeOK'
BY HarnessTypes, RequestTypes, HandlerTypes DEF Next, vars, TypeOK

----------------------------------------------------------------------------
(* Every request is one sample                                             *)

\* What the harness does to the requests of the phase.
LEMMA HarnessKeeps ==
  ASSUME IInv, Harness
  PROVE  SampledOnce' /\ Outstanding' /\ Reached'
<1> USE DEF IInv
<1>1. CASE Issue
  <2> DEFINE new == <<phase, issued + 1>>
  <2>1. /\ new \in Requests /\ phase \in Int /\ issued \in Int /\ stage = "issuing"
        /\ client' = [client EXCEPT ![new] = "queued"] /\ tasks' = Pruned(tasks \cup {new})
        /\ issued' = issued + 1 /\ UNCHANGED <<phase, stage, samples>>
    BY <1>1, NextRequest DEF IInv, Issue
  <2>2. client[new] = "none"
    BY <2>1, RequestType DEF Reached
  <2> HIDE DEF new
  <2>3. SampledOnce'
    BY <2>1, <2>2 DEF SampledOnce, Done, TypeOK
  <2>4. \A q \in tasks \cup {new} : client'[q] \in {"queued", "sent"} => q \in Pruned(tasks \cup {new})
    <3> TAKE q \in tasks \cup {new}
    <3>1. CASE q = new
      BY <2>1, <2>2, <3>1 DEF Pruned, Done
    <3>2. CASE q # new
      BY <2>1, <3>2 DEF Pruned, Done, TypeOK
    <3> QED BY <3>1, <3>2
  <2>5. new[1] = phase /\ new[2] = issued + 1
    BY DEF new
  <2>6. Outstanding'
    <3> SUFFICES ASSUME NEW q \in Requests, client'[q] \in {"queued", "sent"}
                 PROVE  q \in tasks' /\ q[1] = phase' /\ stage' \in {"issuing", "gathering"}
      BY DEF Outstanding
    <3>1. q \in tasks \cup {new} /\ q[1] = phase
      BY <2>1, <2>5 DEF Outstanding, TypeOK
    <3> QED BY <2>1, <2>4, <3>1
  <2>7. Reached'
    <3>1. \A q \in Requests : client'[q] # "none" => q[1] <= phase /\ (q[1] = phase => q[2] <= issued + 1)
      <4> TAKE q \in Requests
      <4>1. CASE q = new
        BY <2>1, <2>5, <4>1
      <4>2. CASE q # new
        <5>1. client'[q] = client[q]
          BY <2>1, <4>2 DEF TypeOK
        <5>2. q[2] \in Int
          BY RequestType, LoadAssumption
        <5> QED BY <2>1, <5>1, <5>2 DEF Reached
      <4> QED BY <4>1, <4>2
    <3> QED BY <2>1, <3>1 DEF Reached
  <2> QED BY <2>3, <2>6, <2>7
<1>2. CASE StopIssuing
  BY <1>2 DEF StopIssuing, SampledOnce, Outstanding, Reached, Done
<1>3. CASE PhaseEnds
  <2>1. /\ phase \in Int /\ phase' \in {phase, phase + 1}
        /\ stage' \in {"issuing", "resetting", "scraping", "crashed"}
        /\ (stage' = "issuing" => phase' = phase + 1) /\ (stage' = "resetting" => phase = 0 /\ phase' = phase)
        /\ issued' = 0 /\ UNCHANGED <<client, samples>>
    BY <1>3, LoadAssumption DEF PhaseEnds, AfterPhase, TypeOK
  <2>2. \A q \in Requests : client[q] \notin {"queued", "sent"}
    BY <1>3 DEF PhaseEnds, AllDone, Done, Outstanding
  <2>3. Outstanding' /\ SampledOnce'
    BY <2>1, <2>2 DEF Outstanding, SampledOnce, Done
  <2>4. \A q \in Requests : q[1] \in Int
    BY RequestType, LoadAssumption
  <2>5. Reached'
    BY <2>1, <2>4 DEF Reached
  <2> QED BY <2>3, <2>5
<1>4. ASSUME NEW s \in Servers, Reset(s) PROVE SampledOnce' /\ Outstanding' /\ Reached'
  <2>1. /\ stage = "resetting" /\ phase = 0 /\ phase' = 1 /\ stage' = "issuing"
        /\ UNCHANGED <<client, samples, tasks, issued>>
    BY <1>4 DEF Reset, Reached
  <2>2. \A q \in Requests : q[1] \in Int
    BY RequestType, LoadAssumption
  <2>3. Reached'
    BY <2>1, <2>2 DEF Reached
  <2> QED BY <2>1, <2>3 DEF SampledOnce, Outstanding, Done
<1>5. ASSUME NEW s \in Servers, Scrape(s) PROVE SampledOnce' /\ Outstanding' /\ Reached'
  BY <1>5 DEF Scrape, SampledOnce, Outstanding, Reached, Done
<1>6. CASE CallFails \/ ScrapeRefused
  BY <1>6 DEF CallFails, ScrapeRefused, SampledOnce, Outstanding, Reached, Done
<1>7. CASE ResetRefused
  <2>1. /\ stage = "resetting" /\ phase = 0 /\ phase' = 1 /\ stage' = "issuing"
        /\ UNCHANGED <<client, samples, tasks, issued>>
    BY <1>7 DEF ResetRefused, Reached
  <2>2. \A q \in Requests : q[1] \in Int
    BY RequestType, LoadAssumption
  <2>3. Reached'
    BY <2>1, <2>2 DEF Reached
  <2> QED BY <2>1, <2>3 DEF SampledOnce, Outstanding, Done
<1> QED BY <1>1, <1>2, <1>3, <1>4, <1>5, <1>6, <1>7 DEF Harness

\* A request that goes on or comes to its end.
LEMMA RequestKeeps ==
  ASSUME IInv, NEW q \in Requests, Send(q) \/ Answer(q) \/ GiveUp(q)
  PROVE  SampledOnce' /\ Outstanding' /\ Reached'
<1>1. UNCHANGED <<phase, stage, issued, tasks>>
  BY DEF Send, Answer, GiveUp, harness
<1>2. client[q] \in {"queued", "sent"} /\ ~Done(q)
  BY DEF Send, Answer, GiveUp, Done
<1>3. CASE Send(q)
  <2>1. client' = [client EXCEPT ![q] = "sent"] /\ samples' = samples
    BY <1>3 DEF Send
  <2> QED BY <1>1, <1>2, <2>1 DEF IInv, TypeOK, SampledOnce, Outstanding, Reached, Done
<1>4. ASSUME NEW outcome \in {"ok", "error", "gone"}, Finish(q, outcome)
      PROVE  SampledOnce' /\ Outstanding' /\ Reached'
  <2>1. client' = [client EXCEPT ![q] = outcome] /\ samples' = [samples EXCEPT ![q] = samples[q] + 1]
    BY <1>4 DEF Finish
  <2>2. samples[q] = 0
    BY <1>2 DEF IInv, SampledOnce
  <2>3. SampledOnce'
    BY <1>2, <2>1, <2>2 DEF IInv, TypeOK, SampledOnce, Done
  <2> QED BY <1>1, <1>2, <2>1, <2>3 DEF IInv, TypeOK, Outstanding, Reached
<1> QED BY <1>3, <1>4 DEF Answer, GiveUp

LEMMA HandlerKeeps ==
  ASSUME IInv, NEW q \in Requests, Handler(q)
  PROVE  SampledOnce' /\ Outstanding' /\ Reached'
BY DEF Handler, Accept, Record, Trim, harness, IInv, SampledOnce, Outstanding, Reached, Done

LEMMA NextKeeps == IInv /\ [Next]_vars => IInv'
<1> SUFFICES ASSUME IInv, [Next]_vars PROVE IInv'
  OBVIOUS
<1>1. TypeOK'
  BY NextType DEF IInv
<1>2. CASE Harness
  BY <1>1, <1>2, HarnessKeeps DEF IInv
<1>3. ASSUME NEW q \in Requests, Send(q) \/ Answer(q) \/ GiveUp(q) \/ Handler(q) PROVE IInv'
  BY <1>1, <1>3, RequestKeeps, HandlerKeeps DEF IInv
<1>4. CASE UNCHANGED vars
  BY <1>4 DEF vars, IInv, TypeOK, SampledOnce, Outstanding, Reached, Done
<1> QED BY <1>2, <1>3, <1>4 DEF Next

LEMMA Always == Spec => []IInv
<1>1. Init => IInv
  BY InitIsFine
<1> QED BY <1>1, NextKeeps, PTL DEF Spec

\* The variables of the harness, the requests and the workers keep their types,
\* for any number of repeats, requests and workers.
THEOREM TypeCorrect == Spec => []TypeOK
<1>1. IInv => TypeOK
  BY DEF IInv
<1> QED BY <1>1, Always, PTL

\* When a phase is over none of its requests is outstanding and each is one
\* sample (run_phase and worker), whatever was dropped from the list of tasks.
THEOREM EveryRequestIsOneSampleHolds == Spec => []EveryRequestIsOneSample
<1>1. IInv => EveryRequestIsOneSample
  <2> SUFFICES ASSUME IInv, NEW q \in Requests, PhaseOver(q[1])
               PROVE  client[q] \notin {"queued", "sent"} /\ samples[q] = IF Done(q) THEN 1 ELSE 0
    BY DEF EveryRequestIsOneSample
  <2>1. phase \in Int
    BY LoadAssumption DEF IInv, TypeOK
  <2>2. client[q] \notin {"queued", "sent"}
    BY <2>1 DEF IInv, Outstanding, PhaseOver
  <2> QED BY <2>2 DEF IInv, SampledOnce
<1> QED BY <1>1, Always, PTL

----------------------------------------------------------------------------
(* The ring                                                                *)


LEMMA RecordKeepsRing ==
  ASSUME RingInv, NEW q \in Requests, NEW s \in Servers, NEW good \in BOOLEAN, Record(q, s, good)
  PROVE  RingIsTheNewest'
<1> SUFFICES ASSUME NEW t \in Servers
             PROVE  /\ NewestOf(ring'[t]) = NewestOf(kept'[t])
                    /\ LockFree(t)' => ring'[t] = NewestOf(kept'[t])
  BY DEF RingIsTheNewest
<1>1. /\ ring' = [ring EXCEPT ![s] = Append(ring[s], q)] /\ kept' = [kept EXCEPT ![s] = Append(kept[s], q)]
      /\ server' = [server EXCEPT ![q].at = "appended", ![q].good = good]
      /\ s \in server[q].by /\ LockFree(s)
  BY DEF Record
<1>2. CASE t = s
  <2>1. ring[s] = NewestOf(kept[s])
    BY <1>1 DEF RingInv, RingIsTheNewest
  <2>2. NewestOf(Append(ring[s], q)) = NewestOf(Append(kept[s], q))
    BY <2>1, NewestAppend DEF RingInv, TypeOK
  <2>3. ~LockFree(s)'
    BY <1>1 DEF LockFree, RingInv, TypeOK
  <2> QED BY <1>1, <1>2, <2>2, <2>3 DEF RingInv, TypeOK
<1>3. CASE t # s
  <2>1. LockFree(t)' => LockFree(t)
    BY <1>1 DEF LockFree, RingInv, TypeOK
  <2> QED BY <1>1, <1>3, <2>1 DEF RingInv, RingIsTheNewest, TypeOK
<1> QED BY <1>2, <1>3

LEMMA TrimKeepsRing ==
  ASSUME RingInv, NEW q \in Requests, NEW s \in Servers, Trim(q, s)
  PROVE  RingIsTheNewest'
<1> SUFFICES ASSUME NEW t \in Servers
             PROVE  /\ NewestOf(ring'[t]) = NewestOf(kept'[t])
                    /\ LockFree(t)' => ring'[t] = NewestOf(kept'[t])
  BY DEF RingIsTheNewest
<1>1. /\ ring' = [ring EXCEPT ![s] = NewestOf(ring[s])] /\ kept' = kept
      /\ server' = [server EXCEPT ![q].at = "recorded"] /\ s \in server[q].by /\ server[q].at = "appended"
  BY DEF Trim, harness
<1>2. CASE t = s
  <2>1. NewestOf(NewestOf(ring[s])) = NewestOf(ring[s]) /\ NewestOf(ring[s]) = NewestOf(kept[s])
    BY NewestTwice DEF RingInv, RingIsTheNewest, TypeOK
  <2> QED BY <1>1, <1>2, <2>1 DEF RingInv, TypeOK
<1>3. CASE t # s
  <2>1. server[q].by = {s}
    BY <1>1 DEF RingInv, OneWorker
  <2>2. LockFree(t)' => LockFree(t)
    BY <1>1, <1>3, <2>1 DEF LockFree, RingInv, TypeOK
  <2> QED BY <1>1, <1>3, <2>2 DEF RingInv, RingIsTheNewest, TypeOK
<1> QED BY <1>2, <1>3

LEMMA RingStep == RingInv /\ [Next]_vars => RingInv'
<1> SUFFICES ASSUME RingInv, [Next]_vars PROVE RingInv'
  OBVIOUS
<1>1. TypeOK'
  BY NextType DEF RingInv
<1>2. ASSUME UNCHANGED <<server, ring, kept, scraped>>,
             stage' = "written" => stage = "written"
      PROVE  RingInv'
  BY <1>1, <1>2 DEF RingInv, OneWorker, RingIsTheNewest, LockFree, ScrapeIsTheNewest
<1>3. CASE Issue \/ StopIssuing \/ PhaseEnds \/ CallFails \/ ResetRefused
  BY <1>2, <1>3 DEF Issue, StopIssuing, PhaseEnds, AfterPhase, CallFails, ResetRefused, workers
<1>4. ASSUME NEW s \in Servers, Reset(s) PROVE RingInv'
  <2>1. /\ ring' = [ring EXCEPT ![s] = <<>>] /\ kept' = [kept EXCEPT ![s] = <<>>]
        /\ server' = server /\ stage' = "issuing"
    BY <1>4 DEF Reset
  <2>2. RingIsTheNewest'
    BY <2>1, EmptyNewest DEF RingInv, RingIsTheNewest, LockFree, TypeOK
  <2> QED BY <1>1, <2>1, <2>2 DEF RingInv, OneWorker, ScrapeIsTheNewest
<1>5. ASSUME NEW s \in Servers, Scrape(s) PROVE RingInv'
  <2>1. /\ UNCHANGED <<server, ring, kept>> /\ scraped'.records = ring[s] /\ scraped'.of = kept[s]
        /\ LockFree(s)
    BY <1>5 DEF Scrape, Summary, workers
  <2>2. ScrapeIsTheNewest'
    BY <2>1 DEF RingInv, RingIsTheNewest, ScrapeIsTheNewest
  <2> QED BY <1>1, <2>1, <2>2 DEF RingInv, OneWorker, RingIsTheNewest, LockFree
<1>6. ASSUME NEW q \in Requests, Send(q) \/ Answer(q) \/ GiveUp(q) PROVE RingInv'
  BY <1>2, <1>6 DEF Send, Answer, GiveUp, harness, workers
<1>7. ASSUME NEW q \in Requests, NEW s \in Servers, Accept(q, s) PROVE RingInv'
  <2>1. /\ server' = [server EXCEPT ![q] = [at |-> "running", by |-> {s}, good |-> FALSE]]
        /\ server[q].at = "none" /\ UNCHANGED <<ring, kept, stage, scraped>>
    BY <1>7 DEF Accept, harness
  <2>2. OneWorker'
    BY <2>1 DEF RingInv, OneWorker, TypeOK
  <2>3. \A t \in Servers : LockFree(t)' => LockFree(t)
    BY <2>1 DEF RingInv, LockFree, TypeOK
  <2> QED BY <1>1, <2>1, <2>2, <2>3 DEF RingInv, RingIsTheNewest, ScrapeIsTheNewest
<1>8. ASSUME NEW q \in Requests, NEW s \in Servers, NEW good \in BOOLEAN, Record(q, s, good) PROVE RingInv'
  <2>1. OneWorker'
    BY <1>8 DEF Record, RingInv, OneWorker, TypeOK
  <2>2. ScrapeIsTheNewest'
    BY <1>8 DEF Record, harness, RingInv, ScrapeIsTheNewest
  <2> QED BY <1>1, <1>8, <2>1, <2>2, RecordKeepsRing DEF RingInv
<1>9. ASSUME NEW q \in Requests, NEW s \in Servers, Trim(q, s) PROVE RingInv'
  <2>1. OneWorker'
    BY <1>9 DEF Trim, RingInv, OneWorker, TypeOK
  <2>2. ScrapeIsTheNewest'
    BY <1>9 DEF Trim, harness, RingInv, ScrapeIsTheNewest
  <2> QED BY <1>1, <1>9, <2>1, <2>2, TrimKeepsRing DEF RingInv
<1>10. CASE UNCHANGED vars
  BY <1>2, <1>10 DEF vars
<1>11. CASE ScrapeRefused
  <2>1. UNCHANGED <<server, ring, kept>> /\ scraped' = NoScrape
    BY <1>11 DEF ScrapeRefused, workers
  <2>2. ScrapeIsTheNewest'
    BY <2>1, EmptyNewest DEF ScrapeIsTheNewest, NoScrape
  <2> QED BY <1>1, <2>1, <2>2 DEF RingInv, OneWorker, RingIsTheNewest, LockFree
<1> QED BY <1>3, <1>4, <1>5, <1>6, <1>7, <1>8, <1>9, <1>10, <1>11 DEF Next, Harness, Handler

\* The metrics of a result are the newest records of one worker since it was
\* last reset, whole and in order: what the collector's lock is for.
THEOREM ScrapeIsTheNewestHolds == Spec => []ScrapeIsTheNewest
<1>1. Init => RingInv
  BY InitIsFine
<1>2. RingInv => ScrapeIsTheNewest
  BY DEF RingInv
<1> QED BY <1>1, <1>2, RingStep, PTL DEF Spec

----------------------------------------------------------------------------
(* What the ring is made of                                                *)

\* A client has an answer only of a handler that has recorded it, and a handler
\* runs only for a request that was sent.
Served ==
  \A q \in Requests :
    /\ client[q] \in {"ok", "error"} => server[q].at = "recorded"
    /\ server[q].at # "none" => client[q] \in {"sent", "ok", "error", "gone"}

\* A record of the repeats is never dropped by the reset.
RepeatsAreKept ==
  \A q \in Requests : \A s \in Servers :
    q[1] > 0 /\ server[q].at \in {"appended", "recorded"} /\ server[q].by = {s} => q \in Range(kept[s])

\* What was reset has of the warm-up only what nobody waited for.
WarmUpIsGone ==
  \A s \in Servers : cleared = {s} =>
    /\ phase > 0
    /\ \A q \in Range(kept[s]) : q[1] = 0 => client[q] = "gone"

\* The same of the records that the result is made of.
ResultIsOfTheRepeats ==
  stage = "written" => scraped = NoScrape \/ \E s \in Servers :
    /\ scraped.by = {s}
    /\ cleared = {s} => \A q \in Range(scraped.of) : q[1] = 0 => client[q] = "gone"
    /\ \A q \in Requests : q[1] > 0 /\ client[q] \in {"ok", "error"} /\ server[q].by = {s}
         => q \in Range(scraped.of)

RepeatsInv ==
  /\ IInv /\ RingInv /\ Served
  /\ RepeatsAreKept /\ WarmUpIsGone /\ ResultIsOfTheRepeats

LEMMA RangeOfAppend ==
  ASSUME NEW S, NEW w \in Seq(S), NEW x \in S
  PROVE  Range(Append(w, x)) = Range(w) \cup {x}
<1>1. /\ DOMAIN Append(w, x) = 1..(Len(w) + 1) /\ DOMAIN w = 1..Len(w) /\ Len(w) \in Nat
      /\ Append(w, x)[Len(w) + 1] = x /\ \A i \in 1..Len(w) : Append(w, x)[i] = w[i]
  OBVIOUS
<1>2. DOMAIN Append(w, x) = DOMAIN w \cup {Len(w) + 1}
  BY <1>1
<1> QED BY <1>1, <1>2 DEF Range

LEMMA RangeOfNewest ==
  ASSUME NEW S, NEW w \in Seq(S)
  PROVE  /\ Range(NewestOf(w)) \subseteq Range(w)
         /\ Len(w) <= Capacity => NewestOf(w) = w
<1>1. Capacity \in Nat /\ Len(w) \in Nat
  BY LoadAssumption
<1> DEFINE v == NewestOf(w)
<1>2. /\ v \in Seq(S) /\ Len(v) \in Nat /\ Len(v) <= Len(w)
      /\ \A i \in 1..Len(v) : v[i] = w[Len(w) - Len(v) + i]
  BY <1>1, NewestType
<1> HIDE DEF v
<1>3. \A i \in 1..Len(v) : Len(w) - Len(v) + i \in 1..Len(w)
  BY <1>1, <1>2
<1>4. DOMAIN v = 1..Len(v) /\ DOMAIN w = 1..Len(w)
  BY <1>2
<1>5. Range(v) \subseteq Range(w)
  BY <1>2, <1>3, <1>4 DEF Range
<1>6. ASSUME Len(w) <= Capacity PROVE v = w
  <2>1. ~(Len(w) > Capacity)
    BY <1>1, <1>6
  <2>2. v = SubSeq(w, 1, Len(w))
    BY ONLY <2>1 DEF NewestOf, v
  <2> QED BY <2>2, SubSeqFull
<1> QED BY <1>5, <1>6 DEF v

LEMMA RepeatsStep == RepeatsInv /\ [Next]_vars => RepeatsInv'
<1> SUFFICES ASSUME RepeatsInv, [Next]_vars PROVE RepeatsInv'
  OBVIOUS
<1>1. IInv' /\ RingInv'
  BY NextKeeps, RingStep DEF RepeatsInv
<1>2. /\ client \in [Requests -> {"none", "queued", "sent", "ok", "error", "gone"}]
      /\ server \in [Requests -> [at : {"none", "running", "appended", "recorded"},
                                  by : SUBSET Servers, good : BOOLEAN]]
      /\ kept \in [Servers -> Seq(Requests)]
      /\ phase \in Int /\ \A q \in Requests : q[1] \in Int
  BY RequestType, LoadAssumption DEF RepeatsInv, IInv, TypeOK
<1>3. /\ Outstanding /\ Reached /\ Served /\ RepeatsAreKept /\ WarmUpIsGone /\ ResultIsOfTheRepeats
  BY DEF RepeatsInv, IInv
<1>4. ASSUME UNCHANGED <<client, server, kept, cleared, scraped>>,
             phase' >= phase, stage' = "written" => stage = "written"
      PROVE  RepeatsInv'
  <2>1. phase' \in Int
    BY <1>1, LoadAssumption DEF IInv, TypeOK
  <2>2. WarmUpIsGone'
    BY <1>2, <1>3, <1>4, <2>1 DEF WarmUpIsGone
  <2> QED BY <1>1, <1>3, <1>4, <2>2 DEF RepeatsInv, Served, RepeatsAreKept, ResultIsOfTheRepeats
<1>5. CASE StopIssuing \/ PhaseEnds \/ CallFails
  BY <1>2, <1>4, <1>5 DEF StopIssuing, PhaseEnds, AfterPhase, CallFails, workers
<1>14. CASE ResetRefused
  <2>1. /\ UNCHANGED <<client, server, kept, cleared, scraped>>
        /\ phase = 0 /\ phase' = 1 /\ stage' = "issuing"
    BY <1>3, <1>14 DEF ResetRefused, Reached, workers
  <2> QED BY <1>4, <2>1
<1>15. CASE ScrapeRefused
  <2>1. UNCHANGED <<phase, client, server, kept, cleared>> /\ scraped' = NoScrape
    BY <1>15 DEF ScrapeRefused, workers
  <2> QED BY <1>1, <1>3, <2>1 DEF RepeatsInv, Served, RepeatsAreKept, WarmUpIsGone, ResultIsOfTheRepeats
<1>6. CASE Issue
  <2> DEFINE new == <<phase, issued + 1>>
  <2>1. /\ new \in Requests /\ client' = [client EXCEPT ![new] = "queued"]
        /\ UNCHANGED <<phase, stage, server, kept, cleared, scraped>> /\ stage = "issuing"
    BY <1>6, NextRequest DEF Issue, workers, RepeatsInv, IInv
  <2>2. client[new] = "none"
    <3>1. new[1] = phase /\ new[2] = issued + 1 /\ issued \in Int
      BY <1>6, NextRequest DEF RepeatsInv, IInv
    <3>2. ~(new[2] <= issued)
      BY <3>1
    <3> HIDE DEF new
    <3> QED BY <1>3, <2>1, <3>1, <3>2 DEF Reached
  <2> HIDE DEF new
  <2>3. Served' /\ RepeatsAreKept' /\ ResultIsOfTheRepeats'
    BY <1>2, <1>3, <2>1, <2>2 DEF Served, RepeatsAreKept, ResultIsOfTheRepeats
  <2>4. WarmUpIsGone'
    BY <1>2, <1>3, <2>1, <2>2 DEF WarmUpIsGone
  <2> QED BY <1>1, <2>3, <2>4 DEF RepeatsInv
<1>7. ASSUME NEW s \in Servers, Reset(s) PROVE RepeatsInv'
  <2>1. /\ kept' = [kept EXCEPT ![s] = <<>>] /\ cleared' = {s} /\ phase' = 1 /\ stage' = "issuing"
        /\ UNCHANGED <<client, server>> /\ phase = 0
    BY <1>3, <1>7 DEF Reset, Reached
  <2>2. ASSUME NEW q \in Requests, q[1] > 0 PROVE server[q].at = "none"
    <3>1. ~(q[1] <= 0)
      BY <1>2, <2>2
    <3>2. client[q] = "none"
      BY <1>3, <2>1, <3>1 DEF Reached
    <3> QED BY <1>3, <3>2 DEF Served
  <2>3. Served' /\ RepeatsAreKept' /\ ResultIsOfTheRepeats'
    BY <1>2, <1>3, <2>1, <2>2 DEF Served, RepeatsAreKept, ResultIsOfTheRepeats
  <2>4. WarmUpIsGone'
    <3>1. Range(kept'[s]) = {}
      BY <1>2, <2>1 DEF Range
    <3> QED BY <2>1, <3>1 DEF WarmUpIsGone
  <2> QED BY <1>1, <2>3, <2>4 DEF RepeatsInv
<1>8. ASSUME NEW s \in Servers, Scrape(s) PROVE RepeatsInv'
  <2>1. /\ scraped'.by = {s} /\ scraped'.of = kept[s]
        /\ UNCHANGED <<phase, client, server, kept, cleared>>
    BY <1>8 DEF Scrape, Summary, workers
  <2>2. Served' /\ RepeatsAreKept' /\ WarmUpIsGone'
    BY <1>3, <2>1 DEF Served, RepeatsAreKept, WarmUpIsGone
  <2>3. cleared = {s} => \A q \in Range(kept[s]) : q[1] = 0 => client[q] = "gone"
    BY <1>3 DEF WarmUpIsGone
  <2>4. \A q \in Requests : q[1] > 0 /\ client[q] \in {"ok", "error"} /\ server[q].by = {s} => q \in Range(kept[s])
    BY <1>3 DEF Served, RepeatsAreKept
  <2>5. ResultIsOfTheRepeats'
    BY <2>1, <2>3, <2>4 DEF ResultIsOfTheRepeats
  <2> QED BY <1>1, <2>2, <2>5 DEF RepeatsInv
<1>9. ASSUME NEW q \in Requests, Send(q) \/ Answer(q) \/ GiveUp(q) PROVE RepeatsInv'
  <2>1. /\ client[q] \in {"queued", "sent"} /\ UNCHANGED <<phase, stage, cleared, scraped, server, kept>>
        /\ \E to \in {"sent", "ok", "error", "gone"} :
             /\ client' = [client EXCEPT ![q] = to]
             /\ client[q] = "queued" => to = "sent"
             /\ to \in {"ok", "error"} => server[q].at = "recorded"
    BY <1>9 DEF Send, Answer, GiveUp, Finish, harness, workers
  <2>2. PICK to \in {"sent", "ok", "error", "gone"} :
             /\ client' = [client EXCEPT ![q] = to]
             /\ client[q] = "queued" => to = "sent"
             /\ to \in {"ok", "error"} => server[q].at = "recorded"
    BY <2>1
  <2>3. \A r \in Requests : client'[r] = IF r = q THEN to ELSE client[r]
    BY <1>2, <2>2
  <2>4. stage # "written"
    BY <1>3, <2>1 DEF Outstanding
  <2>5. Served' /\ RepeatsAreKept' /\ ResultIsOfTheRepeats'
    BY <1>3, <2>1, <2>2, <2>3, <2>4 DEF Served, RepeatsAreKept, ResultIsOfTheRepeats
  <2>6. WarmUpIsGone'
    BY <1>2, <1>3, <2>1, <2>3 DEF WarmUpIsGone
  <2> QED BY <1>1, <2>5, <2>6 DEF RepeatsInv
<1>10. ASSUME NEW q \in Requests, NEW s \in Servers, Accept(q, s) PROVE RepeatsInv'
  <2>1. /\ server' = [server EXCEPT ![q] = [at |-> "running", by |-> {s}, good |-> FALSE]]
        /\ server[q].at = "none" /\ client[q] = "sent"
        /\ UNCHANGED <<phase, stage, cleared, scraped, client, kept>>
    BY <1>10 DEF Accept, harness
  <2>2. stage # "written"
    BY <1>3, <2>1 DEF Outstanding
  <2>3. \A r \in Requests : r # q => server'[r] = server[r]
    BY <1>2, <2>1
  <2>4. server'[q].at = "running"
    BY <1>2, <2>1
  <2>5. Served' /\ RepeatsAreKept' /\ WarmUpIsGone' /\ ResultIsOfTheRepeats'
    BY <1>3, <2>1, <2>2, <2>3, <2>4 DEF Served, RepeatsAreKept, WarmUpIsGone, ResultIsOfTheRepeats
  <2> QED BY <1>1, <2>5 DEF RepeatsInv
<1>11. ASSUME NEW q \in Requests, NEW s \in Servers, NEW good \in BOOLEAN, Record(q, s, good)
       PROVE  RepeatsInv'
  <2>1. /\ server' = [server EXCEPT ![q].at = "appended", ![q].good = good]
        /\ kept' = [kept EXCEPT ![s] = Append(kept[s], q)]
        /\ server[q].at = "running" /\ s \in server[q].by
        /\ UNCHANGED <<phase, stage, cleared, scraped, client>>
    BY <1>11 DEF Record, harness
  <2>2. server[q].by = {s}
    BY <1>3, <2>1 DEF RepeatsInv, RingInv, OneWorker
  <2>3. /\ \A r \in Requests : r # q => server'[r] = server[r]
        /\ server'[q].at = "appended" /\ server'[q].by = {s}
    BY <1>2, <2>1, <2>2
  <2>4. /\ Range(kept'[s]) = Range(kept[s]) \cup {q}
        /\ \A t \in Servers : t # s => kept'[t] = kept[t]
    BY <1>2, <2>1, RangeOfAppend
  <2>5. client[q] \in {"sent", "gone"}
    BY <1>3, <2>1 DEF Served
  <2>6. Served' /\ ResultIsOfTheRepeats'
    BY <1>3, <2>1, <2>2, <2>3, <2>5 DEF Served, ResultIsOfTheRepeats
  <2>7. RepeatsAreKept'
    BY <1>3, <2>1, <2>3, <2>4 DEF RepeatsAreKept
  <2>8. q[1] = 0 /\ phase > 0 => client[q] = "gone"
    BY <1>3, <2>5 DEF Outstanding
  <2>9. WarmUpIsGone'
    BY <1>3, <2>1, <2>4, <2>8 DEF WarmUpIsGone
  <2> QED BY <1>1, <2>6, <2>7, <2>9 DEF RepeatsInv
<1>12. ASSUME NEW q \in Requests, NEW s \in Servers, Trim(q, s) PROVE RepeatsInv'
  <2>1. /\ server' = [server EXCEPT ![q].at = "recorded"] /\ server[q].at = "appended"
        /\ UNCHANGED <<phase, stage, cleared, scraped, client, kept>>
    BY <1>12 DEF Trim, harness
  <2>2. /\ \A r \in Requests : r # q => server'[r] = server[r]
        /\ server'[q].at = "recorded" /\ server'[q].by = server[q].by
    BY <1>2, <2>1
  <2>3. Served'
    BY <1>3, <2>1, <2>2 DEF Served
  <2>4. RepeatsAreKept'
    BY <1>3, <2>1, <2>2 DEF RepeatsAreKept
  <2>5. WarmUpIsGone'
    BY <1>3, <2>1 DEF WarmUpIsGone
  <2>6. ASSUME NEW r \in Requests PROVE server'[r].by = server[r].by
    BY <2>2
  <2>7. ResultIsOfTheRepeats'
    BY <1>3, <2>1, <2>6 DEF ResultIsOfTheRepeats
  <2> QED BY <1>1, <2>3, <2>4, <2>5, <2>7 DEF RepeatsInv
<1>13. CASE UNCHANGED vars
  BY <1>2, <1>4, <1>13 DEF vars
<1> QED BY <1>5, <1>6, <1>7, <1>8, <1>9, <1>10, <1>11, <1>12, <1>13, <1>14, <1>15 DEF Next, Harness, Handler

\* The metrics of a result, if it has any, are of the repeats (main_async resets
\* the worker after the warm-up): if a worker was reset and is the one that was
\* scraped, they hold a request of the warm-up only if its client had given up,
\* and whoever was scraped, what it answered in the repeats is all there if the
\* ring was large enough.
THEOREM ScrapeIsOfTheRepeatsHolds == Spec => []ScrapeIsOfTheRepeats
<1>1. Init => RepeatsInv
  <2> SUFFICES ASSUME Init PROVE RepeatsInv
    OBVIOUS
  <2>1. Served /\ RepeatsAreKept /\ WarmUpIsGone /\ ResultIsOfTheRepeats
    BY DEF Init, Served, RepeatsAreKept, WarmUpIsGone, ResultIsOfTheRepeats
  <2> QED BY <2>1, InitIsFine DEF RepeatsInv
<1>2. RepeatsInv => ScrapeIsOfTheRepeats
  <2> SUFFICES ASSUME RepeatsInv, stage = "written"
               PROVE  /\ \A q \in Range(scraped.records) :
                           q[1] = 0 => scraped.by # cleared \/ client[q] = "gone"
                      /\ Len(scraped.of) <= Capacity =>
                           \A q \in Requests :
                             q[1] > 0 /\ client[q] \in {"ok", "error"} /\ server[q].by = scraped.by
                               => q \in Range(scraped.records)
    BY DEF ScrapeIsOfTheRepeats
  <2>1. scraped.of \in Seq(Requests)
    BY DEF RepeatsInv, IInv, TypeOK
  <2>2. scraped.records = NewestOf(scraped.of)
    BY DEF RepeatsInv, RingInv, ScrapeIsTheNewest
  <2>3. /\ Range(scraped.records) \subseteq Range(scraped.of)
        /\ Len(scraped.of) <= Capacity => scraped.records = scraped.of
    BY <2>1, <2>2, RangeOfNewest
  <2>4. CASE scraped = NoScrape
    <3>1. Range(scraped.records) = {} /\ scraped.by = {}
      BY <2>4 DEF NoScrape, Range
    <3>2. \A q \in Requests : client[q] \in {"ok", "error"} => server[q].by # {}
      BY DEF RepeatsInv, RingInv, Served, OneWorker
    <3> QED BY <3>1, <3>2
  <2>5. CASE scraped # NoScrape
    BY <2>3, <2>5 DEF RepeatsInv, ResultIsOfTheRepeats
  <2> QED BY <2>4, <2>5
<1> QED BY <1>1, <1>2, RepeatsStep, PTL DEF Spec

=============================================================================
