--------------------------- MODULE IngestRun_proofs ---------------------------
(***************************************************************************)
(* IngestRun proved for any number of runs, orders and workers.            *)
(*                                                                         *)
(* OrdersAccounted speaks of the orders that were submitted.  To be        *)
(* inductive it needs to know of the others: they are not in the           *)
(* dictionary and nobody has counted them (Untouched), and a run that has  *)
(* left its loop has submitted all of them (AllSubmitted).                 *)
(*                                                                         *)
(* ReplayGivesTheOrder and WriteOnce speak of the files.  They rest on     *)
(* where a worker can be (LiveJobs), on a run being alone and of the same  *)
(* settings as those before it while the history says so (OneAtATime,      *)
(* OneSetting), and on what a worker then knows of the file before it: it  *)
(* writes to no whole file (NewFiles) and ingests from no other            *)
(* (WholeFiles).                                                           *)
(***************************************************************************)
EXTENDS IngestRun, TLAPS, FiniteSetTheorems

Untouched ==
  \A r \in Runs :
    /\ futures[r] \subseteq 1..submitted[r]
    /\ \A i \in Orders : i > submitted[r] => rows[r][i] = 0 /\ failures[r][i] = 0

AllSubmitted == \A r \in Runs : phase[r] \in {"draining", "over"} => submitted[r] = NumOrders[r]

IInv == TypeOK /\ Untouched /\ AllSubmitted /\ OrdersAccounted

----------------------------------------------------------------------------

LEMMA LimitType == Limit \in Nat /\ Limit >= 1
<1>1. \A w, b \in Nat \ {0} : w * b \in Nat /\ w * b >= 1
  BY SMTT(30)
<1> QED BY <1>1, IngestAssumption DEF Limit

LEMMA OrderOf ==
  ASSUME NEW r \in Runs, NEW i \in 1..NumOrders[r]
  PROVE  i \in Orders /\ i \in Nat
BY IngestAssumption DEF Orders

LEMMA OrdersAreNumbers == \A i \in Orders : i \in Nat /\ i >= 1
BY IngestAssumption DEF Orders

LEMMA FuturesAreFinite ==
  ASSUME TypeOK, Untouched, NEW r \in Runs
  PROVE  IsFiniteSet(futures[r]) /\ Cardinality(futures[r]) \in Nat
<1>1. submitted[r] \in Nat
  BY DEF TypeOK
<1>2. IsFiniteSet(1..submitted[r])
  BY <1>1, FS_Interval
<1>3. IsFiniteSet(futures[r])
  BY <1>2, FS_Subset DEF Untouched
<1> QED BY <1>3, FS_CardinalityType

LEMMA InitIsFine == Init => IInv
<1> SUFFICES ASSUME Init PROVE IInv
  OBVIOUS
<1>1. TypeOK
  BY IngestAssumption DEF Init, TypeOK, NoFile, Places
<1>2. Untouched /\ AllSubmitted
  BY DEF Init, Untouched, AllSubmitted
<1>3. OrdersAccounted
  BY FS_EmptySet, LimitType DEF Init, OrdersAccounted
<1> QED BY <1>1, <1>2, <1>3 DEF IInv

----------------------------------------------------------------------------
(* Types                                                                   *)

LEMMA NextOrder ==
  ASSUME TypeOK, NEW r \in Runs, MoreOrders(r)
  PROVE  /\ submitted[r] \in Nat
         /\ submitted[r] + 1 \in 1..NumOrders[r]
         /\ submitted[r] + 1 \in Orders
<1>1. submitted[r] \in Nat
  BY DEF TypeOK
<1>2. NumOrders[r] \in Nat
  BY IngestAssumption
<1>3. submitted[r] < NumOrders[r]
  BY DEF MoreOrders
<1>4. submitted[r] + 1 \in 1..NumOrders[r]
  BY <1>1, <1>2, <1>3
<1> QED BY <1>1, <1>4, OrderOf

LEMMA CollectTypes ==
  ASSUME TypeOK, NEW r \in Runs, NEW i \in Orders, Collect(r, i)
  PROVE  rows' \in [Runs -> [Orders -> Nat]] /\ failures' \in [Runs -> [Orders -> Nat]]
<1>1. rows \in [Runs -> [Orders -> Nat]] /\ failures \in [Runs -> [Orders -> Nat]]
  BY DEF TypeOK
<1>2. \A count \in [Runs -> [Orders -> Nat]] :
        [count EXCEPT ![r][i] = @ + 1] \in [Runs -> [Orders -> Nat]]
  <2> TAKE count \in [Runs -> [Orders -> Nat]]
  <2>1. count[r] \in [Orders -> Nat] /\ count[r][i] + 1 \in Nat
    OBVIOUS
  <2>2. [count[r] EXCEPT ![i] = @ + 1] \in [Orders -> Nat]
    BY <2>1
  <2> QED BY <2>2
<1>3. CASE job[r][i] = "done"
  BY <1>1, <1>2, <1>3 DEF Collect
<1>4. CASE job[r][i] # "done"
  BY <1>1, <1>2, <1>4 DEF Collect
<1> QED BY <1>3, <1>4

LEMMA MainTypes ==
  ASSUME TypeOK, NEW r \in Runs, MainStep(r)
  PROVE  TypeOK'
<1>1. CASE Submit(r)
  <2> DEFINE i == submitted[r] + 1
  <2>1. submitted[r] \in Nat /\ i \in 1..NumOrders[r] /\ i \in Orders
    BY <1>1, NextOrder DEF Submit
  <2>2. /\ submitted' = [submitted EXCEPT ![r] = i]
        /\ futures' = [futures EXCEPT ![r] = @ \cup {i}]
        /\ job' = [job EXCEPT ![r][i] = "queued"]
        /\ UNCHANGED <<archive, stored, setting, phase, rows, failures, met>>
    BY <1>1 DEF Submit, files
  <2>3. i \in Nat /\ i <= NumOrders[r]
    BY <2>1, IngestAssumption
  <2> HIDE DEF i
  <2>4. submitted' \in [Runs -> Nat] /\ \A q \in Runs : submitted'[q] <= NumOrders[q]
    BY <2>2, <2>3 DEF TypeOK
  <2>5. futures' \in [Runs -> SUBSET Orders]
    BY <2>1, <2>2 DEF TypeOK
  <2>6. job' \in [Runs -> [Orders -> Places]]
    BY <2>1, <2>2 DEF TypeOK, Places
  <2> QED BY <2>2, <2>4, <2>5, <2>6 DEF TypeOK
<1>2. ASSUME NEW i \in Orders, CollectOne(r, i) PROVE TypeOK'
  BY <1>2, CollectTypes DEF TypeOK, CollectOne, Popped, files
<1>3. ASSUME NEW i \in Orders, CollectRest(r, i) PROVE TypeOK'
  BY <1>3, CollectTypes DEF TypeOK, CollectRest, files
<1>4. CASE Exhausted(r)
  BY <1>4 DEF TypeOK, Exhausted, files
<1>5. CASE End(r)
  BY <1>5 DEF TypeOK, End, files
<1> QED BY <1>1, <1>2, <1>3, <1>4, <1>5 DEF MainStep

LEMMA WorkerTypes ==
  ASSUME TypeOK, NEW r \in Runs, NEW i \in Orders, WorkerStep(r, i)
  PROVE  TypeOK'
<1> USE DEF TypeOK, Goto, Places, files, main
<1>1. CASE Take(r, i)
  BY <1>1 DEF Take
<1>2. CASE FindsFile(r, i)
  BY <1>2 DEF FindsFile
<1>3. CASE FindsNoFile(r, i)
  <2>1. archive' \in [Orders -> [dir : BOOLEAN, by : Settings \cup {NoSettings}, whole : BOOLEAN]]
    <3> DEFINE File == [dir : BOOLEAN, by : Settings \cup {NoSettings}, whole : BOOLEAN]
    <3>1. archive' = [archive EXCEPT ![i].dir = TRUE]
      BY <1>3 DEF FindsNoFile
    <3>2. archive \in [Orders -> File]
      OBVIOUS
    <3>3. [archive[i] EXCEPT !.dir = TRUE] \in File
      BY <3>2
    <3> HIDE DEF File
    <3>4. archive' \in [Orders -> File]
      BY <3>1, <3>2, <3>3
    <3> QED BY <3>4 DEF File
  <2>2. job' \in [Runs -> [Orders -> Places]] /\ met' \subseteq {"overlap", "changed", "blind", "cut"}
    BY <1>3 DEF FindsNoFile
  <2> QED BY <1>3, <2>1, <2>2 DEF FindsNoFile
<1>4. CASE Open(r, i)
  <2>1. archive' \in [Orders -> [dir : BOOLEAN, by : Settings \cup {NoSettings}, whole : BOOLEAN]]
    BY <1>4 DEF Open
  <2>2. job' \in [Runs -> [Orders -> Places]]
    BY <1>4 DEF Open
  <2> QED BY <1>4, <2>1, <2>2 DEF Open
<1>5. CASE Fill(r, i)
  <2>1. PICK w \in BOOLEAN : archive' = [archive EXCEPT ![i] = [dir |-> TRUE, by |-> setting[r], whole |-> w]]
    BY <1>5 DEF Fill
  <2>2. archive' \in [Orders -> [dir : BOOLEAN, by : Settings \cup {NoSettings}, whole : BOOLEAN]]
    BY <2>1
  <2>3. job' \in [Runs -> [Orders -> Places]]
    BY <1>5 DEF Fill
  <2> QED BY <1>5, <2>2, <2>3 DEF Fill
<1>6. CASE Ingest(r, i)
  BY <1>6 DEF Ingest
<1>7. CASE Raise(r, i)
  BY <1>7 DEF Raise, AfterError, Cut
<1> QED BY <1>1, <1>2, <1>3, <1>4, <1>5, <1>6, <1>7 DEF WorkerStep

LEMMA TypeStep ==
  ASSUME TypeOK, [Next]_vars
  PROVE  TypeOK'
<1>1. ASSUME NEW r \in Runs, NEW s \in Settings, Begin(r, s) PROVE TypeOK'
  BY <1>1 DEF TypeOK, Begin, files
<1>2. ASSUME NEW r \in Runs, Running(r) PROVE TypeOK'
  BY <1>2, MainTypes, WorkerTypes DEF Running
<1>3. ASSUME NEW r \in Runs, Kill(r) PROVE TypeOK'
  BY <1>3 DEF TypeOK, Kill, files, Places, Cut
<1>4. CASE UNCHANGED vars
  BY <1>4 DEF TypeOK, vars
<1> QED BY <1>1, <1>2, <1>3, <1>4 DEF Next

----------------------------------------------------------------------------
(* Accounts                                                                *)

Accounts == Untouched /\ AllSubmitted /\ OrdersAccounted

\* The books do not change when the main threads' variables do not, a phase
\* aside that says nothing of them.
LEMMA SameBooks ==
  ASSUME IInv, UNCHANGED <<submitted, futures, rows, failures>>,
         \A r \in Runs : phase'[r] = phase[r] \/ (phase'[r] = "submitting" /\ phase[r] = "new")
  PROVE  Accounts'
<1>1. Untouched'
  BY DEF IInv, Untouched
<1>2. AllSubmitted'
  BY DEF IInv, AllSubmitted
<1>3. OrdersAccounted'
  BY DEF IInv, OrdersAccounted
<1> QED BY <1>1, <1>2, <1>3 DEF Accounts

LEMMA SubmitAccounts ==
  ASSUME IInv, NEW r \in Runs, Submit(r)
  PROVE  Accounts'
<1> DEFINE i == submitted[r] + 1
<1>1. i \in 1..NumOrders[r] /\ submitted[r] \in Nat
  BY NextOrder DEF IInv, Submit
<1>2. i \in Orders /\ i \in Nat
  BY <1>1, OrderOf
<1>3. /\ submitted' = [submitted EXCEPT ![r] = i]
      /\ futures' = [futures EXCEPT ![r] = @ \cup {i}]
      /\ phase[r] = "submitting"
      /\ Cardinality(futures[r]) < Limit
      /\ UNCHANGED <<phase, rows, failures>>
  BY DEF Submit
<1>4. i \notin futures[r]
  BY <1>1 DEF IInv, Untouched
<1>5. Untouched'
  <2> SUFFICES ASSUME NEW q \in Runs
               PROVE  /\ futures'[q] \subseteq 1..submitted'[q]
                      /\ \A j \in Orders : j > submitted'[q] => rows'[q][j] = 0 /\ failures'[q][j] = 0
    BY DEF Untouched
  <2>1. CASE q # r
    BY <2>1, <1>3 DEF IInv, TypeOK, Untouched
  <2>2. CASE q = r
    <3>1. futures'[r] = futures[r] \cup {i} /\ submitted'[r] = i
      BY <1>3 DEF IInv, TypeOK
    <3>2. futures[r] \subseteq 1..submitted[r]
      BY DEF IInv, Untouched
    <3>3. \A j \in Orders : j > i => rows[r][j] = 0 /\ failures[r][j] = 0
      BY <1>1, OrdersAreNumbers DEF IInv, Untouched
    <3> QED BY <2>2, <3>1, <3>2, <3>3, <1>1, <1>2, <1>3
  <2> QED BY <2>1, <2>2
<1>6. AllSubmitted'
  BY <1>3 DEF IInv, TypeOK, AllSubmitted
<1>7. OrdersAccounted'
  <2> SUFFICES ASSUME NEW q \in Runs, phase'[q] # "killed"
               PROVE  /\ \A j \in 1..submitted'[q] :
                           rows'[q][j] + failures'[q][j] = IF j \in futures'[q] THEN 0 ELSE 1
                      /\ Cardinality(futures'[q]) <= Limit
                      /\ phase'[q] = "over" => submitted'[q] = NumOrders[q] /\ futures'[q] = {}
    BY DEF OrdersAccounted
  <2>1. CASE q # r
    BY <2>1, <1>3 DEF IInv, TypeOK, OrdersAccounted
  <2>2. CASE q = r
    <3>1. futures'[r] = futures[r] \cup {i} /\ submitted'[r] = i
      BY <1>3 DEF IInv, TypeOK
    <3>2. rows[r][i] = 0 /\ failures[r][i] = 0
      BY <1>1, <1>2 DEF IInv, Untouched
    <3>3. \A j \in 1..submitted[r] :
            rows[r][j] + failures[r][j] = IF j \in futures[r] THEN 0 ELSE 1
      BY <1>3 DEF IInv, OrdersAccounted
    <3>4. \A j \in 1..i : j = i \/ (j \in 1..submitted[r] /\ j # i)
      BY <1>1
    <3>5. \A j \in 1..i : rows[r][j] + failures[r][j] = IF j \in futures[r] \cup {i} THEN 0 ELSE 1
      BY <3>2, <3>3, <3>4
    <3>6. Cardinality(futures[r] \cup {i}) <= Limit
      <4>1. Cardinality(futures[r] \cup {i}) = Cardinality(futures[r]) + 1
        BY <1>4, FuturesAreFinite, FS_AddElement DEF IInv
      <4> QED BY <4>1, <1>3, LimitType, FuturesAreFinite DEF IInv
    <3> QED BY <2>2, <3>1, <3>5, <3>6, <1>3
  <2> QED BY <2>1, <2>2
<1> QED BY <1>5, <1>6, <1>7 DEF Accounts

\* Both loops count a finished order and take it from the dictionary.
LEMMA CollectAccounts ==
  ASSUME IInv, NEW r \in Runs, NEW i \in futures[r], Active(r), Collect(r, i),
         futures' = [futures EXCEPT ![r] = @ \ {i}], UNCHANGED <<phase, submitted>>
  PROVE  Accounts'
<1>1. i \in 1..submitted[r] /\ submitted[r] \in Nat /\ submitted[r] <= NumOrders[r]
  BY DEF IInv, Untouched, TypeOK
<1>2. i \in Orders
  BY <1>1, OrderOf, IngestAssumption
<1>3. phase[r] # "killed" /\ phase[r] # "over"
  BY DEF Active
<1>4. futures'[r] = futures[r] \ {i}
  BY DEF IInv, TypeOK
<1>5. \A q \in Runs : q # r =>
        futures'[q] = futures[q] /\ rows'[q] = rows[q] /\ failures'[q] = failures[q]
  BY DEF IInv, TypeOK, Collect
<1>6. \A j \in Orders : j # i => rows'[r][j] = rows[r][j] /\ failures'[r][j] = failures[r][j]
  BY DEF IInv, TypeOK, Collect
<1>7. rows[r][i] \in Nat /\ failures[r][i] \in Nat /\ rows[r][i] + failures[r][i] = 0
  BY <1>1, <1>2, <1>3 DEF IInv, TypeOK, OrdersAccounted
<1>8. rows'[r][i] + failures'[r][i] = 1
  <2>1. CASE job[r][i] = "done"
    <3>1. rows'[r][i] = rows[r][i] + 1 /\ failures' = failures
      BY <2>1, <1>2 DEF IInv, TypeOK, Collect
    <3> QED BY <3>1, <1>7
  <2>2. CASE job[r][i] # "done"
    <3>1. failures'[r][i] = failures[r][i] + 1 /\ rows' = rows
      BY <2>2, <1>2 DEF IInv, TypeOK, Collect
    <3> QED BY <3>1, <1>7
  <2> QED BY <2>1, <2>2
<1>9. Untouched'
  <2>1. \A q \in Runs : futures'[q] \subseteq 1..submitted[q]
    BY <1>4, <1>5 DEF IInv, Untouched
  <2>2. \A j \in Orders : j > submitted[r] => j # i
    BY <1>1, OrdersAreNumbers
  <2>3. \A q \in Runs : \A j \in Orders : j > submitted[q] => rows'[q][j] = 0 /\ failures'[q][j] = 0
    BY <2>2, <1>5, <1>6 DEF IInv, Untouched
  <2> QED BY <2>1, <2>3 DEF Untouched
<1>10. AllSubmitted'
  BY DEF IInv, AllSubmitted
<1>11. OrdersAccounted'
  <2> SUFFICES ASSUME NEW q \in Runs, phase[q] # "killed"
               PROVE  /\ \A j \in 1..submitted[q] :
                           rows'[q][j] + failures'[q][j] = IF j \in futures'[q] THEN 0 ELSE 1
                      /\ Cardinality(futures'[q]) <= Limit
                      /\ phase[q] = "over" => submitted[q] = NumOrders[q] /\ futures'[q] = {}
    BY DEF OrdersAccounted
  <2>1. CASE q # r
    BY <2>1, <1>5 DEF IInv, OrdersAccounted
  <2>2. CASE q = r
    <3>1. \A j \in 1..submitted[r] : j \in Orders
      <4>1. \A j \in 1..submitted[r] : j \in 1..NumOrders[r]
        BY <1>1, IngestAssumption
      <4> QED BY <4>1, OrderOf
    <3>2. \A j \in 1..submitted[r] :
            rows[r][j] + failures[r][j] = IF j \in futures[r] THEN 0 ELSE 1
      BY <1>3 DEF IInv, OrdersAccounted
    <3>3. \A j \in 1..submitted[r] :
            rows'[r][j] + failures'[r][j] = IF j \in futures'[r] THEN 0 ELSE 1
      BY <3>1, <3>2, <1>4, <1>6, <1>8
    <3>4. Cardinality(futures'[r]) <= Limit
      <4>1. Cardinality(futures[r] \ {i}) = Cardinality(futures[r]) - 1
        BY FuturesAreFinite, FS_RemoveElement DEF IInv
      <4>2. Cardinality(futures[r]) <= Limit
        BY <1>3 DEF IInv, OrdersAccounted
      <4> QED BY <4>1, <4>2, <1>4, FuturesAreFinite, LimitType DEF IInv
    <3> QED BY <2>2, <3>3, <3>4, <1>3
  <2> QED BY <2>1, <2>2
<1> QED BY <1>9, <1>10, <1>11 DEF Accounts

LEMMA LeaveAccounts ==
  ASSUME IInv, NEW r \in Runs, Exhausted(r) \/ End(r)
  PROVE  Accounts'
<1>1. UNCHANGED <<submitted, futures, rows, failures>>
  BY DEF Exhausted, End
<1>2. Untouched'
  BY <1>1 DEF IInv, Untouched
<1>3. submitted[r] = NumOrders[r]
  <2>1. submitted[r] \in Nat /\ NumOrders[r] \in Nat /\ submitted[r] <= NumOrders[r]
    BY IngestAssumption DEF IInv, TypeOK
  <2>2. CASE Exhausted(r)
    BY <2>1, <2>2 DEF Exhausted, MoreOrders
  <2>3. CASE End(r)
    BY <2>3 DEF IInv, AllSubmitted, End
  <2> QED BY <2>2, <2>3
<1>4. /\ \A q \in Runs : q # r => phase'[q] = phase[q]
      /\ phase[r] # "killed"
      /\ phase'[r] = "over" => futures[r] = {}
  BY DEF IInv, TypeOK, Exhausted, End
<1>5. AllSubmitted'
  BY <1>1, <1>3, <1>4 DEF IInv, AllSubmitted
<1>6. OrdersAccounted'
  <2> SUFFICES ASSUME NEW q \in Runs, phase'[q] # "killed"
               PROVE  /\ \A j \in 1..submitted[q] :
                           rows[q][j] + failures[q][j] = IF j \in futures[q] THEN 0 ELSE 1
                      /\ Cardinality(futures[q]) <= Limit
                      /\ phase'[q] = "over" => submitted[q] = NumOrders[q] /\ futures[q] = {}
    BY <1>1 DEF OrdersAccounted
  <2>1. phase[q] # "killed"
    BY <1>4
  <2> QED BY <2>1, <1>3, <1>4 DEF IInv, OrdersAccounted
<1> QED BY <1>2, <1>5, <1>6 DEF Accounts

LEMMA KillAccounts ==
  ASSUME IInv, NEW r \in Runs, Kill(r)
  PROVE  Accounts'
<1>1. /\ phase' = [phase EXCEPT ![r] = "killed"]
      /\ futures' = [futures EXCEPT ![r] = {}]
      /\ UNCHANGED <<submitted, rows, failures>>
  BY DEF Kill
<1>2. \A q \in Runs : q # r => phase'[q] = phase[q] /\ futures'[q] = futures[q]
  BY <1>1 DEF IInv, TypeOK
<1>3. phase'[r] = "killed" /\ futures'[r] = {}
  BY <1>1 DEF IInv, TypeOK
<1>4. Untouched'
  BY <1>1, <1>2, <1>3 DEF IInv, Untouched
<1>5. AllSubmitted'
  BY <1>1, <1>2, <1>3 DEF IInv, AllSubmitted
<1>6. OrdersAccounted'
  BY <1>1, <1>2, <1>3 DEF IInv, OrdersAccounted
<1> QED BY <1>4, <1>5, <1>6 DEF Accounts

LEMMA AccountStep ==
  ASSUME IInv, [Next]_vars
  PROVE  Accounts'
<1>1. ASSUME NEW r \in Runs, NEW s \in Settings, Begin(r, s) PROVE Accounts'
  <2>1. /\ UNCHANGED <<submitted, futures, rows, failures>>
        /\ \A q \in Runs : phase'[q] = phase[q] \/ (phase'[q] = "submitting" /\ phase[q] = "new")
    BY <1>1 DEF IInv, TypeOK, Begin
  <2> QED BY <2>1, SameBooks
<1>2. ASSUME NEW r \in Runs, MainStep(r) PROVE Accounts'
  <2>1. CASE Submit(r)
    BY <2>1, SubmitAccounts
  <2>2. ASSUME NEW i \in Orders, CollectOne(r, i) PROVE Accounts'
    <3>1. /\ i \in futures[r] /\ Active(r) /\ Collect(r, i)
          /\ futures' = [futures EXCEPT ![r] = @ \ {i}]
          /\ UNCHANGED <<phase, submitted>>
      BY <2>2 DEF CollectOne, Active, Popped, IInv, TypeOK
    <3> QED BY <3>1, CollectAccounts
  <2>3. ASSUME NEW i \in Orders, CollectRest(r, i) PROVE Accounts'
    <3>1. /\ i \in futures[r] /\ Active(r) /\ Collect(r, i)
          /\ futures' = [futures EXCEPT ![r] = @ \ {i}]
          /\ UNCHANGED <<phase, submitted>>
      BY <2>3 DEF CollectRest, Active
    <3> QED BY <3>1, CollectAccounts
  <2>4. CASE Exhausted(r) \/ End(r)
    BY <2>4, LeaveAccounts
  <2> QED BY <1>2, <2>1, <2>2, <2>3, <2>4 DEF MainStep
<1>3. ASSUME NEW r \in Runs, NEW i \in Orders, WorkerStep(r, i) PROVE Accounts'
  <2>1. UNCHANGED main
    BY <1>3 DEF WorkerStep, Take, FindsFile, FindsNoFile, Open, Fill, Ingest, Raise
  <2> QED BY <2>1, SameBooks DEF main
<1>4. ASSUME NEW r \in Runs, Kill(r) PROVE Accounts'
  BY <1>4, KillAccounts
<1>5. CASE UNCHANGED vars
  BY <1>5, SameBooks DEF vars
<1> QED BY <1>1, <1>2, <1>3, <1>4, <1>5 DEF Next, Running

----------------------------------------------------------------------------
(* Files                                                                   *)

\* A worker is at an order only while its run goes on and waits for it.
LiveJobs ==
  \A r \in Runs, i \in Orders :
    job[r][i] \in {"queued", "put", "open", "fill", "ingest"} => Active(r) /\ i \in futures[r]

\* A run has its settings from its beginning on.
SettingsKnown ==
  \A r \in Runs : IF phase[r] = "new" THEN setting[r] = NoSettings ELSE setting[r] \in Settings

\* A file has a directory, what is whole is a file, and a row has a file.
FilesFirst ==
  \A i \in Orders :
    /\ archive[i].whole => Exists(i)
    /\ Exists(i) => archive[i].dir
    /\ stored[i] # NoSettings => Exists(i)
    /\ \A r \in Runs :
         /\ job[r][i] = "open" => archive[i].dir
         /\ job[r][i] \in {"fill", "ingest"} => Exists(i)

\* What is in the archive and in the repository some run has put there.
FromARun ==
  \A i \in Orders :
    /\ Exists(i) => \E r \in Runs : archive[i].by = setting[r]
    /\ stored[i] # NoSettings => \E r \in Runs : stored[i] = setting[r]

OneAtATime == "overlap" \notin met => \A r, q \in Runs : Active(r) /\ Active(q) => r = q

OneSetting ==
  "changed" \notin met =>
    \A r, q \in Runs : setting[r] # NoSettings /\ setting[q] # NoSettings => setting[r] = setting[q]

\* Nobody writes to a file that is whole ...
NewFiles ==
  met \cap {"overlap", "blind"} = {} =>
    \A r \in Runs, i \in Orders : job[r][i] \in {"open", "fill"} => ~archive[i].whole

\* ... and nobody goes on from one that is not.
WholeFiles ==
  met = {} => \A i \in Orders :
    /\ Exists(i) /\ ~archive[i].whole => \E r \in Runs : job[r][i] = "fill"
    /\ \A r \in Runs : job[r][i] = "ingest" => archive[i].whole
    /\ stored[i] # NoSettings => archive[i].whole

FileInv ==
  /\ LiveJobs /\ SettingsKnown /\ FilesFirst /\ FromARun
  /\ OneAtATime /\ OneSetting /\ NewFiles /\ WholeFiles

\* What a step does to job, whose functions are nested.
LEMMA GotoIs ==
  ASSUME TypeOK, NEW r \in Runs, NEW i \in Orders, NEW l, Goto(r, i, l)
  PROVE  \A q \in Runs, j \in Orders : job'[q][j] = IF q = r /\ j = i THEN l ELSE job[q][j]
BY DEF TypeOK, Goto

LEMMA KeptBooks ==
  ASSUME NEW r \in Runs, NEW i \in Orders, WorkerStep(r, i)
  PROVE  UNCHANGED <<setting, phase, submitted, futures, rows, failures>>
BY DEF WorkerStep, Take, FindsFile, FindsNoFile, Open, Fill, Ingest, Raise, main

LEMMA HistoryGrows == [Next]_vars => met \subseteq met'
<1>1. ASSUME NEW r \in Runs, MainStep(r) PROVE met' = met
  BY <1>1 DEF MainStep, Submit, CollectOne, CollectRest, Exhausted, End
<1>2. ASSUME NEW r \in Runs, NEW i \in Orders, WorkerStep(r, i) PROVE met \subseteq met'
  BY <1>2 DEF WorkerStep, Take, FindsFile, FindsNoFile, Open, Fill, Ingest, Raise
<1> QED BY <1>1, <1>2 DEF Next, Running, Begin, Kill, vars

RunInv == SettingsKnown /\ OneAtATime /\ OneSetting

LEMMA BeginRuns ==
  ASSUME TypeOK, RunInv, NEW r \in Runs, NEW s \in Settings, Begin(r, s)
  PROVE  RunInv'
<1>1. /\ phase[r] = "new"
      /\ \A q \in Runs : setting'[q] = IF q = r THEN s ELSE setting[q]
      /\ \A q \in Runs : phase'[q] = IF q = r THEN "submitting" ELSE phase[q]
      /\ met' = met \cup (IF \E other \in Runs : Active(other) THEN {"overlap"} ELSE {})
                    \cup (IF \E other \in Runs : setting[other] \notin {s, NoSettings}
                            THEN {"changed"} ELSE {})
  BY DEF TypeOK, Begin
<1>2. SettingsKnown'
  BY <1>1 DEF RunInv, SettingsKnown
<1>3. OneAtATime'
  <2> SUFFICES ASSUME "overlap" \notin met' PROVE \A p, q \in Runs : Active(p)' /\ Active(q)' => p = q
    BY DEF OneAtATime
  <2>1. \A q \in Runs : ~Active(q)
    BY <1>1
  <2> QED BY <1>1, <2>1 DEF Active
<1>4. OneSetting'
  <2> SUFFICES ASSUME "changed" \notin met',
                      NEW p \in Runs, NEW q \in Runs, setting'[p] # NoSettings, setting'[q] # NoSettings
               PROVE  setting'[p] = setting'[q]
    BY DEF OneSetting
  <2>1. \A other \in Runs : setting[other] \in {s, NoSettings}
    BY <1>1
  <2> QED BY <1>1, <2>1
<1> QED BY <1>2, <1>3, <1>4 DEF RunInv

\* A run that has begun keeps its settings and never comes back to life.
LEMMA GoesOnRuns ==
  ASSUME RunInv, setting' = setting, met \subseteq met',
         \A q \in Runs : phase'[q] = phase[q] \/ (phase[q] # "new" /\ phase'[q] # "new"
                                                  /\ (Active(q)' => Active(q)))
  PROVE  RunInv'
<1>1. SettingsKnown'
  BY DEF RunInv, SettingsKnown
<1>2. \A q \in Runs : Active(q)' => Active(q)
  BY DEF Active
<1>3. OneAtATime'
  BY <1>2 DEF RunInv, OneAtATime
<1>4. OneSetting'
  BY DEF RunInv, OneSetting
<1> QED BY <1>1, <1>3, <1>4 DEF RunInv

LEMMA RunStep ==
  ASSUME TypeOK, RunInv, [Next]_vars
  PROVE  RunInv'
<1>1. met \subseteq met'
  BY HistoryGrows
<1>2. ASSUME NEW r \in Runs, MainStep(r) PROVE RunInv'
  <2>1. setting' = setting
    BY <1>2 DEF MainStep, Submit, CollectOne, CollectRest, Exhausted, End
  <2>2. \/ phase' = phase
        \/ Active(r) /\ (phase' = [phase EXCEPT ![r] = "draining"] \/ phase' = [phase EXCEPT ![r] = "over"])
    BY <1>2 DEF MainStep, Submit, CollectOne, CollectRest, Exhausted, End, Active
  <2>3. \A q \in Runs : phase'[q] = phase[q] \/ (phase[q] # "new" /\ phase'[q] # "new"
                                                 /\ (Active(q)' => Active(q)))
    BY <2>2 DEF Active, TypeOK
  <2> QED BY <1>1, <2>1, <2>3, GoesOnRuns
<1>3. ASSUME NEW r \in Runs, NEW i \in Orders, WorkerStep(r, i) PROVE RunInv'
  BY <1>1, <1>3, KeptBooks, GoesOnRuns
<1>4. ASSUME NEW r \in Runs, Kill(r) PROVE RunInv'
  <2>1. \A q \in Runs : phase'[q] = phase[q] \/ (phase[q] # "new" /\ phase'[q] # "new"
                                                 /\ (Active(q)' => Active(q)))
    BY <1>4 DEF Kill, Active, TypeOK
  <2> QED BY <1>1, <1>4, <2>1, GoesOnRuns DEF Kill
<1>5. CASE UNCHANGED vars
  BY <1>5, GoesOnRuns DEF vars
<1> QED BY <1>2, <1>3, <1>4, <1>5, BeginRuns DEF Next, Running

LEMMA LiveStep ==
  ASSUME IInv, LiveJobs, [Next]_vars
  PROVE  LiveJobs'
<1> DEFINE Live == {"queued", "put", "open", "fill", "ingest"}
<1> USE DEF IInv
<1>1. ASSUME NEW r \in Runs, NEW s \in Settings, Begin(r, s) PROVE LiveJobs'
  BY <1>1 DEF Begin, TypeOK, LiveJobs, Active
<1>2. ASSUME NEW r \in Runs, Submit(r) PROVE LiveJobs'
  <2> DEFINE n == submitted[r] + 1
  <2>1. n \in Orders
    BY <1>2, NextOrder DEF Submit
  <2>2. /\ \A q \in Runs, j \in Orders : job'[q][j] = IF q = r /\ j = n THEN "queued" ELSE job[q][j]
        /\ \A q \in Runs : futures'[q] = IF q = r THEN futures[r] \cup {n} ELSE futures[q]
        /\ phase' = phase /\ Active(r)
    BY <1>2, <2>1 DEF Submit, TypeOK, Active
  <2> HIDE DEF n
  <2> QED BY <2>1, <2>2 DEF LiveJobs, Active
<1>3. ASSUME NEW r \in Runs, NEW i \in Orders, CollectOne(r, i) \/ CollectRest(r, i) PROVE LiveJobs'
  <2>1. /\ job[r][i] \in {"done", "failed"}
        /\ \A q \in Runs : futures'[q] = IF q = r THEN futures[r] \ {i} ELSE futures[q]
        /\ job' = job /\ phase' = phase
    BY <1>3 DEF CollectOne, CollectRest, Popped, Finished, TypeOK
  <2> QED BY <2>1 DEF LiveJobs, Active
<1>4. ASSUME NEW r \in Runs, Exhausted(r) PROVE LiveJobs'
  BY <1>4 DEF Exhausted, TypeOK, LiveJobs, Active
<1>5. ASSUME NEW r \in Runs, End(r) PROVE LiveJobs'
  BY <1>5 DEF End, TypeOK, LiveJobs, Active
<1>6. ASSUME NEW r \in Runs, NEW i \in Orders, WorkerStep(r, i) PROVE LiveJobs'
  <2>1. job[r][i] \in Live /\ \E l \in Live \cup {"done", "failed"} : Goto(r, i, l)
    BY <1>6 DEF WorkerStep, Take, FindsFile, FindsNoFile, Open, Fill, Ingest, Raise, AfterError
  <2>2. phase' = phase /\ futures' = futures
    BY <1>6, KeptBooks
  <2>3. \A q \in Runs, j \in Orders : job'[q][j] = job[q][j] \/ (q = r /\ j = i)
    BY <2>1, GotoIs
  <2> QED BY <2>1, <2>2, <2>3 DEF LiveJobs, Active
<1>7. ASSUME NEW r \in Runs, Kill(r) PROVE LiveJobs'
  BY <1>7 DEF Kill, TypeOK, LiveJobs, Active
<1>8. CASE UNCHANGED vars
  BY <1>8 DEF vars, LiveJobs, Active
<1> QED BY <1>1, <1>2, <1>3, <1>4, <1>5, <1>6, <1>7, <1>8 DEF Next, Running, MainStep

ContentInv == FilesFirst /\ FromARun /\ NewFiles /\ WholeFiles

\* A step that leaves the archive alone, stores at most what a worker was about
\* to ingest, and takes no worker to a place at which it writes; where one
\* leaves a file unfilled the step says so.
LEMMA OtherStep ==
  ASSUME ContentInv, archive' = archive, met \subseteq met',
         \A q \in Runs : setting[q] # NoSettings => setting'[q] = setting[q],
         \A q \in Runs, j \in Orders :
           \/ job'[q][j] = job[q][j]
           \/ /\ job'[q][j] \in {"none", "queued", "put", "done", "failed"}
              /\ job[q][j] = "fill" => met' # {},
         \A j \in Orders :
           stored'[j] = stored[j] \/ \E q \in Runs : job[q][j] = "ingest" /\ stored'[j] = setting[q]
  PROVE  ContentInv'
<1> USE DEF ContentInv
<1>1. \A j \in Orders : Exists(j)' <=> Exists(j)
  BY DEF Exists
<1>2. \A q \in Runs, j \in Orders : job'[q][j] \in {"open", "fill", "ingest"} => job'[q][j] = job[q][j]
  OBVIOUS
<1>3. FilesFirst'
  BY <1>1, <1>2 DEF FilesFirst
<1>4. FromARun'
  <2>1. ASSUME NEW j \in Orders, Exists(j)' PROVE \E q \in Runs : archive'[j].by = setting'[q]
    <3>1. PICK q \in Runs : archive[j].by = setting[q]
      BY <1>1, <2>1 DEF FromARun
    <3>2. setting'[q] = setting[q]
      BY <1>1, <2>1, <3>1 DEF Exists
    <3> QED BY <3>1, <3>2
  <2>2. ASSUME NEW j \in Orders, stored'[j] # NoSettings PROVE \E q \in Runs : stored'[j] = setting'[q]
    <3>1. PICK q \in Runs : stored'[j] = setting[q]
      BY <2>2 DEF FromARun
    <3> QED BY <2>2, <3>1
  <2> QED BY <2>1, <2>2 DEF FromARun
<1>5. NewFiles'
  BY <1>2 DEF NewFiles
<1>6. WholeFiles'
  <2> SUFFICES ASSUME met' = {}, NEW j \in Orders
               PROVE  /\ Exists(j) /\ ~archive[j].whole => \E q \in Runs : job'[q][j] = "fill"
                      /\ \A q \in Runs : job'[q][j] = "ingest" => archive[j].whole
                      /\ stored'[j] # NoSettings => archive[j].whole
    BY <1>1 DEF WholeFiles
  <2>1. met = {}
    OBVIOUS
  <2> QED BY <1>2, <2>1 DEF WholeFiles
<1> QED BY <1>3, <1>4, <1>5, <1>6

\* Two workers at one order are of two runs at once.
LEMMA AloneAtOrder ==
  ASSUME LiveJobs, OneAtATime, "overlap" \notin met,
         NEW r \in Runs, NEW q \in Runs, NEW i \in Orders,
         job[r][i] \in {"put", "open", "fill", "ingest"},
         job[q][i] \in {"put", "open", "fill", "ingest"}
  PROVE  q = r
BY DEF LiveJobs, OneAtATime

LEMMA FindsFileStep ==
  ASSUME TypeOK, ContentInv, LiveJobs, OneAtATime, NEW r \in Runs, NEW i \in Orders, FindsFile(r, i)
  PROVE  ContentInv'
<1> USE DEF ContentInv
<1>1. /\ UNCHANGED <<archive, stored, setting, met>> /\ job[r][i] = "put" /\ Exists(i)
      /\ \A q \in Runs, j \in Orders : job'[q][j] = IF q = r /\ j = i THEN "ingest" ELSE job[q][j]
  BY GotoIs DEF FindsFile, files
<1>2. FilesFirst'
  BY <1>1 DEF FilesFirst, Exists
<1>3. FromARun' /\ NewFiles'
  BY <1>1 DEF FromARun, NewFiles, Exists
<1>4. met = {} => archive[i].whole
  BY <1>1, AloneAtOrder DEF WholeFiles
<1>5. WholeFiles'
  BY <1>1, <1>4 DEF WholeFiles, Exists
<1> QED BY <1>2, <1>3, <1>5

LEMMA FindsNoFileStep ==
  ASSUME TypeOK, ContentInv, NEW r \in Runs, NEW i \in Orders, FindsNoFile(r, i)
  PROVE  ContentInv'
<1> USE DEF ContentInv
<1>1. /\ UNCHANGED <<stored, setting>> /\ job[r][i] = "put"
      /\ met' = IF Exists(i) THEN met \cup {"blind"} ELSE met
      /\ archive' = [archive EXCEPT ![i].dir = TRUE]
      /\ \A q \in Runs, j \in Orders : job'[q][j] = IF q = r /\ j = i THEN "open" ELSE job[q][j]
  BY GotoIs DEF FindsNoFile
<1>2. \A j \in Orders : /\ archive'[j].by = archive[j].by /\ archive'[j].whole = archive[j].whole
                        /\ archive'[j].dir = IF j = i THEN TRUE ELSE archive[j].dir
  <2>1. /\ archive \in [Orders -> [dir : BOOLEAN, by : Settings \cup {NoSettings}, whole : BOOLEAN]]
        /\ \A j \in Orders : archive'[j] = IF j = i THEN [archive[i] EXCEPT !.dir = TRUE] ELSE archive[j]
    BY <1>1 DEF TypeOK
  <2> QED BY <2>1
<1>3. \A j \in Orders : Exists(j)' <=> Exists(j)
  BY <1>2 DEF Exists
<1>4. FilesFirst' /\ FromARun'
  <2>1. ASSUME NEW j \in Orders
        PROVE  /\ archive'[j].whole => Exists(j)'
               /\ Exists(j)' => archive'[j].dir
               /\ stored'[j] # NoSettings => Exists(j)'
    BY <1>1, <1>2, <1>3 DEF FilesFirst
  <2>2. ASSUME NEW j \in Orders, NEW q \in Runs
        PROVE  /\ job'[q][j] = "open" => archive'[j].dir
               /\ job'[q][j] \in {"fill", "ingest"} => Exists(j)'
    <3>1. CASE q = r /\ j = i
      <4>1. job'[q][j] = "open" /\ archive'[j].dir
        BY <1>1, <1>2, <3>1
      <4> QED BY <4>1
    <3>2. CASE ~(q = r /\ j = i)
      <4>1. job'[q][j] = job[q][j]
        BY <1>1, <3>2
      <4>2. archive[j].dir => archive'[j].dir
        BY <1>2
      <4> QED BY <1>3, <4>1, <4>2 DEF FilesFirst
    <3> QED BY <3>1, <3>2
  <2>3. FilesFirst'
    BY <2>1, <2>2 DEF FilesFirst
  <2>4. FromARun'
    BY <1>1, <1>2, <1>3 DEF FromARun
  <2> QED BY <2>3, <2>4
<1>5. NewFiles'
  <2>1. "blind" \notin met' => ~archive[i].whole
    BY <1>1 DEF FilesFirst
  <2> QED BY <1>1, <1>2, <2>1 DEF NewFiles
<1>6. WholeFiles'
  BY <1>1, <1>2, <1>3 DEF WholeFiles
<1> QED BY <1>4, <1>5, <1>6

LEMMA OpenStep ==
  ASSUME TypeOK, ContentInv, RunInv, LiveJobs, NEW r \in Runs, NEW i \in Orders, Open(r, i)
  PROVE  ContentInv'
<1> USE DEF ContentInv
<1>1. /\ UNCHANGED <<stored, setting, met>> /\ job[r][i] = "open"
      /\ \A j \in Orders :
           archive'[j] = IF j = i THEN [dir |-> TRUE, by |-> setting[r], whole |-> FALSE] ELSE archive[j]
      /\ \A q \in Runs, j \in Orders : job'[q][j] = IF q = r /\ j = i THEN "fill" ELSE job[q][j]
  BY GotoIs DEF Open, TypeOK
<1>2. setting[r] # NoSettings
  BY <1>1, IngestAssumption DEF LiveJobs, Active, RunInv, SettingsKnown
<1>3. Exists(i)' /\ \A j \in Orders : j # i => (Exists(j)' <=> Exists(j))
  BY <1>1, <1>2 DEF Exists
<1>4. FilesFirst'
  BY <1>1, <1>3 DEF FilesFirst
<1>5. FromARun'
  BY <1>1, <1>3 DEF FromARun
<1>6. NewFiles'
  BY <1>1 DEF NewFiles
<1>7. WholeFiles'
  <2> SUFFICES ASSUME met = {}, NEW j \in Orders
               PROVE  /\ Exists(j)' /\ ~archive'[j].whole => \E q \in Runs : job'[q][j] = "fill"
                      /\ \A q \in Runs : job'[q][j] = "ingest" => archive'[j].whole
                      /\ stored'[j] # NoSettings => archive'[j].whole
    BY <1>1 DEF WholeFiles
  <2>1. CASE j # i
    BY <1>1, <1>3, <2>1 DEF WholeFiles
  <2>2. CASE j = i
    <3>1. ~archive[i].whole
      BY <1>1 DEF NewFiles
    <3>2. \A q \in Runs : job[q][i] # "ingest"
      BY <3>1 DEF WholeFiles
    <3>3. stored[i] = NoSettings
      BY <3>1 DEF WholeFiles
    <3> QED BY <1>1, <2>2, <3>2, <3>3
  <2> QED BY <2>1, <2>2
<1> QED BY <1>4, <1>5, <1>6, <1>7

LEMMA FillStep ==
  ASSUME TypeOK, ContentInv, RunInv, LiveJobs, NEW r \in Runs, NEW i \in Orders, Fill(r, i)
  PROVE  ContentInv'
<1> USE DEF ContentInv
<1>1. PICK w \in IF archive[i].by = setting[r] THEN {TRUE} ELSE BOOLEAN :
        archive' = [archive EXCEPT ![i] = [dir |-> TRUE, by |-> setting[r], whole |-> w]]
  BY DEF Fill
<1>2. /\ UNCHANGED <<stored, setting, met>> /\ job[r][i] = "fill"
      /\ \A j \in Orders :
           archive'[j] = IF j = i THEN [dir |-> TRUE, by |-> setting[r], whole |-> w] ELSE archive[j]
      /\ \A q \in Runs, j \in Orders : job'[q][j] = IF q = r /\ j = i THEN "ingest" ELSE job[q][j]
  <2>1. /\ UNCHANGED <<stored, setting, met>> /\ job[r][i] = "fill" /\ Goto(r, i, "ingest")
    BY DEF Fill
  <2>2. \A j \in Orders :
          archive'[j] = IF j = i THEN [dir |-> TRUE, by |-> setting[r], whole |-> w] ELSE archive[j]
    BY <1>1 DEF TypeOK
  <2>3. \A q \in Runs, j \in Orders : job'[q][j] = IF q = r /\ j = i THEN "ingest" ELSE job[q][j]
    BY <2>1, GotoIs
  <2> QED BY <2>1, <2>2, <2>3
<1>3. setting[r] # NoSettings /\ Exists(i)
  BY <1>2, IngestAssumption DEF LiveJobs, Active, RunInv, SettingsKnown, FilesFirst
<1>4. Exists(i)' /\ \A j \in Orders : j # i => (Exists(j)' <=> Exists(j))
  BY <1>2, <1>3 DEF Exists
<1>5. FilesFirst'
  BY <1>2, <1>4 DEF FilesFirst
<1>6. FromARun'
  BY <1>2, <1>4 DEF FromARun
<1>7. NewFiles'
  <2>1. "overlap" \notin met => \A q \in Runs : job'[q][i] \notin {"open", "fill"}
    BY <1>2, AloneAtOrder DEF RunInv
  <2> QED BY <1>2, <2>1 DEF NewFiles
<1>8. "changed" \notin met => w = TRUE
  <2>1. PICK q \in Runs : archive[i].by = setting[q]
    BY <1>3 DEF FromARun
  <2>2. "changed" \notin met => setting[q] = setting[r]
    BY <1>3, <2>1 DEF RunInv, OneSetting, Exists
  <2> QED BY <1>1, <2>1, <2>2
<1>9. WholeFiles'
  BY <1>2, <1>4, <1>8 DEF WholeFiles
<1> QED BY <1>5, <1>6, <1>7, <1>9

LEMMA ContentStep ==
  ASSUME IInv, RunInv, LiveJobs, ContentInv, [Next]_vars
  PROVE  ContentInv'
<1> USE DEF IInv
<1>1. met \subseteq met'
  BY HistoryGrows
<1>2. ASSUME NEW r \in Runs, NEW s \in Settings, Begin(r, s) PROVE ContentInv'
  <2>1. UNCHANGED <<archive, stored, job>> /\ setting[r] = NoSettings
    BY <1>2 DEF Begin, files, RunInv, SettingsKnown
  <2>2. \A q \in Runs : setting[q] # NoSettings => setting'[q] = setting[q]
    BY <1>2, <2>1 DEF Begin, TypeOK
  <2> QED BY <1>1, <2>1, <2>2, OtherStep
<1>3. ASSUME NEW r \in Runs, Submit(r) PROVE ContentInv'
  <2> DEFINE n == submitted[r] + 1
  <2>1. n \in Orders /\ n \notin futures[r]
    BY <1>3, NextOrder DEF Submit, Untouched
  <2>2. /\ UNCHANGED <<archive, stored, setting>>
        /\ \A q \in Runs, j \in Orders : job'[q][j] = IF q = r /\ j = n THEN "queued" ELSE job[q][j]
    BY <1>3, <2>1 DEF Submit, TypeOK, files
  <2>3. job[r][n] # "fill"
    BY <2>1 DEF LiveJobs
  <2> HIDE DEF n
  <2> QED BY <1>1, <2>2, <2>3, OtherStep
<1>4. ASSUME NEW r \in Runs, NEW i \in Orders, CollectOne(r, i) \/ CollectRest(r, i) PROVE ContentInv'
  BY <1>1, <1>4, OtherStep DEF CollectOne, CollectRest, files
<1>5. ASSUME NEW r \in Runs, Exhausted(r) \/ End(r) PROVE ContentInv'
  BY <1>1, <1>5, OtherStep DEF Exhausted, End, files
<1>6. ASSUME NEW r \in Runs, NEW i \in Orders, WorkerStep(r, i) PROVE ContentInv'
  <2>1. setting' = setting
    BY <1>6, KeptBooks
  <2>2. CASE Take(r, i)
    <3>1. \A q \in Runs, j \in Orders :
            job'[q][j] = job[q][j] \/ (job'[q][j] = "put" /\ job[q][j] = "queued")
      BY <2>2, GotoIs DEF Take
    <3>2. archive' = archive /\ stored' = stored
      BY <2>2 DEF Take, files
    <3> QED BY <1>1, <2>1, <3>1, <3>2, OtherStep
  <2>3. CASE Ingest(r, i)
    <3>1. \A q \in Runs, j \in Orders :
            job'[q][j] = job[q][j] \/ (job'[q][j] = "done" /\ job[q][j] = "ingest")
      BY <2>3, GotoIs DEF Ingest
    <3>2. /\ archive' = archive
          /\ \A j \in Orders : stored'[j] = stored[j] \/ \E q \in Runs : job[q][j] = "ingest" /\ stored'[j] = setting[q]
      BY <2>3 DEF Ingest, TypeOK
    <3> QED BY <1>1, <2>1, <3>1, <3>2, OtherStep
  <2>4. CASE Raise(r, i)
    <3>1. \A q \in Runs, j \in Orders :
            \/ job'[q][j] = job[q][j]
            \/ job'[q][j] = "failed" /\ (job[q][j] = "fill" => met' # {})
      <4>1. Goto(r, i, "failed") /\ met' = met \cup Cut(r, i)
        BY <2>4 DEF Raise, AfterError
      <4>2. job[r][i] = "fill" => met' # {}
        BY <4>1 DEF Cut
      <4> QED BY <4>1, <4>2, GotoIs
    <3>2. /\ archive' = archive
          /\ \A j \in Orders : stored'[j] = stored[j] \/ \E q \in Runs : job[q][j] = "ingest" /\ stored'[j] = setting[q]
      BY <2>4 DEF Raise, TypeOK
    <3> QED BY <1>1, <2>1, <3>1, <3>2, OtherStep
  <2> QED
    BY <1>6, <2>2, <2>3, <2>4, FindsFileStep, FindsNoFileStep, OpenStep, FillStep DEF WorkerStep, RunInv
<1>7. ASSUME NEW r \in Runs, Kill(r) PROVE ContentInv'
  <2>1. UNCHANGED <<archive, stored, setting>> /\ met' = met \cup UNION {Cut(r, i) : i \in Orders}
    BY <1>7 DEF Kill, files
  <2>2. \A q \in Runs, j \in Orders : job'[q][j] = job[q][j] \/ (q = r /\ job'[q][j] = "none")
    BY <1>7 DEF Kill, TypeOK
  <2>3. \A j \in Orders : job[r][j] = "fill" => met' # {}
    BY <2>1 DEF Cut
  <2> QED BY <1>1, <2>1, <2>2, <2>3, OtherStep
<1>8. CASE UNCHANGED vars
  BY <1>8, OtherStep DEF vars
<1> QED BY <1>2, <1>3, <1>4, <1>5, <1>6, <1>7, <1>8 DEF Next, Running, MainStep

----------------------------------------------------------------------------

FullInv == IInv /\ RunInv /\ LiveJobs /\ ContentInv

LEMMA Inductive == Spec => []FullInv
<1>1. Init => FullInv
  <2>1. Init => RunInv /\ LiveJobs
    BY DEF Init, RunInv, SettingsKnown, OneAtATime, OneSetting, Active, LiveJobs
  <2>2. Init => ContentInv
    BY DEF Init, ContentInv, FilesFirst, FromARun, NewFiles, WholeFiles, Exists, NoFile
  <2> QED BY InitIsFine, <2>1, <2>2 DEF FullInv
<1>2. FullInv /\ [Next]_vars => FullInv'
  <2> SUFFICES ASSUME FullInv, [Next]_vars PROVE FullInv'
    OBVIOUS
  <2>1. IInv'
    BY TypeStep, AccountStep DEF FullInv, IInv, Accounts
  <2>2. RunInv' /\ LiveJobs' /\ ContentInv'
    BY RunStep, LiveStep, ContentStep DEF FullInv, IInv
  <2> QED BY <2>1, <2>2 DEF FullInv
<1> QED BY <1>1, <1>2, PTL DEF Spec

\* The archive, the rows and the books of every run keep their types, whatever
\* raises, overlaps or is killed (run_ingest.run, RawArchive.put).
THEOREM TypeCorrect == Spec => []TypeOK
<1>1. FullInv => TypeOK
  BY DEF FullInv, IInv
<1> QED BY Inductive, <1>1, PTL

\* A run that was not killed has counted every submitted order once or still
\* holds it, never more than Limit of them, and in the end has counted all
\* (the two loops of run_ingest.run and _collect).
THEOREM OrdersAccountedHolds == Spec => []OrdersAccounted
<1>1. FullInv => OrdersAccounted
  BY DEF FullInv, IInv
<1> QED BY Inductive, <1>1, PTL

LEMMA ReplayFromFiles == FullInv => ReplayGivesTheOrder
<1> SUFFICES ASSUME FullInv PROVE ReplayGivesTheOrder
  OBVIOUS
<1> USE DEF FullInv, ContentInv
<1>1. \A i \in Orders : stored[i] # NoSettings => Exists(i) /\ i \in Listed
  BY DEF FilesFirst, Listed
<1>2. ASSUME met = {}, NEW i \in Orders, stored[i] # NoSettings
      PROVE  i \in DOMAIN Replay /\ Replay[i] = stored[i]
  <2>1. i \in Listed /\ Exists(i) /\ Readable(i)
    BY <1>1, <1>2 DEF WholeFiles, Readable
  <2>2. PICK r \in Runs : archive[i].by = setting[r]
    BY <2>1 DEF FromARun
  <2>3. PICK q \in Runs : stored[i] = setting[q]
    BY <1>2 DEF FromARun
  <2>4. archive[i].by = stored[i]
    BY <1>2, <2>1, <2>2, <2>3 DEF RunInv, OneSetting, Exists
  <2> QED BY <2>1, <2>4 DEF Replay
<1>3. ASSUME met = {}, NEW i \in Listed, i \notin DOMAIN Replay
      PROVE  ~Exists(i) \/ \E r \in Runs : job[r][i] = "fill"
  BY <1>3 DEF Replay, Readable, Listed, WholeFiles
<1> QED BY <1>1, <1>2, <1>3 DEF ReplayGivesTheOrder

\* A replay gives every order as it was stored, and every file that is there
\* and not being written can be read, unless a write was cut short, two runs
\* overlapped or had different settings, or exists failed (RawArchive.put, get
\* and iter_all, ingest_one).
THEOREM ReplayGivesTheOrderHolds == Spec => []ReplayGivesTheOrder
BY Inductive, ReplayFromFiles, PTL

Written ==
  met' \cap {"overlap", "blind"} = {} => \A i \in Orders : archive[i].whole => archive'[i] = archive[i]

LEMMA WrittenStep == FullInv /\ [Next]_vars => Written
<1> SUFFICES ASSUME FullInv, [Next]_vars, met' \cap {"overlap", "blind"} = {},
                    NEW i \in Orders, archive[i].whole
             PROVE  archive'[i] = archive[i]
  BY DEF Written
<1> USE DEF FullInv, ContentInv, IInv
<1>1. met \cap {"overlap", "blind"} = {}
  BY HistoryGrows
<1>2. \A r \in Runs : job[r][i] \notin {"open", "fill"}
  BY <1>1 DEF NewFiles
<1>3. ASSUME NEW r \in Runs, NEW j \in Orders, WorkerStep(r, j), archive' # archive
      PROVE  archive'[i] = archive[i]
  <2>1. CASE FindsNoFile(r, j)
    <3>1. ~Exists(j)
      BY <2>1 DEF FindsNoFile
    <3>2. j # i
      BY <3>1 DEF FilesFirst
    <3> QED BY <2>1, <3>2 DEF FindsNoFile, TypeOK
  <2>2. CASE Open(r, j) \/ Fill(r, j)
    BY <1>2, <2>2 DEF Open, Fill, TypeOK
  <2> QED BY <1>3, <2>1, <2>2 DEF WorkerStep, Take, FindsFile, Ingest, Raise, files
<1> QED
  BY <1>3 DEF Next, Running, MainStep, Begin, Submit, CollectOne, CollectRest, Exhausted, End, Kill,
              vars, files

\* The archive is write-once, whatever raises or is killed, unless two runs
\* overlap or exists fails to see a file (RawArchive.put).
THEOREM WriteOnceHolds == Spec => WriteOnce
<1>1. FullInv /\ [Next]_vars => [Written]_vars
  BY WrittenStep
<1> QED BY Inductive, <1>1, PTL DEF Spec, WriteOnce, Written

=============================================================================
