--------------------------- MODULE Documents_proofs --------------------------
(***************************************************************************)
(* The full-document backends proved for any number of clients, documents  *)
(* and keys, the size guard for any arrays, sizes and limits, and the      *)
(* block split for any sections, elements and fields.                      *)
(*                                                                         *)
(* FullDocument: what a row says is a matter of what one statement does to *)
(* it: every step leaves the row or is After of some request (RowChanges). *)
(* Whose charge is sampled is a matter of the lock, and                    *)
(* ChargeIsNoOtherWrite becomes inductive with LockIsCall: a write between *)
(* its lock and its sample holds the lock, and once it has run its         *)
(* statement the connection's last request is its own or a read.           *)
(*                                                                         *)
(* SizeGuard: what is merged, the leaves and the work list, in that order, *)
(* are one line of parts, and the parts of the line tile each array of the *)
(* block: they are its slices between positions that increase.  A part     *)
(* that is cut is a slice cut into slices (CutTiles), a part that is       *)
(* merged is joined to the slice before it (JoinedTiles), and when one     *)
(* part is left it is the block.                                           *)
(*                                                                         *)
(* BlockSplit: no two blocks of an order have the same key                 *)
(* (KeysAreDistinct), so the store drops none.  The parts of a composite   *)
(* section are the blocks of its own objects (PartsAre), each object with  *)
(* its own sequence, and the blocks of an object are its fields            *)
(* (FieldsOfBlocks).  So the blocks of any set of types make the sections  *)
(* of those types (ReadIsOfTypes): all types for the whole document, one   *)
(* for a block.                                                            *)
(***************************************************************************)
EXTENDS FullDocument, SizeGuard, BlockSplit, SequenceTheorems, FiniteSetTheorems, TLAPS

Reads == [by : Clients, write : {FALSE}]

IsWrite(c) == call[c].req.op # "read"

LockIsCallOf(c) ==
  /\ call[c].at = "locked" => lock = c /\ CaptureRu /\ IsWrite(c)
  /\ call[c].at = "executed" => CaptureRu
  /\ call[c].at = "executed" /\ IsWrite(c) =>
       lock = c /\ last \in {[by |-> c, write |-> TRUE]} \cup Reads

LockIsCall == \A c \in Clients : LockIsCallOf(c)

-----------------------------------------------------------------------------

LEMMA CallType ==
  ASSUME TypeOK, NEW c \in Clients, call[c].at # "idle"
  PROVE  call[c] \in Calls /\ call[c] # Idle
BY DEF TypeOK, Idle

LEMMA RequestType ==
  \A c \in Clients : \A q \in Requests : Request(c, q) \in Charged
BY DEF Request, Charged, Requests

LEMMA AfterType ==
  ASSUME TypeOK, NEW c \in Clients, NEW q \in Requests
  PROVE  After(c, q) \in Rows
<1>1. row \in Rows
  BY DEF TypeOK
<1>2. \A d \in Docs : DocumentOf(d) \in Rows
  BY DEF DocumentOf, Rows, Stamps
<1>3. \A k \in Keys : WithKey(c, k) \in Rows
  BY <1>1 DEF WithKey, Rows, Stamps
<1>4. WithHeader(c) \in Rows
  BY <1>1 DEF WithHeader, SummaryStatus, Rows, Stamps
<1> QED BY <1>1, <1>2, <1>3, <1>4 DEF After, Requests

\* A step leaves the row or runs one statement of a call.
LEMMA RowChanges ==
  ASSUME TypeOK, [Next]_vars
  PROVE  row' = row \/ \E c \in Clients : \E q \in Requests : row' = After(c, q)
<1>1. ASSUME NEW c \in Clients, MayExecute(c) PROVE call[c].req \in Requests
  <2>1. call[c].at # "idle"
    BY <1>1 DEF MayExecute
  <2> QED BY <2>1, CallType DEF Calls
<1>2. ASSUME NEW c \in Clients, Execute(c) PROVE row' = After(c, call[c].req)
  BY <1>2 DEF Execute
<1>3. ASSUME NEW c \in Clients, Fail(c) PROVE row' = row \/ row' = After(c, call[c].req)
  BY <1>3 DEF Fail
<1>4. ASSUME NEW c \in Clients, Begin(c) \/ Acquire(c) \/ Sample(c) PROVE row' = row
  BY <1>4 DEF Begin, Acquire, Sample
<1>5. \A c \in Clients : Execute(c) \/ Fail(c) => MayExecute(c)
  BY DEF Execute, Fail
<1>6. UNCHANGED vars => row' = row
  BY DEF vars
<1> QED BY <1>1, <1>2, <1>3, <1>4, <1>5, <1>6 DEF Next

LEMMA TypeStep ==
  ASSUME TypeOK, [Next]_vars
  PROVE  TypeOK'
<1> USE DEF TypeOK
<1>1. row' \in Rows
  BY RowChanges, AfterType
<1>2. ASSUME NEW c \in Clients, Begin(c) PROVE TypeOK'
  BY <1>1, <1>2, DocumentAssumption DEF Begin, Calls
<1>3. ASSUME NEW c \in Clients, Acquire(c) PROVE TypeOK'
  <2>1. call[c] \in Calls
    BY <1>3, CallType DEF Acquire
  <2> QED BY <1>1, <1>3, <2>1 DEF Acquire, Calls
<1>4. ASSUME NEW c \in Clients, Execute(c) PROVE TypeOK'
  <2>1. call[c] \in Calls
    BY <1>4, CallType DEF Execute, MayExecute
  <2>2. Request(c, call[c].req) \in Charged
    BY <2>1, RequestType DEF Calls
  <2> QED BY <1>1, <1>4, <2>1, <2>2 DEF Execute, Calls
<1>5. ASSUME NEW c \in Clients, Sample(c) PROVE TypeOK'
  <2>1. PICK answer \in {last, Unknown} :
          charge' = [charge EXCEPT ![c] = [write |-> call[c].req.op # "read", of |-> answer]]
    BY <1>5 DEF Sample
  <2>2. answer \in Charged \cup {Unknown}
    OBVIOUS
  <2>3. charge' \in [Clients -> [write : BOOLEAN, of : Charged \cup {Unknown}]]
    BY <2>1, <2>2
  <2> QED BY <1>1, <1>5, <2>3 DEF Sample, Unlocked
<1>6. ASSUME NEW c \in Clients, Fail(c) PROVE TypeOK'
  <2>1. call[c] \in Calls
    BY <1>6, CallType DEF Fail, MayExecute
  <2>2. Request(c, call[c].req) \in Charged
    BY <2>1, RequestType DEF Calls
  <2> QED BY <1>1, <1>6, <2>2 DEF Fail, Unlocked
<1>7. UNCHANGED vars => TypeOK'
  BY DEF vars
<1> QED BY <1>2, <1>3, <1>4, <1>5, <1>6, <1>7 DEF Next

\* The row, the calls, the lock and the charges keep their types for every
\* number of clients, documents and keys.
THEOREM TypeCorrect == Spec => []TypeOK
<1>1. Init => TypeOK
  BY DocumentAssumption DEF Init, TypeOK, NoRow, Rows
<1> QED BY <1>1, TypeStep, PTL DEF Spec

-----------------------------------------------------------------------------

\* In both backends the search finds an order by the status of its document
\* and by no other, after any writes in any order and whatever statements fail.
THEOREM ColumnFollowsDocumentHolds == Spec => []ColumnFollowsDocument
<1> DEFINE Same == row.status = row.header
<1>1. Init => Same
  BY DEF Init, NoRow
<1>2. TypeOK /\ Same /\ [Next]_vars => Same'
  <2> SUFFICES ASSUME TypeOK, Same, [Next]_vars
               PROVE  Same'
    OBVIOUS
  <2>1. ASSUME NEW c \in Clients, NEW q \in Requests, row' = After(c, q)
        PROVE  row'.status = row'.header
    BY <2>1 DEF After, Requests, DocumentOf, WithKey, WithHeader, TypeOK, Rows
  <2> QED BY <2>1, RowChanges
<1>3. Same => ColumnFollowsDocument
  BY DEF ColumnFollowsDocument, SearchFinds, FullRead
<1> QED BY <1>1, <1>2, <1>3, TypeCorrect, PTL DEF Spec

\* In the Mongo backend the summary that is served is the document's too.
THEOREM SummaryFollowsDocumentHolds ==
  ASSUME Mongo = TRUE
  PROVE  Spec => []SummaryFollowsDocument
<1> DEFINE Same == row.summary = row.header
<1>1. Init => Same
  BY DEF Init, NoRow
<1>2. TypeOK /\ Same /\ [Next]_vars => Same'
  <2> SUFFICES ASSUME TypeOK, Same, [Next]_vars
               PROVE  Same'
    OBVIOUS
  <2>1. ASSUME NEW c \in Clients, NEW q \in Requests, row' = After(c, q)
        PROVE  row'.summary = row'.header
    BY <2>1 DEF After, Requests, DocumentOf, WithKey, WithHeader, SummaryStatus, TypeOK, Rows
  <2> QED BY <2>1, RowChanges
<1>3. Same => SummaryFollowsDocument
  BY DEF SummaryFollowsDocument, SummaryRead, FullRead
<1> QED BY <1>1, <1>2, <1>3, TypeCorrect, PTL DEF Spec

-----------------------------------------------------------------------------

\* What a statement leaves as the connection's last request does no harm to a
\* write that holds the lock: another client's statement without the lock is a
\* read's.
LEMMA OthersAreReads ==
  ASSUME TypeOK, LockIsCall, NEW c \in Clients, NEW u \in Clients, u # c,
         MayExecute(c), CaptureRu, lock = u
  PROVE  Request(c, call[c].req) \in Reads
BY DEF MayExecute, Locks, LockIsCall, LockIsCallOf, Request, Reads

LEMMA LockIsCallStep ==
  ASSUME TypeOK, LockIsCall, [Next]_vars
  PROVE  LockIsCall'
<1> SUFFICES ASSUME NEW u \in Clients PROVE LockIsCallOf(u)'
  BY DEF LockIsCall
<1>0. LockIsCallOf(u)
  BY DEF LockIsCall
<1>1. ASSUME NEW c \in Clients, Begin(c) PROVE LockIsCallOf(u)'
  BY <1>0, <1>1 DEF Begin, LockIsCallOf, TypeOK, IsWrite
<1>2. ASSUME NEW c \in Clients, Acquire(c) PROVE LockIsCallOf(u)'
  <2>1. call[c] \in Calls
    BY <1>2, CallType DEF Acquire
  <2>2. call' = [call EXCEPT ![c].at = "locked"] /\ lock' = c /\ lock = NoClient /\ last' = last
    BY <1>2 DEF Acquire
  <2>3. CASE u = c
    <3>1. call'[c].at = "locked" /\ call'[c].req = call[c].req
      BY <2>1, <2>2 DEF Calls, TypeOK
    <3> QED BY <1>2, <2>2, <2>3, <3>1 DEF Acquire, Locks, LockIsCallOf, IsWrite
  <2>4. CASE u # c
    <3>1. call'[u] = call[u]
      BY <2>2, <2>4 DEF TypeOK
    <3> QED BY <1>0, <2>2, <3>1, DocumentAssumption DEF LockIsCallOf, IsWrite
  <2> QED BY <2>3, <2>4
<1>3. ASSUME NEW c \in Clients, Execute(c) PROVE LockIsCallOf(u)'
  <2>1. call[c] \in Calls /\ MayExecute(c) /\ lock' = lock
    BY <1>3, CallType DEF Execute, MayExecute
  <2>2. CASE u # c
    <3>1. call'[u] = call[u]
      BY <1>3, <2>2 DEF Execute, TypeOK
    <3>2. lock = u => last' = last \/ last' \in Reads
      BY <1>3, <2>1, <2>2, OthersAreReads DEF Execute
    <3> QED BY <1>0, <2>1, <3>1, <3>2 DEF LockIsCallOf, IsWrite
  <2>3. CASE u = c /\ ~CaptureRu
    BY <1>3, <2>3 DEF Execute, TypeOK, LockIsCallOf, Idle
  <2>4. CASE u = c /\ CaptureRu
    <3>1. call'[c] = [at |-> "executed", req |-> call[c].req] /\ last' = Request(c, call[c].req)
      BY <1>3, <2>4 DEF Execute, TypeOK
    <3>2. IsWrite(c) => lock = c /\ Request(c, call[c].req) = [by |-> c, write |-> TRUE]
      BY <1>0, <2>1, <2>4 DEF MayExecute, Locks, LockIsCallOf, IsWrite, Request
    <3>3. call'[c].req = call[c].req /\ call'[c].at = "executed"
      BY <3>1
    <3> QED BY <2>1, <2>4, <3>1, <3>2, <3>3 DEF LockIsCallOf, IsWrite
  <2> QED BY <2>2, <2>3, <2>4
<1>4. ASSUME NEW c \in Clients, Sample(c) PROVE LockIsCallOf(u)'
  BY <1>0, <1>4, DocumentAssumption DEF Sample, Unlocked, LockIsCallOf, TypeOK, Idle, IsWrite
<1>5. ASSUME NEW c \in Clients, Fail(c) PROVE LockIsCallOf(u)'
  <2>1. CASE u # c
    <3>1. call'[u] = call[u] /\ (lock = u => lock' = u)
      BY <1>5, <2>1 DEF Fail, Unlocked, TypeOK
    <3>2. lock = u => last' = last \/ last' \in Reads
      BY <1>5, <2>1, OthersAreReads DEF Fail
    <3> QED BY <1>0, <3>1, <3>2 DEF LockIsCallOf, IsWrite
  <2>2. CASE u = c
    BY <1>5, <2>2 DEF Fail, TypeOK, LockIsCallOf, Idle
  <2> QED BY <2>1, <2>2
<1>6. UNCHANGED vars => LockIsCallOf(u)'
  BY <1>0 DEF vars, LockIsCallOf, IsWrite
<1> QED BY <1>1, <1>2, <1>3, <1>4, <1>5, <1>6 DEF Next

\* Reads and writes of any number of clients: the lock keeps every write from
\* sampling the charge of another write.
THEOREM ChargeIsNoOtherWriteHolds == Spec => []ChargeIsNoOtherWrite
<1>1. Init => LockIsCall /\ ChargeIsNoOtherWrite
  <2>1. Init => LockIsCall
    <3> SUFFICES ASSUME Init, NEW c \in Clients PROVE LockIsCallOf(c)
      BY DEF LockIsCall
    <3>1. call[c].at = "idle"
      BY DEF Init, Idle
    <3> QED BY <3>1 DEF LockIsCallOf
  <2>2. Init => ChargeIsNoOtherWrite
    BY DEF Init, ChargeIsNoOtherWrite
  <2> QED BY <2>1, <2>2
<1>2. TypeOK /\ LockIsCall /\ ChargeIsNoOtherWrite /\ [Next]_vars => ChargeIsNoOtherWrite'
  <2> SUFFICES ASSUME TypeOK, LockIsCall, ChargeIsNoOtherWrite, [Next]_vars
               PROVE  ChargeIsNoOtherWrite'
    OBVIOUS
  <2>1. ASSUME NEW c \in Clients, Sample(c) PROVE ChargeIsNoOtherWrite'
    <3>1. IsWrite(c) => last \in {[by |-> c, write |-> TRUE]} \cup Reads
      BY <2>1 DEF Sample, LockIsCall, LockIsCallOf
    <3>2. PICK answer \in {last, Unknown} :
            charge' = [charge EXCEPT ![c] = [write |-> IsWrite(c), of |-> answer]]
      BY <2>1 DEF Sample, IsWrite
    <3>3. charge'[c].write = IsWrite(c) /\ charge'[c].of = answer
      BY <3>2 DEF TypeOK
    <3>4. \A u \in Clients \ {c} : charge'[u] = charge[u]
      BY <3>2 DEF TypeOK
    <3> QED BY <3>1, <3>3, <3>4 DEF ChargeIsNoOtherWrite, Reads
  <2>2. ASSUME NEW c \in Clients, Begin(c) \/ Acquire(c) \/ Execute(c) \/ Fail(c)
        PROVE  charge' = charge
    BY <2>2 DEF Begin, Acquire, Execute, Fail
  <2>3. UNCHANGED vars => charge' = charge
    BY DEF vars
  <2> QED BY <2>1, <2>2, <2>3 DEF Next, ChargeIsNoOtherWrite
<1>3. TypeOK /\ LockIsCall /\ [Next]_vars => LockIsCall'
  BY LockIsCallStep
<1> QED BY <1>1, <1>2, <1>3, TypeCorrect, PTL DEF Spec

-----------------------------------------------------------------------------

View == [doc |-> row.doc, header |-> row.header, blocks |-> row.keys]

\* Both backends implement OrderStore, whatever sections the documents have or
\* lack: the projection and the charges are invisible to it, and a failed call
\* is a whole write or none.
THEOREM ImplementsOrderStoreHolds == Spec => ImplementsOrderStore
<1>1. Init => Store!Init
  BY DEF Init, NoRow, Store!Init
<1>2. TypeOK /\ [Next]_vars => [Store!Next]_View
  <2> SUFFICES ASSUME TypeOK, [Next]_vars PROVE [Store!Next]_View
    OBVIOUS
  <2>1. ASSUME NEW c \in Clients, NEW q \in Requests, row' = After(c, q)
        PROVE  [Store!Next]_View
    <3>1. CASE q.op = "ingest"
      <4>1. q.arg \in Docs
        BY <3>1 DEF Requests
      <4>2. Store!Ingest(q.arg)
        BY <2>1, <3>1, <4>1 DEF After, DocumentOf, Store!Ingest
      <4> QED BY <4>1, <4>2 DEF Store!Next
    <3>2. CASE q.op = "block" /\ Exists
      <4>1. q.arg \in Keys
        BY <3>2 DEF Requests
      <4>2. row' = WithKey(c, q.arg)
        BY <2>1, <3>2 DEF After
      <4>3. Store!EditBlock(c, q.arg)
        BY <3>2, <4>1, <4>2 DEF WithKey, Exists, TypeOK, Rows, Store!EditBlock
      <4> QED BY <4>1, <4>3 DEF Store!Next
    <3>3. CASE q.op = "header" /\ Exists
      <4>1. row' = WithHeader(c)
        BY <2>1, <3>3 DEF After
      <4>2. Store!EditHeader(c)
        BY <3>3, <4>1 DEF WithHeader, Exists, TypeOK, Rows, Store!EditHeader
      <4> QED BY <4>2 DEF Store!Next
    <3>4. CASE q.op = "read" \/ (q.op \in {"block", "header"} /\ ~Exists)
      BY <2>1, <3>4 DEF After, View
    <3> QED BY <3>1, <3>2, <3>3, <3>4 DEF Requests
  <2> QED BY <2>1, RowChanges DEF View
<1> QED BY <1>1, <1>2, TypeCorrect, PTL DEF Spec, ImplementsOrderStore, Store!Spec, View

-----------------------------------------------------------------------------
(* SizeGuard                                                              *)

Element == [path : PathSet, pos : Nat, size : Nat]

PayloadType == [other : Nat, lists : [PathSet -> Seq(Element)]]

\* The i-th of n slices has the elements of list after e[i-1] and up to e[i].
Tiles(list, n, slice, e) ==
  /\ e \in [0..n -> 0..Len(list)]
  /\ e[0] = 0 /\ e[n] = Len(list)
  /\ \A i \in 1..n : e[i - 1] <= e[i] /\ slice[i] = SubSeq(list, e[i - 1] + 1, e[i])

Tiled(list, n, slice) == \E e : Tiles(list, n, slice, e)

\* What the parts hold of the array at p, in order: what is merged, what is
\* kept, what is looked at next.
Parted == 1 + Len(leaves) + Len(todo)

Line(p) ==
  [i \in 1..Parted |->
     IF i = 1 THEN merged.lists[p]
     ELSE IF i <= 1 + Len(leaves) THEN leaves[i - 1].lists[p]
     ELSE todo[i - 1 - Len(leaves)].payload.lists[p]]

FirstOfBlock ==
  \/ merged.other = block.other
  \/ merged.other = 0 /\ leaves # <<>> /\ leaves[1].other = block.other
  \/ merged.other = 0 /\ leaves = <<>> /\ todo # <<>> /\ todo[1].payload.other = block.other

GuardTyped ==
  /\ block \in PayloadType /\ block.other # 0
  /\ merged \in PayloadType
  /\ leaves \in Seq(PayloadType)
  /\ todo \in Seq([payload : PayloadType, depth : Nat])

GuardInv ==
  /\ GuardTyped
  /\ FirstOfBlock
  /\ \A p \in PathSet : Tiled(block.lists[p], Parted, Line(p))
  /\ state = "merged" => leaves = <<>> /\ todo = <<>>

----------------------------------------------------------------------------

LEMMA SliceOfSlice ==
  ASSUME NEW list \in Seq(Element), NEW a \in 0..Len(list), NEW b \in a..Len(list),
         NEW c \in 0..(b - a), NEW d \in c..(b - a)
  PROVE  /\ Len(SubSeq(list, a + 1, b)) = b - a
         /\ SubSeq(SubSeq(list, a + 1, b), c + 1, d) = SubSeq(list, a + c + 1, a + d)
<1>1. Len(list) \in Nat
  OBVIOUS
<1>2. Len(SubSeq(list, a + 1, b)) = b - a
  <2>1. \A i \in (a + 1)..b : list[i] \in Element
    BY <1>1
  <2>2. Len(SubSeq(list, a + 1, b)) = IF a + 1 <= b THEN b - (a + 1) + 1 ELSE 0
    BY <1>1, <2>1, SubSeqProperties
  <2> QED BY <1>1, <2>2
<1>3. CASE c = d
  <2>1. SubSeq(SubSeq(list, a + 1, b), c + 1, d) = <<>>
    BY <1>1, <1>3, SubSeqEmpty
  <2>2. SubSeq(list, a + c + 1, a + d) = <<>>
    BY <1>1, <1>3, SubSeqEmpty
  <2> QED BY <1>2, <2>1, <2>2
<1>4. CASE c < d
  <2>1. a + 1 \in 1..Len(list) /\ b \in 1..Len(list)
    BY <1>1, <1>4
  <2>2. c + 1 \in 1..(b - (a + 1) + 1) /\ d \in 1..(b - (a + 1) + 1)
    BY <1>1, <1>4
  <2>3. \A i, j \in 1..Len(list) : \A u, v \in 1..(j - i + 1) :
          SubSeq(SubSeq(list, i, j), u, v) = SubSeq(list, i + u - 1, i + v - 1)
    BY SubSeqOfSubSeq
  <2>4. SubSeq(SubSeq(list, a + 1, b), c + 1, d) = SubSeq(list, (a + 1) + (c + 1) - 1, (a + 1) + d - 1)
    BY <2>1, <2>2, <2>3
  <2>5. (a + 1) + (c + 1) - 1 = a + c + 1 /\ (a + 1) + d - 1 = a + d
    BY <1>1
  <2> QED BY <1>2, <2>4, <2>5
<1> QED BY <1>1, <1>3, <1>4

LEMMA JoinedTiles ==
  ASSUME NEW list \in Seq(Element), NEW n \in Nat \ {0}, NEW slice, NEW joined,
         Tiled(list, n + 1, slice),
         joined[1] = slice[1] \o slice[2], \A i \in 2..n : joined[i] = slice[i + 1]
  PROVE  Tiled(list, n, joined)
<1>1. PICK e : Tiles(list, n + 1, slice, e)
  BY DEF Tiled
<1> DEFINE f == [i \in 0..n |-> IF i = 0 THEN 0 ELSE e[i + 1]]
<1>2. /\ \A i \in 0..(n + 1) : e[i] \in 0..Len(list)
      /\ e[0] = 0 /\ e[n + 1] = Len(list)
      /\ \A i \in 1..(n + 1) : e[i - 1] <= e[i] /\ slice[i] = SubSeq(list, e[i - 1] + 1, e[i])
  BY <1>1 DEF Tiles
<1>3. f \in [0..n -> 0..Len(list)] /\ f[0] = 0 /\ f[n] = Len(list)
  BY <1>2
<1>4. joined[1] = SubSeq(list, 1, e[2])
  <2>1. 1 \in 1..(n + 1) /\ 1 - 1 = 0 /\ 2 \in 1..(n + 1) /\ 2 - 1 = 1
    OBVIOUS
  <2>2. slice[1] = SubSeq(list, e[0] + 1, e[1]) /\ slice[2] = SubSeq(list, e[1] + 1, e[2])
    BY <1>2, <2>1
  <2>3. slice[1] = SubSeq(list, 1, e[1]) /\ slice[2] = SubSeq(list, e[1] + 1, e[2])
    BY <1>2, <2>2
  <2>4. e[1] \in 0..Len(list) /\ e[2] \in 0..Len(list) /\ e[1] <= e[2]
    BY <1>2, <2>1
  <2>5. SubSeq(list, 1, e[1]) \o SubSeq(list, e[1] + 1, e[2]) = SubSeq(list, 1, e[2])
    <3>1. 1 \in 1..(Len(list) + 1) /\ e[1] \in (1 - 1)..Len(list) /\ e[2] \in e[1]..Len(list)
      BY <2>4
    <3> QED BY <3>1, ConcatAdjacentSubSeq
  <2> QED BY <2>3, <2>5
<1>5. f[1] = e[2] /\ e[2] \in 0..Len(list)
  BY <1>2
<1>6. \A i \in 2..n : f[i - 1] = e[i] /\ f[i] = e[i + 1]
  OBVIOUS
<1> HIDE DEF f
<1>7. ASSUME NEW i \in 1..n PROVE f[i - 1] <= f[i] /\ joined[i] = SubSeq(list, f[i - 1] + 1, f[i])
  <2>1. CASE i = 1
    <3>1. f[i - 1] = 0 /\ f[i] = e[2]
      BY <1>3, <1>5, <2>1
    <3> QED BY <1>4, <1>5, <2>1, <3>1
  <2>2. CASE i \in 2..n
    <3>1. f[i - 1] = e[i] /\ f[i] = e[i + 1] /\ joined[i] = slice[i + 1]
      BY <1>6, <2>2
    <3>2. i + 1 \in 1..(n + 1) /\ (i + 1) - 1 = i
      OBVIOUS
    <3>3. e[(i + 1) - 1] <= e[i + 1] /\ slice[i + 1] = SubSeq(list, e[(i + 1) - 1] + 1, e[i + 1])
      BY <1>2, <3>2
    <3> QED BY <3>1, <3>2, <3>3
  <2>3. i = 1 \/ i \in 2..n
    OBVIOUS
  <2> QED BY <2>1, <2>2, <2>3
<1>8. Tiles(list, n, joined, f)
  BY <1>3, <1>7 DEF Tiles
<1> QED BY <1>8 DEF Tiled

\* A slice that is itself cut into k slices.
LEMMA CutTiles ==
  ASSUME NEW list \in Seq(Element), NEW n \in Nat, NEW slice, NEW k \in Nat \ {0}, NEW cut, NEW finer,
         NEW m \in 1..n, Tiled(list, n, slice), Tiled(slice[m], k, cut),
         \A i \in 1..(m - 1) : finer[i] = slice[i],
         \A i \in 1..k : finer[m + i - 1] = cut[i],
         \A i \in (m + 1)..n : finer[i + k - 1] = slice[i]
  PROVE  Tiled(list, n + k - 1, finer)
<1>1. PICK e : Tiles(list, n, slice, e)
  BY DEF Tiled
<1>2. PICK f : Tiles(slice[m], k, cut, f)
  BY DEF Tiled
<1> DEFINE a == e[m - 1]
           b == e[m]
           g == [i \in 0..(n + k - 1) |->
                   IF i < m THEN e[i] ELSE IF i < m + k THEN a + f[i - m + 1] ELSE e[i - k + 1]]
<1>3. /\ \A i \in 0..n : e[i] \in 0..Len(list)
      /\ e[0] = 0 /\ e[n] = Len(list)
      /\ \A i \in 1..n : e[i - 1] <= e[i] /\ slice[i] = SubSeq(list, e[i - 1] + 1, e[i])
  BY <1>1 DEF Tiles
<1>4. a \in 0..Len(list) /\ b \in 0..Len(list) /\ a <= b /\ slice[m] = SubSeq(list, a + 1, b)
  BY <1>3
<1> HIDE DEF a, b
<1>5. Len(slice[m]) = b - a
  <2>1. Len(list) \in Nat
    OBVIOUS
  <2>2. b \in a..Len(list) /\ 0 \in 0..(b - a)
    BY <1>4, <2>1
  <2> QED BY <1>4, <2>2, SliceOfSlice
<1>6. /\ \A i \in 0..k : f[i] \in 0..(b - a)
      /\ f[0] = 0 /\ f[k] = b - a
      /\ \A i \in 1..k : f[i - 1] <= f[i] /\ cut[i] = SubSeq(slice[m], f[i - 1] + 1, f[i])
  BY <1>2, <1>5 DEF Tiles
<1>7. ASSUME NEW i \in 1..k PROVE cut[i] = SubSeq(list, a + f[i - 1] + 1, a + f[i])
  <2>1. i - 1 \in 0..k
    OBVIOUS
  <2>2. f[i - 1] \in 0..(b - a) /\ f[i] \in 0..(b - a) /\ f[i - 1] <= f[i]
    BY <1>6, <2>1
  <2>3. cut[i] = SubSeq(SubSeq(list, a + 1, b), f[i - 1] + 1, f[i])
    BY <1>4, <1>6
  <2>4. b \in a..Len(list) /\ f[i] \in f[i - 1]..(b - a)
    <3>1. Len(list) \in Nat
      OBVIOUS
    <3> QED BY <1>4, <2>2, <3>1
  <2>5. SubSeq(SubSeq(list, a + 1, b), f[i - 1] + 1, f[i]) = SubSeq(list, a + f[i - 1] + 1, a + f[i])
    BY <1>4, <2>2, <2>4, SliceOfSlice
  <2> QED BY <2>3, <2>5
<1>8. /\ \A i \in 0..(m - 1) : g[i] = e[i]
      /\ \A i \in 0..k : g[m + i - 1] = a + f[i]
      /\ \A i \in m..n : g[i + k - 1] = e[i]
  <2>1. ASSUME NEW i \in 0..(m - 1) PROVE g[i] = e[i]
    OBVIOUS
  <2>2. ASSUME NEW i \in 0..k PROVE g[m + i - 1] = a + f[i]
    <3>1. CASE i = 0
      <4>1. g[m + i - 1] = e[m - 1]
        BY <3>1
      <4>2. a + f[i] = a
        BY <1>4, <1>6, <3>1
      <4> QED BY <4>1, <4>2 DEF a
    <3>2. CASE i > 0
      <4>1. m + i - 1 \in 0..(n + k - 1) /\ ~(m + i - 1 < m) /\ m + i - 1 < m + k /\ (m + i - 1) - m + 1 = i
        BY <3>2
      <4> QED BY <4>1
    <3> QED BY <3>1, <3>2
  <2>3. ASSUME NEW i \in m..n PROVE g[i + k - 1] = e[i]
    <3>1. CASE i = m
      <4>1. g[m + k - 1] = a + f[k]
        BY <2>2
      <4> QED BY <1>4, <1>6, <3>1, <4>1 DEF b
    <3>2. CASE i > m
      <4>1. i + k - 1 \in 0..(n + k - 1) /\ ~(i + k - 1 < m) /\ ~(i + k - 1 < m + k) /\ (i + k - 1) - k + 1 = i
        BY <3>2
      <4> QED BY <4>1
    <3> QED BY <3>1, <3>2
  <2> QED BY <2>1, <2>2, <2>3
<1> HIDE DEF g
<1>9. \A i \in 0..(n + k - 1) : \/ i \in 0..(m - 1)
                                \/ \E j \in 1..k : i = m + j - 1
                                \/ \E j \in (m + 1)..n : i = j + k - 1
  <2>1. ASSUME NEW i \in 0..(n + k - 1), i >= m, i < m + k PROVE \E j \in 1..k : i = m + j - 1
    <3>1. i - m + 1 \in 1..k /\ i = m + (i - m + 1) - 1
      BY <2>1
    <3> QED BY <3>1
  <2>2. ASSUME NEW i \in 0..(n + k - 1), i >= m + k PROVE \E j \in (m + 1)..n : i = j + k - 1
    <3>1. i - k + 1 \in (m + 1)..n /\ i = (i - k + 1) + k - 1
      BY <2>2
    <3> QED BY <3>1
  <2> QED BY <2>1, <2>2
<1>10. g \in [0..(n + k - 1) -> 0..Len(list)]
  <2>1. ASSUME NEW i \in 0..(n + k - 1) PROVE g[i] \in 0..Len(list)
    <3>1. CASE i \in 0..(m - 1)
      <4>1. i \in 0..n
        BY <3>1
      <4> QED BY <1>3, <1>8, <3>1, <4>1
    <3>2. ASSUME NEW j \in 1..k, i = m + j - 1 PROVE g[i] \in 0..Len(list)
      <4>1. g[m + j - 1] = a + f[j] /\ f[j] \in 0..(b - a)
        BY <1>6, <1>8
      <4> QED BY <1>4, <3>2, <4>1
    <3>3. ASSUME NEW j \in (m + 1)..n, i = j + k - 1 PROVE g[i] \in 0..Len(list)
      <4>1. j \in m..n /\ j \in 0..n
        OBVIOUS
      <4> QED BY <1>3, <1>8, <3>3, <4>1
    <3> QED BY <1>9, <3>1, <3>2, <3>3
  <2>2. g = [i \in 0..(n + k - 1) |-> g[i]]
    BY DEF g
  <2> QED BY <2>1, <2>2
<1>11. g[0] = 0 /\ g[n + k - 1] = Len(list)
  <2>1. 0 \in 0..(m - 1) /\ n \in m..n
    OBVIOUS
  <2> QED BY <1>3, <1>8, <2>1
<1>12. ASSUME NEW i \in 1..(n + k - 1) PROVE g[i - 1] <= g[i] /\ finer[i] = SubSeq(list, g[i - 1] + 1, g[i])
  <2>1. CASE i \in 0..(m - 1)
    <3>1. i - 1 \in 0..(m - 1) /\ i \in 1..n /\ i \in 1..(m - 1)
      BY <2>1
    <3> QED BY <1>3, <1>8, <2>1, <3>1
  <2>2. ASSUME NEW j \in 1..k, i = m + j - 1 PROVE g[i - 1] <= g[i] /\ finer[i] = SubSeq(list, g[i - 1] + 1, g[i])
    <3>1. j - 1 \in 0..k /\ i - 1 = m + (j - 1) - 1 /\ j \in 0..k
      BY <2>2
    <3>2. g[m + (j - 1) - 1] = a + f[j - 1]
      BY <1>8, <3>1
    <3>3. g[i] = a + f[j] /\ finer[i] = cut[j]
      BY <1>8, <2>2, <3>1
    <3>4. f[j - 1] \in 0..(b - a) /\ f[j] \in 0..(b - a) /\ f[j - 1] <= f[j]
      BY <1>6, <3>1
    <3>5. g[i - 1] = a + f[j - 1]
      BY <3>1, <3>2
    <3>6. cut[j] = SubSeq(list, a + f[j - 1] + 1, a + f[j])
      BY <1>7
    <3>7. a + f[j - 1] <= a + f[j]
      BY <1>4, <3>4
    <3> QED BY <3>3, <3>5, <3>6, <3>7
  <2>3. ASSUME NEW j \in (m + 1)..n, i = j + k - 1 PROVE g[i - 1] <= g[i] /\ finer[i] = SubSeq(list, g[i - 1] + 1, g[i])
    <3>1. j - 1 \in m..n /\ i - 1 = (j - 1) + k - 1 /\ j \in m..n /\ j \in 1..n
      BY <2>3
    <3>2. g[(j - 1) + k - 1] = e[j - 1]
      BY <1>8, <3>1
    <3>3. g[i] = e[j] /\ g[i - 1] = e[j - 1] /\ finer[i] = slice[j]
      BY <1>8, <2>3, <3>1, <3>2
    <3> QED BY <1>3, <3>1, <3>3
  <2> QED BY <1>9, <2>1, <2>2, <2>3
<1>13. Tiles(list, n + k - 1, finer, g)
  BY <1>10, <1>11, <1>12 DEF Tiles
<1> QED BY <1>13 DEF Tiled

----------------------------------------------------------------------------

LEMMA PayloadsAreTyped == \A x \in Payloads : x \in PayloadType /\ x.other # 0
<1>1. \A p \in PathSet : Lists(p) \subseteq Seq(Element)
  <2>1. ASSUME NEW p \in PathSet, NEW n \in 0..MaxElements, NEW t \in [1..n -> Sizes]
        PROVE  [i \in 1..n |-> [path |-> p, pos |-> i, size |-> t[i]]] \in Seq(Element)
    <3>1. n \in Nat /\ Sizes \subseteq Nat
      BY GuardAssumption
    <3>2. ASSUME NEW i \in 1..n PROVE [path |-> p, pos |-> i, size |-> t[i]] \in Element
      <4>1. i \in Nat /\ t[i] \in Nat
        <5>1. i \in Nat
          BY <3>1
        <5>2. t[i] \in Sizes
          OBVIOUS
        <5> QED BY <3>1, <5>1, <5>2
      <4> QED BY <4>1 DEF Element
    <3> QED BY <3>1, <3>2, IsASeq
  <2>2. ASSUME NEW p \in PathSet, NEW l \in Lists(p) PROVE l \in Seq(Element)
    <3>1. PICK n \in 0..MaxElements :
            \E t \in [1..n -> Sizes] : l = [i \in 1..n |-> [path |-> p, pos |-> i, size |-> t[i]]]
      BY DEF Lists
    <3> QED BY <2>1, <3>1
  <2> QED BY <2>2
<1> QED BY <1>1, GuardAssumption DEF Payloads, PayloadType

\* The chunks of a payload hold its arrays in order, and the first one the rest.
LEMMA PartsTile ==
  ASSUME NEW payload \in PayloadType, NEW p \in Largest(payload), NEW starts \in Starts(payload, p)
  PROVE  /\ Len(starts) \in Nat \ {0} /\ DOMAIN starts = 1..Len(starts)
         /\ \A j \in 1..Len(starts) : PartAt(payload, p, starts, j) \in PayloadType
         /\ PartAt(payload, p, starts, 1).other = payload.other
         /\ \A q \in PathSet :
              Tiled(payload.lists[q], Len(starts),
                    [j \in 1..Len(starts) |-> PartAt(payload, p, starts, j).lists[q]])
<1> DEFINE list == payload.lists[p]
           L == Len(list)
<1>1. p \in PathSet
  BY DEF Largest, PathSet, Range
<1>2. list \in Seq(Element) /\ payload.lists \in [PathSet -> Seq(Element)] /\ payload.other \in Nat
  BY <1>1 DEF PayloadType
<1>3. PICK k \in DOMAIN list : starts \in [1..k -> DOMAIN list]
  BY DEF Starts
<1>4. L \in Nat /\ DOMAIN list = 1..L /\ k \in Nat \ {0} /\ k \in 1..L
  BY <1>2, <1>3
<1>5. DOMAIN starts = 1..k /\ \A j \in 1..k : starts[j] \in 1..L
  BY <1>3, <1>4
<1>6. Len(starts) = k
  BY <1>3, <1>4
<1>7. \A j \in 2..k : starts[j - 1] < starts[j]
  BY <1>6 DEF Starts
<1>8. starts[1] = 1
  <2>1. 1 \in Range(starts)
    BY <1>4 DEF Starts
  <2>2. PICK j \in 1..k : starts[j] = 1
    BY <1>5, <2>1 DEF Range
  <2>3. CASE j = 1
    BY <2>2, <2>3
  <2>4. CASE j \in 2..k
    <3>1. j - 1 \in 1..k
      BY <1>4, <2>4
    <3> QED BY <1>4, <1>5, <1>7, <2>2, <2>4, <3>1
  <2>5. j = 1 \/ j \in 2..k
    BY <1>4
  <2> QED BY <2>3, <2>4, <2>5
<1> HIDE DEF list, L
<1> DEFINE e == [j \in 0..k |-> IF j = 0 THEN 0 ELSE IF j = k THEN L ELSE starts[j + 1] - 1]
<1>9. /\ e[0] = 0 /\ e[k] = L
      /\ \A j \in 1..(k - 1) : e[j] = starts[j + 1] - 1
  BY <1>4
<1>10. ASSUME NEW j \in 0..k PROVE e[j] \in 0..L
  <2>1. ASSUME j \in 1..(k - 1) PROVE e[j] \in 0..L
    <3>1. j + 1 \in 1..k
      BY <1>4, <2>1
    <3> QED BY <1>4, <1>5, <1>9, <2>1, <3>1
  <2>2. j = 0 \/ j = k \/ j \in 1..(k - 1)
    BY <1>4
  <2> QED BY <1>4, <1>9, <2>1, <2>2
<1>11. e \in [0..k -> 0..L]
  BY <1>10
<1> HIDE DEF e
<1>12. ASSUME NEW j \in 1..k PROVE starts[j] = e[j - 1] + 1
  <2>1. CASE j = 1
    BY <1>8, <1>9, <2>1
  <2>2. CASE j \in 2..k
    <3>1. j - 1 \in 1..(k - 1) /\ (j - 1) + 1 = j
      BY <1>4, <2>2
    <3>2. e[j - 1] = starts[j] - 1
      BY <1>9, <3>1
    <3> QED BY <1>4, <1>5, <3>2
  <2> QED BY <1>4, <2>1, <2>2
<1>13. ASSUME NEW j \in 1..k
       PROVE  e[j - 1] <= e[j] /\ Slice(list, starts, j) = SubSeq(list, e[j - 1] + 1, e[j])
  <2>1. CASE j = k
    <3>1. j - 1 \in 0..k
      BY <1>4
    <3>2. Slice(list, starts, j) = SubSeq(list, starts[j], L)
      BY <1>6, <2>1 DEF Slice, L
    <3>3. e[j] = L /\ starts[j] = e[j - 1] + 1 /\ e[j - 1] \in 0..L
      BY <1>9, <1>10, <1>12, <2>1, <3>1
    <3> QED BY <1>4, <3>2, <3>3
  <2>2. CASE j \in 1..(k - 1)
    <3>1. j + 1 \in 2..k /\ (j + 1) - 1 = j /\ j + 1 \in 1..k
      BY <1>4, <2>2
    <3>2. starts[j] < starts[j + 1]
      BY <1>7, <3>1
    <3>3. e[j] = starts[j + 1] - 1 /\ starts[j] = e[j - 1] + 1
      BY <1>9, <1>12, <2>2
    <3>4. Slice(list, starts, j) = SubSeq(list, starts[j], starts[j + 1] - 1)
      <4>1. (IF j = Len(starts) THEN Len(list) ELSE starts[j + 1] - 1) = starts[j + 1] - 1
        BY <1>4, <1>6, <2>2
      <4> QED BY <4>1 DEF Slice
    <3>5. e[j - 1] \in 0..L
      <4>1. j - 1 \in 0..k
        BY <1>4
      <4> QED BY <1>10, <4>1
    <3>6. starts[j] \in 1..L /\ starts[j + 1] \in 1..L
      BY <1>5, <3>1
    <3> QED BY <1>4, <3>2, <3>3, <3>4, <3>5, <3>6
  <2> QED BY <1>4, <2>1, <2>2
<1>14. ASSUME NEW j \in 1..k
       PROVE  /\ PartAt(payload, p, starts, j).lists = [q \in PathSet |->
                   IF q = p THEN Slice(list, starts, j) ELSE IF j = 1 THEN payload.lists[q] ELSE <<>>]
              /\ PartAt(payload, p, starts, j).other = IF j = 1 THEN payload.other ELSE Shell[p]
              /\ PartAt(payload, p, starts, j) \in PayloadType
  <2>1. Slice(list, starts, j) \in Seq(Element)
    <3>1. e[j - 1] \in 0..L /\ e[j] \in 0..L
      <4>1. j - 1 \in 0..k /\ j \in 0..k
        BY <1>4
      <4> QED BY <1>10, <4>1
    <3>2. \A i \in (e[j - 1] + 1)..e[j] : list[i] \in Element
      BY <1>2, <1>4, <3>1 DEF L
    <3>3. SubSeq(list, e[j - 1] + 1, e[j]) \in Seq(Element)
      BY <1>4, <3>1, <3>2, SubSeqProperties
    <3> QED BY <1>13, <3>3
  <2>2. Shell[p] \in Nat
    BY <1>1, GuardAssumption DEF PathSet
  <2>3. payload = [other |-> payload.other, lists |-> payload.lists]
    BY DEF PayloadType
  <2>4. CASE j = 1
    <3>1. PartAt(payload, p, starts, j) = [other |-> payload.other,
            lists |-> [payload.lists EXCEPT ![p] = Slice(list, starts, j)]]
      BY <2>3, <2>4 DEF PartAt, list
    <3>2. [payload.lists EXCEPT ![p] = Slice(list, starts, j)] =
            [q \in PathSet |-> IF q = p THEN Slice(list, starts, j) ELSE payload.lists[q]]
      BY <1>2
    <3>3. [q \in PathSet |-> IF q = p THEN Slice(list, starts, j) ELSE payload.lists[q]] \in [PathSet -> Seq(Element)]
      BY <1>2, <2>1
    <3>4. /\ PartAt(payload, p, starts, j).other = payload.other
          /\ PartAt(payload, p, starts, j).lists =
               [q \in PathSet |-> IF q = p THEN Slice(list, starts, j) ELSE payload.lists[q]]
      BY <3>1, <3>2
    <3>5. PartAt(payload, p, starts, j) \in PayloadType
      <4>1. PartAt(payload, p, starts, j) = [other |-> payload.other,
              lists |-> [q \in PathSet |-> IF q = p THEN Slice(list, starts, j) ELSE payload.lists[q]]]
        BY <3>1, <3>2
      <4> QED BY <1>2, <3>3, <4>1 DEF PayloadType
    <3> QED BY <2>4, <3>4, <3>5
  <2>5. CASE j # 1
    <3>1. PartAt(payload, p, starts, j) = [other |-> Shell[p],
            lists |-> [q \in PathSet |-> IF q = p THEN Slice(list, starts, j) ELSE <<>>]]
      BY <2>5 DEF PartAt, list
    <3>2. [q \in PathSet |-> IF q = p THEN Slice(list, starts, j) ELSE <<>>] \in [PathSet -> Seq(Element)]
      BY <2>1
    <3> QED BY <2>2, <2>5, <3>1, <3>2 DEF PayloadType
  <2> QED BY <2>4, <2>5
<1>15. ASSUME NEW q \in PathSet
       PROVE  Tiled(payload.lists[q], k, [j \in 1..k |-> PartAt(payload, p, starts, j).lists[q]])
  <2> DEFINE cut == [j \in 1..k |-> PartAt(payload, p, starts, j).lists[q]]
             M == Len(payload.lists[q])
  <2>1. CASE q = p
    <3>1. \A j \in 1..k : cut[j] = Slice(list, starts, j)
      BY <1>14, <2>1
    <3>2. payload.lists[q] = list /\ Len(list) = L
      BY <2>1 DEF list, L
    <3> HIDE DEF cut
    <3>3. Tiles(payload.lists[q], k, cut, e)
      BY <1>9, <1>11, <1>13, <3>1, <3>2 DEF Tiles
    <3> QED BY <3>3 DEF Tiled, cut
  <2>2. CASE q # p
    <3> DEFINE f == [j \in 0..k |-> IF j = 0 THEN 0 ELSE M]
    <3>1. M \in Nat /\ payload.lists[q] \in Seq(Element)
      BY <1>2
    <3>2. \A j \in 1..k : cut[j] = IF j = 1 THEN payload.lists[q] ELSE <<>>
      <4>1. ASSUME NEW j \in 1..k PROVE cut[j] = IF j = 1 THEN payload.lists[q] ELSE <<>>
        <5>1. cut[j] = PartAt(payload, p, starts, j).lists[q]
          OBVIOUS
        <5>2. PartAt(payload, p, starts, j).lists[q] = IF j = 1 THEN payload.lists[q] ELSE <<>>
          <6>1. PartAt(payload, p, starts, j).lists = [r \in PathSet |->
                   IF r = p THEN Slice(list, starts, j) ELSE IF j = 1 THEN payload.lists[r] ELSE <<>>]
            BY <1>14
          <6> HIDE DEF cut
          <6> QED BY <2>2, <6>1
        <5> QED BY <5>1, <5>2
      <4> QED BY <4>1
    <3> HIDE DEF cut
    <3>3. SubSeq(payload.lists[q], 1, M) = payload.lists[q] /\ SubSeq(payload.lists[q], M + 1, M) = <<>>
      BY <3>1, SubSeqFull, SubSeqEmpty
    <3> HIDE DEF M
    <3>4. f \in [0..k -> 0..M] /\ f[0] = 0 /\ f[k] = M /\ \A j \in 1..k : f[j] = M /\ (j > 1 => f[j - 1] = M)
      BY <1>4, <3>1
    <3> HIDE DEF f
    <3>5. ASSUME NEW j \in 1..k
          PROVE  f[j - 1] <= f[j] /\ cut[j] = SubSeq(payload.lists[q], f[j - 1] + 1, f[j])
      <4>1. CASE j = 1
        <5>1. f[j - 1] = 0 /\ f[j] = M
          BY <3>4, <4>1
        <5> QED BY <3>1, <3>2, <3>3, <4>1, <5>1
      <4>2. CASE j > 1
        <5>1. f[j - 1] = M /\ f[j] = M
          BY <3>4, <4>2
        <5>2. cut[j] = <<>>
          BY <3>2, <4>2
        <5>3. M \in Nat
          BY <3>1 DEF M
        <5> QED BY <3>3, <5>1, <5>2, <5>3
      <4> QED BY <1>4, <4>1, <4>2
    <3>6. Tiles(payload.lists[q], k, cut, f)
      BY <3>4, <3>5 DEF Tiles, M
    <3> QED BY <3>6 DEF Tiled, cut
  <2> QED BY <2>1, <2>2
<1>16. PartAt(payload, p, starts, 1).other = payload.other
  <2>1. 1 \in 1..k
    BY <1>4
  <2>2. PartAt(payload, p, starts, 1).other = IF 1 = 1 THEN payload.other ELSE Shell[p]
    BY <1>14, <2>1
  <2> QED BY <2>2
<1> QED BY <1>4, <1>5, <1>6, <1>14, <1>15, <1>16


----------------------------------------------------------------------------

LEMMA GuardInitInv == GuardInit => GuardInv
<1> SUFFICES ASSUME GuardInit PROVE GuardInv
  OBVIOUS
<1>1. block \in PayloadType /\ block.other # 0
  BY PayloadsAreTyped DEF GuardInit
<1>2. todo = <<[payload |-> block, depth |-> 0]>> /\ leaves = <<>> /\ merged = Empty /\ state = "guarding"
  BY DEF GuardInit
<1>3. Empty \in PayloadType /\ Empty.other = 0 /\ \A p \in PathSet : Empty.lists[p] = <<>>
  BY DEF Empty, PayloadType
<1>4. todo \in Seq([payload : PayloadType, depth : Nat]) /\ Len(todo) = 1 /\ todo[1].payload = block
  BY <1>1, <1>2
<1>5. leaves \in Seq(PayloadType) /\ Len(leaves) = 0
  BY <1>2
<1>6. Parted = 2
  BY <1>4, <1>5 DEF Parted
<1>7. ASSUME NEW p \in PathSet PROVE Tiled(block.lists[p], Parted, Line(p))
  <2> DEFINE list == block.lists[p]
             e == [i \in 0..2 |-> IF i = 2 THEN Len(list) ELSE 0]
  <2>1. list \in Seq(Element)
    BY <1>1 DEF PayloadType
  <2>2. Line(p)[1] = <<>> /\ Line(p)[2] = list
    BY <1>2, <1>3, <1>4, <1>5, <1>6 DEF Line
  <2> HIDE DEF list
  <2>3. e \in [0..2 -> 0..Len(list)] /\ e[0] = 0 /\ e[1] = 0 /\ e[2] = Len(list)
    BY <2>1
  <2> HIDE DEF e
  <2>4. SubSeq(list, 1, 0) = <<>> /\ SubSeq(list, 1, Len(list)) = list
    BY <2>1, SubSeqFull, SubSeqEmpty
  <2>5. ASSUME NEW i \in 1..2 PROVE e[i - 1] <= e[i] /\ Line(p)[i] = SubSeq(list, e[i - 1] + 1, e[i])
    <3>1. CASE i = 1
      <4>1. e[i - 1] = 0 /\ e[i] = 0 /\ e[i - 1] + 1 = 1
        BY <2>3, <3>1
      <4>2. SubSeq(list, e[i - 1] + 1, e[i]) = <<>>
        BY <2>4, <4>1
      <4>3. Line(p)[i] = <<>>
        BY <2>2, <3>1
      <4> QED BY <4>1, <4>2, <4>3
    <3>2. CASE i = 2
      <4>1. e[i - 1] = 0 /\ e[i] = Len(list) /\ Len(list) \in Nat
        BY <2>1, <2>3, <3>2
      <4> QED BY <2>2, <2>4, <3>2, <4>1
    <3> QED BY <3>1, <3>2
  <2>6. Tiles(list, 2, Line(p), e)
    BY <2>3, <2>5 DEF Tiles
  <2> QED BY <1>6, <2>6 DEF Tiled, list
<1>8. FirstOfBlock
  BY <1>2, <1>3, <1>4 DEF FirstOfBlock
<1>9. GuardTyped
  BY <1>1, <1>2, <1>3, <1>4, <1>5 DEF GuardTyped
<1> QED BY <1>2, <1>7, <1>8, <1>9 DEF GuardInv

LEMMA KeepKeeps ==
  ASSUME GuardInv, Keep
  PROVE  GuardInv'
<1> DEFINE P == [payload : PayloadType, depth : Nat]
<1>1. GuardTyped /\ FirstOfBlock /\ todo # <<>> /\ state = "guarding"
  BY DEF GuardInv, Keep, Running
<1>2. leaves' = Append(leaves, First) /\ todo' = Tail(todo) /\ UNCHANGED <<block, state, merged>>
  BY DEF Keep
<1>3. leaves \in Seq(PayloadType) /\ todo \in Seq(P)
  BY <1>1 DEF GuardTyped
<1>4. First = todo[1].payload /\ First \in PayloadType
  <2>1. Head(todo).payload \in PayloadType
    <3>1. Head(todo) \in P
      <4> HIDE DEF P
      <4> QED BY <1>1, <1>3, HeadTailProperties
    <3> QED BY <3>1
  <2>2. Head(todo) = todo[1]
    <3> HIDE DEF P
    <3> QED BY <1>1, <1>3
  <2> QED BY <2>1, <2>2 DEF First
<1>5. /\ leaves' \in Seq(PayloadType) /\ Len(leaves') = Len(leaves) + 1
      /\ \A i \in 1..Len(leaves) : leaves'[i] = leaves[i]
      /\ leaves'[Len(leaves) + 1] = First /\ leaves' # <<>>
  BY <1>2, <1>3, <1>4, AppendProperties
<1>6. /\ todo' \in Seq(P) /\ Len(todo') = Len(todo) - 1
      /\ \A i \in 1..(Len(todo) - 1) : todo'[i] = todo[i + 1]
  BY <1>1, <1>2, <1>3, HeadTailProperties
<1>7. Len(leaves) \in Nat /\ Len(todo) \in Nat
  BY <1>3
<1>8. Parted' = Parted /\ Parted = 1 + Len(leaves) + Len(todo)
  BY <1>5, <1>6, <1>7 DEF Parted
<1>9. ASSUME NEW p \in PathSet PROVE Line(p)' = Line(p)
  <2> DEFINE n == Len(leaves)
             t == Len(todo)
             old(i) == IF i = 1 THEN merged.lists[p]
                       ELSE IF i <= 1 + n THEN leaves[i - 1].lists[p]
                       ELSE todo[i - 1 - n].payload.lists[p]
             new(i) == IF i = 1 THEN merged.lists[p]
                       ELSE IF i <= 1 + (n + 1) THEN leaves'[i - 1].lists[p]
                       ELSE todo'[i - 1 - (n + 1)].payload.lists[p]
  <2>1. Line(p) = [i \in 1..(1 + n + t) |-> old(i)]
    BY <1>8 DEF Line
  <2>2. Line(p)' = [i \in 1..(1 + n + t) |-> new(i)]
    BY <1>2, <1>5, <1>8 DEF Line
  <2>3. ASSUME NEW i \in 1..(1 + n + t) PROVE old(i) = new(i)
    <3> HIDE DEF n, t
    <3>0. n \in Nat /\ t \in Nat
      BY <1>7 DEF n, t
    <3>1. CASE i = 1
      BY <3>1
    <3>2. CASE i > 1 /\ i <= 1 + n
      <4>1. i - 1 \in 1..n
        BY <3>0, <3>2
      <4>2. leaves'[i - 1] = leaves[i - 1]
        BY <1>5, <4>1 DEF n
      <4> QED BY <3>0, <3>2, <4>2
    <3>3. CASE i = 2 + n
      <4>1. leaves'[i - 1] = todo[1].payload
        <5>1. i - 1 = n + 1
          BY <3>0, <3>3
        <5> QED BY <1>4, <1>5, <5>1 DEF n
      <4>2. i - 1 - n = 1
        BY <3>0, <3>3
      <4> QED BY <3>0, <3>3, <4>1, <4>2
    <3>4. CASE i > 2 + n
      <4>1. i - 1 - (n + 1) \in 1..(t - 1) /\ (i - 1 - (n + 1)) + 1 = i - 1 - n
        BY <3>0, <3>4
      <4>2. todo'[i - 1 - (n + 1)] = todo[i - 1 - n]
        BY <1>6, <4>1 DEF t
      <4> QED BY <3>0, <3>4, <4>2
    <3> QED BY <3>0, <3>1, <3>2, <3>3, <3>4
  <2> HIDE DEF old, new
  <2> QED BY <2>1, <2>2, <2>3
<1>10. \A p \in PathSet : Tiled(block.lists[p], Parted, Line(p))'
  <2>1. ASSUME NEW p \in PathSet PROVE Tiled(block.lists[p], Parted, Line(p))'
    <3>1. Tiled(block.lists[p], Parted, Line(p)) /\ block' = block
      BY <1>2 DEF GuardInv
    <3> QED BY <1>8, <1>9, <3>1 DEF Tiled, Tiles
  <2> QED BY <2>1
<1>11. FirstOfBlock'
  <2>1. CASE merged.other = block.other
    BY <1>2, <2>1 DEF FirstOfBlock
  <2>2. CASE merged.other = 0 /\ leaves # <<>> /\ leaves[1].other = block.other
    <3>1. leaves'[1] = leaves[1]
      <4>1. 1 \in 1..Len(leaves)
        BY <1>3, <2>2
      <4> QED BY <1>5, <4>1
    <3> QED BY <1>2, <1>5, <2>2, <3>1 DEF FirstOfBlock
  <2>3. CASE merged.other = 0 /\ leaves = <<>> /\ todo[1].payload.other = block.other
    <3>1. Len(leaves) = 0
      BY <2>3
    <3>2. leaves'[1] = First
      BY <1>5, <3>1
    <3> QED BY <1>2, <1>4, <1>5, <2>3, <3>2 DEF FirstOfBlock
  <2> QED BY <1>1, <2>1, <2>2, <2>3 DEF FirstOfBlock
<1>12. GuardTyped'
  BY <1>1, <1>2, <1>5, <1>6 DEF GuardTyped
<1> QED BY <1>1, <1>2, <1>10, <1>11, <1>12 DEF GuardInv

LEMMA MergeKeeps ==
  ASSUME GuardInv, Merge
  PROVE  GuardInv'
<1>1. GuardTyped /\ FirstOfBlock /\ todo = <<>> /\ leaves # <<>>
  BY DEF GuardInv, Merge
<1>2. merged' = DeepMerge(merged, Head(leaves)) /\ leaves' = Tail(leaves) /\ UNCHANGED <<block, todo>>
  BY DEF Merge
<1>3. leaves \in Seq(PayloadType) /\ merged \in PayloadType
  BY <1>1 DEF GuardTyped
<1>4. Head(leaves) = leaves[1] /\ leaves[1] \in PayloadType
  BY <1>1, <1>3, HeadTailProperties
<1>5. /\ leaves' \in Seq(PayloadType) /\ Len(leaves') = Len(leaves) - 1
      /\ \A i \in 1..(Len(leaves) - 1) : leaves'[i] = leaves[i + 1]
  BY <1>1, <1>2, <1>3, HeadTailProperties
<1>6. Len(leaves) \in Nat \ {0} /\ Len(todo) = 0
  BY <1>1, <1>3
<1>7. Parted = Len(leaves) + 1 /\ Parted' = Len(leaves)
  BY <1>2, <1>5, <1>6 DEF Parted
<1>8. /\ \A p \in PathSet : merged.lists[p] \in Seq(Element) /\ leaves[1].lists[p] \in Seq(Element)
      /\ merged.other \in Nat /\ leaves[1].other \in Nat
  BY <1>3, <1>4 DEF PayloadType
<1>9. /\ \A p \in PathSet : merged'.lists[p] = merged.lists[p] \o leaves[1].lists[p]
      /\ merged'.other = IF merged.other = 0 THEN leaves[1].other ELSE merged.other
      /\ merged' \in PayloadType
  <2> DEFINE lists == [p \in PathSet |-> merged.lists[p] \o leaves[1].lists[p]]
             other == IF merged.other = 0 THEN leaves[1].other ELSE merged.other
  <2>1. merged' = [other |-> other, lists |-> lists]
    BY <1>2, <1>4 DEF DeepMerge
  <2>2. \A p \in PathSet : merged.lists[p] \o leaves[1].lists[p] \in Seq(Element)
    BY <1>8
  <2>3. lists \in [PathSet -> Seq(Element)] /\ other \in Nat
    BY <1>8, <2>2
  <2>4. \A p \in PathSet : lists[p] = merged.lists[p] \o leaves[1].lists[p]
    OBVIOUS
  <2> HIDE DEF lists
  <2> QED BY <2>1, <2>3, <2>4 DEF PayloadType
<1>10. ASSUME NEW p \in PathSet PROVE Tiled(block.lists[p], Parted, Line(p))'
  <2> DEFINE n == Len(leaves)
  <2>1. Tiled(block.lists[p], n + 1, Line(p)) /\ block.lists[p] \in Seq(Element)
    BY <1>1, <1>7 DEF GuardInv, GuardTyped, PayloadType
  <2>2. Line(p)[1] = merged.lists[p] /\ Line(p)[2] = leaves[1].lists[p]
    BY <1>6, <1>7 DEF Line
  <2>3. \A i \in 2..(n + 1) : Line(p)[i] = leaves[i - 1].lists[p]
    BY <1>6, <1>7 DEF Line
  <2>4. Line(p)'[1] = merged.lists[p] \o leaves[1].lists[p]
    <3>1. Line(p)'[1] = merged'.lists[p]
      BY <1>6, <1>7 DEF Line
    <3> QED BY <1>9, <3>1
  <2>5. ASSUME NEW i \in 2..n PROVE Line(p)'[i] = Line(p)[i + 1]
    <3>1. Line(p)'[i] = leaves'[i - 1].lists[p]
      <4>1. i \in 1..n /\ i # 1 /\ i <= 1 + (n - 1)
        BY <1>6
      <4> QED BY <1>5, <1>6, <1>7, <4>1 DEF Line
    <3>2. i - 1 \in 1..(n - 1) /\ (i - 1) + 1 = i
      BY <1>6
    <3>3. leaves'[i - 1] = leaves[i]
      BY <1>5, <3>2
    <3>4. i + 1 \in 2..(n + 1) /\ (i + 1) - 1 = i
      BY <1>6
    <3>5. Line(p)[i + 1] = leaves[i].lists[p]
      BY <2>3, <3>4
    <3> QED BY <3>1, <3>3, <3>5
  <2>6. n \in Nat \ {0}
    BY <1>6
  <2>7. Line(p)'[1] = Line(p)[1] \o Line(p)[2]
    BY <2>2, <2>4
  <2>8. Tiled(block.lists[p], n, Line(p)')
    <3> HIDE DEF n
    <3> QED BY <2>1, <2>5, <2>6, <2>7, JoinedTiles
  <2> QED BY <1>2, <1>7, <2>8 DEF Tiled, Tiles
<1>11. FirstOfBlock'
  <2>1. merged'.other = block.other
    BY <1>1, <1>9 DEF FirstOfBlock, GuardTyped
  <2> QED BY <1>2, <2>1 DEF FirstOfBlock
<1>12. GuardTyped'
  BY <1>1, <1>2, <1>5, <1>9 DEF GuardTyped
<1>13. state' = "merged" => leaves' = <<>> /\ todo' = <<>>
  <2>1. Len(leaves) = 1 => leaves' = <<>>
    BY <1>5, EmptySeq
  <2>2. state' = "merged" => Len(leaves) = 1
    BY DEF Merge
  <2> QED BY <1>1, <1>2, <2>1, <2>2
<1> QED BY <1>10, <1>11, <1>12, <1>13 DEF GuardInv

LEMMA ChunkKeeps ==
  ASSUME GuardInv, Chunk
  PROVE  GuardInv'
<1> DEFINE P == [payload : PayloadType, depth : Nat]
           l == Len(leaves)
           t == Len(todo)
<1>1. GuardTyped /\ FirstOfBlock /\ todo # <<>> /\ state = "guarding"
  BY DEF GuardInv, Chunk, Running
<1>2. UNCHANGED <<block, leaves, state, merged>>
  BY DEF Chunk
<1>3. leaves \in Seq(PayloadType) /\ todo \in Seq(P)
  BY <1>1 DEF GuardTyped
<1>4. Head(todo) = todo[1] /\ todo[1] \in P /\ First = todo[1].payload
  <2> HIDE DEF P
  <2>1. Head(todo) \in P
    BY <1>1, <1>3, HeadTailProperties
  <2>2. Head(todo) = todo[1]
    BY <1>1, <1>3
  <2> QED BY <2>1, <2>2 DEF First
<1>5. First \in PayloadType /\ Head(todo).depth \in Nat
  BY <1>4
<1>6. PICK p \in Largest(First) : \E starts \in Starts(First, p) :
        todo' = InPlace([i \in DOMAIN Parts(First, p, starts) |->
                           [payload |-> Parts(First, p, starts)[i], depth |-> Deeper(Head(todo).depth)]],
                        Tail(todo))
  BY DEF Chunk
<1>7. PICK starts \in Starts(First, p) :
        todo' = InPlace([i \in DOMAIN Parts(First, p, starts) |->
                           [payload |-> Parts(First, p, starts)[i], depth |-> Deeper(Head(todo).depth)]],
                        Tail(todo))
  BY <1>6
<1> DEFINE k == Len(starts)
           part(j) == PartAt(First, p, starts, j)
           made == [i \in 1..k |-> [payload |-> part(i), depth |-> Deeper(Head(todo).depth)]]
<1>8. /\ k \in Nat \ {0} /\ DOMAIN starts = 1..k
      /\ \A j \in 1..k : part(j) \in PayloadType
      /\ part(1).other = First.other
      /\ \A q \in PathSet : Tiled(First.lists[q], k, [j \in 1..k |-> part(j).lists[q]])
  BY <1>5, PartsTile
<1>9. DOMAIN Parts(First, p, starts) = 1..k /\ \A i \in 1..k : Parts(First, p, starts)[i] = part(i)
  BY <1>8 DEF Parts
<1>10. made \in Seq(P) /\ Len(made) = k /\ \A i \in 1..k : made[i] \in P /\ made[i].payload = part(i)
  <2>1. Deeper(Head(todo).depth) \in Nat
    BY <1>5 DEF Deeper
  <2>2. \A i \in 1..k : [payload |-> part(i), depth |-> Deeper(Head(todo).depth)] \in P
    BY <1>8, <2>1
  <2> HIDE DEF P
  <2>3. made \in Seq(P)
    BY <1>8, <2>2, IsASeq
  <2>4. Len(made) = k
    BY <1>8, <2>3, LenProperties
  <2> QED BY <2>2, <2>3, <2>4
<1>11. todo' = made \o Tail(todo)
  <2>1. [i \in DOMAIN Parts(First, p, starts) |->
           [payload |-> Parts(First, p, starts)[i], depth |-> Deeper(Head(todo).depth)]] = made
    BY <1>9
  <2> HIDE DEF made
  <2> QED BY <1>7, <2>1 DEF InPlace
<1> HIDE DEF made, k, part, P
<1>12. Tail(todo) \in Seq(P) /\ Len(Tail(todo)) = t - 1 /\ \A i \in 1..(t - 1) : Tail(todo)[i] = todo[i + 1]
  BY <1>1, <1>3, HeadTailProperties
<1>13. l \in Nat /\ t \in Nat \ {0}
  BY <1>1, <1>3
<1> HIDE DEF l, t
<1>14. /\ todo' \in Seq(P) /\ Len(todo') = k + t - 1
       /\ \A i \in 1..k : todo'[i] = made[i]
       /\ \A i \in (k + 1)..(k + t - 1) : todo'[i] = todo[i - k + 1]
  <2>1. /\ todo' \in Seq(P) /\ Len(todo') = k + (t - 1)
        /\ \A i \in 1..(k + (t - 1)) : todo'[i] = IF i <= k THEN made[i] ELSE Tail(todo)[i - k]
    <3> DEFINE u == Tail(todo)
    <3>1. made \in Seq(P) /\ u \in Seq(P) /\ Len(made) = k /\ Len(u) = t - 1
      BY <1>10, <1>12
    <3> HIDE DEF u
    <3>2. /\ made \o u \in Seq(P) /\ Len(made \o u) = Len(made) + Len(u)
          /\ \A i \in 1..(Len(made) + Len(u)) :
               (made \o u)[i] = IF i <= Len(made) THEN made[i] ELSE u[i - Len(made)]
      BY <3>1, ConcatProperties
    <3>3. todo' = made \o u
      BY <1>11 DEF u
    <3> QED BY <3>1, <3>2, <3>3 DEF u
  <2>2. ASSUME NEW i \in 1..k PROVE todo'[i] = made[i]
    BY <1>8, <1>13, <2>1
  <2>3. ASSUME NEW i \in (k + 1)..(k + t - 1) PROVE todo'[i] = todo[i - k + 1]
    <3>1. i \in 1..(k + (t - 1)) /\ ~(i <= k) /\ i - k \in 1..(t - 1)
      BY <1>8, <1>13
    <3>2. todo'[i] = Tail(todo)[i - k]
      BY <2>1, <3>1
    <3> QED BY <1>12, <3>1, <3>2
  <2> QED BY <1>8, <1>13, <2>1, <2>2, <2>3
<1>15. Parted = 1 + l + t /\ Parted' = (1 + l + t) + k - 1
  BY <1>2, <1>8, <1>13, <1>14 DEF Parted, l, t
<1>16. ASSUME NEW q \in PathSet PROVE Tiled(block.lists[q], Parted, Line(q))'
  <2> DEFINE n == 1 + l + t
             m == 2 + l
             cut == [j \in 1..k |-> part(j).lists[q]]
  <2>1. Tiled(block.lists[q], n, Line(q)) /\ block.lists[q] \in Seq(Element)
    BY <1>1, <1>15 DEF GuardInv, GuardTyped, PayloadType
  <2>2. \A i \in 1..n : Line(q)[i] = IF i = 1 THEN merged.lists[q]
                                     ELSE IF i <= 1 + l THEN leaves[i - 1].lists[q]
                                     ELSE todo[i - 1 - l].payload.lists[q]
    BY <1>15 DEF Line, l
  <2>3. \A i \in 1..(n + k - 1) : Line(q)'[i] = IF i = 1 THEN merged.lists[q]
                                                ELSE IF i <= 1 + l THEN leaves[i - 1].lists[q]
                                                ELSE todo'[i - 1 - l].payload.lists[q]
    BY <1>2, <1>15 DEF Line, l
  <2>4. n \in Nat /\ m \in 1..n
    BY <1>13
  <2>5. Line(q)[m] = First.lists[q]
    <3>1. m \in 1..n /\ m # 1 /\ ~(m <= 1 + l) /\ m - 1 - l = 1
      BY <1>13
    <3> QED BY <1>4, <2>2, <3>1
  <2>6. ASSUME NEW i \in 1..(m - 1) PROVE Line(q)'[i] = Line(q)[i]
    <3>1. i \in 1..n /\ i \in 1..(n + k - 1) /\ i <= 1 + l
      BY <1>8, <1>13
    <3> QED BY <2>2, <2>3, <3>1
  <2>7. ASSUME NEW i \in 1..k PROVE Line(q)'[m + i - 1] = cut[i]
    <3>0. k \in Nat
      BY <1>8
    <3>1. /\ m + i - 1 \in 1..(n + k - 1) /\ m + i - 1 # 1 /\ ~(m + i - 1 <= 1 + l)
          /\ (m + i - 1) - 1 - l = i
      BY ONLY <3>0, <1>13, i \in 1..k, m = 2 + l, n = 1 + l + t
    <3>2. Line(q)'[m + i - 1] = todo'[i].payload.lists[q]
      BY <2>3, <3>1
    <3>3. todo'[i].payload = part(i)
      BY <1>10, <1>14
    <3>4. cut[i] = part(i).lists[q]
      OBVIOUS
    <3> QED BY <3>2, <3>3, <3>4
  <2>8. ASSUME NEW i \in (m + 1)..n PROVE Line(q)'[i + k - 1] = Line(q)[i]
    <3>1. /\ i \in 1..n /\ i # 1 /\ ~(i <= 1 + l)
          /\ i + k - 1 \in 1..(n + k - 1) /\ i + k - 1 # 1 /\ ~(i + k - 1 <= 1 + l)
      BY <1>8, <1>13
    <3>2. /\ (i + k - 1) - 1 - l \in (k + 1)..(k + t - 1)
          /\ ((i + k - 1) - 1 - l) - k + 1 = i - 1 - l
      BY <1>8, <1>13
    <3>3. todo'[(i + k - 1) - 1 - l] = todo[i - 1 - l]
      BY <1>14, <3>2
    <3> QED BY <2>2, <2>3, <3>1, <3>3
  <2>9. Tiled(Line(q)[m], k, cut)
    BY <1>8, <2>5
  <2> HIDE DEF n, m, cut
  <2>10. Tiled(block.lists[q], n + k - 1, Line(q)')
    <3> DEFINE new == Line(q)'
               list == block.lists[q]
    <3>1. k \in Nat \ {0} /\ list \in Seq(Element)
      BY <1>8, <2>1
    <3>2. /\ \A i \in 1..(m - 1) : new[i] = Line(q)[i]
          /\ \A i \in 1..k : new[m + i - 1] = cut[i]
          /\ \A i \in (m + 1)..n : new[i + k - 1] = Line(q)[i]
      BY <2>6, <2>7, <2>8
    <3>3. Tiled(list, n, Line(q))
      BY <2>1
    <3> HIDE DEF new, list
    <3>4. Tiled(list, n + k - 1, new)
      BY <2>4, <2>9, <3>1, <3>2, <3>3, CutTiles
    <3> QED BY <3>4 DEF new, list
  <2>11. Parted' = n + k - 1
    BY <1>15 DEF n
  <2> QED BY <1>2, <2>10, <2>11 DEF Tiled, Tiles
<1>17. FirstOfBlock'
  <2>1. CASE merged.other = block.other
    BY <1>2, <2>1 DEF FirstOfBlock
  <2>2. CASE merged.other = 0 /\ leaves # <<>> /\ leaves[1].other = block.other
    BY <1>2, <2>2 DEF FirstOfBlock
  <2>3. CASE merged.other = 0 /\ leaves = <<>> /\ todo[1].payload.other = block.other
    <3>1. 1 \in 1..k
      BY <1>8
    <3>2. todo'[1].payload.other = block.other
      BY <1>4, <1>8, <1>10, <1>14, <2>3, <3>1
    <3>3. todo' # <<>>
      BY <1>8, <1>13, <1>14
    <3> QED BY <1>2, <2>3, <3>2, <3>3 DEF FirstOfBlock
  <2> QED BY <1>1, <2>1, <2>2, <2>3 DEF FirstOfBlock
<1>18. GuardTyped'
  BY <1>1, <1>2, <1>14 DEF GuardTyped, P
<1> QED BY <1>1, <1>2, <1>16, <1>17, <1>18 DEF GuardInv

LEMMA GuardStep == GuardInv /\ [GuardNext]_guardVars => GuardInv'
<1> SUFFICES ASSUME GuardInv, [GuardNext]_guardVars PROVE GuardInv'
  OBVIOUS
<1>1. CASE Keep
  BY <1>1, KeepKeeps
<1>2. CASE Merge
  BY <1>2, MergeKeeps
<1>3. CASE Chunk
  BY <1>3, ChunkKeeps
<1>4. CASE Refuse \/ UNCHANGED guardVars
  <2>1. UNCHANGED <<block, todo, leaves, merged>> /\ (state' = state \/ state' = "refused")
    BY <1>4 DEF Refuse, guardVars
  <2> QED BY <2>1 DEF GuardInv, GuardTyped, FirstOfBlock, Tiled, Tiles, Parted, Line
<1> QED BY <1>1, <1>2, <1>3, <1>4 DEF GuardNext

LEMMA GuardInvHolds == GuardSpec => []GuardInv
BY GuardInitInv, GuardStep, PTL DEF GuardSpec

LEMMA InvMerges == GuardInv => MergeIsLossless
<1> SUFFICES ASSUME GuardInv, state = "merged" PROVE merged = block
  BY DEF MergeIsLossless
<1>1. GuardTyped /\ FirstOfBlock /\ leaves = <<>> /\ todo = <<>>
  BY DEF GuardInv
<1>2. merged.other = block.other
  BY <1>1 DEF FirstOfBlock
<1>3. Parted = 1
  BY <1>1 DEF Parted
<1>4. ASSUME NEW p \in PathSet PROVE merged.lists[p] = block.lists[p]
  <2>1. Tiled(block.lists[p], 1, Line(p)) /\ block.lists[p] \in Seq(Element)
    BY <1>1, <1>3 DEF GuardInv, GuardTyped, PayloadType
  <2>2. PICK e : Tiles(block.lists[p], 1, Line(p), e)
    BY <2>1 DEF Tiled
  <2>3. Line(p)[1] = SubSeq(block.lists[p], e[0] + 1, e[1]) /\ e[0] + 1 = 1 /\ e[1] = Len(block.lists[p])
    <3>1. 1 \in 1..1 /\ 1 - 1 = 0
      OBVIOUS
    <3>2. Line(p)[1] = SubSeq(block.lists[p], e[1 - 1] + 1, e[1])
      BY <2>2, <3>1 DEF Tiles
    <3>3. e[0] = 0 /\ e[1] = Len(block.lists[p])
      BY <2>2 DEF Tiles
    <3> QED BY <3>1, <3>2, <3>3
  <2>4. Line(p)[1] = merged.lists[p]
    BY <1>3 DEF Line
  <2> QED BY <2>1, <2>3, <2>4, SubSeqFull
<1>5. merged \in PayloadType /\ block \in PayloadType
  BY <1>1 DEF GuardTyped
<1>6. merged.lists = block.lists
  BY <1>4, <1>5 DEF PayloadType
<1> QED BY <1>2, <1>5, <1>6 DEF PayloadType

\* However often a block was cut, and along which arrays, the merge of its
\* chunks is the block, for any arrays, sizes and limits.
THEOREM MergeIsLosslessHolds == GuardSpec => []MergeIsLossless
BY GuardInvHolds, InvMerges, PTL

-----------------------------------------------------------------------------
(* BlockSplit                                                              *)

\* An element of the section p.
ElementOf(p, e) ==
  /\ e = [dict |-> e.dict, fields |-> e.fields]
  /\ e.dict \in BOOLEAN
  /\ e.dict => \A f \in e.fields : f[2] \in DOMAIN SubOf[p]

NodeOf(p, node) ==
  /\ node = [kind |-> node.kind, elements |-> node.elements]
  /\ node.kind \in {"absent", "null", "array", "object"}
  /\ \E n \in Nat : /\ DOMAIN node.elements = 1..n
                    /\ node.elements = [i \in 1..n |-> node.elements[i]]
                    /\ node.kind \in {"absent", "null"} <=> n = 0 /\ node.kind # "array"
                    /\ node.kind = "object" => n = 1 /\ node.elements[1].dict
  /\ \A i \in DOMAIN node.elements : ElementOf(p, node.elements[i])

\* What the split makes of a document, before the store.
Made(plain, node) == PlainBlocks(plain) \cup UNION {SplitComposite(p, node[p]) : p \in Parents}

\* The blocks of some types.
OfTypes(bs, T) == {b \in bs : b.type \in T}

----------------------------------------------------------------------------

LEMMA NodesAreTyped == \A p \in Parents : \A node \in Nodes(p) : NodeOf(p, node)
<1> SUFFICES ASSUME NEW p \in Parents, NEW node \in Nodes(p) PROVE NodeOf(p, node)
  OBVIOUS
<1>1. CASE node = Absent \/ node = Null
  <2>1. DOMAIN node.elements = 1..0 /\ node.elements = [i \in 1..0 |-> node.elements[i]]
    BY <1>1 DEF Absent, Null
  <2>2. node = [kind |-> node.kind, elements |-> node.elements] /\ node.kind \in {"absent", "null"}
    BY <1>1 DEF Absent, Null
  <2> QED BY <2>1, <2>2 DEF NodeOf
<1>2. \A i : \A e \in Objects(p, i) : ElementOf(p, e) /\ e.dict
  <2>1. ASSUME NEW i, NEW e \in Objects(p, i) PROVE ElementOf(p, e) /\ e.dict
    <3>1. PICK K \in SUBSET DOMAIN SubOf[p] : e = [dict |-> TRUE, fields |-> {<<i, key>> : key \in K}]
      BY DEF Objects
    <3>2. e.dict = TRUE /\ e.fields = {<<i, key>> : key \in K}
      BY <3>1
    <3>3. \A f \in e.fields : f[2] \in DOMAIN SubOf[p]
      BY <3>2
    <3> QED BY <3>1, <3>2, <3>3 DEF ElementOf
  <2> QED BY <2>1
<1>3. \A i : ElementOf(p, Value(i))
  BY DEF Value, ElementOf
<1>4. ASSUME NEW a \in Arrays(p), node = Array(a) PROVE NodeOf(p, node)
  <2>1. PICK n \in 0..MaxLength :
          /\ a \in [1..n -> UNION {Objects(p, i) \cup {Value(i)} : i \in 1..n}]
          /\ \A i \in 1..n : a[i] \in Objects(p, i) \cup {Value(i)}
    BY DEF Arrays
  <2>2. n \in Nat /\ DOMAIN a = 1..n /\ a = [i \in 1..n |-> a[i]]
    BY <2>1, SplitAssumption
  <2>3. \A i \in DOMAIN a : ElementOf(p, a[i])
    BY <1>2, <1>3, <2>1
  <2>4. node = [kind |-> "array", elements |-> a]
    BY <1>4 DEF Array
  <2> QED BY <2>2, <2>3, <2>4 DEF NodeOf
<1>5. ASSUME NEW e \in Objects(p, 0), node = Object(e) PROVE NodeOf(p, node)
  <2>1. node = [kind |-> "object", elements |-> <<e>>]
    BY <1>5 DEF Object
  <2>2. DOMAIN <<e>> = 1..1 /\ <<e>> = [i \in 1..1 |-> <<e>>[i]] /\ <<e>>[1] = e
    OBVIOUS
  <2>3. \A i \in DOMAIN <<e>> : ElementOf(p, <<e>>[i])
    BY <1>2, <2>2
  <2> QED BY <1>2, <2>1, <2>2, <2>3 DEF NodeOf
<1> QED BY <1>1, <1>4, <1>5 DEF Nodes

\* The i-th of 0..n-1 is i-1, and the i-th of 1..n is i.
LEMMA NthOfPlaces ==
  ASSUME NEW n \in Nat
  PROVE  /\ Cardinality(0..(n - 1)) = n /\ Cardinality(1..n) = n
         /\ \A i \in 1..n : Nth(0..(n - 1), i) = i - 1 /\ Nth(1..n, i) = i
<1>1. Cardinality(0..(n - 1)) = n /\ Cardinality(1..n) = n
  <2>1. Cardinality(0..(n - 1)) = IF 0 > n - 1 THEN 0 ELSE n - 1 - 0 + 1
    BY FS_Interval
  <2>2. Cardinality(1..n) = IF 1 > n THEN 0 ELSE n - 1 + 1
    BY FS_Interval
  <2> QED BY <2>1, <2>2
<1>2. ASSUME NEW i \in 1..n PROVE Nth(0..(n - 1), i) = i - 1
  <2>1. \A x \in 0..(n - 1) : {m \in 0..(n - 1) : m < x} = 0..(x - 1)
    OBVIOUS
  <2>2. ASSUME NEW x \in 0..(n - 1) PROVE Cardinality(0..(x - 1)) = x
    <3>1. Cardinality(0..(x - 1)) = IF 0 > x - 1 THEN 0 ELSE x - 1 - 0 + 1
      BY FS_Interval
    <3> QED BY <3>1
  <2>3. \A x \in 0..(n - 1) : Cardinality({m \in 0..(n - 1) : m < x}) = x
    BY <2>1, <2>2
  <2>4. i - 1 \in 0..(n - 1)
    OBVIOUS
  <2> QED BY <2>3, <2>4 DEF Nth
<1>3. ASSUME NEW i \in 1..n PROVE Nth(1..n, i) = i
  <2>1. \A x \in 1..n : {m \in 1..n : m < x} = 1..(x - 1)
    OBVIOUS
  <2>2. ASSUME NEW x \in 1..n PROVE Cardinality(1..(x - 1)) = x - 1
    <3>1. Cardinality(1..(x - 1)) = IF 1 > x - 1 THEN 0 ELSE x - 1 - 1 + 1
      BY FS_Interval
    <3> QED BY <3>1
  <2>3. \A x \in 1..n : Cardinality({m \in 1..n : m < x}) = x - 1
    BY <2>1, <2>2
  <2>4. \A x \in 1..n : x - 1 = i - 1 => x = i
    OBVIOUS
  <2> QED BY <2>3, <2>4 DEF Nth
<1> QED BY <1>1, <1>2, <1>3

----------------------------------------------------------------------------
(* The blocks, one by one.                                                 *)

LEMMA PlainBlockIs ==
  ASSUME NEW plain, NEW b
  PROVE  b \in PlainBlocks(plain) <=>
           \E k \in Plain :
             /\ b = Block(PlainType[k], PlainSub[k], 0, "none",
                      SectionsIn(plain, {j \in Plain : PlainType[j] = PlainType[k] /\ PlainSub[j] = PlainSub[k]}),
                      NoMark)
             /\ b.content # {}
BY DEF PlainBlocks

LEMMA ElementBlockIs ==
  ASSUME NEW p, NEW node, NEW i, NEW b
  PROVE  b \in ElementBlocks(p, node, i) <=>
           \/ \E s \in SubTypes(p) :
                /\ b = Block(TypeOf[p], s, SequenceNo(node, i), "none", Fields(p, node.elements[i], s), NoMark)
                /\ Fields(p, node.elements[i], s) # {}
           \/ b = Block(TypeOf[p], MainSub[p], SequenceNo(node, i), "none", Fields(p, node.elements[i], Rest),
                    Container(p, node))
BY DEF ElementBlocks, MainSubType

LEMMA CompositeBlockIs ==
  ASSUME NEW p, NEW node, NEW b
  PROVE  b \in SplitComposite(p, node) <=>
           \/ /\ NonObjects(node) # <<>>
              /\ b = Block(TypeOf[p], RawSub[p], 0, p, NonObjects(node), NoMark)
           \/ \E i \in DOMAIN node.elements : node.elements[i].dict /\ b \in ElementBlocks(p, node, i)
BY DEF SplitComposite, RawBlocks, IsObject

LEMMA CompositeKeys ==
  ASSUME NEW p \in Parents, NEW node, NEW b \in SplitComposite(p, node)
  PROVE  b.type = TypeOf[p] /\ b.sub \in SubsOf(p)
<1>1. CASE b = Block(TypeOf[p], RawSub[p], 0, p, NonObjects(node), NoMark)
  BY <1>1 DEF Block, SubsOf
<1>2. ASSUME NEW i, b \in ElementBlocks(p, node, i) PROVE b.type = TypeOf[p] /\ b.sub \in SubsOf(p)
  BY <1>2, ElementBlockIs DEF Block, SubsOf
<1> QED BY <1>1, <1>2, CompositeBlockIs

LEMMA PlainKeys ==
  ASSUME NEW plain, NEW b \in PlainBlocks(plain)
  PROVE  b.type \in Range(PlainType) /\ \A p \in Parents : b.type # TypeOf[p]
<1>1. PICK k \in Plain : \E content : b = Block(PlainType[k], PlainSub[k], 0, "none", content, NoMark)
  BY PlainBlockIs
<1>2. b.type = PlainType[k]
  BY <1>1 DEF Block
<1>3. PlainType[k] \in Range(PlainType)
  BY SplitAssumption DEF Range
<1> QED BY <1>2, <1>3, SplitAssumption

\* The parent of a composite block is told by its key.
LEMMA SameParent ==
  ASSUME NEW p \in Parents, NEW q \in Parents, NEW nodeP, NEW nodeQ,
         NEW b \in SplitComposite(p, nodeP), NEW c \in SplitComposite(q, nodeQ),
         b.type = c.type, b.sub = c.sub
  PROVE  p = q
BY CompositeKeys, SplitAssumption

\* The place of an element gives its blocks their sequence.
LEMMA SamePlace ==
  ASSUME NEW p, NEW node, NodeOf(p, node),
         NEW i \in DOMAIN node.elements, NEW j \in DOMAIN node.elements,
         SequenceNo(node, i) = SequenceNo(node, j)
  PROVE  i = j
<1>1. PICK n \in Nat : /\ DOMAIN node.elements = 1..n
                       /\ node.kind \in {"absent", "null"} <=> n = 0 /\ node.kind # "array"
                       /\ node.kind = "object" => n = 1
  BY DEF NodeOf
<1>2. CASE node.kind = "array"
  BY <1>1, <1>2 DEF SequenceNo
<1>3. CASE node.kind # "array"
  <2>1. n = 0 \/ n = 1
    BY <1>1, <1>3 DEF NodeOf
  <2> QED BY <1>1, <2>1
<1> QED BY <1>2, <1>3

LEMMA SameBlock ==
  ASSUME NEW p \in Parents, NEW node, NodeOf(p, node),
         NEW b \in SplitComposite(p, node), NEW c \in SplitComposite(p, node), Key(b) = Key(c)
  PROVE  b = c
<1>1. b.sub = c.sub /\ b.seq = c.seq
  BY DEF Key
<1>2. MainSub[p] # RawSub[p] /\ MainSub[p] \notin SubTypes(p) /\ RawSub[p] \notin SubTypes(p)
  BY SplitAssumption
<1> DEFINE IsRaw(x) == x = Block(TypeOf[p], RawSub[p], 0, p, NonObjects(node), NoMark)
           IsMain(x, i) == x = Block(TypeOf[p], MainSub[p], SequenceNo(node, i), "none",
                                 Fields(p, node.elements[i], Rest), Container(p, node))
           IsSub(x, i, s) == x = Block(TypeOf[p], s, SequenceNo(node, i), "none",
                                   Fields(p, node.elements[i], s), NoMark)
<1>3. ASSUME NEW x \in SplitComposite(p, node)
      PROVE  IsRaw(x) \/ \E i \in DOMAIN node.elements : IsMain(x, i) \/ \E s \in SubTypes(p) : IsSub(x, i, s)
  BY CompositeBlockIs, ElementBlockIs
<1>4. \A x : IsRaw(x) => x.sub = RawSub[p]
  BY DEF Block
<1>5. \A x, i : IsMain(x, i) => x.sub = MainSub[p] /\ x.seq = SequenceNo(node, i)
  BY DEF Block
<1>6. \A x, i, s : IsSub(x, i, s) => x.sub = s /\ x.seq = SequenceNo(node, i)
  BY DEF Block
<1>7. \A i, j \in DOMAIN node.elements : SequenceNo(node, i) = SequenceNo(node, j) => i = j
  BY SamePlace
<1> HIDE DEF IsRaw, IsMain, IsSub
<1>8. CASE IsRaw(b)
  <2>1. IsRaw(c)
    <3>1. c.sub = RawSub[p]
      BY <1>1, <1>4, <1>8
    <3>2. \A j : ~IsMain(c, j)
      BY <1>2, <1>5, <3>1
    <3>3. \A j : \A s \in SubTypes(p) : ~IsSub(c, j, s)
      BY <1>2, <1>6, <3>1
    <3> QED BY <1>3, <3>2, <3>3
  <2> QED BY <1>8, <2>1 DEF IsRaw
<1>9. ASSUME NEW i \in DOMAIN node.elements, IsMain(b, i) PROVE b = c
  <2>1. PICK j \in DOMAIN node.elements : IsMain(c, j)
    <3>1. c.sub = MainSub[p]
      BY <1>1, <1>5, <1>9
    <3>2. ~IsRaw(c) /\ \A j \in DOMAIN node.elements : \A s \in SubTypes(p) : ~IsSub(c, j, s)
      BY <1>2, <1>4, <1>6, <3>1
    <3> QED BY <1>3, <3>2
  <2>2. i = j
    BY <1>1, <1>5, <1>7, <1>9, <2>1
  <2> QED BY <1>9, <2>1, <2>2 DEF IsMain
<1>10. ASSUME NEW i \in DOMAIN node.elements, NEW s \in SubTypes(p), IsSub(b, i, s) PROVE b = c
  <2>1. PICK j \in DOMAIN node.elements : \E t \in SubTypes(p) : IsSub(c, j, t)
    <3>1. c.sub = s /\ s \in SubTypes(p)
      BY <1>1, <1>6, <1>10
    <3>2. ~IsRaw(c) /\ \A j \in DOMAIN node.elements : ~IsMain(c, j)
      BY <1>2, <1>4, <1>5, <3>1
    <3> QED BY <1>3, <3>2
  <2>2. PICK t \in SubTypes(p) : IsSub(c, j, t)
    BY <2>1
  <2>3. i = j /\ s = t
    BY <1>1, <1>6, <1>7, <1>10, <2>2
  <2> QED BY <1>10, <2>2, <2>3 DEF IsSub
<1> QED BY <1>3, <1>8, <1>9, <1>10

\* No two blocks of an order have the same key.
LEMMA KeysAreDistinct ==
  ASSUME NEW plain, NEW node, \A p \in Parents : NodeOf(p, node[p]),
         NEW b \in Made(plain, node), NEW c \in Made(plain, node), Key(b) = Key(c)
  PROVE  b = c
<1>1. b.type = c.type /\ b.sub = c.sub
  BY DEF Key
<1>2. \A x \in Made(plain, node) :
        x \in PlainBlocks(plain) \/ \E p \in Parents : x \in SplitComposite(p, node[p])
  BY DEF Made
<1>3. CASE b \in PlainBlocks(plain)
  <2>1. c \in PlainBlocks(plain)
    BY <1>1, <1>2, <1>3, PlainKeys, CompositeKeys
  <2> DEFINE IsPlain(x, k) == x = Block(PlainType[k], PlainSub[k], 0, "none",
        SectionsIn(plain, {j \in Plain : PlainType[j] = PlainType[k] /\ PlainSub[j] = PlainSub[k]}), NoMark)
  <2>2. PICK k \in Plain : IsPlain(b, k)
    BY <1>3, PlainBlockIs
  <2>3. PICK l \in Plain : IsPlain(c, l)
    BY <2>1, PlainBlockIs
  <2>4. PlainType[k] = PlainType[l] /\ PlainSub[k] = PlainSub[l]
    BY <1>1, <2>2, <2>3 DEF Block
  <2> QED BY <2>2, <2>3, <2>4
<1>4. ASSUME NEW p \in Parents, b \in SplitComposite(p, node[p]) PROVE b = c
  <2>1. PICK q \in Parents : c \in SplitComposite(q, node[q])
    BY <1>1, <1>2, <1>4, PlainKeys, CompositeKeys
  <2>2. p = q
    BY <1>1, <1>4, <2>1, SameParent
  <2> QED BY <1>4, <2>1, <2>2, SameBlock
<1> QED BY <1>2, <1>3, <1>4

\* The store keeps every block.
LEMMA NothingIsDropped ==
  ASSUME NEW plain, NEW node, \A p \in Parents : NodeOf(p, node[p])
  PROVE  ByKey(Made(plain, node)) = Made(plain, node)
<1> DEFINE M == Made(plain, node)
<1>1. \A b, c \in M : Key(b) = Key(c) => b = c
  BY KeysAreDistinct
<1> HIDE DEF M
<1>2. \A b \in M : (CHOOSE c \in M : Key(c) = Key(b)) = b
  BY <1>1
<1> QED BY <1>2 DEF ByKey, M

----------------------------------------------------------------------------
(* What reassemble makes of the blocks of some types.                      *)

\* The sections of those types are found, each in its block.
LEMMA PlainIsFound ==
  ASSUME NEW plain, NEW node, NEW T
  PROVE  PlainFrom(OfTypes(Made(plain, node), T)) =
           [k \in Plain |-> IF PlainType[k] \in T THEN plain[k] ELSE "absent"]
<1> DEFINE bs == OfTypes(Made(plain, node), T)
           found == UNION {b.content : b \in {c \in bs : \E k \in Plain : PlainType[k] = c.type /\ PlainSub[k] = c.sub}}
           Same(k) == {j \in Plain : PlainType[j] = PlainType[k] /\ PlainSub[j] = PlainSub[k]}
           Holder(k) == Block(PlainType[k], PlainSub[k], 0, "none", SectionsIn(plain, Same(k)), NoMark)
<1>1. ASSUME NEW e \in found
      PROVE  \E k \in Plain : e = <<k, plain[k]>> /\ plain[k] # "absent" /\ PlainType[k] \in T
  <2>1. PICK b \in bs : e \in b.content /\ \E k \in Plain : PlainType[k] = b.type
    OBVIOUS
  <2>2. b \in Made(plain, node) /\ b.type \in T
    BY <2>1 DEF OfTypes
  <2>3. b \in PlainBlocks(plain)
    <3>1. \A p \in Parents : b.type # TypeOf[p]
      BY <2>1, SplitAssumption DEF Range
    <3> QED BY <2>2, <3>1, CompositeKeys DEF Made
  <2>4. PICK l \in Plain : b = Holder(l)
    BY <2>3, PlainBlockIs
  <2>5. b.type = PlainType[l] /\ b.content = SectionsIn(plain, Same(l))
    BY <2>4 DEF Block
  <2>6. PICK k \in Same(l) : e = <<k, plain[k]>> /\ plain[k] # "absent"
    BY <2>1, <2>5 DEF SectionsIn
  <2> QED BY <2>2, <2>5, <2>6
<1>2. ASSUME NEW k \in Plain, plain[k] # "absent", PlainType[k] \in T PROVE <<k, plain[k]>> \in found
  <2>1. Holder(k).content = SectionsIn(plain, Same(k)) /\ Holder(k).type = PlainType[k] /\ Holder(k).sub = PlainSub[k]
    BY DEF Block
  <2>2. <<k, plain[k]>> \in Holder(k).content
    <3>1. k \in Same(k)
      OBVIOUS
    <3> QED BY <1>2, <2>1, <3>1 DEF SectionsIn
  <2>3. Holder(k) \in PlainBlocks(plain)
    BY <2>2, PlainBlockIs
  <2>4. Holder(k) \in bs
    BY <1>2, <2>1, <2>3 DEF OfTypes, Made
  <2> HIDE DEF Holder, bs
  <2> QED BY <2>1, <2>2, <2>4
<1> HIDE DEF found
<1>3. ASSUME NEW k \in Plain
      PROVE  (IF \E e \in found : e[1] = k THEN (CHOOSE e \in found : e[1] = k)[2] ELSE "absent") =
               (IF PlainType[k] \in T THEN plain[k] ELSE "absent")
  <2>1. \A e \in found : e[1] = k => e = <<k, plain[k]>> /\ plain[k] # "absent" /\ PlainType[k] \in T
    BY <1>1
  <2>2. CASE PlainType[k] \in T /\ plain[k] # "absent"
    <3>1. <<k, plain[k]>> \in found /\ <<k, plain[k]>>[1] = k /\ <<k, plain[k]>>[2] = plain[k]
      BY <1>2, <2>2
    <3>2. (CHOOSE e \in found : e[1] = k) = <<k, plain[k]>>
      BY <2>1, <3>1
    <3>3. \E e \in found : e[1] = k
      BY <3>1
    <3>4. (CHOOSE e \in found : e[1] = k)[2] = plain[k]
      BY <3>1, <3>2
    <3> QED BY <2>2, <3>3, <3>4
  <2>3. CASE ~(PlainType[k] \in T /\ plain[k] # "absent")
    <3>1. ~\E e \in found : e[1] = k
      BY <2>1, <2>3
    <3> QED BY <2>3, <3>1
  <2> QED BY <2>2, <2>3
<1> QED BY <1>3 DEF PlainFrom, found

\* An object is all its fields, whatever sub-type each belongs to.
LEMMA FieldsOfElement ==
  ASSUME NEW p \in Parents, NEW e, ElementOf(p, e), e.dict
  PROVE  e.fields = Fields(p, e, Rest) \cup UNION {Fields(p, e, s) : s \in SubTypes(p)}
<1>1. ASSUME NEW f \in e.fields PROVE f \in Fields(p, e, Rest) \cup UNION {Fields(p, e, s) : s \in SubTypes(p)}
  <2>1. f[2] \in DOMAIN SubOf[p]
    BY DEF ElementOf
  <2>2. SubOf[p][f[2]] = Rest \/ SubOf[p][f[2]] \in SubTypes(p)
    BY <2>1 DEF SubTypes, Range
  <2>3. f \in Fields(p, e, SubOf[p][f[2]])
    BY DEF Fields
  <2> QED BY <2>2, <2>3
<1> QED BY <1>1 DEF Fields

\* What a block says of the section it comes from: nothing, that it holds what
\* is no object, or that it is part of an object.
LEMMA BlockForms ==
  ASSUME NEW plain, NEW node, NEW b \in Made(plain, node)
  PROVE  \/ b.mark = NoMark /\ b.section = "none" /\ \A p \in Parents : b.type # TypeOf[p]
         \/ \E q \in Parents : /\ b \in RawBlocks(q, node[q]) /\ b.type = TypeOf[q]
                              /\ b.mark = NoMark /\ b.section = q /\ b.sub = RawSub[q]
         \/ \E q \in Parents : \E i \in DOMAIN node[q].elements :
              /\ node[q].elements[i].dict /\ b \in ElementBlocks(q, node[q], i)
              /\ b.type = TypeOf[q] /\ b.section = "none"
              /\ \/ b.mark = NoMark /\ b.sub \in SubTypes(q)
                 \/ b.mark = Container(q, node[q])
<1>1. CASE b \in PlainBlocks(plain)
  <2>1. PICK k \in Plain : \E content : b = Block(PlainType[k], PlainSub[k], 0, "none", content, NoMark)
    BY <1>1, PlainBlockIs
  <2>2. b.mark = NoMark /\ b.section = "none"
    BY <2>1 DEF Block
  <2> QED BY <1>1, <2>2, PlainKeys
<1>2. ASSUME NEW q \in Parents, b \in RawBlocks(q, node[q])
      PROVE  b.type = TypeOf[q] /\ b.mark = NoMark /\ b.section = q /\ b.sub = RawSub[q]
  BY <1>2 DEF RawBlocks, Block
<1>3. ASSUME NEW q \in Parents, NEW i, b \in ElementBlocks(q, node[q], i)
      PROVE  /\ b.type = TypeOf[q] /\ b.section = "none"
             /\ \/ b.mark = NoMark /\ b.sub \in SubTypes(q)
                \/ b.mark = Container(q, node[q])
  <2>1. ASSUME NEW t \in SubTypes(q),
               b = Block(TypeOf[q], t, SequenceNo(node[q], i), "none", Fields(q, node[q].elements[i], t), NoMark)
        PROVE  b.type = TypeOf[q] /\ b.section = "none" /\ b.mark = NoMark /\ b.sub \in SubTypes(q)
    BY <2>1 DEF Block
  <2>2. ASSUME b = Block(TypeOf[q], MainSub[q], SequenceNo(node[q], i), "none",
                         Fields(q, node[q].elements[i], Rest), Container(q, node[q]))
        PROVE  b.type = TypeOf[q] /\ b.section = "none" /\ b.mark = Container(q, node[q])
    BY <2>2 DEF Block
  <2> QED BY <1>3, <2>1, <2>2, ElementBlockIs
<1>4. CASE \E q \in Parents : b \in SplitComposite(q, node[q])
  <2>1. PICK q \in Parents : b \in SplitComposite(q, node[q])
    BY <1>4
  <2>2. b \in RawBlocks(q, node[q])
        \/ \E i \in DOMAIN node[q].elements : node[q].elements[i].dict /\ b \in ElementBlocks(q, node[q], i)
    BY <2>1 DEF SplitComposite, IsObject
  <2> QED BY <1>2, <1>3, <2>2
<1> QED BY <1>1, <1>4 DEF Made

LEMMA MarksName ==
  ASSUME NEW p \in Parents
  PROVE  NoMark.parent # p /\ "none" # p /\ \A q, x : Container(q, x).parent = q
BY SplitAssumption DEF NoMark, Container

\* The parts of a parent are the blocks of its objects.
LEMMA PartsAre ==
  ASSUME NEW plain, NEW node, NEW T, NEW p \in Parents, TypeOf[p] \in T, NEW b
  PROVE  b \in PartsOf(p, OfTypes(Made(plain, node), T)) <=>
           \E i \in DOMAIN node[p].elements : node[p].elements[i].dict /\ b \in ElementBlocks(p, node[p], i)
<1>1. ASSUME b \in Made(plain, node),
             b.mark.parent = p \/ (b.mark = NoMark /\ b.type = TypeOf[p] /\ b.sub \in SubTypes(p))
      PROVE  \E i \in DOMAIN node[p].elements : node[p].elements[i].dict /\ b \in ElementBlocks(p, node[p], i)
  <2>1. ASSUME NEW q \in Parents, b.mark = Container(q, node[q]) PROVE q = p
    BY <1>1, <2>1, MarksName
  <2>2. ASSUME NEW q \in Parents, b.mark = NoMark, b.type = TypeOf[q], b.sub \in SubsOf(q)
        PROVE  q = p /\ b.sub # RawSub[q]
    <3>1. b.type = TypeOf[p] /\ b.sub \in SubTypes(p) /\ b.sub \in SubsOf(p)
      BY <1>1, <2>2, MarksName DEF SubsOf
    <3>2. q = p
      BY <2>2, <3>1, SplitAssumption
    <3> QED BY <3>1, <3>2, SplitAssumption
  <2>3. ~(b.mark = NoMark /\ \A q \in Parents : b.type # TypeOf[q])
    BY <1>1, MarksName
  <2>4. \A q : RawSub[q] \in SubsOf(q) /\ SubTypes(q) \subseteq SubsOf(q)
    BY DEF SubsOf
  <2>5. PICK q \in Parents : \E i \in DOMAIN node[q].elements :
              /\ node[q].elements[i].dict /\ b \in ElementBlocks(q, node[q], i)
              /\ b.type = TypeOf[q]
              /\ \/ b.mark = NoMark /\ b.sub \in SubTypes(q)
                 \/ b.mark = Container(q, node[q])
    BY <1>1, <2>2, <2>3, <2>4, BlockForms
  <2>6. q = p
    BY <2>1, <2>2, <2>4, <2>5
  <2> QED BY <2>5, <2>6
<1>2. ASSUME NEW i \in DOMAIN node[p].elements, node[p].elements[i].dict, b \in ElementBlocks(p, node[p], i)
      PROVE  b \in PartsOf(p, OfTypes(Made(plain, node), T))
  <2>1. b \in SplitComposite(p, node[p])
    BY <1>2, CompositeBlockIs
  <2>2. b \in OfTypes(Made(plain, node), T) /\ b.type = TypeOf[p]
    BY <2>1, CompositeKeys DEF OfTypes, Made
  <2>3. (b.mark = NoMark /\ b.sub \in SubTypes(p)) \/ b.mark.parent = p
    BY <1>2, ElementBlockIs, MarksName DEF Block
  <2> QED BY <2>2, <2>3 DEF PartsOf
<1> QED BY <1>1, <1>2 DEF PartsOf, OfTypes

\* The main block of an object carries the marker of its section.
LEMMA MarksAre ==
  ASSUME NEW plain, NEW node, NEW p \in Parents, NEW b \in Made(plain, node), b.mark.parent = p
  PROVE  b.mark = Container(p, node[p])
<1>1. b.mark # NoMark
  BY MarksName
<1>2. PICK q \in Parents : b.mark = Container(q, node[q])
  BY <1>1, BlockForms
<1>3. q = p
  BY <1>2, MarksName
<1> QED BY <1>2, <1>3

LEMMA RawAre ==
  ASSUME NEW plain, NEW node, NEW T, NEW p \in Parents, TypeOf[p] \in T, NEW b
  PROVE  b \in OfTypes(Made(plain, node), T) /\ b.section = p <=> b \in RawBlocks(p, node[p])
<1>1. ASSUME b \in Made(plain, node), b.section = p PROVE b \in RawBlocks(p, node[p])
  BY <1>1, BlockForms, MarksName
<1>2. ASSUME b \in RawBlocks(p, node[p]) PROVE b \in OfTypes(Made(plain, node), T) /\ b.section = p
  <2>1. b \in SplitComposite(p, node[p]) /\ b.section = p
    BY <1>2 DEF SplitComposite, RawBlocks, Block
  <2> QED BY <2>1, CompositeKeys DEF OfTypes, Made
<1> QED BY <1>1, <1>2 DEF OfTypes

\* The blocks of one element are its fields.
LEMMA FieldsOfBlocks ==
  ASSUME NEW p \in Parents, NEW node, NEW i, ElementOf(p, node.elements[i]), node.elements[i].dict
  PROVE  UNION {b.content : b \in ElementBlocks(p, node, i)} = node.elements[i].fields
<1> DEFINE e == node.elements[i]
           main == Block(TypeOf[p], MainSub[p], SequenceNo(node, i), "none", Fields(p, e, Rest),
                         Container(p, node))
           sub(s) == Block(TypeOf[p], s, SequenceNo(node, i), "none", Fields(p, e, s), NoMark)
<1>1. e.fields = Fields(p, e, Rest) \cup UNION {Fields(p, e, s) : s \in SubTypes(p)}
  BY FieldsOfElement
<1>2. main.content = Fields(p, e, Rest) /\ \A s : sub(s).content = Fields(p, e, s)
  BY DEF Block
<1>3. \A b : b \in ElementBlocks(p, node, i) <=> b = main \/ \E s \in SubTypes(p) : b = sub(s) /\ Fields(p, e, s) # {}
  BY DEF ElementBlocks, MainSubType
<1> HIDE DEF main, sub, e
<1>4. ASSUME NEW b \in ElementBlocks(p, node, i) PROVE b.content \subseteq e.fields
  BY <1>1, <1>2, <1>3
<1>5. ASSUME NEW f \in e.fields PROVE \E b \in ElementBlocks(p, node, i) : f \in b.content
  <2>1. CASE f \in Fields(p, e, Rest)
    BY <1>2, <1>3, <2>1
  <2>2. ASSUME NEW s \in SubTypes(p), f \in Fields(p, e, s) PROVE \E b \in ElementBlocks(p, node, i) : f \in b.content
    BY <1>2, <1>3, <2>2
  <2> QED BY <1>1, <2>1, <2>2
<1> QED BY <1>4, <1>5 DEF e

\* The blocks of a section of another type are none of these.
LEMMA OtherTypes ==
  ASSUME NEW plain, NEW node, NEW T, NEW p \in Parents, TypeOf[p] \notin T
  PROVE  NodeFrom(p, OfTypes(Made(plain, node), T)) = Absent
<1> DEFINE bs == OfTypes(Made(plain, node), T)
           more == OfTypes(Made(plain, node), T \cup {TypeOf[p]})
<1>1. bs \subseteq more /\ \A b \in bs : b.type # TypeOf[p]
  BY DEF OfTypes
<1>2. \A b \in PartsOf(p, more) : b.type = TypeOf[p]
  <2>1. ASSUME NEW b \in PartsOf(p, more) PROVE b.type = TypeOf[p]
    <3>1. PICK i \in DOMAIN node[p].elements : node[p].elements[i].dict /\ b \in ElementBlocks(p, node[p], i)
      <4>1. TypeOf[p] \in T \cup {TypeOf[p]}
        OBVIOUS
      <4> QED BY <4>1, PartsAre
    <3>2. b \in SplitComposite(p, node[p])
      BY <3>1, CompositeBlockIs
    <3> QED BY <3>2, CompositeKeys
  <2> QED BY <2>1
<1>3. \A b \in more : b.section = p => b.type = TypeOf[p]
  <2>1. ASSUME NEW b \in more, b.section = p PROVE b.type = TypeOf[p]
    <3>1. b \in RawBlocks(p, node[p])
      BY <2>1, RawAre
    <3> QED BY <3>1, CompositeKeys DEF SplitComposite
  <2> QED BY <2>1
<1>4. PartsOf(p, bs) = {}
  BY <1>1, <1>2 DEF PartsOf
<1>5. {b \in bs : b.section = p} = {}
  BY <1>1, <1>3
<1> HIDE DEF bs
<1> QED BY <1>4, <1>5 DEF NodeFrom, bs

\* A regular section is what reassemble makes of its blocks.
LEMMA NodeIsBack ==
  ASSUME NEW plain, NEW node, NEW T, NEW p \in Parents, TypeOf[p] \in T,
         NodeOf(p, node[p]), Regular(node[p]), node[p].kind # "null"
  PROVE  NodeFrom(p, OfTypes(Made(plain, node), T)) = node[p]
<1> DEFINE bs == OfTypes(Made(plain, node), T)
           x == node[p]
           objects == {j \in DOMAIN x.elements : x.elements[j].dict}
           parts == PartsOf(p, bs)
           raw == {b \in bs : b.section = p}
<1>1. /\ parts = UNION {ElementBlocks(p, x, i) : i \in objects}
      /\ \A b \in bs : b.mark.parent = p => b.mark = Container(p, x)
      /\ raw = RawBlocks(p, x)
  <2>1. parts = UNION {ElementBlocks(p, x, i) : i \in objects}
    <3>1. \A b : b \in parts <=> \E i \in DOMAIN x.elements : x.elements[i].dict /\ b \in ElementBlocks(p, x, i)
      BY PartsAre
    <3> HIDE DEF parts, x
    <3> QED BY <3>1
  <2>2. \A b \in bs : b.mark.parent = p => b.mark = Container(p, x)
    BY MarksAre DEF OfTypes
  <2>3. raw = RawBlocks(p, x)
    <3>1. \A b : b \in bs /\ b.section = p <=> b \in RawBlocks(p, x)
      BY RawAre
    <3> HIDE DEF bs, x
    <3> QED BY <3>1
  <2> QED BY <2>1, <2>2, <2>3
<1>2. PICK n \in Nat : /\ DOMAIN x.elements = 1..n
                       /\ x.elements = [i \in 1..n |-> x.elements[i]]
                       /\ x.kind \in {"absent", "null"} <=> n = 0 /\ x.kind # "array"
                       /\ x.kind = "object" => n = 1 /\ x.elements[1].dict
  BY DEF NodeOf
<1>3. /\ x = [kind |-> x.kind, elements |-> x.elements]
      /\ x.kind \in {"absent", "array", "object"}
      /\ \A i \in 1..n : ElementOf(p, x.elements[i])
      /\ \A i, j \in 1..n : x.elements[i].dict = x.elements[j].dict
      /\ x # Array(<<>>)
  BY <1>2 DEF NodeOf, Regular
<1>4. NodeFrom(p, bs) =
        CASE parts # {} /\ IsArray(p, bs) ->
               Array([i \in 1..Cardinality({b.seq : b \in parts}) |-> ElementAt(parts, Nth({b.seq : b \in parts}, i))])
          [] parts # {} /\ ~IsArray(p, bs) -> Object([dict |-> TRUE, fields |-> UNION {b.content : b \in parts}])
          [] parts = {} /\ raw # {} -> Array((CHOOSE b \in raw : TRUE).content)
          [] OTHER -> Absent
  BY DEF NodeFrom
<1>5. \A i \in objects : \E b \in parts : b.mark.parent = p /\ b \in ElementBlocks(p, x, i)
  <2>1. ASSUME NEW i \in objects PROVE \E b \in ElementBlocks(p, x, i) : b.mark.parent = p
    <3> DEFINE main == Block(TypeOf[p], MainSub[p], SequenceNo(x, i), "none", Fields(p, x.elements[i], Rest),
                             Container(p, x))
    <3>1. main \in ElementBlocks(p, x, i)
      BY ElementBlockIs
    <3>2. main.mark.parent = p
      BY DEF Block, Container
    <3> QED BY <3>1, <3>2
  <2> QED BY <1>1, <2>1
<1>6. \A i \in objects : \A b \in ElementBlocks(p, x, i) : b.seq = SequenceNo(x, i)
  BY ElementBlockIs DEF Block
<1>7. \A i \in objects : UNION {b.content : b \in ElementBlocks(p, x, i)} = x.elements[i].fields
  BY <1>2, <1>3, FieldsOfBlocks
<1>8. parts \subseteq bs
  BY DEF PartsOf
<1> HIDE DEF bs, x, parts, raw
<1>9. CASE n = 0
  <2>1. x.kind = "absent"
    <3>1. ASSUME x.kind = "array" PROVE FALSE
      <4>1. x.elements = <<>>
        BY <1>2, <1>9
      <4> QED BY <1>3, <3>1, <4>1 DEF Array
    <3> QED BY <1>2, <1>3, <1>9, <3>1
  <2>2. x = Absent
    <3>1. x.elements = <<>>
      BY <1>2, <1>9
    <3> QED BY <1>3, <2>1, <3>1 DEF Absent
  <2>3. parts = {}
    BY <1>1, <1>2, <1>9
  <2>4. raw = {}
    <3>1. {i \in DOMAIN x.elements : ~x.elements[i].dict} = {}
      BY <1>2, <1>9
    <3>2. NonObjects(x) = [i \in 1..0 |-> x.elements[Nth({}, i)]]
      BY <3>1, FS_EmptySet DEF NonObjects, IsObject
    <3>3. NonObjects(x) = <<>>
      BY <3>2
    <3> QED BY <1>1, <3>3 DEF RawBlocks
  <2> QED BY <1>4, <2>2, <2>3, <2>4 DEF x, bs
<1>10. CASE n > 0 /\ ~x.elements[1].dict
  <2>1. \A i \in 1..n : ~x.elements[i].dict
    BY <1>3, <1>10
  <2>2. parts = {}
    BY <1>1, <1>2, <2>1
  <2>3. NonObjects(x) = x.elements
    <3>1. {i \in DOMAIN x.elements : ~x.elements[i].dict} = 1..n
      BY <1>2, <2>1
    <3>2. NonObjects(x) = [i \in 1..n |-> x.elements[Nth(1..n, i)]]
      BY <3>1, NthOfPlaces DEF NonObjects, IsObject
    <3>3. \A i \in 1..n : Nth(1..n, i) = i
      BY NthOfPlaces
    <3> QED BY <1>2, <3>2, <3>3
  <2>4. x.elements # <<>>
    BY <1>2, <1>10
  <2>5. raw = {Block(TypeOf[p], RawSub[p], 0, p, x.elements, NoMark)}
    BY <1>1, <2>3, <2>4 DEF RawBlocks
  <2>6. (CHOOSE b \in raw : TRUE).content = x.elements
    <3> DEFINE c == Block(TypeOf[p], RawSub[p], 0, p, x.elements, NoMark)
    <3>1. c.content = x.elements
      BY DEF Block
    <3> HIDE DEF c
    <3>2. raw = {c}
      BY <2>5 DEF c
    <3>3. (CHOOSE b \in raw : TRUE) = c
      BY <3>2
    <3> QED BY <3>1, <3>3
  <2>7. x.kind = "array"
    BY <1>2, <1>3, <1>10
  <2>8. NodeFrom(p, bs) = Array(x.elements)
    BY <1>4, <2>2, <2>5, <2>6
  <2> QED BY <1>3, <2>7, <2>8 DEF Array, bs, x
<1>11. CASE n > 0 /\ x.elements[1].dict
  <2>1. objects = 1..n
    BY <1>2, <1>3, <1>11
  <2>2. parts # {} /\ (IsArray(p, bs) <=> x.kind = "array")
    <3>1. 1 \in objects
      BY <1>11, <2>1
    <3>2. PICK b \in parts : b.mark.parent = p
      BY <1>5, <3>1
    <3>3. b.mark = Container(p, x)
      BY <1>1, <1>8, <3>2
    <3>4. Container(p, x).isArray <=> x.kind = "array"
      BY DEF Container
    <3>5. IsArray(p, bs) <=> Container(p, x).isArray
      BY <1>1, <1>8, <3>2, <3>3 DEF IsArray
    <3> QED BY <3>2, <3>4, <3>5
  <2>3. CASE x.kind = "object"
    <3>1. n = 1
      BY <1>2, <2>3
    <3>2. parts = ElementBlocks(p, x, 1)
      BY <1>1, <2>1, <3>1
    <3>3. UNION {b.content : b \in parts} = x.elements[1].fields
      BY <1>7, <2>1, <3>1, <3>2
    <3>4. NodeFrom(p, bs) = Object([dict |-> TRUE, fields |-> x.elements[1].fields])
      BY <1>4, <2>2, <2>3, <3>3
    <3>5. x.elements[1] = [dict |-> TRUE, fields |-> x.elements[1].fields]
      <4>1. ElementOf(p, x.elements[1])
        BY <1>3, <3>1
      <4>2. x.elements[1].dict = TRUE
        BY <1>11, <4>1 DEF ElementOf
      <4> QED BY <4>1, <4>2 DEF ElementOf
    <3>6. x.elements = <<x.elements[1]>>
      BY <1>2, <3>1
    <3> QED BY <1>3, <2>3, <3>4, <3>5, <3>6 DEF Object, bs, x
  <2>4. CASE x.kind = "array"
    <3>1. \A i \in 1..n : SequenceNo(x, i) = i - 1
      BY <2>4 DEF SequenceNo
    <3>2. \A b \in parts : \E i \in 1..n : b \in ElementBlocks(p, x, i) /\ b.seq = i - 1
      BY <1>1, <1>6, <2>1, <3>1
    <3>3. {b.seq : b \in parts} = 0..(n - 1)
      <4>1. ASSUME NEW m \in 0..(n - 1) PROVE \E b \in parts : b.seq = m
        <5>1. m + 1 \in objects /\ (m + 1) - 1 = m
          BY <2>1
        <5>2. PICK b \in parts : b \in ElementBlocks(p, x, m + 1)
          BY <1>5, <5>1
        <5> QED BY <1>6, <2>1, <3>1, <5>1, <5>2
      <4>2. \A b \in parts : b.seq \in 0..(n - 1)
        BY <3>2
      <4> QED BY <4>1, <4>2
    <3>4. ASSUME NEW i \in 1..n PROVE ElementAt(parts, i - 1) = x.elements[i]
      <4>1. {c \in parts : c.seq = i - 1} = ElementBlocks(p, x, i)
        <5>1. ASSUME NEW c \in parts, c.seq = i - 1 PROVE c \in ElementBlocks(p, x, i)
          <6>1. PICK j \in 1..n : c \in ElementBlocks(p, x, j) /\ c.seq = j - 1
            BY <3>2
          <6>2. j = i
            BY <5>1, <6>1
          <6> QED BY <6>1, <6>2
        <5> QED BY <1>1, <1>6, <2>1, <3>1, <5>1
      <4>2. ElementAt(parts, i - 1) = [dict |-> TRUE, fields |-> x.elements[i].fields]
        BY <1>7, <2>1, <4>1 DEF ElementAt
      <4>3. x.elements[i].dict = TRUE
        BY <1>3, <1>11, <2>1 DEF ElementOf
      <4> QED BY <1>3, <4>2, <4>3 DEF ElementOf
    <3>5. NodeFrom(p, bs) = Array([i \in 1..n |-> ElementAt(parts, Nth(0..(n - 1), i))])
      <4>1. NodeFrom(p, bs) = Array([i \in 1..Cardinality(0..(n - 1)) |-> ElementAt(parts, Nth(0..(n - 1), i))])
        BY <1>4, <2>2, <2>4, <3>3
      <4> QED BY <4>1, NthOfPlaces
    <3>6. [i \in 1..n |-> ElementAt(parts, Nth(0..(n - 1), i))] = x.elements
      <4>1. \A i \in 1..n : ElementAt(parts, Nth(0..(n - 1), i)) = x.elements[i]
        BY <3>4, NthOfPlaces
      <4> QED BY <1>2, <4>1
    <3> QED BY <1>3, <2>4, <3>5, <3>6 DEF Array, bs, x
  <2>5. x.kind # "absent"
    BY <1>2, <1>11
  <2> QED BY <1>3, <2>3, <2>4, <2>5
<1> QED BY <1>9, <1>10, <1>11

----------------------------------------------------------------------------
(* The three steps.                                                        *)

DocumentTyped ==
  /\ obj = [plain |-> obj.plain, node |-> obj.node]
  /\ obj.plain \in PlainSections
  /\ obj.node = [p \in Parents |-> obj.node[p]]
  /\ \A p \in Parents : NodeOf(p, obj.node[p])

\* The store has the blocks of the document, all of them, and what was read is
\* what the reads make of them.
SplitInv ==
  /\ DocumentTyped
  /\ at \in {"stored", "read"} =>
       /\ \A p \in Parents : obj.node[p].kind # "null"
       /\ blocks = Made(obj.plain, obj.node)
  /\ at = "read" =>
       /\ back.full = Reassemble(blocks)
       /\ \A t \in Types : /\ back.of[t] = Reassemble(OneType(blocks, t))
                            /\ back.sql[t] = SqlBlock(t)
                            /\ back.mongo[t] = MongoBlock(t)

LEMMA SplitInitInv == SplitInit => SplitInv
<1> SUFFICES ASSUME SplitInit PROVE SplitInv
  OBVIOUS
<1>1. PICK plain \in PlainSections : \E node \in CompositeSections : obj = [plain |-> plain, node |-> node]
  BY DEF SplitInit
<1>2. PICK node \in CompositeSections : obj = [plain |-> plain, node |-> node]
  BY <1>1
<1>3. obj.plain = plain /\ obj.node = node
  BY <1>2
<1>4. node = [p \in Parents |-> node[p]] /\ \A p \in Parents : NodeOf(p, node[p])
  BY NodesAreTyped DEF CompositeSections
<1>5. at = "parsed"
  BY DEF SplitInit
<1> QED BY <1>2, <1>3, <1>4, <1>5 DEF SplitInv, DocumentTyped

LEMMA SplitStep == SplitInv /\ [SplitNext]_splitVars => SplitInv'
<1> SUFFICES ASSUME SplitInv, [SplitNext]_splitVars PROVE SplitInv'
  OBVIOUS
<1>1. obj' = obj
  BY DEF SplitNext, Split, SplitFails, Read, splitVars
<1>2. DocumentTyped'
  BY <1>1 DEF SplitInv, DocumentTyped
<1>3. CASE Split
  <2>1. blocks' = ByKey(Made(obj.plain, obj.node)) /\ at' = "stored"
    BY <1>3 DEF Split, Made
  <2>2. blocks' = Made(obj.plain, obj.node)
    BY <2>1, NothingIsDropped DEF SplitInv, DocumentTyped
  <2>3. \A p \in Parents : obj.node[p].kind # "null"
    BY <1>3 DEF Split
  <2> QED BY <1>1, <1>2, <2>1, <2>2, <2>3 DEF SplitInv
<1>4. CASE SplitFails
  <2>1. at' = "failed"
    BY <1>4 DEF SplitFails
  <2> QED BY <1>2, <2>1 DEF SplitInv
<1>5. CASE Read
  <2>1. at = "stored" /\ at' = "read" /\ blocks' = blocks
    BY <1>5 DEF Read
  <2>2. back' = [full  |-> Reassemble(blocks),
                 of    |-> [t \in Types |-> Reassemble(OneType(blocks, t))],
                 sql   |-> [t \in Types |-> SqlBlock(t)],
                 mongo |-> [t \in Types |-> MongoBlock(t)]]
    BY <1>5 DEF Read
  <2>3. \A t \in Types : /\ back'.of[t] = Reassemble(OneType(blocks, t))
                         /\ back'.sql[t] = SqlBlock(t)
                         /\ back'.mongo[t] = MongoBlock(t)
    BY <2>2
  <2>4. \A t \in Types : SqlBlock(t)' = SqlBlock(t) /\ MongoBlock(t)' = MongoBlock(t)
    BY <1>1 DEF SqlBlock, MongoBlock, SectionsForBlock, Sections, Queried, BlockKeys
  <2>5. back'.full = Reassemble(blocks)
    BY <2>2
  <2>6. \A p \in Parents : obj.node[p].kind # "null"
    BY <2>1 DEF SplitInv
  <2>7. blocks = Made(obj.plain, obj.node)
    BY <2>1 DEF SplitInv
  <2> QED BY <1>1, <1>2, <2>1, <2>3, <2>4, <2>5, <2>6, <2>7 DEF SplitInv
<1>6. CASE UNCHANGED splitVars
  BY <1>6 DEF splitVars, SplitInv, DocumentTyped, SqlBlock, MongoBlock, SectionsForBlock, Sections, Queried, BlockKeys
<1> QED BY <1>3, <1>4, <1>5, <1>6 DEF SplitNext

LEMMA SplitInvHolds == SplitSpec => []SplitInv
BY SplitInitInv, SplitStep, PTL DEF SplitSpec

\* What a read makes of the blocks of some types is the sections of those types.
LEMMA ReadIsOfTypes ==
  ASSUME SplitInv, at = "read", RegularDocument, NEW T
  PROVE  Reassemble(OfTypes(blocks, T)) =
           Sections({k \in Plain : PlainType[k] \in T}, {p \in Parents : TypeOf[p] \in T})
<1>1. blocks = Made(obj.plain, obj.node) /\ \A p \in Parents : obj.node[p].kind # "null" /\ NodeOf(p, obj.node[p])
  BY DEF SplitInv, DocumentTyped
<1>2. PlainFrom(OfTypes(blocks, T)) = [k \in Plain |-> IF PlainType[k] \in T THEN obj.plain[k] ELSE "absent"]
  BY <1>1, PlainIsFound
<1>3. ASSUME NEW p \in Parents
      PROVE  NodeFrom(p, OfTypes(blocks, T)) = IF TypeOf[p] \in T THEN obj.node[p] ELSE Absent
  <2>1. Regular(obj.node[p])
    BY DEF RegularDocument
  <2>2. CASE TypeOf[p] \in T
    BY <1>1, <2>1, <2>2, NodeIsBack
  <2>3. CASE TypeOf[p] \notin T
    BY <1>1, <2>3, OtherTypes
  <2> QED BY <2>2, <2>3
<1> DEFINE P == {k \in Plain : PlainType[k] \in T}
           Q == {p \in Parents : TypeOf[p] \in T}
<1>4. PlainFrom(OfTypes(blocks, T)) = [k \in Plain |-> IF k \in P THEN obj.plain[k] ELSE "absent"]
  BY <1>2
<1>5. [p \in Parents |-> NodeFrom(p, OfTypes(blocks, T))] = [p \in Parents |-> IF p \in Q THEN obj.node[p] ELSE Absent]
  BY <1>3
<1> HIDE DEF P, Q
<1>6. Reassemble(OfTypes(blocks, T)) = Sections(P, Q)
  BY <1>4, <1>5 DEF Reassemble, Sections
<1> QED BY <1>6 DEF P, Q

\* Whole documents: the projection of a type has its sections and no others.
LEMMA ProjectionIsOfType ==
  ASSUME NEW t \in Types
  PROVE  /\ SectionsForBlock(t) = Sections({k \in Plain : PlainType[k] = t}, {p \in Parents : TypeOf[p] = t})
         /\ t \in {"MISC", "ORDER"} => BlockKeys(t) = {}
         /\ t \notin {"MISC", "ORDER"} => /\ BlockKeys(t) \cap Plain = {k \in Plain : PlainType[k] = t}
                                          /\ BlockKeys(t) \cap Parents = {p \in Parents : TypeOf[p] = t}
<1>1. CASE t \in {"MISC", "ORDER"}
  <2>1. {p \in Parents : TypeOf[p] = t} = {}
    BY <1>1, SplitAssumption
  <2>2. BlockKeys(t) = {}
    BY <1>1, <2>1 DEF BlockKeys, NamedPlain
  <2>3. Plain \ MiscExcluded = {k \in Plain : PlainType[k] = "MISC"}
    BY DEF MiscExcluded, NamedPlain, HeaderKeys
  <2>4. HeaderKeys = {k \in Plain : PlainType[k] = "ORDER"}
    BY DEF HeaderKeys
  <2> QED BY <1>1, <2>1, <2>2, <2>3, <2>4 DEF SectionsForBlock
<1>2. CASE t \notin {"MISC", "ORDER"}
  <2>1. BlockKeys(t) \cap Plain = {k \in Plain : PlainType[k] = t}
    BY <1>2, SplitAssumption DEF BlockKeys, NamedPlain
  <2>2. BlockKeys(t) \cap Parents = {p \in Parents : TypeOf[p] = t}
    BY <1>2, SplitAssumption DEF BlockKeys, NamedPlain
  <2> QED BY <1>2, <2>1, <2>2 DEF SectionsForBlock
<1> QED BY <1>1, <1>2

\* JSON_QUERY finds every section that is there, if none is null or a scalar.
LEMMA QueryIsProjection ==
  ASSUME DocumentTyped, NEW t \in Types, Structured(t)
  PROVE  SqlBlock(t) = SectionsForBlock(t)
<1>1. CASE BlockKeys(t) = {}
  BY <1>1 DEF SqlBlock
<1>2. CASE BlockKeys(t) # {}
  <2> DEFINE found == {k \in BlockKeys(t) : Queried(k)}
             P == BlockKeys(t) \cap Plain
             Q == BlockKeys(t) \cap Parents
  <2>1. SectionsForBlock(t) = Sections(P, Q)
    BY <1>2, ProjectionIsOfType
  <2>2. SqlBlock(t) = Sections(found \cap Plain, found \cap Parents)
    BY <1>2 DEF SqlBlock
  <2>3. ASSUME NEW k \in Plain
        PROVE  (IF k \in found \cap Plain THEN obj.plain[k] ELSE "absent") = (IF k \in P THEN obj.plain[k] ELSE "absent")
    <3>1. k \in P => obj.plain[k] \in {"absent", "structure"}
      BY DEF Structured, DocumentTyped, PlainSections
    <3>2. k \notin Parents
      BY SplitAssumption
    <3> QED BY <3>1, <3>2 DEF Queried
  <2>4. ASSUME NEW p \in Parents
        PROVE  (IF p \in found \cap Parents THEN obj.node[p] ELSE Absent) = (IF p \in Q THEN obj.node[p] ELSE Absent)
    <3>1. p \in Q => obj.node[p].kind # "null"
      BY DEF Structured
    <3>2. p \in Q /\ p \notin found => obj.node[p].kind = "absent"
      BY <3>1 DEF DocumentTyped, NodeOf, Queried
    <3>3. obj.node[p].kind = "absent" => obj.node[p] = Absent
      <4>1. ASSUME obj.node[p].kind = "absent" PROVE obj.node[p] = Absent
        <5>1. obj.node[p] = [kind |-> "absent", elements |-> obj.node[p].elements]
          BY <4>1 DEF DocumentTyped, NodeOf
        <5>2. PICK n \in Nat : n = 0 /\ obj.node[p].elements = [i \in 1..n |-> obj.node[p].elements[i]]
          BY <4>1 DEF DocumentTyped, NodeOf
        <5>3. obj.node[p].elements = <<>>
          BY <5>2
        <5> QED BY <5>1, <5>3 DEF Absent
      <4> QED BY <4>1
    <3> QED BY <3>2, <3>3
  <2> HIDE DEF found, P, Q
  <2>5. Sections(found \cap Plain, found \cap Parents) = Sections(P, Q)
    BY <2>3, <2>4 DEF Sections
  <2> QED BY <2>1, <2>2, <2>5
<1> QED BY <1>1, <1>2

\* Splitting loses nothing of a regular document, whatever its sections,
\* elements and fields.
THEOREM RegularRoundTripHolds == SplitSpec => []RegularRoundTrip
<1>1. SplitInv => RegularRoundTrip
  <2> SUFFICES ASSUME SplitInv, at = "read", RegularDocument PROVE back.full = obj
    BY DEF RegularRoundTrip
  <2> DEFINE T == Types \cup {b.type : b \in blocks}
  <2>1. OfTypes(blocks, T) = blocks
    BY DEF OfTypes
  <2>2. {k \in Plain : PlainType[k] \in T} = Plain /\ {p \in Parents : TypeOf[p] \in T} = Parents
    BY SplitAssumption DEF Types, Range
  <2>3. Reassemble(blocks) = Sections(Plain, Parents)
    BY <2>1, <2>2, ReadIsOfTypes
  <2>4. Sections(Plain, Parents) = [plain |-> [k \in Plain |-> obj.plain[k]], node |-> [p \in Parents |-> obj.node[p]]]
    BY DEF Sections
  <2>5. obj = [plain |-> [k \in Plain |-> obj.plain[k]], node |-> [p \in Parents |-> obj.node[p]]]
    BY DEF SplitInv, DocumentTyped, PlainSections
  <2> QED BY <2>3, <2>4, <2>5 DEF SplitInv
<1> QED BY <1>1, SplitInvHolds, PTL

\* The reads of a block by its blocks, by projection and by JSON_QUERY agree,
\* for every block type and every regular document.
THEOREM BlockReadsAgreeHolds == SplitSpec => []BlockReadsAgree
<1>1. SplitInv => BlockReadsAgree
  <2> SUFFICES ASSUME SplitInv, at = "read", RegularDocument, NEW t \in Types
               PROVE  back.of[t] = back.mongo[t] /\ (Structured(t) => back.of[t] = back.sql[t])
    BY DEF BlockReadsAgree
  <2>1. OneType(blocks, t) = OfTypes(blocks, {t})
    BY DEF OneType, OfTypes
  <2>2. Reassemble(OneType(blocks, t)) = Sections({k \in Plain : PlainType[k] = t}, {p \in Parents : TypeOf[p] = t})
    <3>1. /\ {k \in Plain : PlainType[k] \in {t}} = {k \in Plain : PlainType[k] = t}
          /\ {p \in Parents : TypeOf[p] \in {t}} = {p \in Parents : TypeOf[p] = t}
      OBVIOUS
    <3> QED BY <2>1, <3>1, ReadIsOfTypes
  <2>3. Reassemble(OneType(blocks, t)) = SectionsForBlock(t)
    BY <2>2, ProjectionIsOfType
  <2>4. Structured(t) => SqlBlock(t) = SectionsForBlock(t)
    BY QueryIsProjection DEF SplitInv
  <2> QED BY <2>3, <2>4 DEF SplitInv, MongoBlock
<1> QED BY <1>1, SplitInvHolds, PTL

=============================================================================
