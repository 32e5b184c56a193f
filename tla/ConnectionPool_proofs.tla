------------------------ MODULE ConnectionPool_proofs ------------------------
(***************************************************************************)
(* What holds of the connection pool for every set of threads and every    *)
(* size.  The inductive invariant IInv adds to the properties themselves   *)
(* who holds a connection (HeldInv) and who holds the lock (LockInv).      *)
(***************************************************************************)
EXTENDS ConnectionPool, FiniteSetTheorems, TLAPS

\* A thread holds a connection exactly while it uses or closes one.
HeldInv == \A t \in Threads : held[t] # NoConn <=> pc[t] \in {"using", "closing"}

\* The lock is held across a blocking call only by the thread inside _new().
LockInv == \A t \in Threads : pc[t] = "connecting" <=> lock = t

\* The pool closes only when every thread is out of it.
PhaseInv == phase # "serving" => \A t \in Threads : pc[t] = "out"

IInv ==
  /\ TypeOK
  /\ HeldInv
  /\ LockInv
  /\ PhaseInv
  /\ ExclusiveUse
  /\ SlotAccounting

----------------------------------------------------------------------------
(* Counting the threads at a control point                                 *)

LEMMA AtFinite ==
  ASSUME NEW l PROVE IsFiniteSet(At(l)) /\ Cardinality(At(l)) \in Nat
<1>1. At(l) \subseteq Threads BY DEF At
<1>2. IsFiniteSet(At(l)) BY <1>1, FS_Subset, PoolAssumption
<1>. QED BY <1>2, FS_CardinalityType

LEMMA AtFiniteNext ==
  ASSUME NEW l PROVE IsFiniteSet(At(l)') /\ Cardinality(At(l)') \in Nat
<1>1. At(l)' \subseteq Threads BY DEF At
<1>2. IsFiniteSet(At(l)') BY <1>1, FS_Subset, PoolAssumption
<1>. QED BY <1>2, FS_CardinalityType

LEMMA UnionBound ==
  ASSUME NEW S, NEW T, IsFiniteSet(S), IsFiniteSet(T)
  PROVE  IsFiniteSet(S \cup T) /\ Cardinality(S \cup T) <= Cardinality(S) + Cardinality(T)
<1>1. IsFiniteSet(S \cap T) BY FS_Subset
<1>2. Cardinality(S) \in Nat /\ Cardinality(T) \in Nat /\ Cardinality(S \cap T) \in Nat
  BY <1>1, FS_CardinalityType
<1>3. /\ IsFiniteSet(S \cup T)
      /\ Cardinality(S \cup T) = Cardinality(S) + Cardinality(T) - Cardinality(S \cap T)
  BY FS_Union, Zenon
<1>. QED BY <1>2, <1>3

\* A thread that moves from one control point to another leaves the first
\* count one lower, the second one higher, and every other count as it was.
LEMMA MoveCounts ==
  ASSUME pc \in [Threads -> PCs], NEW t \in Threads, NEW to \in PCs,
         Goto(t, to), pc[t] # to, NEW l
  PROVE  Cardinality(At(l)') =
           IF l = pc[t] THEN Cardinality(At(l)) - 1
           ELSE IF l = to THEN Cardinality(At(l)) + 1
           ELSE Cardinality(At(l))
<1>1. CASE l = pc[t]
  <2>1. At(l)' = At(l) \ {t} BY <1>1 DEF At, Goto
  <2>2. t \in At(l) BY <1>1 DEF At
  <2>. QED BY <1>1, <2>1, <2>2, AtFinite, FS_RemoveElement
<1>2. CASE l # pc[t] /\ l = to
  <2>1. At(l)' = At(l) \cup {t} BY <1>2 DEF At, Goto
  <2>2. t \notin At(l) BY <1>2 DEF At
  <2>. QED BY <1>2, <2>1, <2>2, AtFinite, FS_AddElement
<1>3. CASE l # pc[t] /\ l # to
  <2>1. At(l)' = At(l) BY <1>3 DEF At, Goto
  <2>. QED BY <1>3, <2>1
<1>. QED BY <1>1, <1>2, <1>3

----------------------------------------------------------------------------
(* The invariant is inductive                                              *)

LEMMA InitIInv == Init => IInv
<1> SUFFICES ASSUME Init PROVE IInv OBVIOUS
<1>1. At("using") = {} /\ At("connecting") = {} BY DEF Init, At
<1>2. TypeOK BY PoolAssumption DEF Init, TypeOK, PCs
<1>3. HeldInv /\ LockInv /\ PhaseInv /\ ExclusiveUse
  BY PoolAssumption DEF Init, HeldInv, LockInv, PhaseInv, ExclusiveUse
<1>4. SlotAccounting
  <2>1. Cardinality({}) = 0 BY FS_EmptySet
  <2>2. Len(<<>>) = 0 OBVIOUS
  <2>3. Cardinality(At("using")) = 0 /\ Cardinality(At("connecting")) = 0 BY <1>1, <2>1
  <2>4. created = 0 /\ lost = 0 /\ Len(idle) = 0 BY <2>2 DEF Init
  <2>. QED BY <2>3, <2>4 DEF SlotAccounting
<1>. QED BY <1>2, <1>3, <1>4 DEF IInv

\* The queue and the threads that use or open a connection fit in Size, so a
\* thread that holds one finds room for it.
LEMMA Room == ASSUME TypeOK, SlotAccounting PROVE QueueHasRoom
<1>1. SUFFICES ASSUME At("using") # {} PROVE Len(idle) < Size BY DEF QueueHasRoom
<1>2. Cardinality(At("using")) # 0 BY <1>1, AtFinite, FS_EmptySet
<1>. QED BY <1>2, AtFinite, PoolAssumption DEF TypeOK, SlotAccounting

LEMMA PopStep ==
  ASSUME IInv, NEW t \in Threads, pc[t] \in {"out", "waiting"}, phase = "serving", Pop(t)
  PROVE  IInv'
<1> USE DEF IInv
<1>1. idle # <<>> /\ idle' = Tail(idle) BY DEF Pop, QueueAfterGet
<1>2. /\ Head(idle) \in Conns /\ Head(idle) = idle[1]
      /\ idle' \in Seq(Conns) /\ Len(idle') = Len(idle) - 1
      /\ \A i \in 1..Len(idle') : i + 1 \in 1..Len(idle) /\ idle'[i] = idle[i + 1]
  BY <1>1 DEF TypeOK
<1>3. held' = [held EXCEPT ![t] = Head(idle)] /\ pc' = [pc EXCEPT ![t] = "using"]
  BY DEF Pop, Goto
<1>4. TypeOK' BY <1>2, <1>3, PoolAssumption DEF TypeOK, PCs, Pop
<1>5. HeldInv' BY <1>2, <1>3, PoolAssumption DEF TypeOK, HeldInv
<1>6. LockInv' /\ PhaseInv' BY <1>3 DEF TypeOK, LockInv, PhaseInv, Pop
<1>7. held[t] = NoConn BY DEF HeldInv, TypeOK
<1>8. ExclusiveUse'
  <2>1. 1 \in 1..Len(idle) BY <1>1 DEF TypeOK
  <2>2. \A u \in Threads : held[u] # idle[1] BY <2>1 DEF ExclusiveUse
  <2>3. \A u, w \in Threads : held'[u] = held'[w] /\ held'[u] # NoConn => u = w
    BY <1>2, <1>3, <2>2 DEF ExclusiveUse, TypeOK
  <2>4. \A i, j \in 1..Len(idle') : idle'[i] = idle'[j] => i = j
    <3>1. SUFFICES ASSUME NEW i \in 1..Len(idle'), NEW j \in 1..Len(idle'), idle'[i] = idle'[j]
                   PROVE i = j
      OBVIOUS
    <3>2. i + 1 = j + 1 BY <3>1, <1>2 DEF ExclusiveUse
    <3>. QED BY <3>2
  <2>5. \A u \in Threads, i \in 1..Len(idle') : held'[u] # idle'[i]
    <3>1. SUFFICES ASSUME NEW u \in Threads, NEW i \in 1..Len(idle') PROVE held'[u] # idle'[i]
      OBVIOUS
    <3>2. idle[i + 1] # idle[1] BY <1>2, <2>1 DEF ExclusiveUse
    <3>3. held[u] # idle[i + 1] BY <1>2 DEF ExclusiveUse
    <3>. QED BY <3>2, <3>3, <1>2, <1>3 DEF TypeOK
  <2>. QED BY <2>3, <2>4, <2>5 DEF ExclusiveUse
<1>9. SlotAccounting'
  <2>1. Cardinality(At("using")') = Cardinality(At("using")) + 1
    BY MoveCounts DEF Pop, TypeOK, PCs
  <2>2. Cardinality(At("connecting")') = Cardinality(At("connecting"))
    BY MoveCounts DEF Pop, TypeOK, PCs
  <2>. QED BY <1>2, <2>1, <2>2, AtFinite DEF SlotAccounting, TypeOK, Pop
<1>. QED BY <1>4, <1>5, <1>6, <1>8, <1>9


LEMMA PushStep == ASSUME IInv, NEW t \in Threads, ReleaseGood(t) PROVE IInv'
<1> USE DEF IInv
<1>1. Len(idle) < Size
  <2>1. At("using") # {} BY DEF At, ReleaseGood
  <2>. QED BY <2>1, Room DEF QueueHasRoom
<1>2. /\ idle' = <<held[t]>> \o idle /\ held' = [held EXCEPT ![t] = NoConn]
      /\ pc' = [pc EXCEPT ![t] = "out"] /\ pc[t] = "using"
      /\ UNCHANGED <<created, lock, lost, phase>>
  BY <1>1 DEF ReleaseGood, Goto
<1>3. held[t] \in Conns BY <1>2 DEF HeldInv, TypeOK
<1>4. /\ idle' \in Seq(Conns) /\ Len(idle') = Len(idle) + 1 /\ idle'[1] = held[t]
      /\ \A i \in 1..Len(idle') : i # 1 => i - 1 \in 1..Len(idle) /\ idle'[i] = idle[i - 1]
  BY <1>2, <1>3 DEF TypeOK
<1>5. TypeOK' BY <1>2, <1>4 DEF TypeOK, PCs
<1>6. HeldInv' BY <1>2 DEF TypeOK, HeldInv
<1>7. LockInv' /\ PhaseInv' BY <1>2 DEF TypeOK, LockInv, PhaseInv
<1>8. ExclusiveUse'
  <2>1. \A u, w \in Threads : held'[u] = held'[w] /\ held'[u] # NoConn => u = w
    BY <1>2 DEF ExclusiveUse, TypeOK
  <2>2. \A i, j \in 1..Len(idle') : idle'[i] = idle'[j] => i = j
    <3>1. SUFFICES ASSUME NEW i \in 1..Len(idle'), NEW j \in 1..Len(idle'), idle'[i] = idle'[j]
                   PROVE i = j
      OBVIOUS
    <3>2. CASE i = 1 \/ j = 1 BY <3>1, <3>2, <1>4 DEF ExclusiveUse
    <3>3. CASE i # 1 /\ j # 1
      <4>1. /\ i - 1 \in 1..Len(idle) /\ j - 1 \in 1..Len(idle)
            /\ idle[i - 1] = idle[j - 1]
        BY <3>1, <3>3, <1>4
      <4>2. i - 1 = j - 1 BY <4>1 DEF ExclusiveUse
      <4>. QED BY <4>2
    <3>. QED BY <3>2, <3>3
  <2>3. \A u \in Threads, i \in 1..Len(idle') : held'[u] # idle'[i]
    <3>1. SUFFICES ASSUME NEW u \in Threads, NEW i \in 1..Len(idle') PROVE held'[u] # idle'[i]
      OBVIOUS
    <3>2. CASE u = t BY <3>2, <1>2, <1>4, PoolAssumption DEF TypeOK
    <3>3. CASE u # t /\ i = 1
      <4>1. held'[u] = held[u] /\ idle'[i] = held[t] BY <3>3, <1>2, <1>4 DEF TypeOK
      <4>2. held[t] # NoConn BY <1>3, PoolAssumption
      <4>. QED BY <3>3, <4>1, <4>2 DEF ExclusiveUse
    <3>4. CASE u # t /\ i # 1 BY <3>4, <1>2, <1>4 DEF ExclusiveUse, TypeOK
    <3>. QED BY <3>2, <3>3, <3>4
  <2>. QED BY <2>1, <2>2, <2>3 DEF ExclusiveUse
<1>9. SlotAccounting'
  <2>1. Cardinality(At("using")') = Cardinality(At("using")) - 1
    BY <1>2, MoveCounts DEF ReleaseGood, TypeOK, PCs
  <2>2. Cardinality(At("connecting")') = Cardinality(At("connecting"))
    BY <1>2, MoveCounts DEF ReleaseGood, TypeOK, PCs
  <2>. QED BY <1>2, <1>4, <2>1, <2>2, AtFinite DEF SlotAccounting, TypeOK
<1>. QED BY <1>5, <1>6, <1>7, <1>8, <1>9

\* The other steps of a thread: the queue stays, and the thread's count moves.
LEMMA ThreadStep ==
  ASSUME IInv, NEW t \in Threads,
         \/ AcquireEmpty(t) \/ Reserve(t) \/ MustWait(t) \/ Connected(t) \/ ConnectFails(t)
         \/ WaitTimesOut(t) \/ ReleaseBroken(t) \/ CloseBroken(t) \/ LeakSlot(t)
  PROVE  IInv'
<1> USE DEF IInv
<1> DEFINE Count(l) == Cardinality(At(l))
<1>0. Len(idle) \in Nat /\ Count("using") \in Nat /\ Count("connecting") \in Nat
  BY AtFinite DEF TypeOK
<1>1. CASE AcquireEmpty(t)
  <2>1. Count("using")' = Count("using") /\ Count("connecting")' = Count("connecting")
    BY <1>1, MoveCounts DEF AcquireEmpty, TypeOK, PCs
  <2>2. SlotAccounting' BY <2>1, <1>1 DEF AcquireEmpty, SlotAccounting
  <2>. QED BY <1>1, <2>2 DEF AcquireEmpty, Goto, TypeOK, PCs, HeldInv, LockInv, PhaseInv, ExclusiveUse
<1>2. CASE Reserve(t)
  <2>1. Count("using")' = Count("using") /\ Count("connecting")' = Count("connecting") + 1
    BY <1>2, MoveCounts DEF Reserve, TypeOK, PCs
  <2>2. SlotAccounting'
    BY <2>1, <1>2, AtFinite, PoolAssumption DEF Reserve, SlotAccounting, TypeOK
  <2>3. created' \in 0..Size BY <1>2, PoolAssumption DEF Reserve, SlotFree, TypeOK
  <2>4. LockInv' BY <1>2, PoolAssumption DEF Reserve, Goto, TypeOK, LockInv
  <2>. QED BY <1>2, <2>2, <2>3, <2>4 DEF Reserve, Goto, TypeOK, PCs, HeldInv, PhaseInv, ExclusiveUse
<1>3. CASE MustWait(t)
  <2>1. Count("using")' = Count("using") /\ Count("connecting")' = Count("connecting")
    BY <1>3, MoveCounts DEF MustWait, TypeOK, PCs
  <2>2. SlotAccounting' BY <2>1, <1>3 DEF MustWait, SlotAccounting
  <2>. QED BY <1>3, <2>2 DEF MustWait, Goto, TypeOK, PCs, HeldInv, LockInv, PhaseInv, ExclusiveUse
<1>4. CASE Connected(t)
  <2>1. Count("using")' = Count("using") + 1 /\ Count("connecting")' = Count("connecting") - 1
    BY <1>4, MoveCounts DEF Connected, TypeOK, PCs
  <2>2. SlotAccounting' BY <2>1, <1>4, AtFinite DEF Connected, SlotAccounting, TypeOK
  <2>3. PICK c \in Conns \ Open : held' = [held EXCEPT ![t] = c] BY <1>4 DEF Connected
  <2>4. /\ \A u \in Threads : held[u] # c
        /\ \A i \in 1..Len(idle) : idle[i] # c
    <3>1. \A u \in Threads : held[u] # c BY <2>3, PoolAssumption DEF Open
    <3>2. \A i \in 1..Len(idle) : idle[i] \in Range(idle)
      BY DEF Range, TypeOK
    <3>. QED BY <3>1, <3>2, <2>3 DEF Open
  <2>5. ExclusiveUse' BY <1>4, <2>3, <2>4 DEF Connected, ExclusiveUse, TypeOK
  <2>6. TypeOK' BY <1>4, <2>3 DEF Connected, Goto, TypeOK, PCs
  <2>7. HeldInv' BY <1>4, <2>3, PoolAssumption DEF Connected, Goto, TypeOK, HeldInv
  <2>8. LockInv' /\ PhaseInv'
    BY <1>4, PoolAssumption DEF Connected, Goto, TypeOK, LockInv, PhaseInv
  <2>. QED BY <2>2, <2>5, <2>6, <2>7, <2>8
<1>5. CASE ConnectFails(t)
  <2>1. Count("using")' = Count("using") /\ Count("connecting")' = Count("connecting") - 1
    BY <1>5, MoveCounts DEF ConnectFails, TypeOK, PCs
  <2>2. SlotAccounting' BY <2>1, <1>5, <1>0 DEF ConnectFails, SlotAccounting, TypeOK
  <2>3. LockInv' BY <1>5, PoolAssumption DEF ConnectFails, LockOnError, Goto, TypeOK, LockInv
  <2>. QED BY <1>5, <2>2, <2>3
       DEF ConnectFails, LockOnError, Goto, TypeOK, PCs, HeldInv, PhaseInv, ExclusiveUse
<1>6. CASE WaitTimesOut(t)
  <2>1. Count("using")' = Count("using") /\ Count("connecting")' = Count("connecting")
    BY <1>6, MoveCounts DEF WaitTimesOut, TypeOK, PCs
  <2>2. SlotAccounting' BY <2>1, <1>6 DEF WaitTimesOut, SlotAccounting
  <2>. QED BY <1>6, <2>2 DEF WaitTimesOut, Goto, TypeOK, PCs, HeldInv, LockInv, PhaseInv, ExclusiveUse
<1>7. CASE ReleaseBroken(t)
  <2>1. Count("using")' = Count("using") - 1 /\ Count("connecting")' = Count("connecting")
    BY <1>7, MoveCounts DEF ReleaseBroken, TypeOK, PCs
  <2>2. SlotAccounting'
    BY <2>1, <1>7, AtFinite DEF ReleaseBroken, SlotsAfterBroken, SlotAccounting, TypeOK
  <2>3. created' \in 0..Size
    <3>1. created # 0
      <4>1. At("using") # {} BY <1>7 DEF ReleaseBroken, At
      <4>2. Cardinality(At("using")) # 0 BY <4>1, AtFinite, FS_EmptySet
      <4>. QED BY <4>2, AtFinite DEF SlotAccounting, TypeOK
    <3>. QED BY <3>1, <1>7, PoolAssumption DEF ReleaseBroken, SlotsAfterBroken, TypeOK
  <2>. QED BY <1>7, <2>2, <2>3
       DEF ReleaseBroken, Goto, TypeOK, PCs, HeldInv, LockInv, PhaseInv, ExclusiveUse
<1>8. CASE CloseBroken(t)
  <2>1. Count("using")' = Count("using") /\ Count("connecting")' = Count("connecting")
    BY <1>8, MoveCounts DEF CloseBroken, TypeOK, PCs
  <2>2. SlotAccounting' BY <2>1, <1>8 DEF CloseBroken, SlotAccounting
  <2>3. ExclusiveUse'
    BY <1>8, PoolAssumption DEF CloseBroken, ExclusiveUse, TypeOK
  <2>. QED BY <1>8, <2>2, <2>3 DEF CloseBroken, Goto, TypeOK, PCs, HeldInv, LockInv, PhaseInv
<1>9. CASE LeakSlot(t)
  <2>1. Count("using")' = Count("using") - 1 /\ Count("connecting")' = Count("connecting")
    BY <1>9, MoveCounts DEF LeakSlot, TypeOK, PCs
  <2>2. SlotAccounting' BY <2>1, <1>9, AtFinite DEF LeakSlot, SlotAccounting, TypeOK
  <2>3. ExclusiveUse' BY <1>9, PoolAssumption DEF LeakSlot, ExclusiveUse, TypeOK
  <2>. QED BY <1>9, <2>2, <2>3 DEF LeakSlot, Goto, TypeOK, PCs, HeldInv, LockInv, PhaseInv
<1>. QED BY <1>1, <1>2, <1>3, <1>4, <1>5, <1>6, <1>7, <1>8, <1>9


LEMMA CloseStepInv == ASSUME IInv, CloseBegins \/ CloseNext \/ CloseRaises \/ CloseEnds
  PROVE  IInv'
<1> USE DEF IInv
<1>1. CASE CloseBegins
  BY <1>1 DEF CloseBegins, At, TypeOK, HeldInv, LockInv, PhaseInv, ExclusiveUse, SlotAccounting
<1>2. CASE CloseNext \/ CloseRaises
  <2>1. idle # <<>> /\ idle' = Tail(idle) /\ lost' = lost + 1
        /\ UNCHANGED <<created, lock, pc, held>>
    BY <1>2 DEF CloseNext, CloseRaises, CloseOne
  <2>5. phase = "closing" /\ phase' \in {"closing", "closed"}
    BY <1>2 DEF CloseNext, CloseRaises, CloseOne
  <2>2. /\ idle' \in Seq(Conns) /\ Len(idle') = Len(idle) - 1 /\ Len(idle) \in Nat
        /\ \A i \in 1..Len(idle') : i + 1 \in 1..Len(idle) /\ idle'[i] = idle[i + 1]
    BY <2>1 DEF TypeOK
  <2>3. ExclusiveUse'
    <3>1. \A i, j \in 1..Len(idle') : idle'[i] = idle'[j] => i = j
      <4>1. SUFFICES ASSUME NEW i \in 1..Len(idle'), NEW j \in 1..Len(idle'), idle'[i] = idle'[j]
                     PROVE i = j
        OBVIOUS
      <4>2. i + 1 = j + 1 BY <4>1, <2>2 DEF ExclusiveUse
      <4>. QED BY <4>2
    <3>. QED BY <3>1, <2>1, <2>2 DEF ExclusiveUse
  <2>4. SlotAccounting'
    <3>1. At("using")' = At("using") /\ At("connecting")' = At("connecting") BY <2>1 DEF At
    <3>2. Cardinality(At("using")) \in Nat /\ Cardinality(At("connecting")) \in Nat BY AtFinite
    <3>3. created' = created /\ lost' = lost + 1 /\ lost \in Nat BY <2>1 DEF TypeOK
    <3>4. Len(idle') = Len(idle) - 1 /\ Len(idle) \in Nat BY <2>2
    <3>. QED BY <3>1, <3>2, <3>3, <3>4 DEF SlotAccounting
  <2>. QED BY <2>1, <2>2, <2>3, <2>4, <2>5 DEF TypeOK, HeldInv, LockInv, PhaseInv
<1>3. CASE CloseEnds
  BY <1>3 DEF CloseEnds, At, TypeOK, HeldInv, LockInv, PhaseInv, ExclusiveUse, SlotAccounting
<1>. QED BY <1>1, <1>2, <1>3

LEMMA NextIInv == IInv /\ [Next]_vars => IInv'
<1> SUFFICES ASSUME IInv, [Next]_vars PROVE IInv' OBVIOUS
<1>1. ASSUME NEW t \in Threads, AcquireIdle(t) \/ WaiterServed(t) PROVE IInv'
  <2>1. phase = "serving"
    BY <1>1 DEF AcquireIdle, WaiterServed, IInv, PhaseInv
  <2>. QED BY <1>1, <2>1, PopStep DEF AcquireIdle, WaiterServed
<1>2. ASSUME NEW t \in Threads, AcquireEmpty(t) \/ Progress(t) PROVE IInv'
  BY <1>1, <1>2, PushStep, ThreadStep DEF Progress
<1>3. CASE UNCHANGED vars
  BY <1>3 DEF vars, IInv, At, TypeOK, HeldInv, LockInv, PhaseInv, ExclusiveUse, SlotAccounting
<1>. QED BY <1>1, <1>2, <1>3, CloseStepInv DEF Next

LEMMA Invariance == Spec => []IInv
BY InitIInv, NextIInv, PTL DEF Spec

----------------------------------------------------------------------------
(* The theorems                                                            *)

\* Type correctness, in particular 0 <= _created <= size.
THEOREM TypeCorrect == Spec => []TypeOK
<1>1. IInv => TypeOK BY DEF IInv
<1>. QED BY <1>1, Invariance, PTL

\* A connection is never in two hands, for any number of threads.
THEOREM ExclusiveUseHolds == Spec => []ExclusiveUse
<1>1. IInv => ExclusiveUse BY DEF IInv
<1>. QED BY <1>1, Invariance, PTL

\* _created counts the idle, used and opening connections and the lost slots.
THEOREM SlotAccountingHolds == Spec => []SlotAccounting
<1>1. IInv => SlotAccounting BY DEF IInv
<1>. QED BY <1>1, Invariance, PTL

\* put_nowait never raises Full: the except branch of release is dead code.
THEOREM QueueHasRoomHolds == Spec => []QueueHasRoom
<1>1. IInv => QueueHasRoom BY Room DEF IInv
<1>. QED BY <1>1, Invariance, PTL

\* At most Size connections, plus those a broken release is still closing.
\* The connections are counted through their holders: the queue's positions
\* and the threads that use or close one.
THEOREM OpenBoundHolds == Spec => []OpenBound
<1>1. IInv => OpenBound
  <2> SUFFICES ASSUME IInv PROVE OpenBound OBVIOUS
  <2> DEFINE Pos == 1..Len(idle)
             Holders == At("using") \cup At("closing")
             Queued == Range(idle)
             Taken == {held[t] : t \in {u \in Threads : held[u] # NoConn}}
  <2>1. Len(idle) \in Nat BY DEF IInv, TypeOK
  <2>2. IsFiniteSet(Pos) /\ Cardinality(Pos) = Len(idle)
    <3>1. \A n \in Nat : IsFiniteSet(1..n) /\ Cardinality(1..n) = n
      BY FS_Interval, SMTT(30)
    <3>. QED BY <2>1, <3>1
  <2>3. IsFiniteSet(Queued) /\ Cardinality(Queued) <= Len(idle)
    <3>1. idle \in Surjection(Pos, Queued) BY DEF Range, Surjection, IInv, TypeOK
    <3>. QED BY <3>1, <2>2, FS_Surjection
  <2>4. Taken = {held[t] : t \in Holders} BY DEF IInv, HeldInv, At
  <2>5. /\ IsFiniteSet(Holders)
        /\ Cardinality(Holders) <= Cardinality(At("using")) + Cardinality(At("closing"))
    BY AtFinite, UnionBound
  <2>6. IsFiniteSet(Taken) /\ Cardinality(Taken) <= Cardinality(Holders)
    <3> DEFINE f == [t \in Holders |-> held[t]]
    <3>1. f \in Surjection(Holders, Taken) BY <2>4 DEF Surjection
    <3>. QED BY <3>1, <2>5, FS_Surjection
  <2>7. IsFiniteSet(Open) /\ Cardinality(Open) <= Cardinality(Queued) + Cardinality(Taken)
    BY <2>3, <2>6, UnionBound DEF Open
  <2>8. /\ Cardinality(Queued) \in Nat /\ Cardinality(Taken) \in Nat
        /\ Cardinality(Holders) \in Nat /\ Cardinality(Open) \in Nat
    BY <2>3, <2>5, <2>6, <2>7, FS_CardinalityType
  <2>9. /\ Cardinality(At("using")) \in Nat /\ Cardinality(At("closing")) \in Nat
        /\ Cardinality(At("connecting")) \in Nat
    BY AtFinite
  <2>10. Len(idle) + Cardinality(At("using")) <= Size
    BY <2>1, <2>9, PoolAssumption DEF IInv, TypeOK, SlotAccounting
  <2>. QED BY <2>1, <2>3, <2>5, <2>6, <2>7, <2>8, <2>9, <2>10, PoolAssumption DEF OpenBound
<1>. QED BY <1>1, Invariance, PTL

\* A pool whose slots are all lost hands out nothing any more.
THEOREM DeadPoolHolds == Spec => DeadPoolStaysDead
<1>1. ASSUME IInv, IInv', [Next]_vars, lost = Size, NEW t \in Threads
      PROVE  pc'[t] # "using"
  <2>1. lost' >= lost
    <3>1. ASSUME NEW u \in Threads, AcquireIdle(u) \/ AcquireEmpty(u) \/ Progress(u)
          PROVE  lost' = lost \/ lost' = lost + 1
      BY <3>1 DEF Progress, AcquireIdle, AcquireEmpty, Pop, Reserve, MustWait, Connected,
           ConnectFails, WaiterServed, WaitTimesOut, ReleaseGood, ReleaseBroken, CloseBroken, LeakSlot
    <3>2. CloseBegins \/ CloseNext \/ CloseRaises \/ CloseEnds => lost' = lost \/ lost' = lost + 1
      BY DEF CloseBegins, CloseNext, CloseRaises, CloseEnds, CloseOne
    <3>3. lost' = lost \/ lost' = lost + 1 BY <1>1, <3>1, <3>2 DEF Next, vars
    <3>. QED BY <1>1, <3>3 DEF IInv, TypeOK
  <2>2. SUFFICES ASSUME pc'[t] = "using" PROVE FALSE OBVIOUS
  <2>3. At("using")' # {} BY <2>2 DEF At
  <2>4. Cardinality(At("using")') \in Nat \ {0} BY <2>3, AtFiniteNext, FS_EmptySet
  <2>5. Cardinality(At("connecting")') \in Nat BY AtFiniteNext
  <2>6. Len(idle') \in Nat /\ lost' \in Nat /\ created' \in 0..Size BY <1>1 DEF IInv, TypeOK
  <2>. QED BY <1>1, <2>1, <2>4, <2>5, <2>6, PoolAssumption DEF IInv, SlotAccounting
<1>2. IInv /\ IInv' /\ [Next]_vars => [lost = Size => \A t \in Threads : pc'[t] # "using"]_vars
  BY <1>1
<1>. QED BY <1>2, Invariance, PTL DEF Spec, DeadPoolStaysDead

=============================================================================
