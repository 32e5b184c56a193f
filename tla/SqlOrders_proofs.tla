--------------------------- MODULE SqlOrders_proofs ---------------------------
(***************************************************************************)
(* SqlOrders proved for any number of callers, documents and block keys.   *)
(*                                                                         *)
(* CurrentVersionIsWhole is not inductive: Commit publishes rows that the  *)
(* transaction built over five statements.  TxInv says what the rows of an *)
(* open transaction look like before each statement, and LockIsTransaction *)
(* that nobody else changes what the statements read from db.              *)
(***************************************************************************)
EXTENDS SqlOrders, TLAPS

\* What the earlier statements of a transaction have left.
TxInvOf(c) ==
  /\ at[c] \in TxSteps => doc[c] \in Docs
  /\ at[c] \in {"versions", "delete", "children", "blocks", "commit"} =>
       tx[c].current = Version[doc[c]] /\ tx[c].header = doc[c]
  /\ at[c] \in {"delete", "children", "blocks", "commit"} =>
       tx[c].versions[Version[doc[c]]] = doc[c]
  /\ at[c] \in {"children", "blocks"} =>
       \A p \in Versions \X Keys : tx[c].blocks[p] = NoDoc
  /\ at[c] \in {"blocks", "commit"} => tx[c].children = doc[c]
  /\ at[c] = "commit" =>
       \A p \in Versions \X Keys :
         tx[c].blocks[p] = IF p \in {Version[doc[c]]} \X Blocks[doc[c]] THEN doc[c] ELSE NoDoc

TxInv == \A c \in Clients : TxInvOf(c)

IInv == TypeOK /\ LockIsTransaction /\ TxInv /\ CurrentVersionIsWhole

----------------------------------------------------------------------------

LEMMA NoRowsType == NoRows \in Rows
BY SqlAssumption DEF NoRows, Rows, Stamps, Versions

LEMMA VersionType == \A d \in Docs : Version[d] \in Versions /\ Version[d] # 0
BY SqlAssumption DEF Versions

LEMMA InitInv == Init => IInv
<1> SUFFICES ASSUME Init PROVE IInv
  OBVIOUS
<1>1. TypeOK
  BY NoRowsType DEF Init, TypeOK, TxSteps, Nothing, Kinds
<1>2. LockIsTransaction
  BY SqlAssumption DEF Init, LockIsTransaction, TxSteps
<1>3. TxInv
  BY DEF Init, TxInv, TxInvOf, TxSteps
<1>4. CurrentVersionIsWhole
  BY DEF Init, CurrentVersionIsWhole
<1> QED BY <1>1, <1>2, <1>3, <1>4 DEF IInv

LEMMA PutBlocksType ==
  ASSUME NEW blocks \in [Versions \X Keys -> Stamps \cup {NoDoc}], NEW d \in Docs
  PROVE  /\ PutBlocks(blocks, d) \in [Versions \X Keys -> Stamps \cup {NoDoc}]
         /\ \A p \in Versions \X Keys :
              PutBlocks(blocks, d)[p] =
                IF p \in {Version[d]} \X Blocks[d] THEN d ELSE blocks[p]
<1>1. d \in Stamps \cup {NoDoc}
  BY DEF Stamps
<1>2. DOMAIN blocks = Versions \X Keys
  OBVIOUS
<1> DEFINE S == {Version[d]} \X Blocks[d]
<1>3. PutBlocks(blocks, d) = [p \in Versions \X Keys |-> IF p \in S THEN d ELSE blocks[p]]
  BY <1>2 DEF PutBlocks
<1> HIDE DEF S
<1>4. [p \in Versions \X Keys |-> IF p \in S THEN d ELSE blocks[p]]
        \in [Versions \X Keys -> Stamps \cup {NoDoc}]
  BY <1>1, Zenon
<1>5. \A p \in Versions \X Keys : PutBlocks(blocks, d)[p] = IF p \in S THEN d ELSE blocks[p]
  BY <1>3, Zenon
<1> QED BY <1>3, <1>4, <1>5 DEF S

\* Every step keeps the types.
LEMMA TypeStep == IInv /\ [Next]_vars => TypeOK'
<1> SUFFICES ASSUME IInv, [Next]_vars PROVE TypeOK'
  OBVIOUS
<1> USE DEF IInv, TypeOK, Goto, TxSteps, Kinds
<1>17. CASE UNCHANGED vars
  BY <1>17 DEF vars
<1>1. ASSUME NEW c \in Clients, NEW d \in Docs, IngestBegins(c, d) PROVE TypeOK'
  BY <1>1 DEF IngestBegins, Nothing
<1>2. ASSUME NEW c \in Clients, NEW k \in Keys, EditBegins(c, k) PROVE TypeOK'
  BY <1>2 DEF EditBegins
<1>3. ASSUME NEW c \in Clients, EditHeader(c) PROVE TypeOK'
  <2>1. [db EXCEPT !.header = c] \in Rows
    BY DEF Rows, Stamps
  <2> QED BY <1>3, <2>1 DEF EditHeader, Nothing
<1>4. ASSUME NEW c \in Clients, ReadHead(c) PROVE TypeOK'
  BY <1>4 DEF ReadHead
<1>5. ASSUME NEW c \in Clients, ReadSummary(c) PROVE TypeOK'
  BY <1>5 DEF ReadSummary
<1>6. ASSUME NEW c \in Clients, MergeOrders(c) PROVE TypeOK'
  <2>1. doc[c] \in Docs
    BY <1>6 DEF MergeOrders, TxInv, TxInvOf
  <2>2. [db EXCEPT !.current = Version[doc[c]], !.header = doc[c]] \in Rows
    BY <2>1, VersionType DEF Rows, Stamps
  <2> QED BY <1>6, <2>2 DEF MergeOrders, Execute
<1>7. ASSUME NEW c \in Clients, MergeVersions(c) PROVE TypeOK'
  <2>1. doc[c] \in Docs
    BY <1>7 DEF MergeVersions, TxInv, TxInvOf
  <2>2. [tx[c] EXCEPT !.versions = PutVersion(@, doc[c])] \in Rows
    BY <2>1, VersionType DEF Rows, PutVersion
  <2> QED BY <1>7, <2>2 DEF MergeVersions, Execute
<1>8. ASSUME NEW c \in Clients, DeleteChildren(c) PROVE TypeOK'
  <2>1. [tx[c] EXCEPT !.blocks = DeleteBlocks(@, doc[c]), !.children = NoDoc] \in Rows
    BY DEF Rows, DeleteBlocks
  <2> QED BY <1>8, <2>1 DEF DeleteChildren, Execute
<1>9. ASSUME NEW c \in Clients, InsertChildren(c) PROVE TypeOK'
  <2>1. [tx[c] EXCEPT !.children = doc[c]] \in Rows
    BY DEF Rows
  <2> QED BY <1>9, <2>1 DEF InsertChildren, Execute
<1>10. ASSUME NEW c \in Clients, InsertBlocks(c) PROVE TypeOK'
  <2>1. doc[c] \in Docs
    BY <1>10 DEF InsertBlocks, TxInv, TxInvOf
  <2>2. [tx[c] EXCEPT !.blocks = PutBlocks(@, doc[c])] \in Rows
    <3>1. tx[c].blocks \in [Versions \X Keys -> Stamps \cup {NoDoc}]
      BY DEF Rows
    <3>2. PutBlocks(tx[c].blocks, doc[c]) \in [Versions \X Keys -> Stamps \cup {NoDoc}]
      BY <2>1, <3>1, PutBlocksType
    <3> QED BY <3>2 DEF Rows
  <2> QED BY <1>10, <2>2 DEF InsertBlocks, Execute
<1>11. ASSUME NEW c \in Clients, Commit(c) PROVE TypeOK'
  BY <1>11, NoRowsType DEF Commit, CallEnds, Nothing
<1>12. ASSUME NEW c \in Clients, EditApplies(c) PROVE TypeOK'
  <2>1. [db EXCEPT !.blocks = [p \in Versions \X Keys |-> IF Matches(c, p) THEN c ELSE @[p]]] \in Rows
    BY DEF Rows, Stamps
  <2> QED BY <1>12, <2>1 DEF EditApplies
<1>13. ASSUME NEW c \in Clients, EditTouches(c) PROVE TypeOK'
  BY <1>13, NoRowsType DEF EditTouches, CallEnds, Nothing
<1>14. ASSUME NEW c \in Clients, ReadBlocks(c) PROVE TypeOK'
  BY <1>14 DEF ReadBlocks
<1>15. ASSUME NEW c \in Clients, ReadRoles(c) PROVE TypeOK'
  BY <1>15 DEF ReadRoles
<1>16. ASSUME NEW c \in Clients, CallFails(c) PROVE TypeOK'
  BY <1>16, NoRowsType DEF CallFails, CallEnds, LockAfterError, Nothing
<1> QED
  BY <1>17, <1>1, <1>2, <1>3, <1>4, <1>5, <1>6, <1>7, <1>8, <1>9, <1>10, <1>11, <1>12, <1>13,
     <1>14, <1>15, <1>16 DEF Next, Step

\* The row of ord.Orders is taken by MergeOrders and given back at the end.
LEMMA LockStep == IInv /\ [Next]_vars => LockIsTransaction'
<1> SUFFICES ASSUME IInv, [Next]_vars, NEW u \in Clients
             PROVE  (lock = u <=> at[u] \in TxSteps \ {"orders"})'
  BY DEF LockIsTransaction
<1> USE SqlAssumption DEF IInv, TypeOK, LockIsTransaction, Goto, TxSteps
<1>1. CASE UNCHANGED vars
  BY <1>1 DEF vars
<1>2. ASSUME NEW c \in Clients, NEW d \in Docs, IngestBegins(c, d)
      PROVE  (lock = u <=> at[u] \in TxSteps \ {"orders"})'
  BY <1>2 DEF IngestBegins
<1>3. ASSUME NEW c \in Clients, NEW k \in Keys, EditBegins(c, k)
      PROVE  (lock = u <=> at[u] \in TxSteps \ {"orders"})'
  BY <1>3 DEF EditBegins
<1>4. ASSUME NEW c \in Clients, EditHeader(c) \/ ReadHead(c) \/ ReadSummary(c)
      PROVE  (lock = u <=> at[u] \in TxSteps \ {"orders"})'
  BY <1>4 DEF EditHeader, ReadHead, ReadSummary
<1>5. ASSUME NEW c \in Clients, MergeOrders(c)
      PROVE  (lock = u <=> at[u] \in TxSteps \ {"orders"})'
  BY <1>5 DEF MergeOrders
<1>6. ASSUME NEW c \in Clients,
             \/ MergeVersions(c) \/ DeleteChildren(c) \/ InsertChildren(c) \/ InsertBlocks(c)
      PROVE  (lock = u <=> at[u] \in TxSteps \ {"orders"})'
  BY <1>6 DEF MergeVersions, DeleteChildren, InsertChildren, InsertBlocks
<1>7. ASSUME NEW c \in Clients, Commit(c)
      PROVE  (lock = u <=> at[u] \in TxSteps \ {"orders"})'
  BY <1>7 DEF Commit, CallEnds
<1>8. ASSUME NEW c \in Clients,
             EditApplies(c) \/ EditTouches(c) \/ ReadBlocks(c) \/ ReadRoles(c)
      PROVE  (lock = u <=> at[u] \in TxSteps \ {"orders"})'
  BY <1>8 DEF EditApplies, EditTouches, ReadBlocks, ReadRoles, CallEnds
<1>9. ASSUME NEW c \in Clients, CallFails(c)
      PROVE  (lock = u <=> at[u] \in TxSteps \ {"orders"})'
  BY <1>9 DEF CallFails, CallEnds, LockAfterError
<1> QED
  BY <1>1, <1>2, <1>3, <1>4, <1>5, <1>6, <1>7, <1>8, <1>9 DEF Next, Step

LEMMA TxStep == IInv /\ [Next]_vars => TxInv'
<1> SUFFICES ASSUME IInv, [Next]_vars, NEW u \in Clients PROVE TxInvOf(u)'
  BY DEF TxInv, TxInvOf
<1>0. TxInvOf(u) /\ TypeOK
  BY DEF IInv, TxInv, TxInvOf
<1>1. ASSUME UNCHANGED <<at[u], doc[u], tx[u]>> PROVE TxInvOf(u)'
  BY <1>0, <1>1 DEF TxInvOf
<1>2. ASSUME at'[u] \notin TxSteps PROVE TxInvOf(u)'
  BY <1>2 DEF TxInvOf, TxSteps
<1>3. CASE UNCHANGED vars
  BY <1>1, <1>3 DEF vars
<1>4. ASSUME NEW c \in Clients, NEW d \in Docs, IngestBegins(c, d) PROVE TxInvOf(u)'
  <2>1. CASE u = c
    BY <1>0, <1>4, <2>1 DEF IngestBegins, TxInvOf, TypeOK, Goto, TxSteps
  <2>2. CASE u # c
    BY <1>0, <1>1, <1>4, <2>2 DEF IngestBegins, TypeOK, Goto
  <2> QED BY <2>1, <2>2
<1>5. ASSUME NEW c \in Clients, NEW k \in Keys, EditBegins(c, k) PROVE TxInvOf(u)'
  BY <1>0, <1>1, <1>2, <1>5 DEF EditBegins, TypeOK, Goto, TxSteps
<1>6. ASSUME NEW c \in Clients, EditHeader(c) \/ ReadHead(c) \/ ReadSummary(c)
      PROVE  TxInvOf(u)'
  BY <1>0, <1>1, <1>2, <1>6 DEF EditHeader, ReadHead, ReadSummary, TypeOK, Goto, TxSteps
<1>7. ASSUME NEW c \in Clients, MergeOrders(c) PROVE TxInvOf(u)'
  <2>1. CASE u = c
    <3>1. tx'[c] = [db EXCEPT !.current = Version[doc[c]], !.header = doc[c]]
      BY <1>0, <1>7 DEF MergeOrders, Execute, TypeOK
    <3>2. tx'[c].current = Version[doc[c]] /\ tx'[c].header = doc[c]
      BY <1>0, <3>1 DEF TypeOK, Rows
    <3> QED BY <1>0, <1>7, <2>1, <3>2 DEF MergeOrders, TxInvOf, TypeOK, Goto, TxSteps
  <2>2. CASE u # c
    BY <1>0, <1>1, <1>7, <2>2 DEF MergeOrders, Execute, TypeOK, Goto
  <2> QED BY <2>1, <2>2
<1>8. ASSUME NEW c \in Clients, MergeVersions(c) PROVE TxInvOf(u)'
  <2>1. CASE u = c
    <3>1. doc[c] \in Docs /\ tx[c] \in Rows
      BY <1>0, <1>8, <2>1 DEF MergeVersions, TxInvOf, TypeOK, TxSteps
    <3>2. tx'[c] = [tx[c] EXCEPT !.versions = PutVersion(@, doc[c])]
      BY <1>0, <1>8 DEF MergeVersions, Execute, TypeOK
    <3>3. /\ tx'[c].current = tx[c].current
          /\ tx'[c].header = tx[c].header
          /\ tx'[c].versions[Version[doc[c]]] = doc[c]
      BY <3>1, <3>2, VersionType DEF Rows, PutVersion
    <3> QED BY <1>0, <1>8, <2>1, <3>3 DEF MergeVersions, TxInvOf, TypeOK, Goto, TxSteps
  <2>2. CASE u # c
    BY <1>0, <1>1, <1>8, <2>2 DEF MergeVersions, Execute, TypeOK, Goto
  <2> QED BY <2>1, <2>2
<1>9. ASSUME NEW c \in Clients, DeleteChildren(c) PROVE TxInvOf(u)'
  <2>1. CASE u = c
    <3>1. tx[c] \in Rows
      BY <1>0 DEF TypeOK
    <3>2. tx'[c] = [tx[c] EXCEPT !.blocks = DeleteBlocks(@, doc[c]), !.children = NoDoc]
      BY <1>0, <1>9 DEF DeleteChildren, Execute, TypeOK
    <3>3. /\ tx'[c].current = tx[c].current
          /\ tx'[c].header = tx[c].header
          /\ tx'[c].versions = tx[c].versions
          /\ \A p \in Versions \X Keys : tx'[c].blocks[p] = NoDoc
      BY <3>1, <3>2 DEF Rows, DeleteBlocks
    <3> QED BY <1>0, <1>9, <2>1, <3>3 DEF DeleteChildren, TxInvOf, TypeOK, Goto, TxSteps
  <2>2. CASE u # c
    BY <1>0, <1>1, <1>9, <2>2 DEF DeleteChildren, Execute, TypeOK, Goto
  <2> QED BY <2>1, <2>2
<1>10. ASSUME NEW c \in Clients, InsertChildren(c) PROVE TxInvOf(u)'
  <2>1. CASE u = c
    <3>1. tx[c] \in Rows
      BY <1>0 DEF TypeOK
    <3>2. tx'[c] = [tx[c] EXCEPT !.children = doc[c]]
      BY <1>0, <1>10 DEF InsertChildren, Execute, TypeOK
    <3>3. /\ tx'[c].current = tx[c].current
          /\ tx'[c].header = tx[c].header
          /\ tx'[c].versions = tx[c].versions
          /\ tx'[c].blocks = tx[c].blocks
          /\ tx'[c].children = doc[c]
      BY <3>1, <3>2 DEF Rows
    <3> QED BY <1>0, <1>10, <2>1, <3>3 DEF InsertChildren, TxInvOf, TypeOK, Goto, TxSteps
  <2>2. CASE u # c
    BY <1>0, <1>1, <1>10, <2>2 DEF InsertChildren, Execute, TypeOK, Goto
  <2> QED BY <2>1, <2>2
<1>11. ASSUME NEW c \in Clients, InsertBlocks(c) PROVE TxInvOf(u)'
  <2>1. CASE u = c
    <3>1. doc[c] \in Docs /\ tx[c] \in Rows
      BY <1>0, <1>11, <2>1 DEF InsertBlocks, TxInvOf, TypeOK, TxSteps
    <3>2. tx'[c] = [tx[c] EXCEPT !.blocks = PutBlocks(@, doc[c])]
      BY <1>0, <1>11 DEF InsertBlocks, Execute, TypeOK
    <3>3. /\ tx'[c].current = tx[c].current
          /\ tx'[c].header = tx[c].header
          /\ tx'[c].versions = tx[c].versions
          /\ tx'[c].blocks = PutBlocks(tx[c].blocks, doc[c])
          /\ tx'[c].children = tx[c].children
      BY <3>1, <3>2 DEF Rows
    <3>4. \A p \in Versions \X Keys : tx[c].blocks[p] = NoDoc
      BY <1>0, <1>11, <2>1 DEF InsertBlocks, TxInvOf
    <3>5. tx[c].blocks \in [Versions \X Keys -> Stamps \cup {NoDoc}]
      BY <3>1 DEF Rows
    <3> DEFINE S == {Version[doc[c]]} \X Blocks[doc[c]]
    <3>6. \A p \in Versions \X Keys : tx'[c].blocks[p] = IF p \in S THEN doc[c] ELSE NoDoc
      <4>1. \A p \in Versions \X Keys :
              PutBlocks(tx[c].blocks, doc[c])[p] = IF p \in S THEN doc[c] ELSE tx[c].blocks[p]
        BY <3>1, <3>5, PutBlocksType
      <4> HIDE DEF S
      <4> QED BY <4>1, <3>3, <3>4
    <3> HIDE DEF S
    <3>7. /\ at'[c] = "commit" /\ doc' = doc
      BY <1>0, <1>11 DEF InsertBlocks, Goto, TypeOK
    <3>8. /\ tx'[c].current = Version[doc[c]] /\ tx'[c].header = doc[c]
          /\ tx'[c].versions[Version[doc[c]]] = doc[c]
          /\ tx'[c].children = doc[c]
      BY <1>0, <1>11, <2>1, <3>3 DEF InsertBlocks, TxInvOf
    <3> QED BY <2>1, <3>1, <3>6, <3>7, <3>8 DEF TxInvOf, S
  <2>2. CASE u # c
    BY <1>0, <1>1, <1>11, <2>2 DEF InsertBlocks, Execute, TypeOK, Goto
  <2> QED BY <2>1, <2>2
<1>12. ASSUME NEW c \in Clients, Commit(c) \/ EditTouches(c) \/ CallFails(c) PROVE TxInvOf(u)'
  <2>1. CASE u = c
    BY <1>0, <1>2, <1>12, <2>1 DEF Commit, EditTouches, CallFails, CallEnds, TypeOK, Goto, TxSteps
  <2>2. CASE u # c
    BY <1>0, <1>1, <1>12, <2>2 DEF Commit, EditTouches, CallFails, CallEnds, TypeOK, Goto
  <2> QED BY <2>1, <2>2
<1>13. ASSUME NEW c \in Clients, EditApplies(c) \/ ReadBlocks(c) \/ ReadRoles(c)
       PROVE  TxInvOf(u)'
  BY <1>0, <1>1, <1>2, <1>13 DEF EditApplies, ReadBlocks, ReadRoles, TypeOK, Goto, TxSteps
<1> QED
  BY <1>3, <1>4, <1>5, <1>6, <1>7, <1>8, <1>9, <1>10, <1>11, <1>12, <1>13 DEF Next, Step

\* What a commit publishes is one whole document, untouched by edits.
LEMMA CommitIsWhole ==
  ASSUME IInv, NEW c \in Clients, Commit(c)
  PROVE  /\ doc[c] \in Docs
         /\ db' = tx[c]
         /\ db' \in Rows
         /\ db'.current = Version[doc[c]]
         /\ db'.header = doc[c]
         /\ WholeDoc(db', doc[c])
         /\ \A p \in Versions \X Keys :
              db'.blocks[p] = IF p \in {Version[doc[c]]} \X Blocks[doc[c]] THEN doc[c] ELSE NoDoc
<1>1. TxInvOf(c) /\ at[c] = "commit" /\ db' = tx[c] /\ tx[c] \in Rows
  BY DEF IInv, TypeOK, TxInv, Commit
<1>2. WholeDoc(tx[c], doc[c])
  BY <1>1 DEF TxInvOf, WholeDoc
<1> QED BY <1>1, <1>2 DEF TxInvOf, TxSteps

\* An edit keeps the keys of the blocks and everything that is not a block.
LEMMA EditKeeps ==
  ASSUME IInv, NEW c \in Clients, EditApplies(c)
  PROVE  /\ db'.current = db.current /\ db'.header = db.header
         /\ db'.versions = db.versions /\ db'.children = db.children
         /\ \A p \in Versions \X Keys :
              db'.blocks[p] = IF Matches(c, p) THEN c ELSE db.blocks[p]
<1>1. db \in Rows
  BY DEF IInv, TypeOK
<1>2. db' = [db EXCEPT !.blocks = [p \in Versions \X Keys |-> IF Matches(c, p) THEN c ELSE @[p]]]
  BY DEF EditApplies
<1> QED BY <1>1, <1>2 DEF Rows

LEMMA HeaderKeeps ==
  ASSUME IInv, NEW c \in Clients, EditHeader(c)
  PROVE  /\ db'.current = db.current /\ db'.header = c
         /\ db'.versions = db.versions /\ db'.children = db.children
         /\ db'.blocks = db.blocks
<1>1. db \in Rows
  BY DEF IInv, TypeOK
<1> QED BY <1>1 DEF Rows, EditHeader

\* The steps that change committed rows; every other step leaves db alone.
LEMMA DbChanges ==
  ASSUME [Next]_vars
  PROVE  \/ UNCHANGED db
         \/ \E c \in Clients : Commit(c) \/ EditApplies(c) \/ EditHeader(c)
BY DEF Next, Step, vars, IngestBegins, EditBegins, ReadHead, ReadSummary, MergeOrders,
   MergeVersions, DeleteChildren, InsertChildren, InsertBlocks, Execute, EditTouches,
   ReadBlocks, ReadRoles, CallFails

LEMMA WholeStep == IInv /\ [Next]_vars => CurrentVersionIsWhole'
<1> SUFFICES ASSUME IInv, [Next]_vars PROVE CurrentVersionIsWhole'
  OBVIOUS
<1>1. CASE UNCHANGED db
  BY <1>1 DEF IInv, CurrentVersionIsWhole, WholeDoc
<1>2. ASSUME NEW c \in Clients, Commit(c) PROVE CurrentVersionIsWhole'
  BY <1>2, CommitIsWhole DEF CurrentVersionIsWhole
<1>3. ASSUME NEW c \in Clients, EditApplies(c) PROVE CurrentVersionIsWhole'
  <2>1. CASE db = NoRows
    <3>1. \A p \in Versions \X Keys : ~Matches(c, p)
      BY <2>1 DEF Matches, NoRows
    <3>2. db.blocks = [p \in Versions \X Keys |-> IF Matches(c, p) THEN c ELSE db.blocks[p]]
      BY <2>1, <3>1 DEF NoRows
    <3>3. db' = [db EXCEPT !.blocks = db.blocks]
      BY <1>3, <3>2 DEF EditApplies
    <3>4. db' = db
      BY <2>1, <3>3 DEF NoRows
    <3> QED BY <2>1, <3>4 DEF CurrentVersionIsWhole
  <2>2. ASSUME NEW d \in Docs, WholeDoc(db, d) PROVE CurrentVersionIsWhole'
    <3>1. WholeDoc(db', d)
      BY <1>3, <2>2, EditKeeps DEF WholeDoc, Matches
    <3> QED BY <3>1 DEF CurrentVersionIsWhole
  <2> QED BY <2>1, <2>2 DEF IInv, CurrentVersionIsWhole
<1>4. ASSUME NEW c \in Clients, EditHeader(c) PROVE CurrentVersionIsWhole'
  <2>1. db # NoRows
    BY <1>4 DEF EditHeader, NoRows
  <2>2. PICK d \in Docs : WholeDoc(db, d)
    BY <2>1 DEF IInv, CurrentVersionIsWhole
  <2>3. WholeDoc(db', d)
    BY <1>4, <2>2, HeaderKeeps DEF WholeDoc
  <2> QED BY <2>3 DEF CurrentVersionIsWhole
<1> QED BY <1>1, <1>2, <1>3, <1>4, DbChanges

LEMMA Inductive == Spec => []IInv
<1>1. IInv /\ [Next]_vars => IInv'
  BY TypeStep, LockStep, TxStep, WholeStep DEF IInv
<1> QED BY <1>1, InitInv, PTL DEF Spec

\* Rows, locks and program counters keep their types.
THEOREM TypeCorrect == Spec => []TypeOK
BY Inductive, PTL DEF IInv

\* A connection never goes back to the pool with its transaction open, so the
\* row of ord.Orders is locked only while some ingest_order is under way.
THEOREM LockIsTransactionHolds == Spec => []LockIsTransaction
BY Inductive, PTL DEF IInv

\* The committed rows of an order are always those of one whole document,
\* whatever the callers interleave and wherever they fail.
THEOREM CurrentVersionIsWholeHolds == Spec => []CurrentVersionIsWhole
BY Inductive, PTL DEF IInv

----------------------------------------------------------------------------
(* The full read                                                           *)

WholeAnswer(g) ==
  \E d \in Docs :
    /\ g.version = Version[d]
    /\ DOMAIN g.blocks = {Version[d]} \X Blocks[d]
    /\ \A p \in DOMAIN g.blocks : g.blocks[p] \in {d} \cup Clients

\* The row of a summary, read in one statement, is of one document.
RowOf(g, d) ==
  /\ g.version = Version[d]
  /\ g.header \in {d} \cup Clients
  /\ g.counts = d

\* What the first statement of a read has seen, and what of it still is so
\* while no ingest has committed after it.
ReadInvOf(c) ==
  /\ at[c] = "reading" => c \in overtaken \/ (db.current # 0 /\ got[c].version = db.current)
  /\ at[c] = "roles" => \E d \in Docs : RowOf(got[c], d)
  /\ at[c] = "roles" => db.current # 0 /\ (c \in overtaken \/ got[c].counts = db.children)

ReadInv == \A c \in Clients : ReadInvOf(c)

\* Outside Commit no statement touches the version or the children.
LEMMA SeenStays ==
  ASSUME IInv, [Next]_vars
  PROVE  \/ \E c \in Clients : Commit(c)
         \/ db'.current = db.current /\ db'.children = db.children
BY DbChanges, EditKeeps, HeaderKeeps

LEMMA ReadInvStep == IInv /\ ReadInv /\ [Next]_vars => ReadInv'
<1> SUFFICES ASSUME IInv, ReadInv, [Next]_vars, NEW u \in Clients PROVE ReadInvOf(u)'
  BY DEF ReadInv
<1> USE DEF IInv, TypeOK
<1>0. ReadInvOf(u)
  BY DEF ReadInv
<1>1. ASSUME NEW c \in Clients, Commit(c) PROVE ReadInvOf(u)'
  <2>1. CASE u = c
    BY <1>1, <2>1 DEF Commit, CallEnds, Goto, ReadInvOf
  <2>2. CASE u # c
    <3>1. db'.current # 0
      BY <1>1, CommitIsWhole, VersionType
    <3>2. at'[u] = at[u] /\ got'[u] = got[u]
      BY <1>1, <2>2 DEF Commit, CallEnds, Goto
    <3>3. at[u] \in {"reading", "roles"} => u \in overtaken'
      BY <1>1 DEF Commit
    <3>4. at'[u] = "roles" => \E d \in Docs : RowOf(got'[u], d)
      BY <1>0, <3>2 DEF ReadInvOf
    <3> QED BY <3>1, <3>2, <3>3, <3>4 DEF ReadInvOf
  <2> QED BY <2>1, <2>2
<1>2. ASSUME ReadHead(u) PROVE ReadInvOf(u)'
  BY <1>2 DEF ReadHead, Goto, ReadInvOf
<1>3. ASSUME ReadSummary(u) PROVE ReadInvOf(u)'
  <2>1. PICK d \in Docs : WholeDoc(db, d)
    BY <1>3 DEF ReadSummary, CurrentVersionIsWhole, NoRows
  <2>2. got'[u] = [kind |-> "row", version |-> db.current, header |-> db.header, counts |-> db.children]
    BY <1>3 DEF ReadSummary
  <2>3. RowOf(got'[u], d)
    BY <2>1, <2>2 DEF RowOf, WholeDoc
  <2>4. got'[u].counts = db'.children /\ db'.current # 0
    BY <1>3, <2>2 DEF ReadSummary
  <2> QED BY <1>3, <2>3, <2>4 DEF ReadSummary, Goto, ReadInvOf
<1>4. ASSUME at'[u] \notin {"reading", "roles"} PROVE ReadInvOf(u)'
  BY <1>4 DEF ReadInvOf
<1>5. ASSUME UNCHANGED <<at[u], got[u]>>, u \in overtaken => u \in overtaken',
             db'.current = db.current, db'.children = db.children
      PROVE  ReadInvOf(u)'
  BY <1>0, <1>5 DEF ReadInvOf, RowOf
<1>6. CASE UNCHANGED vars
  BY <1>5, <1>6 DEF vars
<1>7. ASSUME NEW c \in Clients,
             \/ \E d \in Docs : IngestBegins(c, d)
             \/ \E k \in Keys : EditBegins(c, k)
             \/ EditHeader(c) \/ ReadHead(c) \/ ReadSummary(c)
             \/ MergeOrders(c) \/ MergeVersions(c) \/ DeleteChildren(c)
             \/ InsertChildren(c) \/ InsertBlocks(c) \/ EditApplies(c) \/ EditTouches(c)
             \/ ReadBlocks(c) \/ ReadRoles(c) \/ CallFails(c)
      PROVE  ReadInvOf(u)'
  <2>1. CASE u # c
    <3>1. /\ UNCHANGED <<at[u], got[u]>>
          /\ u \in overtaken => u \in overtaken'
      BY <1>7, <2>1 DEF IngestBegins, EditBegins, EditHeader, ReadHead, ReadSummary, MergeOrders,
         MergeVersions, DeleteChildren, InsertChildren, InsertBlocks, EditApplies, EditTouches,
         ReadBlocks, ReadRoles, CallFails, CallEnds, Goto
    <3>2. CASE db'.current = db.current /\ db'.children = db.children
      BY <3>1, <3>2, <1>5
    <3> QED BY <1>1, <3>2, SeenStays
  <2>2. CASE u = c /\ ~ReadHead(u) /\ ~ReadSummary(u)
    BY <1>0, <1>4, <1>7, <2>2
       DEF IngestBegins, EditBegins, EditHeader, MergeOrders, MergeVersions, DeleteChildren,
           InsertChildren, InsertBlocks, EditApplies, EditTouches, ReadBlocks, ReadRoles,
           CallFails, CallEnds, Goto
  <2> QED BY <1>2, <1>3, <2>1, <2>2
<1> QED BY <1>1, <1>6, <1>7 DEF Next, Step

LEMMA ReadInvHolds == Spec => []ReadInv
<1>1. Init => ReadInv
  BY DEF Init, ReadInv, ReadInvOf
<1> QED BY <1>1, ReadInvStep, Inductive, PTL DEF Spec

\* A full read that no ingest has overtaken returns the blocks of one document
\* at the version of its envelope; one that was overtaken may find them gone.
LEMMA ReadIsWhole ==
  ASSUME IInv, ReadInv, NEW c \in Clients, ReadBlocks(c)
  PROVE  (DOMAIN got'[c].blocks = {} /\ c \in overtaken') \/ WholeAnswer(got'[c])
<1> DEFINE blocks == [p \in RowsOfHead(c) |-> db.blocks[p]]
<1>1. got'[c] = [kind |-> "full", version |-> got[c].version, extract |-> got[c].extract,
                 blocks |-> blocks]
  BY DEF ReadBlocks, IInv, TypeOK
<1>2. /\ got'[c].version = got[c].version
      /\ got'[c].blocks = blocks
  <2> HIDE DEF blocks
  <2> QED BY <1>1
<1>3. DOMAIN blocks = RowsOfHead(c) /\ \A p \in RowsOfHead(c) : blocks[p] = db.blocks[p]
  OBVIOUS
<1> HIDE DEF blocks
<1>6. /\ overtaken' = overtaken
      /\ c \in overtaken \/ (db.current # 0 /\ got[c].version = db.current)
  BY DEF ReadBlocks, ReadInv, ReadInvOf
<1>4. CASE db = NoRows
  <2>1. RowsOfHead(c) = {}
    BY <1>4 DEF NoRows, RowsOfHead
  <2>2. db.current = 0
    BY <1>4 DEF NoRows
  <2> QED BY <1>2, <1>3, <1>6, <2>1, <2>2
<1>5. ASSUME NEW d \in Docs, WholeDoc(db, d)
      PROVE  (DOMAIN got'[c].blocks = {} /\ c \in overtaken') \/ WholeAnswer(got'[c])
  <2>1. CASE got[c].version = Version[d]
    <3>1. {Version[d]} \X Blocks[d] \subseteq Versions \X Keys
      BY SqlAssumption DEF Versions
    <3>2. RowsOfHead(c) = {Version[d]} \X Blocks[d]
      <4>1. \A p \in Versions \X Keys : p \in {Version[d]} \X Blocks[d] => p[1] = Version[d]
        OBVIOUS
      <4>2. \A p \in Versions \X Keys : p \in {Version[d]} \X Blocks[d] => db.blocks[p] # NoDoc
        BY <1>5, SqlAssumption DEF WholeDoc
      <4>3. \A p \in Versions \X Keys : p \notin {Version[d]} \X Blocks[d] => db.blocks[p] = NoDoc
        BY <1>5 DEF WholeDoc
      <4> DEFINE S == {Version[d]} \X Blocks[d]
      <4> HIDE DEF S
      <4>4. \A p \in Versions \X Keys :
               p \in S <=> db.blocks[p] # NoDoc /\ p[1] = got[c].version
        BY <2>1, <4>1, <4>2, <4>3 DEF S
      <4>5. S \subseteq Versions \X Keys
        BY <3>1 DEF S
      <4>6. RowsOfHead(c) = S
        BY <4>4, <4>5 DEF RowsOfHead
      <4> QED BY <4>6 DEF S
    <3>3. \A p \in RowsOfHead(c) : db.blocks[p] \in {d} \cup Clients
      BY <1>5, <3>1, <3>2 DEF WholeDoc
    <3> QED BY <1>2, <1>3, <2>1, <3>2, <3>3 DEF WholeAnswer
  <2>2. CASE got[c].version # Version[d]
    <3>1. \A p \in Versions \X Keys : db.blocks[p] # NoDoc => p[1] = Version[d]
      BY <1>5 DEF WholeDoc
    <3>2. RowsOfHead(c) = {}
      BY <2>2, <3>1 DEF RowsOfHead
    <3>3. c \in overtaken
      BY <1>5, <1>6, <2>2 DEF WholeDoc
    <3> QED BY <1>2, <1>3, <1>6, <3>2, <3>3
  <2> QED BY <2>1, <2>2
<1> QED BY <1>4, <1>5 DEF IInv, CurrentVersionIsWhole

\* The answer of a read is made by its last statement and by no other step,
\* and while it stands its reader stays as overtaken as it was.
LEMMA GotStep ==
  ASSUME IInv, [Next]_vars, NEW u \in Clients, got'[u].kind \in {"full", "summary"}
  PROVE  \/ got'[u] = got[u] /\ (u \in overtaken => u \in overtaken')
         \/ ReadBlocks(u)
         \/ ReadRoles(u)
<1> DEFINE Stands == got'[u] = got[u] /\ (u \in overtaken => u \in overtaken')
<1> USE DEF IInv, TypeOK
<1>1. CASE UNCHANGED vars
  BY <1>1 DEF vars
<1>2. ASSUME NEW c \in Clients, NEW d \in Docs, IngestBegins(c, d)
      PROVE  Stands
  BY <1>2 DEF IngestBegins, Nothing
<1>3. ASSUME NEW c \in Clients, NEW k \in Keys, EditBegins(c, k)
      PROVE  Stands
  BY <1>3 DEF EditBegins
<1>4. ASSUME NEW c \in Clients, EditHeader(c) PROVE Stands
  BY <1>4 DEF EditHeader, Nothing
<1>5. ASSUME NEW c \in Clients, ReadHead(c) PROVE Stands
  BY <1>5 DEF ReadHead
<1>6. ASSUME NEW c \in Clients, ReadSummary(c) PROVE Stands
  BY <1>6 DEF ReadSummary
<1>7. ASSUME NEW c \in Clients, ReadRoles(c) PROVE Stands \/ ReadRoles(u)
  BY <1>7 DEF ReadRoles
<1>8. ASSUME NEW c \in Clients, ReadBlocks(c) PROVE Stands \/ ReadBlocks(u)
  BY <1>8 DEF ReadBlocks
<1>9. ASSUME NEW c \in Clients, Commit(c) \/ EditTouches(c) \/ CallFails(c)
      PROVE  Stands
  BY <1>9 DEF Commit, EditTouches, CallFails, CallEnds, Nothing
<1>10. ASSUME NEW c \in Clients,
              \/ MergeOrders(c) \/ MergeVersions(c) \/ DeleteChildren(c)
              \/ InsertChildren(c) \/ InsertBlocks(c) \/ EditApplies(c)
       PROVE  Stands
  BY <1>10 DEF MergeOrders, MergeVersions, DeleteChildren, InsertChildren, InsertBlocks, EditApplies
<1> QED
  BY <1>1, <1>2, <1>3, <1>4, <1>5, <1>6, <1>7, <1>8, <1>9, <1>10 DEF Next, Step

\* A full read returns the blocks of one document at the version of its
\* envelope, or, overtaken by an ingest between its statements, no block.
THEOREM FullReadIsOneDocumentHolds == Spec => []FullReadIsOneDocument
<1>1. Init => FullReadIsOneDocument
  BY DEF Init, FullReadIsOneDocument, Nothing
<1>2. IInv /\ ReadInv /\ FullReadIsOneDocument /\ [Next]_vars => FullReadIsOneDocument'
  <2> SUFFICES ASSUME IInv, ReadInv, FullReadIsOneDocument, [Next]_vars,
                      NEW u \in Clients, got'[u].kind = "full"
               PROVE  (DOMAIN got'[u].blocks = {} /\ u \in overtaken') \/ WholeAnswer(got'[u])
    BY DEF FullReadIsOneDocument, WholeAnswer
  <2>1. CASE got'[u] = got[u] /\ (u \in overtaken => u \in overtaken')
    BY <2>1 DEF FullReadIsOneDocument, WholeAnswer
  <2>2. CASE ReadBlocks(u)
    BY <2>2, ReadIsWhole
  <2>3. ~ReadRoles(u)
    BY DEF ReadRoles, IInv, TypeOK
  <2> QED BY <2>1, <2>2, <2>3, GotStep
<1> QED BY <1>1, <1>2, Inductive, ReadInvHolds, PTL DEF Spec

\* The summary that is returned has the version, the columns and the counts of
\* one document and the roles of one, the same unless an ingest overtook it.
LEMMA SummaryIsOneDocumentHolds == Spec => []SummaryIsOneDocument
<1> DEFINE Answer(g, over) == /\ g.roles \in Docs
                              /\ \E d \in Docs : RowOf(g, d) /\ (~over => g.roles = d)
<1>1. Init => SummaryIsOneDocument
  BY DEF Init, SummaryIsOneDocument, Nothing
<1>2. IInv /\ ReadInv /\ SummaryIsOneDocument /\ [Next]_vars => SummaryIsOneDocument'
  <2> SUFFICES ASSUME IInv, ReadInv, SummaryIsOneDocument, [Next]_vars,
                      NEW u \in Clients, got'[u].kind = "summary"
               PROVE  Answer(got'[u], u \in overtaken')
    BY DEF SummaryIsOneDocument, RowOf
  <2>1. CASE got'[u] = got[u] /\ (u \in overtaken => u \in overtaken')
    BY <2>1 DEF SummaryIsOneDocument, RowOf
  <2>2. CASE ReadRoles(u)
    <3>1. PICK d \in Docs : RowOf(got[u], d)
      BY <2>2 DEF ReadRoles, ReadInv, ReadInvOf
    <3>2. u \in overtaken \/ got[u].counts = db.children
      BY <2>2 DEF ReadRoles, ReadInv, ReadInvOf
    <3>3. /\ overtaken' = overtaken
          /\ got'[u] = [kind |-> "summary", version |-> got[u].version, header |-> got[u].header,
                        counts |-> got[u].counts, roles |-> db.children]
      BY <2>2 DEF ReadRoles, IInv, TypeOK
    <3>4. db.children \in Docs
      <4>1. db # NoRows
        BY <2>2 DEF ReadRoles, ReadInv, ReadInvOf, NoRows
      <4> QED BY <4>1 DEF IInv, CurrentVersionIsWhole, WholeDoc
    <3>5. RowOf(got'[u], d) /\ got'[u].roles = db.children
      BY <3>1, <3>3 DEF RowOf
    <3>6. u \notin overtaken' => got'[u].roles = d
      BY <3>1, <3>2, <3>3, <3>5 DEF RowOf
    <3> QED BY <3>4, <3>5, <3>6
  <2>3. ~ReadBlocks(u)
    BY DEF ReadBlocks, IInv, TypeOK
  <2> QED BY <2>1, <2>2, <2>3, GotStep
<1> QED BY <1>1, <1>2, Inductive, ReadInvHolds, PTL DEF Spec

\* What one statement reads follows from the committed rows being whole.
LEMMA SingleReads == IInv => SingleReadsAgree
<1> SUFFICES ASSUME IInv, SearchRow.found PROVE SingleReadsAgree
  BY DEF SingleReadsAgree
<1>1. db.current # 0 /\ SearchRow = [found |-> TRUE, version |-> db.current, header |-> db.header]
  BY DEF SearchRow
<1>2. PICK d \in Docs : WholeDoc(db, d)
  BY <1>1 DEF IInv, CurrentVersionIsWhole, NoRows
<1>3. Version[d] \in Versions /\ db.current = Version[d]
  BY <1>2 DEF WholeDoc, Versions
<1>4. ASSUME NEW k \in Keys
      PROVE  /\ BlockRead(k).found <=> k \in Blocks[d]
             /\ BlockRead(k).found => BlockRead(k).version = Version[d] /\ BlockRead(k).by \in {d} \cup Clients
  <2>1. <<Version[d], k>> \in Versions \X Keys
    BY <1>3
  <2>2. CASE k \in Blocks[d]
    <3>1. db.blocks[<<Version[d], k>>] \in {d} \cup Clients
      BY <1>2, <2>1, <2>2 DEF WholeDoc
    <3>2. db.blocks[<<Version[d], k>>] # NoDoc
      BY <3>1, SqlAssumption
    <3> QED BY <1>1, <1>3, <2>2, <3>1, <3>2 DEF BlockRead
  <2>3. CASE k \notin Blocks[d]
    <3>1. db.blocks[<<Version[d], k>>] = NoDoc
      BY <1>2, <2>1, <2>3 DEF WholeDoc
    <3> QED BY <1>3, <2>3, <3>1 DEF BlockRead
  <2> QED BY <2>2, <2>3
<1>5. SearchRow.version = Version[d] /\ SearchRow.header \in {d} \cup Clients
  BY <1>1, <1>2 DEF WholeDoc
<1> QED BY <1>4, <1>5 DEF SingleReadsAgree

\* What the reads answer, for any number of callers and documents: the search
\* row and the single blocks are of one document at every moment, a full order
\* has the blocks of one document or was overtaken by an ingest and has none,
\* and a returned summary is of one document unless it was overtaken.
THEOREM ReadsAreOneDocumentHolds == Spec => []ReadsAreOneDocument
<1>1. FullReadIsOneDocument /\ SummaryIsOneDocument /\ IInv => ReadsAreOneDocument
  BY SingleReads DEF ReadsAreOneDocument
<1> QED BY <1>1, FullReadIsOneDocumentHolds, SummaryIsOneDocumentHolds, Inductive, PTL

----------------------------------------------------------------------------
(* The refinement of OrderStore                                            *)

LEMMA RefinesInit == Init => Store!Init
BY SqlAssumption DEF Init, NoRows, Store!Init, StoreView

LEMMA RefinesCommit ==
  ASSUME IInv, NEW c \in Clients, Commit(c)
  PROVE  Store!Ingest(doc[c])
<1> DEFINE d == doc[c]
<1>1. /\ d \in Docs /\ db'.current = Version[d] /\ db'.header = d
      /\ WholeDoc(db', d)
      /\ \A p \in Versions \X Keys :
           db'.blocks[p] = IF p \in {Version[d]} \X Blocks[d] THEN d ELSE NoDoc
  BY CommitIsWhole
<1> HIDE DEF d
<1>2. Version[d] \in Versions /\ Version[d] # 0
  BY <1>1, VersionType
<1>3. db'.versions[db'.current] = d
  BY <1>1 DEF WholeDoc
<1>4. \A k \in Keys : db'.blocks[<<db'.current, k>>] = IF k \in Blocks[d] THEN d ELSE NoDoc
  BY <1>1, <1>2
<1>5. StoreView' = [doc |-> d, header |-> d,
                    blocks |-> [k \in Keys |-> IF k \in Blocks[d] THEN d ELSE NoDoc]]
  BY <1>1, <1>2, <1>3, <1>4 DEF StoreView
<1> QED BY <1>5 DEF Store!Ingest, d

LEMMA RefinesEdit ==
  ASSUME IInv, NEW c \in Clients, EditApplies(c)
  PROVE  StoreView' = StoreView \/ \E k \in Keys : Store!EditBlock(c, k)
<1> DEFINE v == db.current
           Hit(k) == Matches(c, <<v, k>>)
<1>1. /\ db'.current = v /\ db'.header = db.header /\ db'.versions = db.versions
      /\ \A p \in Versions \X Keys :
           db'.blocks[p] = IF Matches(c, p) THEN c ELSE db.blocks[p]
  BY EditKeeps
<1>2. v \in Versions \cup {0}
  BY DEF IInv, TypeOK, Rows
<1>3. CASE \A k \in Keys : v = 0 \/ ~Hit(k)
  <2>1. \A k \in Keys : v # 0 => db'.blocks[<<v, k>>] = db.blocks[<<v, k>>]
    BY <1>1, <1>2, <1>3
  <2> QED BY <1>1, <2>1 DEF StoreView
<1>4. ASSUME NEW k \in Keys, v # 0, Hit(k)
      PROVE  Store!EditBlock(c, k)
  <2>1. \A j \in Keys : Hit(j) => j = k
    BY <1>4 DEF Matches
  <2>2. \A j \in Keys : db'.blocks[<<v, j>>] = IF j = k THEN c ELSE db.blocks[<<v, j>>]
    BY <1>1, <1>2, <1>4, <2>1
  <2>3. db.blocks[<<v, k>>] # NoDoc
    BY <1>4 DEF Matches
  <2> DEFINE old == [j \in Keys |-> db.blocks[<<v, j>>]]
             new == [j \in Keys |-> db'.blocks[<<v, j>>]]
  <2>4. new = [old EXCEPT ![k] = c]
    BY <2>2
  <2>5. StoreView = [doc |-> db.versions[v], header |-> db.header, blocks |-> old]
    BY <1>4 DEF StoreView
  <2>6. StoreView' = [doc |-> db.versions[v], header |-> db.header, blocks |-> new]
    BY <1>1, <1>4 DEF StoreView
  <2>7. StoreView.blocks[k] # NoDoc
    BY <2>3, <2>5
  <2>9. StoreView.doc # NoDoc
    <3>1. PICK d \in Docs : WholeDoc(db, d)
      BY <1>4 DEF IInv, CurrentVersionIsWhole, NoRows
    <3>2. StoreView.doc = db.versions[v]
      BY <2>5
    <3> QED BY <3>1, <3>2, SqlAssumption DEF WholeDoc
  <2> HIDE DEF old, new
  <2>8. StoreView' = [StoreView EXCEPT !.blocks = [@ EXCEPT ![k] = c]]
    BY <2>4, <2>5, <2>6
  <2> QED BY <2>7, <2>8, <2>9 DEF Store!EditBlock
<1> QED BY <1>3, <1>4

LEMMA RefinesHeader ==
  ASSUME IInv, NEW c \in Clients, EditHeader(c)
  PROVE  Store!EditHeader(c)
<1>1. /\ db'.current = db.current /\ db'.header = c /\ db'.versions = db.versions
      /\ db'.blocks = db.blocks
  BY HeaderKeeps
<1>2. db.current # 0 /\ db # NoRows
  BY DEF EditHeader, NoRows
<1>3. PICK d \in Docs : WholeDoc(db, d)
  BY <1>2 DEF IInv, CurrentVersionIsWhole
<1>4. StoreView.doc # NoDoc
  BY <1>2, <1>3, SqlAssumption DEF StoreView, WholeDoc
<1>5. StoreView' = [StoreView EXCEPT !.header = c]
  <2> DEFINE blocks == [k \in Keys |-> db.blocks[<<db.current, k>>]]
             whole == db.versions[db.current]
  <2>1. StoreView = [doc |-> whole, header |-> db.header, blocks |-> blocks]
    BY <1>2 DEF StoreView
  <2>2. StoreView' = [doc |-> whole, header |-> c, blocks |-> blocks]
    BY <1>1, <1>2 DEF StoreView
  <2> HIDE DEF blocks, whole
  <2> QED BY <2>1, <2>2
<1> QED BY <1>4, <1>5 DEF Store!EditHeader

\* Concurrent, failing, multi-statement calls add up to atomic writes of one
\* whole order: the repository implements OrderStore.
THEOREM ImplementsStoreHolds == Spec => ImplementsStore
<1>1. IInv /\ [Next]_vars => [Store!Next]_StoreView
  <2> SUFFICES ASSUME IInv, [Next]_vars PROVE [Store!Next]_StoreView
    OBVIOUS
  <2>1. CASE UNCHANGED db
    BY <2>1 DEF StoreView
  <2>2. ASSUME NEW c \in Clients, Commit(c) PROVE Store!Next
    BY <2>2, RefinesCommit, CommitIsWhole DEF Store!Next
  <2>3. ASSUME NEW c \in Clients, EditApplies(c) PROVE [Store!Next]_StoreView
    BY <2>3, RefinesEdit DEF Store!Next
  <2>4. ASSUME NEW c \in Clients, EditHeader(c) PROVE Store!Next
    BY <2>4, RefinesHeader DEF Store!Next
  <2> QED BY <2>1, <2>2, <2>3, <2>4, DbChanges
<1> QED BY <1>1, RefinesInit, Inductive, PTL DEF Spec, ImplementsStore, Store!Spec

=============================================================================
