---------------------------- MODULE Stores_proofs ----------------------------
(***************************************************************************)
(* Two stores proved for any documents: RelationalExtract, the tables that *)
(* an order is extracted into, and CosmosOrders, the items of an order in  *)
(* Cosmos DB.  The names of CosmosOrders carry its name, those of          *)
(* RelationalExtract do not.                                               *)
(*                                                                         *)
(* RelationalExtract.  The rows of a document have one key each            *)
(* (UniqueKeys), because the key of a GUID goes to the first entry that    *)
(* carries it and a surrogate says the order, the kind and the place.  So  *)
(* only the rows of another order can refuse an ingest, and since these    *)
(* are the projection of the document it holds                             *)
(* (TablesFollowTheDocument), a key they share is a GUID of both.          *)
(*                                                                         *)
(* CosmosOrders.  An item that says it is of a document is the item the    *)
(* document has under that id (ItemOK), an ingest has stored all it has no *)
(* more to do, its header first (WriterInv), and items are never deleted.  *)
(* So a read that begins after an ingest returned sees all of its items,   *)
(* in one page or the other (ReaderInv), and if no one else wrote to the   *)
(* version they are all it sees; and those items alone read back as the    *)
(* document (OwnItemsReadBack), with as many chunks as the first announces *)
(* (ChunkCount).                                                           *)
(***************************************************************************)
EXTENDS RelationalExtract, CosmosOrders, FunctionTheorems, FiniteSetTheorems, TLAPS

IInv == TypeOK /\ TablesFollowTheDocument /\ LendersAreParties

----------------------------------------------------------------------------
(* RelationalExtract: keys                                                 *)

LEMMA Triples ==
  ASSUME NEW a, NEW b, NEW c, NEW x, NEW y, NEW z, <<a, b, c>> = <<x, y, z>>
  PROVE  a = x /\ b = y /\ c = z
<1>1. <<a, b, c>>[1] = <<x, y, z>>[1] /\ <<a, b, c>>[2] = <<x, y, z>>[2] /\ <<a, b, c>>[3] = <<x, y, z>>[3]
  OBVIOUS
<1> QED
  BY <1>1

LEMMA KeysDiffer ==
  /\ \A g, h : Guid(g) = Guid(h) => g = h
  /\ \A g, kind, i : \A o \in Orders : Guid(g) # <<o, kind, i>>
  /\ \A o, q, kind, i, j : <<o, kind, i>> = <<q, kind, j>> => o = q /\ i = j
BY Triples, ExtractAssumption DEF Guid

\* What the key of an entry is: the GUID it carries, or its surrogate.
LEMMA KeyForm ==
  ASSUME NEW o \in Orders, NEW kind, NEW section, NEW i \in DictsOf(section),
         \A j \in DOMAIN section : \A g \in section[j].guid : section[j].guid = {g}
  PROVE  \/ /\ IsFirst(section, i)
            /\ \E g \in section[i].guid : UniqueId(o, kind, section, i) = Guid(g)
         \/ UniqueId(o, kind, section, i) = <<o, kind, i>>
<1>1. CASE section[i].guid # {} /\ IsFirst(section, i)
  <2>1. PICK g \in section[i].guid : section[i].guid = {g}
    BY <1>1 DEF DictsOf
  <2>2. (CHOOSE x \in section[i].guid : TRUE) = g
    BY <2>1
  <2> QED
    BY <1>1, <2>1, <2>2 DEF UniqueId
<1>2. CASE ~(section[i].guid # {} /\ IsFirst(section, i))
  BY <1>2 DEF UniqueId
<1> QED
  BY <1>1, <1>2

\* The entries of a section have one key each.
LEMMA UniqueKeys ==
  ASSUME NEW o \in Orders, NEW kind, NEW section,
         DOMAIN section \subseteq Nat,
         \A j \in DOMAIN section : \A g \in section[j].guid : section[j].guid = {g},
         NEW i \in DictsOf(section), NEW j \in DictsOf(section),
         UniqueId(o, kind, section, i) = UniqueId(o, kind, section, j)
  PROVE  i = j
<1>1. i \in Nat /\ j \in Nat /\ o # "guid"
  BY ExtractAssumption DEF DictsOf
<1>2. CASE /\ IsFirst(section, i)
           /\ \E g \in section[i].guid : UniqueId(o, kind, section, i) = Guid(g)
  <2>1. PICK g \in section[i].guid : UniqueId(o, kind, section, i) = Guid(g)
    BY <1>2
  <2>2. UniqueId(o, kind, section, j) # <<o, kind, j>>
    BY <2>1, KeysDiffer
  <2>3. PICK h \in section[j].guid : IsFirst(section, j) /\ UniqueId(o, kind, section, j) = Guid(h)
    BY <2>2, KeyForm
  <2>4. g = h
    BY <2>1, <2>3, KeysDiffer
  <2>5. section[i].guid = section[j].guid
    BY <2>4, <2>1, <2>3 DEF DictsOf
  <2> QED
    BY <1>1, <1>2, <2>3, <2>5 DEF IsFirst
<1>3. CASE UniqueId(o, kind, section, i) = <<o, kind, i>>
  <2>1. ~ \E g \in section[j].guid : UniqueId(o, kind, section, j) = Guid(g)
    BY <1>3, KeysDiffer
  <2>2. UniqueId(o, kind, section, j) = <<o, kind, j>>
    BY <2>1, KeyForm
  <2>3. <<o, kind, i>> = <<o, kind, j>>
    BY <1>3, <2>2
  <2> QED
    BY <2>3, Triples
<1> QED
  BY <1>2, <1>3, KeyForm

\* Rows of two orders with one key have it from a GUID of both documents.
LEMMA SharedKey ==
  ASSUME NEW o \in Orders, NEW q \in Orders, o # q, NEW kind, NEW s, NEW t,
         \A j \in DOMAIN s : \A g \in s[j].guid : s[j].guid = {g},
         \A j \in DOMAIN t : \A g \in t[j].guid : t[j].guid = {g},
         NEW i \in DictsOf(s), NEW j \in DictsOf(t),
         UniqueId(o, kind, s, i) = UniqueId(q, kind, t, j)
  PROVE  GuidsOf(s) \cap GuidsOf(t) # {}
<1>1. o # "guid" /\ q # "guid"
  BY ExtractAssumption
<1>2. CASE UniqueId(o, kind, s, i) = <<o, kind, i>>
  <2>1. UniqueId(q, kind, t, j) # <<q, kind, j>>
    BY <1>2, KeysDiffer
  <2>2. PICK g \in t[j].guid : UniqueId(q, kind, t, j) = Guid(g)
    BY <2>1, KeyForm
  <2>3. Guid(g) = <<o, kind, i>>
    BY <1>2, <2>2
  <2> QED
    BY <2>3, KeysDiffer
<1>3. CASE \E g \in s[i].guid : UniqueId(o, kind, s, i) = Guid(g)
  <2>1. PICK g \in s[i].guid : UniqueId(o, kind, s, i) = Guid(g)
    BY <1>3
  <2>2. UniqueId(q, kind, t, j) # <<q, kind, j>>
    BY <2>1, KeysDiffer
  <2>3. PICK h \in t[j].guid : UniqueId(q, kind, t, j) = Guid(h)
    BY <2>2, KeyForm
  <2>4. g = h
    BY <2>1, <2>3, KeysDiffer
  <2> QED
    BY <2>1, <2>3, <2>4 DEF GuidsOf
<1> QED
  BY <1>2, <1>3, KeyForm

LEMMA Formed ==
  ASSUME NEW o \in Orders, NEW d \in Plans[o]
  PROVE  /\ \A s \in {d.Properties, d.Loans} :
              /\ DOMAIN s \subseteq Nat
              /\ \A i \in DOMAIN s : \A g \in s[i].guid : s[i].guid = {g}
         /\ \A i \in DOMAIN d.Loans : \A g \in d.Loans[i].lender.guid : d.Loans[i].lender.guid = {g}
BY ExtractAssumption DEF WellFormed

\* One document breaks no key on its own.
LEMMA OwnRowsFit ==
  ASSUME NEW o \in Orders, NEW d \in Plans[o]
  PROVE  /\ \A m, n \in PropertyRows(o, d) : m.key = n.key => m = n
         /\ \A m, n \in LoanRows(o, d) : m.key = n.key => m = n
<1>1. ASSUME NEW m \in PropertyRows(o, d), NEW n \in PropertyRows(o, d), m.key = n.key
      PROVE  m = n
  <2> DEFINE row(k) == [key |-> UniqueId(o, "prop", d.Properties, k), order |-> o, seq |-> k,
                        place |-> d.Properties[k].place]
  <2>1. PICK i \in DictsOf(d.Properties) : m = row(i)
    BY <1>1 DEF PropertyRows
  <2>2. PICK j \in DictsOf(d.Properties) : n = row(j)
    BY <1>1 DEF PropertyRows
  <2>3. UniqueId(o, "prop", d.Properties, i) = UniqueId(o, "prop", d.Properties, j)
    BY <1>1, <2>1, <2>2
  <2>4. i = j
    BY <2>3, Formed, UniqueKeys
  <2> QED
    BY <2>1, <2>2, <2>4
<1>2. ASSUME NEW m \in LoanRows(o, d), NEW n \in LoanRows(o, d), m.key = n.key
      PROVE  m = n
  <2> DEFINE row(k) == [key |-> UniqueId(o, "loan", d.Loans, k), order |-> o, seq |-> k,
                        lender |-> d.Loans[k].lender.guid, amount |-> LoanAmount(d.Loans[k])]
  <2>1. PICK i \in DictsOf(d.Loans) : m = row(i)
    BY <1>2 DEF LoanRows
  <2>2. PICK j \in DictsOf(d.Loans) : n = row(j)
    BY <1>2 DEF LoanRows
  <2>3. UniqueId(o, "loan", d.Loans, i) = UniqueId(o, "loan", d.Loans, j)
    BY <1>2, <2>1, <2>2
  <2>4. i = j
    BY <2>3, Formed, UniqueKeys
  <2> QED
    BY <2>1, <2>2, <2>4
<1> QED
  BY <1>1, <1>2

----------------------------------------------------------------------------
(* Lenders                                                                 *)

LEMMA PartyOfGuid ==
  ASSUME NEW o, NEW entry, NEW role, NEW seq, NEW g, entry.guid = {g}
  PROVE  PartyId(o, entry, role, seq) = Guid(g)
BY DEF PartyId

LEMMA FirstNatural ==
  ASSUME NEW T, T \subseteq Nat, T # {}
  PROVE  \E i \in T : \A j \in T : ~(j < i)
<1> DEFINE R == OpToRel(<, Nat)
<1>1. IsWellFoundedOn(R, Nat)
  BY NatLessThanWellFounded
<1>2. PICK i \in T : \A j \in T : <<j, i>> \notin R
  BY <1>1, WFMin
<1>3. \A j, k \in Nat : j < k => <<j, k>> \in R
  BY DEF OpToRel
<1> QED
  BY <1>2, <1>3

\* The lender of a loan is mentioned by a section, or by the first of the
\* loans that have it.
LEMMA LenderIsMentioned ==
  ASSUME NEW o \in Orders, NEW d \in Plans[o],
         NEW i \in DictsOf(d.Loans), NEW g \in d.Loans[i].lender.guid
  PROVE  \E m \in Mentions(o, d) : m.pid = Guid(g)
<1>1. CASE \E m \in SectionMentions(o, d) : m.pid = Guid(g)
  BY <1>1 DEF Mentions
<1>2. CASE \A m \in SectionMentions(o, d) : m.pid # Guid(g)
  <2> DEFINE T == {j \in DictsOf(d.Loans) : d.Loans[j].lender.guid = {g}}
  <2>1. i \in T /\ T \subseteq Nat
    BY Formed DEF DictsOf
  <2>2. PICK j \in T : \A k \in T : ~(k < j)
    BY <2>1, FirstNatural
  <2>3. d.Loans[j].lender.guid = {g} /\ j \in DictsOf(d.Loans)
    BY <2>2
  <2>4. PartyId(o, d.Loans[j].lender, "LENDER", 900 + j) = Guid(g)
    BY <2>3, PartyOfGuid
  <2>5. AddsLender(o, d, j)
    BY <1>2, <2>2, <2>3, <2>4 DEF AddsLender
  <2>6. Mention(o, 6, d.Loans[j].lender, "LENDER", j, 900 + j) \in Mentions(o, d)
    BY <2>3, <2>5 DEF Mentions, LenderMentions
  <2> QED
    BY <2>4, <2>6 DEF Mention
<1> QED
  BY <1>1, <1>2

----------------------------------------------------------------------------
(* The tables                                                              *)

LEMMA RowsAreOfTheOrder ==
  ASSUME NEW o, NEW d
  PROVE  /\ \A r \in PropertyRows(o, d) : r.order = o
         /\ \A r \in OrderPartyRows(o, d) : r.order = o
         /\ \A r \in LoanRows(o, d) : r.order = o
BY DEF PropertyRows, OrderPartyRows, LoanRows

LEMMA InitInv == Init => IInv
<1> SUFFICES ASSUME Init PROVE IInv
  OBVIOUS
<1>1. TypeOK
  BY DEF Init, TypeOK
<1>2. TablesFollowTheDocument
  BY DEF Init, TablesFollowTheDocument, Of
<1>3. LendersAreParties
  BY DEF Init, LendersAreParties
<1> QED
  BY <1>1, <1>2, <1>3 DEF IInv

LEMMA IngestKeepsInv ==
  ASSUME IInv, NEW o \in Orders, NEW d \in Plans[o], SqlIngests(o, d)
  PROVE  IInv'
<1> USE DEF IInv
<1>1. /\ properties' = Without(properties, o) \cup PropertyRows(o, d)
      /\ orderParties' = Without(orderParties, o) \cup OrderPartyRows(o, d)
      /\ loans' = Without(loans, o) \cup LoanRows(o, d)
      /\ blocks' = [blocks EXCEPT ![o] = {d}]
      /\ DOMAIN parties' = DOMAIN PartyRows(o, d) \cup DOMAIN parties
      /\ UNCHANGED <<items, header, refused>>
  BY DEF SqlIngests, cosmosVars
<1>2. TypeOK'
  <2>1. \A t \in {blocks', columns', items', header'} : DOMAIN t = Orders
    BY DEF TypeOK, SqlIngests, cosmosVars
  <2>2. \A q \in Orders : blocks'[q] \subseteq Plans[q] /\ items'[q] \subseteq Plans[q]
    BY <1>1 DEF TypeOK
  <2>3. \A r \in properties' \cup orderParties' \cup loans' : r.order \in Orders
    BY <1>1, RowsAreOfTheOrder DEF TypeOK, Without
  <2>4. refused' \subseteq UNION {{q} \X Plans[q] : q \in Orders}
    BY <1>1 DEF TypeOK
  <2>5. DOMAIN count' = {"sql", "cosmos"}
    BY DEF TypeOK, SqlIngests
  <2> QED
    BY <2>1, <2>2, <2>3, <2>4, <2>5 DEF TypeOK
<1>3. TablesFollowTheDocument'
  <2> SUFFICES ASSUME NEW q \in Orders
               PROVE  /\ Of(properties', q) = UNION {PropertyRows(q, e) : e \in blocks'[q]}
                      /\ Of(orderParties', q) = UNION {OrderPartyRows(q, e) : e \in blocks'[q]}
                      /\ Of(loans', q) = UNION {LoanRows(q, e) : e \in blocks'[q]}
    BY DEF TablesFollowTheDocument
  <2>1. CASE q = o
    <3>1. blocks'[o] = {d}
      BY <1>1 DEF TypeOK
    <3>2. /\ Of(properties', o) = PropertyRows(o, d)
          /\ Of(orderParties', o) = OrderPartyRows(o, d)
          /\ Of(loans', o) = LoanRows(o, d)
      <4>1. Of(properties', o) = PropertyRows(o, d)
        BY <1>1, RowsAreOfTheOrder DEF Of, Without
      <4>2. Of(orderParties', o) = OrderPartyRows(o, d)
        BY <1>1, RowsAreOfTheOrder DEF Of, Without
      <4>3. Of(loans', o) = LoanRows(o, d)
        BY <1>1, RowsAreOfTheOrder DEF Of, Without
      <4> QED
        BY <4>1, <4>2, <4>3
    <3> QED
      BY <2>1, <3>1, <3>2
  <2>2. CASE q # o
    <3>1. blocks'[q] = blocks[q]
      BY <1>1, <2>2 DEF TypeOK
    <3>2. /\ Of(properties', q) = Of(properties, q)
          /\ Of(orderParties', q) = Of(orderParties, q)
          /\ Of(loans', q) = Of(loans, q)
      <4>1. Of(properties', q) = Of(properties, q)
        BY <1>1, <2>2, RowsAreOfTheOrder DEF Of, Without
      <4>2. Of(orderParties', q) = Of(orderParties, q)
        BY <1>1, <2>2, RowsAreOfTheOrder DEF Of, Without
      <4>3. Of(loans', q) = Of(loans, q)
        BY <1>1, <2>2, RowsAreOfTheOrder DEF Of, Without
      <4> QED
        BY <4>1, <4>2, <4>3
    <3> QED
      BY <3>1, <3>2 DEF TablesFollowTheDocument
  <2> QED
    BY <2>1, <2>2
<1>4. LendersAreParties'
  <2>1. \A r \in OrderPartyRows(o, d) : r.pid \in DOMAIN PartyRows(o, d)
    BY DEF OrderPartyRows, PartyRows
  <2>2. \A r \in orderParties' : r.pid \in DOMAIN parties'
    BY <1>1, <2>1 DEF LendersAreParties, Without
  <2>3. ASSUME NEW l \in loans', NEW g \in l.lender
        PROVE  \E r \in orderParties' : r.order = l.order /\ r.pid = Guid(g)
    <3>1. CASE l \in LoanRows(o, d)
      <4>1. l.order = o /\ \E i \in DictsOf(d.Loans) : l.lender = d.Loans[i].lender.guid
        BY <3>1 DEF LoanRows
      <4>2. PICK m \in Mentions(o, d) : m.pid = Guid(g)
        BY <2>3, <4>1, LenderIsMentioned
      <4>3. [order |-> o, pid |-> m.pid, role |-> m.role, seq |-> m.seq] \in orderParties'
        BY <1>1 DEF OrderPartyRows
      <4> QED
        BY <4>1, <4>2, <4>3
    <3>2. CASE l \in Without(loans, o)
      <4>1. l \in loans /\ l.order # o
        BY <3>2 DEF Without, Of
      <4>2. PICK r \in orderParties : r.order = l.order /\ r.pid = Guid(g)
        BY <2>3, <4>1 DEF LendersAreParties
      <4>3. r \in orderParties'
        BY <1>1, <4>1, <4>2 DEF Without, Of
      <4> QED
        BY <4>2, <4>3
    <3> QED
      BY <1>1, <3>1, <3>2
  <2> QED
    BY <2>2, <2>3 DEF LendersAreParties
<1> QED
  BY <1>2, <1>3, <1>4

LEMMA NextKeepsInv == IInv /\ [Next]_vars => IInv'
<1> SUFFICES ASSUME IInv, [Next]_vars PROVE IInv'
  OBVIOUS
<1> USE DEF IInv
<1>1. ASSUME NEW o \in Orders, NEW d \in Plans[o], SqlIngests(o, d) PROVE IInv'
  BY <1>1, IngestKeepsInv
<1>2. ASSUME NEW o \in Orders, NEW d \in Plans[o], SqlRefuses(o, d) PROVE IInv'
  <2>1. /\ UNCHANGED <<blocks, columns, properties, parties, orderParties, loans, items, header>>
        /\ refused' = refused \cup {<<o, d>>}
        /\ DOMAIN count' = DOMAIN count
    BY <1>2 DEF SqlRefuses, cosmosVars
  <2>2. TypeOK'
    BY <2>1 DEF TypeOK
  <2>3. TablesFollowTheDocument' /\ LendersAreParties'
    BY <2>1 DEF TablesFollowTheDocument, LendersAreParties, Of
  <2> QED
    BY <2>2, <2>3
<1>3. ASSUME NEW o \in Orders, NEW d \in Plans[o], CosmosIngests(o, d) PROVE IInv'
  <2>1. /\ UNCHANGED <<blocks, columns, properties, parties, orderParties, loans, refused>>
        /\ items' = [items EXCEPT ![o] = {d}]
        /\ DOMAIN header' = DOMAIN header
        /\ DOMAIN count' = DOMAIN count
    BY <1>3 DEF CosmosIngests, sqlVars
  <2>2. TypeOK'
    BY <2>1 DEF TypeOK
  <2>3. TablesFollowTheDocument' /\ LendersAreParties'
    BY <2>1 DEF TablesFollowTheDocument, LendersAreParties, Of
  <2> QED
    BY <2>2, <2>3
<1>4. CASE UNCHANGED vars
  BY <1>4 DEF vars, sqlVars, cosmosVars, TypeOK, TablesFollowTheDocument, LendersAreParties, Of
<1> QED
  BY <1>1, <1>2, <1>3, <1>4 DEF Next, Done

LEMMA InvHolds == Spec => []IInv
BY InitInv, NextKeepsInv, PTL DEF Spec

\* The tables keep their kinds of rows, the rows of an order are those of the
\* document it holds, and the lender of a loan is a party of its order,
\* whatever is ingested in whatever order.
THEOREM TablesFollowTheDocumentHolds == Spec => []TablesFollowTheDocument
BY InvHolds, PTL DEF IInv

THEOREM LendersArePartiesHolds == Spec => []LendersAreParties
BY InvHolds, PTL DEF IInv

\* SQL refuses a document only for a GUID that another order holds: never for
\* one that the document repeats, never for what the order held before, and
\* never for a surrogate.
THEOREM OnlyAnotherOrderRefusesHolds == Spec => OnlyAnotherOrderRefuses
<1>1. ASSUME IInv, NEW o \in Orders, NEW d \in Plans[o], Breaks(o, d)
      PROVE  HeldByAnother(o, d)
  <2>1. \/ \E r \in Without(properties, o), n \in PropertyRows(o, d) : r.key = n.key
        \/ \E r \in Without(loans, o), n \in LoanRows(o, d) : r.key = n.key
    BY <1>1, OwnRowsFit DEF Breaks, KeyBreaks
  <2>2. ASSUME NEW r \in Without(properties, o), NEW n \in PropertyRows(o, d), r.key = n.key
        PROVE  HeldByAnother(o, d)
    <3> DEFINE q == r.order
    <3>1. r \in properties /\ q \in Orders /\ q # o
      BY <1>1 DEF Without, Of, IInv, TypeOK
    <3>2. PICK e \in blocks[q] : r \in PropertyRows(q, e)
      BY <1>1, <3>1 DEF IInv, TablesFollowTheDocument, Of
    <3>3. e \in Plans[q]
      BY <1>1, <3>1, <3>2 DEF IInv, TypeOK
    <3>4. PICK i \in DictsOf(e.Properties) : r.key = UniqueId(q, "prop", e.Properties, i)
      BY <3>2 DEF PropertyRows
    <3>5. PICK j \in DictsOf(d.Properties) : n.key = UniqueId(o, "prop", d.Properties, j)
      BY DEF PropertyRows
    <3>6. UniqueId(o, "prop", d.Properties, j) = UniqueId(q, "prop", e.Properties, i)
      BY <2>2, <3>4, <3>5
    <3>7. /\ \A k \in DOMAIN d.Properties : \A g \in d.Properties[k].guid : d.Properties[k].guid = {g}
          /\ \A k \in DOMAIN e.Properties : \A g \in e.Properties[k].guid : e.Properties[k].guid = {g}
      BY <3>1, <3>3, Formed
    <3>8. GuidsOf(d.Properties) \cap GuidsOf(e.Properties) # {}
      <4> HIDE DEF q
      <4> QED
        BY <3>1, <3>6, <3>7, SharedKey
    <3> QED
      BY <3>1, <3>2, <3>8 DEF HeldByAnother
  <2>3. ASSUME NEW r \in Without(loans, o), NEW n \in LoanRows(o, d), r.key = n.key
        PROVE  HeldByAnother(o, d)
    <3> DEFINE q == r.order
    <3>1. r \in loans /\ q \in Orders /\ q # o
      BY <1>1 DEF Without, Of, IInv, TypeOK
    <3>2. PICK e \in blocks[q] : r \in LoanRows(q, e)
      BY <1>1, <3>1 DEF IInv, TablesFollowTheDocument, Of
    <3>3. e \in Plans[q]
      BY <1>1, <3>1, <3>2 DEF IInv, TypeOK
    <3>4. PICK i \in DictsOf(e.Loans) : r.key = UniqueId(q, "loan", e.Loans, i)
      BY <3>2 DEF LoanRows
    <3>5. PICK j \in DictsOf(d.Loans) : n.key = UniqueId(o, "loan", d.Loans, j)
      BY DEF LoanRows
    <3>6. UniqueId(o, "loan", d.Loans, j) = UniqueId(q, "loan", e.Loans, i)
      BY <2>3, <3>4, <3>5
    <3>7. /\ \A k \in DOMAIN d.Loans : \A g \in d.Loans[k].guid : d.Loans[k].guid = {g}
          /\ \A k \in DOMAIN e.Loans : \A g \in e.Loans[k].guid : e.Loans[k].guid = {g}
      BY <3>1, <3>3, Formed
    <3>8. GuidsOf(d.Loans) \cap GuidsOf(e.Loans) # {}
      <4> HIDE DEF q
      <4> QED
        BY <3>1, <3>6, <3>7, SharedKey
    <3> QED
      BY <3>1, <3>2, <3>8 DEF HeldByAnother
  <2> QED
    BY <2>1, <2>2, <2>3
<1>2. ASSUME IInv, [Next]_vars PROVE RefusedByAnother
  <2> SUFFICES ASSUME NEW o \in Orders, NEW d \in Plans[o], <<o, d>> \in refused' \ refused
               PROVE  HeldByAnother(o, d)
    BY DEF RefusedByAnother
  <2>1. PICK p \in Orders : \E c \in Plans[p] : SqlRefuses(p, c)
    BY <1>2 DEF Next, Done, SqlIngests, CosmosIngests, vars, sqlVars
  <2>2. PICK c \in Plans[p] : SqlRefuses(p, c)
    BY <2>1
  <2>3. p = o /\ c = d /\ Breaks(o, d)
    BY <2>2 DEF SqlRefuses
  <2> QED
    BY <1>1, <1>2, <2>3
<1> QED
  BY <1>2, InvHolds, PTL DEF Spec, OnlyAnotherOrderRefuses

----------------------------------------------------------------------------
(* The two summaries                                                       *)

\* The searched columns and the header are those of the documents stored.
StoredSummaries ==
  \A o \in Orders :
    /\ \A d \in blocks[o] : columns[o] = Highest(LoanRows(o, d))
    /\ \A d \in items[o] : header[o] = {Summary(o, d)}
    /\ \A d, e \in blocks[o] : d = e
    /\ \A d, e \in items[o] : d = e

LEMMA StoredSummariesHold == Spec => []StoredSummaries
<1>1. Init => StoredSummaries
  BY DEF Init, StoredSummaries
<1>2. IInv /\ StoredSummaries /\ [Next]_vars => StoredSummaries'
  <2> SUFFICES ASSUME IInv, StoredSummaries, [Next]_vars PROVE StoredSummaries'
    OBVIOUS
  <2>1. ASSUME NEW o \in Orders, NEW d \in Plans[o], SqlIngests(o, d) PROVE StoredSummaries'
    <3>1. /\ blocks' = [blocks EXCEPT ![o] = {d}]
          /\ columns' = [columns EXCEPT ![o] = Highest(LoanRows(o, d))]
          /\ UNCHANGED <<items, header>>
      BY <2>1 DEF SqlIngests, cosmosVars
    <3>2. blocks'[o] = {d} /\ columns'[o] = Highest(LoanRows(o, d))
      BY <3>1 DEF IInv, TypeOK
    <3>3. \A q \in Orders : q # o => blocks'[q] = blocks[q] /\ columns'[q] = columns[q]
      BY <3>1 DEF IInv, TypeOK
    <3> QED
      BY <3>1, <3>2, <3>3 DEF StoredSummaries
  <2>2. ASSUME NEW o \in Orders, NEW d \in Plans[o], CosmosIngests(o, d) PROVE StoredSummaries'
    <3>1. /\ items' = [items EXCEPT ![o] = {d}]
          /\ header' = [header EXCEPT ![o] = {Summary(o, d)}]
          /\ UNCHANGED <<blocks, columns>>
      BY <2>2 DEF CosmosIngests, sqlVars
    <3>2. items'[o] = {d} /\ header'[o] = {Summary(o, d)}
      BY <3>1 DEF IInv, TypeOK
    <3>3. \A q \in Orders : q # o => items'[q] = items[q] /\ header'[q] = header[q]
      BY <3>1 DEF IInv, TypeOK
    <3> QED
      BY <3>1, <3>2, <3>3 DEF StoredSummaries
  <2>3. CASE UNCHANGED <<blocks, columns, items, header>>
    BY <2>3 DEF StoredSummaries
  <2> QED
    BY <2>1, <2>2, <2>3 DEF Next, Done, SqlRefuses, vars, sqlVars, cosmosVars
<1> QED
  BY <1>1, <1>2, InvHolds, PTL DEF Spec

LEMMA FiniteImage ==
  ASSUME NEW S, IsFiniteSet(S), NEW T, NEW f \in [S -> T], \A t \in T : \E x \in S : f[x] = t
  PROVE  IsFiniteSet(T)
<1>1. f \in Surjection(S, T)
  BY Fun_IsSurj
<1> QED
  BY <1>1, FS_Surjection

LEMMA FiniteMentions ==
  ASSUME NEW o \in Orders, NEW d \in Plans[o]
  PROVE  IsFiniteSet(Mentions(o, d))
<1> DEFINE Part(s) == {Mention(o, SectionRank[s], d[s][i], Role(s, d[s][i]), i, i) : i \in DictsOf(d[s])}
<1>1. \A s \in Sections \cup {"Loans"} : IsFiniteSet(DictsOf(d[s]))
  BY ExtractAssumption, FS_Subset DEF WellFormed, DictsOf
<1>2. ASSUME NEW s \in Sections PROVE IsFiniteSet(Part(s))
  <2> DEFINE f == [i \in DictsOf(d[s]) |-> Mention(o, SectionRank[s], d[s][i], Role(s, d[s][i]), i, i)]
  <2>1. f \in [DictsOf(d[s]) -> Part(s)] /\ \A t \in Part(s) : \E i \in DictsOf(d[s]) : f[i] = t
    OBVIOUS
  <2> HIDE DEF f, Part
  <2> QED
    BY <1>1, <2>1, FiniteImage
<1>3. SectionMentions(o, d) = Part("Buyers") \cup Part("Sellers") \cup Part("Lenders")
                              \cup Part("TitleCompanies") \cup Part("Others")
  BY DEF SectionMentions, Sections
<1>4. IsFiniteSet(SectionMentions(o, d))
  <2> HIDE DEF Part
  <2>1. /\ IsFiniteSet(Part("Buyers")) /\ IsFiniteSet(Part("Sellers")) /\ IsFiniteSet(Part("Lenders"))
        /\ IsFiniteSet(Part("TitleCompanies")) /\ IsFiniteSet(Part("Others"))
    BY <1>2 DEF Sections
  <2> QED
    BY <1>3, <2>1, FS_Union
<1>5. IsFiniteSet(LenderMentions(o, d))
  <2> DEFINE D == {j \in DictsOf(d.Loans) : AddsLender(o, d, j)}
             f == [i \in D |-> Mention(o, 6, d.Loans[i].lender, "LENDER", i, 900 + i)]
  <2>1. IsFiniteSet(D)
    BY <1>1, FS_Subset
  <2>2. /\ f \in [D -> LenderMentions(o, d)]
        /\ \A t \in LenderMentions(o, d) : \E i \in D : f[i] = t
    BY DEF LenderMentions
  <2> HIDE DEF D, f
  <2> QED
    BY <2>1, <2>2, FiniteImage
<1> QED
  BY <1>4, <1>5, FS_Union DEF Mentions

\* In a plain document, who has a party's identifier has its role and place.
LEMMA MentionedOnce ==
  ASSUME NEW o \in Orders, NEW d \in Plans[o], PartiesOnce(o, d),
         NEW m \in Mentions(o, d), NEW n \in Mentions(o, d), m.pid = n.pid
  PROVE  m.role = n.role /\ m.seq = n.seq
<1>1. \A i \in DictsOf(d.Loans) : AddsLender(o, d, i) =>
        /\ d.Loans[i].lender.guid # {}
        /\ \A k \in SectionMentions(o, d) : k.pid # PartyId(o, d.Loans[i].lender, "LENDER", 900 + i)
  BY DEF AddsLender
<1>2. CASE m \in SectionMentions(o, d) /\ n \in SectionMentions(o, d)
  BY <1>2 DEF PartiesOnce
<1>3. ASSUME NEW k \in LenderMentions(o, d)
      PROVE  \A l \in SectionMentions(o, d) : l.pid # k.pid
  BY <1>1 DEF LenderMentions, Mention
<1>4. CASE m \in LenderMentions(o, d) /\ n \in LenderMentions(o, d)
  <2>1. PICK i \in DictsOf(d.Loans) :
          AddsLender(o, d, i) /\ m = Mention(o, 6, d.Loans[i].lender, "LENDER", i, 900 + i)
    BY <1>4 DEF LenderMentions
  <2>2. PICK j \in DictsOf(d.Loans) :
          AddsLender(o, d, j) /\ n = Mention(o, 6, d.Loans[j].lender, "LENDER", j, 900 + j)
    BY <1>4 DEF LenderMentions
  <2>3. PICK g \in d.Loans[i].lender.guid : d.Loans[i].lender.guid = {g}
    BY <2>1, <1>1, Formed DEF DictsOf
  <2>4. PICK h \in d.Loans[j].lender.guid : d.Loans[j].lender.guid = {h}
    BY <2>2, <1>1, Formed DEF DictsOf
  <2>5. m.pid = Guid(g) /\ n.pid = Guid(h)
    BY <2>1, <2>2, <2>3, <2>4, PartyOfGuid DEF Mention
  <2>6. g = h
    BY <2>5, KeysDiffer
  <2>7. ~(i < j) /\ ~(j < i) /\ i \in Nat /\ j \in Nat
    BY <2>1, <2>2, <2>3, <2>4, <2>6, Formed DEF AddsLender, DictsOf
  <2>8. i = j
    BY <2>7
  <2> QED
    BY <2>1, <2>2, <2>8
<1> QED
  BY <1>2, <1>3, <1>4 DEF Mentions

LEMMA RowsCountParties ==
  ASSUME NEW o \in Orders, NEW d \in Plans[o], PartiesOnce(o, d)
  PROVE  Cardinality(OrderPartyRows(o, d)) = Cardinality(DOMAIN PartyRows(o, d))
<1> DEFINE row(m) == [order |-> o, pid |-> m.pid, role |-> m.role, seq |-> m.seq]
           R == OrderPartyRows(o, d)
           D == DOMAIN PartyRows(o, d)
           f == [r \in R |-> r.pid]
<1>1. R = {row(m) : m \in Mentions(o, d)} /\ D = {m.pid : m \in Mentions(o, d)}
  BY DEF OrderPartyRows, PartyRows
<1>2. IsFiniteSet(R)
  <2> DEFINE h == [m \in Mentions(o, d) |-> row(m)]
  <2>1. h \in [Mentions(o, d) -> R] /\ \A r \in R : \E m \in Mentions(o, d) : h[m] = r
    BY <1>1
  <2> HIDE DEF R, h
  <2> QED
    BY <2>1, FiniteMentions, FiniteImage
<1>3. \A r \in R : \E m \in Mentions(o, d) : r = row(m)
  BY <1>1
<1>4. \A p \in D : \E m \in Mentions(o, d) : p = m.pid /\ row(m) \in R
  BY <1>1
<1>5. \A r \in R : r.pid \in D
  BY <1>1
<1> HIDE DEF R, D
<1>6. \A q, r \in R : q.pid = r.pid => q = r
  BY <1>3, MentionedOnce
<1>7. \A p \in D : \E r \in R : r.pid = p
  BY <1>4
<1>8. f \in [R -> D] /\ (\A q, r \in R : f[q] = f[r] => q = r) /\ (\A p \in D : \E r \in R : f[r] = p)
  BY <1>5, <1>6, <1>7
<1>9. f \in Bijection(R, D)
  BY <1>8, Fun_IsBij
<1>10. Cardinality(D) = Cardinality(R)
  BY <1>2, <1>9, FS_Bijection, Fun_ExistsBij
<1> QED
  BY <1>10 DEF R, D

\* Two back ends that hold the same plain document of an order answer the same
\* summary.
THEOREM SummariesAgreeHolds == Spec => []SummariesAgree
<1>1. IInv /\ StoredSummaries => SummariesAgree
  <2> SUFFICES ASSUME IInv, StoredSummaries, NEW o \in Orders, NEW d \in blocks[o] \cap items[o],
                      Plain(o, d)
               PROVE  header[o] = {SummaryOfTables(o)}
    BY DEF SummariesAgree
  <2>1. d \in Plans[o] /\ blocks[o] = {d}
    BY DEF IInv, TypeOK, StoredSummaries
  <2>2. /\ Of(properties, o) = PropertyRows(o, d)
        /\ Of(orderParties, o) = OrderPartyRows(o, d)
        /\ Of(loans, o) = LoanRows(o, d)
    <3>1. \A S : \A x : S = {x} =>
            /\ UNION {PropertyRows(o, e) : e \in S} = PropertyRows(o, x)
            /\ UNION {OrderPartyRows(o, e) : e \in S} = OrderPartyRows(o, x)
            /\ UNION {LoanRows(o, e) : e \in S} = LoanRows(o, x)
      OBVIOUS
    <3> QED
      BY <2>1, <3>1 DEF IInv, TablesFollowTheDocument
  <2>3. columns[o] = Highest(LoanRows(o, d)) /\ header[o] = {Summary(o, d)}
    BY DEF StoredSummaries
  <2>4. Cardinality(OrderPartyRows(o, d)) = Cardinality(DOMAIN PartyRows(o, d))
    BY <2>1, RowsCountParties DEF Plain
  <2>5. SumOf(LoanRows(o, d)) = SumOrNone(LoanRows(o, d))
    <3>1. SumOf(LoanRows(o, d)) # {0}
      BY DEF Plain
    <3>2. \A rows : SumOf(rows) = {} \/ \E n : SumOf(rows) = {n}
      BY DEF SumOf
    <3> QED
      BY <3>1, <3>2 DEF SumOrNone
  <2>6. {r.role : r \in OrderPartyRows(o, d)} = {m.role : m \in Mentions(o, d)}
    <3>1. \A r \in OrderPartyRows(o, d) : \E m \in Mentions(o, d) : r.role = m.role
      BY DEF OrderPartyRows
    <3>2. \A m \in Mentions(o, d) : \E r \in OrderPartyRows(o, d) : r.role = m.role
      <4>1. \A m \in Mentions(o, d) :
              [order |-> o, pid |-> m.pid, role |-> m.role, seq |-> m.seq] \in OrderPartyRows(o, d)
        BY DEF OrderPartyRows
      <4> QED
        BY <4>1
    <3> QED
      BY <3>1, <3>2
  <2> QED
    BY <2>2, <2>3, <2>4, <2>5, <2>6 DEF Summary, SummaryOfTables
<1> QED
  BY <1>1, InvHolds, StoredSummariesHold, PTL

----------------------------------------------------------------------------
(* CosmosOrders: items                                                     *)

LEMMA Ids ==
  ASSUME NEW v, NEW k, NEW i
  PROVE  <<v, k, i>>[1] = v /\ <<v, k, i>>[2] = k /\ <<v, k, i>>[3] = i
OBVIOUS

LEMMA HeaderIds == \A v : HeaderId(v)[1] = v /\ HeaderId(v)[2] = "HEADER" /\ HeaderId(v)[3] = 0
BY DEF HeaderId

LEMMA HeaderIsItem ==
  ASSUME NEW d \in Docs
  PROVE  HeaderId(Version[d]) \in ItemIds(d)
BY DEF ItemIds

LEMMA ItemForm ==
  ASSUME NEW d \in Docs, NEW id \in ItemIds(d)
  PROVE  /\ id[1] = Version[d] /\ id[2] \in Whole
         /\ id[2] = "HEADER" => id = HeaderId(Version[d])
         /\ id[2] # "HEADER" =>
              id[2] \in Keys /\ Parts[d][id[2]] > 0 /\ id \in BlockIds(Version[d], id[2], Parts[d][id[2]])
<1>1. CASE id = HeaderId(Version[d])
  BY <1>1, HeaderIds DEF Whole
<1>2. ASSUME NEW k \in Keys, Parts[d][k] > 0, id \in BlockIds(Version[d], k, Parts[d][k])
      PROVE  id[1] = Version[d] /\ id[2] = k
  BY <1>2, Ids DEF BlockIds
<1>3. id = HeaderId(Version[d])
        \/ \E k \in Keys : Parts[d][k] > 0 /\ id \in BlockIds(Version[d], k, Parts[d][k])
  BY DEF ItemIds
<1> QED BY <1>1, <1>2, <1>3, CosmosAssumption DEF Whole

LEMMA BlockItems ==
  ASSUME NEW d \in Docs, NEW k \in Keys
  PROVE  {id \in ItemIds(d) : id[2] = k} =
           IF Parts[d][k] > 0 THEN BlockIds(Version[d], k, Parts[d][k]) ELSE {}
<1>1. Parts[d][k] > 0 => BlockIds(Version[d], k, Parts[d][k]) \subseteq ItemIds(d)
  BY DEF ItemIds
<1>2. \A id \in BlockIds(Version[d], k, Parts[d][k]) : id[2] = k
  BY Ids DEF BlockIds
<1>3. k # "HEADER"
  BY CosmosAssumption
<1> QED BY <1>1, <1>2, <1>3, ItemForm

ChunksOf(v, k, n) == {<<v, k, i>> : i \in 1..n}

\* As many chunks as the block was cut into.
LEMMA ChunkCount ==
  ASSUME NEW v, NEW k, NEW n \in Nat
  PROVE  Cardinality(ChunksOf(v, k, n)) = n
<1> DEFINE f == [i \in 1..n |-> <<v, k, i>>]
<1>1. f \in Bijection(1..n, ChunksOf(v, k, n))
  <2>1. f \in [1..n -> ChunksOf(v, k, n)]
    BY DEF ChunksOf
  <2>2. \A y \in ChunksOf(v, k, n) : \E i \in 1..n : f[i] = y
    BY DEF ChunksOf
  <2>3. \A i, j \in 1..n : f[i] = f[j] => i = j
    <3> SUFFICES ASSUME NEW i \in 1..n, NEW j \in 1..n, f[i] = f[j] PROVE i = j
      OBVIOUS
    <3>1. <<v, k, i>> = <<v, k, j>>
      OBVIOUS
    <3> QED BY <3>1, Triples
  <2>4. IsInjective(f)
    BY <2>1, <2>3 DEF IsInjective
  <2> HIDE DEF f
  <2> QED BY <2>1, <2>2, <2>4 DEF Bijection, Injection, Surjection
<1>2. IsFiniteSet(1..n) /\ Cardinality(1..n) = n
  BY FS_Interval
<1> HIDE DEF f
<1> QED BY <1>1, <1>2, FS_Bijection DEF ExistsBijection

\* The items of parts q of a document, and no other.
OwnItems(seen, d, q) ==
  /\ DOMAIN seen = {id \in ItemIds(d) : id[2] \in q}
  /\ \A id \in DOMAIN seen : seen[id] = Item(d, id)

\* What a block of a document is cut into, of the items of the document.
LEMMA OwnBlock ==
  ASSUME NEW d \in Docs, NEW q, NEW seen,
         OwnItems(seen, d, q),
         NEW k \in Keys
  PROVE  /\ k \notin q \/ Parts[d][k] = 0 => ChunkIds(seen, k) = {} /\ WholeIds(seen, k) = {}
         /\ k \in q /\ Parts[d][k] = 1 =>
              ChunkIds(seen, k) = {} /\ WholeIds(seen, k) = {<<Version[d], k, 0>>}
         /\ k \in q /\ Parts[d][k] > 1 =>
              ChunkIds(seen, k) = ChunksOf(Version[d], k, Parts[d][k])
<1> DEFINE Own == {id \in DOMAIN seen : id[2] = k}
<1>0. Parts[d][k] \in Nat
  BY CosmosAssumption
<1>1. k \notin q => Own = {}
  BY DEF OwnItems
<1>2. k \in q => Own = {id \in ItemIds(d) : id[2] = k}
  BY DEF OwnItems
<1>3. ChunkIds(seen, k) = {id \in Own : id[3] > 0} /\ WholeIds(seen, k) = {id \in Own : id[3] = 0}
  BY DEF ChunkIds, WholeIds
<1>4. k \in q /\ Parts[d][k] = 0 => Own = {}
  BY <1>2, BlockItems
<1>5. k \in q /\ Parts[d][k] = 1 => Own = {<<Version[d], k, 0>>}
  BY <1>2, BlockItems DEF BlockIds
<1>6. k \in q /\ Parts[d][k] > 1 => Own = ChunksOf(Version[d], k, Parts[d][k])
  BY <1>0, <1>2, BlockItems DEF BlockIds, ChunksOf
<1>7. ASSUME NEW id \in ChunksOf(Version[d], k, Parts[d][k]) PROVE id[3] > 0
  BY <1>0 DEF ChunksOf
<1>8. <<Version[d], k, 0>>[3] = 0
  OBVIOUS
<1> HIDE DEF Own
<1> QED BY <1>1, <1>3, <1>4, <1>5, <1>6, <1>7, <1>8

\* The items of a document and of no other read back as it.
LEMMA OwnItemsReadBack ==
  ASSUME NEW d \in Docs, NEW q \in SUBSET Whole, NEW seen, OwnItems(seen, d, q)
  PROVE  ReadsAs(seen, d, q)
<1>0. ASSUME NEW id \in DOMAIN seen PROVE seen[id].by = d
  <2>1. seen[id] = Item(d, id)
    BY DEF OwnItems
  <2> QED BY <2>1 DEF Item
<1>1. "HEADER" \in q => HeaderId(Version[d]) \in DOMAIN seen /\ seen[HeaderId(Version[d])].by = d
  <2>1. "HEADER" \in q => HeaderId(Version[d]) \in DOMAIN seen
    BY HeaderIsItem, HeaderIds DEF OwnItems
  <2> QED BY <1>0, <2>1
<1>2. ASSUME NEW k \in Keys PROVE Parts[d][k] \in Nat
  BY CosmosAssumption
<1>3. ~Raises(seen)
  <2> SUFFICES ASSUME NEW k \in Keys, NEW id \in ChunkIds(seen, k)
               PROVE  seen[id].count = Cardinality(ChunkIds(seen, k))
    BY DEF Raises
  <2>1. k \in q /\ Parts[d][k] > 1 /\ ChunkIds(seen, k) = ChunksOf(Version[d], k, Parts[d][k])
    BY <1>2, OwnBlock
  <2>2. Cardinality(ChunkIds(seen, k)) = Parts[d][k]
    BY <1>2, <2>1, ChunkCount
  <2>3. id \in DOMAIN seen /\ id[2] = k
    BY DEF ChunkIds
  <2>4. seen[id] = Item(d, id)
    BY <2>3 DEF OwnItems
  <2> QED BY <2>2, <2>3, <2>4 DEF Item
<1>4. ASSUME NEW k \in q \cap Keys
      PROVE  Shown(seen, k) = IF Parts[d][k] > 0 THEN {d} ELSE {}
  <2>0. \A id \in DOMAIN seen : seen[id].by = d
    BY <1>0
  <2>1. \A S \in SUBSET DOMAIN seen : {seen[id].by : id \in S} = IF S = {} THEN {} ELSE {d}
    BY <2>0
  <2>2. ChunkIds(seen, k) \in SUBSET DOMAIN seen /\ WholeIds(seen, k) \in SUBSET DOMAIN seen
    BY DEF ChunkIds, WholeIds
  <2>3. Shown(seen, k) = IF ChunkIds(seen, k) # {} \/ WholeIds(seen, k) # {} THEN {d} ELSE {}
    <3>1. CASE ChunkIds(seen, k) # {}
      BY <3>1, <2>1, <2>2 DEF Shown
    <3>2. CASE ChunkIds(seen, k) = {}
      BY <3>2, <2>1, <2>2 DEF Shown
    <3> QED BY <3>1, <3>2
  <2>4. Parts[d][k] > 0 <=> ChunkIds(seen, k) # {} \/ WholeIds(seen, k) # {}
    <3>0. /\ Parts[d][k] = 0 => ChunkIds(seen, k) = {} /\ WholeIds(seen, k) = {}
          /\ Parts[d][k] = 1 => WholeIds(seen, k) = {<<Version[d], k, 0>>}
          /\ Parts[d][k] > 1 => ChunkIds(seen, k) = ChunksOf(Version[d], k, Parts[d][k])
      BY OwnBlock
    <3>1. CASE Parts[d][k] > 1
      <4>1. <<Version[d], k, 1>> \in ChunksOf(Version[d], k, Parts[d][k])
        BY <1>2, <3>1 DEF ChunksOf
      <4>2. ChunkIds(seen, k) # {}
        BY <3>0, <3>1, <4>1
      <4> QED BY <1>2, <3>1, <4>2
    <3>2. CASE Parts[d][k] = 1
      <4>1. <<Version[d], k, 0>> \in WholeIds(seen, k)
        BY <3>0, <3>2
      <4>2. WholeIds(seen, k) # {}
        BY <4>1
      <4> QED BY <3>2, <4>2
    <3>3. CASE Parts[d][k] = 0
      <4>1. ChunkIds(seen, k) = {} /\ WholeIds(seen, k) = {}
        BY <3>0, <3>3
      <4> QED BY <3>3, <4>1
    <3> QED BY <1>2, <3>1, <3>2, <3>3
  <2> QED BY <2>3, <2>4
<1> QED BY <1>1, <1>3, <1>4 DEF ReadsAs

----------------------------------------------------------------------------
(* CosmosOrders: the invariant                                             *)

\* An item is of a writer of its version, and a document writes its own items,
\* the header among them.
ItemOK(id, item) ==
  /\ id[1] \in Versions
  /\ item.by \in writers[id[1]]
  /\ item.by \in Docs => id \in ItemIds(item.by) /\ item = Item(item.by, id)
  /\ id[2] = "HEADER" => item.by \in Docs

ItemsOK(seen, v, q) == \A id \in DOMAIN seen : id[1] = v /\ id[2] \in q /\ ItemOK(id, seen[id])

StoredOK(D, v) == \A d \in D : d \in Docs /\ Version[d] = v /\ ItemIds(d) \subseteq DOMAIN store

Typed ==
  /\ DOMAIN todo = Clients /\ DOMAIN got = Clients
  /\ at \in [Clients -> {"idle", "upserting", "editing", "header", "first page", "last page"}]
  /\ doc \in [Clients -> Docs \cup {NoDoc}]
  /\ tries \in [Clients -> 0..(MaxTries - 1)]
  /\ writers \in [Versions -> SUBSET (Docs \cup Clients)]
  /\ complete \in [Versions -> SUBSET Docs]
  /\ last \in Versions \cup {0}

\* What a writer has yet to store, and what it has read to write it back.
WriterInv(c) ==
  /\ at[c] = "upserting" =>
       /\ doc[c] \in Docs /\ doc[c] \in writers[Version[doc[c]]]
       /\ todo[c] \subseteq ItemIds(doc[c]) /\ ItemIds(doc[c]) \ todo[c] \subseteq DOMAIN store
  /\ at[c] = "editing" =>
       /\ got[c].version \in Versions /\ got[c].key \in Keys
       /\ HeaderId(got[c].version) \in DOMAIN store
  /\ at[c] = "header" =>
       /\ got[c].version \in Versions
       /\ HeaderId(got[c].version) \in DOMAIN store
       /\ ItemOK(HeaderId(got[c].version), got[c].item)

\* What a reader has seen; what had been ingested before it began, it will see.
ReaderInv(c) ==
  /\ at[c] \in {"first page", "last page"} =>
       /\ got[c].kind \in {"stub", "page"}
       /\ got[c].version \in Versions /\ got[c].of \subseteq Whole
       /\ StoredOK(got[c].complete, got[c].version)
       /\ got[c].kind = "page" => ItemsOK(got[c].items, got[c].version, got[c].of)
  /\ got[c].kind = "read" =>
       /\ got[c].of \subseteq Whole
       /\ ItemsOK(got[c].items, got[c].version, got[c].of)
       /\ \A d \in got[c].complete :
            d \in Docs /\ {id \in ItemIds(d) : id[2] \in got[c].of} \subseteq DOMAIN got[c].items
  /\ got[c].kind = "rows" =>
       \A v \in Versions :
         /\ v \in DOMAIN got[c].rows => got[c].rows[v] \in writers[v]
         /\ got[c].complete[v] # {} => v \in DOMAIN got[c].rows

StoreInv ==
  /\ \A id \in DOMAIN store : ItemOK(id, store[id]) /\ HeaderId(id[1]) \in DOMAIN store
  /\ \A v \in Versions : StoredOK(complete[v], v)

CosmosInv == Typed /\ StoreInv /\ \A c \in Clients : WriterInv(c) /\ ReaderInv(c)

----------------------------------------------------------------------------

\* The histories and the ids only grow.
Grows == DOMAIN store \subseteq DOMAIN store' /\ \A v \in Versions : writers[v] \subseteq writers'[v]

LEMMA ItemKeeps ==
  ASSUME Grows, NEW id, NEW item, ItemOK(id, item) PROVE ItemOK(id, item)'
BY DEF Grows, ItemOK

LEMMA StoredKeeps ==
  ASSUME Grows, NEW D, NEW v, StoredOK(D, v) PROVE StoredOK(D, v)'
BY DEF Grows, StoredOK

\* What one client knows stays true while others act.
LEMMA ClientKeeps ==
  ASSUME Grows, NEW c \in Clients, WriterInv(c), ReaderInv(c),
         at'[c] = at[c], doc'[c] = doc[c], todo'[c] = todo[c], got'[c] = got[c]
  PROVE  WriterInv(c)' /\ ReaderInv(c)'
<1>1. WriterInv(c)'
  <2>1. CASE at[c] = "upserting"
    <3>1. Version[doc[c]] \in Versions
      BY <2>1 DEF WriterInv, Versions
    <3> QED BY <2>1, <3>1 DEF WriterInv, Grows
  <2>2. CASE at[c] = "editing"
    BY <2>2 DEF WriterInv, Grows
  <2>3. CASE at[c] = "header"
    BY <2>3, ItemKeeps DEF WriterInv, Grows
  <2>4. CASE at[c] \notin {"upserting", "editing", "header"}
    BY <2>4 DEF WriterInv
  <2> QED BY <2>1, <2>2, <2>3, <2>4
<1>2. \A seen, v, q : ItemsOK(seen, v, q) => ItemsOK(seen, v, q)'
  BY ItemKeeps DEF ItemsOK
<1>3. ReaderInv(c)'
  <2>1. at[c] \in {"first page", "last page"} =>
          /\ StoredOK(got[c].complete, got[c].version)'
          /\ got[c].kind = "page" => ItemsOK(got[c].items, got[c].version, got[c].of)'
    BY <1>2, StoredKeeps DEF ReaderInv
  <2>2. got[c].kind = "read" => ItemsOK(got[c].items, got[c].version, got[c].of)'
    BY <1>2 DEF ReaderInv
  <2>3. got[c].kind = "rows" => \A v \in Versions : v \in DOMAIN got[c].rows => got[c].rows[v] \in writers'[v]
    BY DEF ReaderInv, Grows
  <2> QED BY <2>1, <2>2, <2>3 DEF ReaderInv
<1> QED BY <1>1, <1>3

\* A step that stores nothing and ends no ingest keeps the store's part.
LEMMA StoreKeeps ==
  ASSUME StoreInv, Grows, store' = store, complete' = complete
  PROVE  StoreInv'
<1>1. \A id \in DOMAIN store : ItemOK(id, store[id])' /\ HeaderId(id[1]) \in DOMAIN store'
  BY DEF StoreInv, ItemOK, Grows
<1>2. \A v \in Versions : StoredOK(complete[v], v)'
  BY DEF StoreInv, StoredOK, Grows
<1> QED BY <1>1, <1>2 DEF StoreInv

\* A step that stores one good item keeps it too, if its header is there.
LEMMA PutKeeps ==
  ASSUME StoreInv, NEW id, NEW item, store' = Put(store, id, item), complete' = complete,
         \A v \in Versions : writers[v] \subseteq writers'[v],
         ItemOK(id, item)', HeaderId(id[1]) \in DOMAIN store \cup {id}
  PROVE  StoreInv' /\ Grows /\ DOMAIN store' = DOMAIN store \cup {id}
<1>1. DOMAIN store' = DOMAIN store \cup {id}
  BY DEF Put
<1>2. Grows
  BY <1>1 DEF Grows
<1>3. ASSUME NEW i \in DOMAIN store' PROVE ItemOK(i, store[i])' /\ HeaderId(i[1]) \in DOMAIN store'
  <2>1. CASE i = id
    BY <1>1, <2>1 DEF Put, ItemOK
  <2>2. CASE i # id
    <3>1. i \in DOMAIN store /\ store'[i] = store[i]
      BY <1>1, <1>3, <2>2 DEF Put
    <3> QED BY <1>1, <1>2, <3>1 DEF StoreInv, ItemOK, Grows
  <2> QED BY <2>1, <2>2
<1>4. \A v \in Versions : StoredOK(complete[v], v)'
  BY <1>2 DEF StoreInv, StoredOK, Grows
<1> QED BY <1>1, <1>2, <1>3, <1>4 DEF StoreInv

----------------------------------------------------------------------------
(* CosmosOrders: the steps                                                 *)

LEMMA TypedStep ==
  ASSUME CosmosInv, [CosmosNext]_cosmosOrderVars
  PROVE  Typed'
<1> USE DEF Typed
<1>0. MaxTries \in Nat \ {0} /\ 0 \in 0..(MaxTries - 1)
  BY CosmosAssumption
<1>1. Typed /\ \A d \in Docs : Version[d] \in Versions
  BY DEF CosmosInv, Versions
<1>2. ASSUME NEW c \in Clients, NEW d \in Docs, IngestBegins(c, d) PROVE Typed'
  BY <1>1, <1>2 DEF IngestBegins, Goto
<1>3. ASSUME NEW c \in Clients, Ingesting(c) PROVE Typed'
  <2>1. CASE Upsert(c)
    BY <1>0, <1>1, <2>1 DEF Upsert
  <2>2. CASE Throttled(c)
    <3>1. tries[c] \in 0..(MaxTries - 1) /\ tries[c] + 1 < MaxTries
      BY <1>1, <1>3, <2>2 DEF Throttled, TriesLeft
    <3>2. tries[c] + 1 \in 0..(MaxTries - 1)
      BY <1>0, <3>1
    <3> QED BY <1>1, <2>2, <3>2 DEF Throttled
  <2>3. CASE GivesUp(c) \/ IngestFails(c)
    <3>1. Leave(c)
      BY <2>3 DEF GivesUp, OutOfTries, IngestFails
    <3>2. DOMAIN todo' = Clients /\ DOMAIN got' = Clients
      BY <1>1, <3>1 DEF Leave
    <3>3. at' \in [Clients -> {"idle", "upserting", "editing", "header", "first page", "last page"}]
      BY <1>1, <3>1 DEF Leave, Goto
    <3>4. doc' \in [Clients -> Docs \cup {NoDoc}] /\ tries' \in [Clients -> 0..(MaxTries - 1)]
      BY <1>0, <1>1, <3>1 DEF Leave
    <3> QED BY <1>1, <3>1, <3>2, <3>3, <3>4 DEF Leave
  <2>4. CASE IngestReturns(c)
    <3>1. doc[c] \in Docs
      BY <1>3, <2>4 DEF CosmosInv, WriterInv, IngestReturns
    <3> QED BY <1>1, <2>4, <3>1 DEF IngestReturns, Goto
  <2> QED BY <1>3, <2>1, <2>2, <2>3, <2>4 DEF Ingesting
<1>4. ASSUME NEW c \in Clients, \/ \E k \in Keys : EditBegins(c, k)
                                \/ HeaderRead(c) \/ HeaderUpserts(c) \/ EditFails(c)
      PROVE  Typed'
  BY <1>1, <1>4 DEF EditBegins, HeaderRead, HeaderUpserts, EditFails, Goto
<1>5. ASSUME NEW c \in Clients, EditUpserts(c) PROVE Typed'
  BY <1>1, <1>5 DEF EditUpserts, Goto
<1>6. ASSUME NEW c \in Clients, NEW q, ReadBegins(c, q) PROVE Typed'
  BY <1>1, <1>6 DEF ReadBegins, Goto
<1>7. ASSUME NEW c \in Clients, FirstPage(c) \/ LastPage(c) \/ Search(c) PROVE Typed'
  BY <1>1, <1>7 DEF FirstPage, LastPage, Search, Goto
<1>8. CASE UNCHANGED cosmosOrderVars
  BY <1>1, <1>8 DEF cosmosOrderVars
<1> QED BY <1>2, <1>3, <1>4, <1>5, <1>6, <1>7, <1>8 DEF CosmosNext, Clients

\* A step of c leaves what the others know.
Others(c) == \A e \in Clients \ {c} :
  at'[e] = at[e] /\ doc'[e] = doc[e] /\ todo'[e] = todo[e] /\ got'[e] = got[e]

LEMMA OneMoves ==
  ASSUME CosmosInv, [CosmosNext]_cosmosOrderVars, NEW c \in Clients, Others(c), Grows,
         StoreInv', WriterInv(c)', ReaderInv(c)'
  PROVE  CosmosInv'
<1>1. ASSUME NEW e \in Clients, e # c PROVE WriterInv(e)' /\ ReaderInv(e)'
  BY <1>1, ClientKeeps DEF CosmosInv, Others
<1> QED BY <1>1, TypedStep DEF CosmosInv

LEMMA IngestSteps ==
  ASSUME CosmosInv, [CosmosNext]_cosmosOrderVars, NEW c \in Clients,
         Ingesting(c) \/ \E d \in Docs : IngestBegins(c, d)
  PROVE  CosmosInv'
<1>1. ReaderInv(c) /\ WriterInv(c) /\ StoreInv
      /\ at \in [Clients -> {"idle", "upserting", "editing", "header", "first page", "last page"}]
      /\ doc \in [Clients -> Docs \cup {NoDoc}]
      /\ DOMAIN todo = Clients /\ DOMAIN got = Clients
      /\ writers \in [Versions -> SUBSET (Docs \cup Clients)]
      /\ complete \in [Versions -> SUBSET Docs]
  BY DEF CosmosInv, Typed
<1>2. ASSUME NEW d \in Docs, IngestBegins(c, d) PROVE CosmosInv'
  <2>1. Version[d] \in Versions /\ HeaderId(Version[d]) \in ItemIds(d)
    BY HeaderIsItem DEF Versions
  <2>2. Grows /\ Others(c)
    BY <1>1, <1>2 DEF IngestBegins, Grows, Others, Goto
  <2>3. StoreInv'
    BY <1>1, <1>2, <2>2, StoreKeeps DEF IngestBegins
  <2>4. WriterInv(c)'
    BY <1>1, <1>2, <2>1 DEF IngestBegins, WriterInv, Goto
  <2>5. ReaderInv(c)'
    BY <1>1, <1>2 DEF IngestBegins, ReaderInv, Nothing, Goto
  <2> QED BY <2>2, <2>3, <2>4, <2>5, OneMoves
<1>3. ASSUME Upsert(c) PROVE CosmosInv'
  <2>0. at[c] = "upserting" /\ doc[c] \in Docs /\ doc[c] \in writers[Version[doc[c]]]
        /\ todo[c] \subseteq ItemIds(doc[c]) /\ ItemIds(doc[c]) \ todo[c] \subseteq DOMAIN store
    BY <1>1, <1>3 DEF Upsert, WriterInv
  <2>1. PICK id \in NextIds(c) : /\ store' = Put(store, id, Item(doc[c], id))
                                 /\ todo' = [todo EXCEPT ![c] = @ \ {id}]
    BY <1>3 DEF Upsert
  <2>2. id \in todo[c] /\ (id = HeaderId(Version[doc[c]]) \/ HeaderId(Version[doc[c]]) \notin todo[c])
    BY <2>1 DEF NextIds
  <2>3. id \in ItemIds(doc[c]) /\ id[1] = Version[doc[c]] /\ id[1] \in Versions
    BY <2>0, <2>2, ItemForm DEF Versions
  <2>4. HeaderId(id[1]) \in DOMAIN store \cup {id}
    BY <2>0, <2>2, <2>3, HeaderIsItem
  <2>5. ItemOK(id, Item(doc[c], id))'
    <3>1. Item(doc[c], id).by = doc[c]
      BY DEF Item
    <3>2. writers' = writers /\ doc' = doc
      BY <1>3 DEF Upsert
    <3> QED BY <2>0, <2>3, <3>1, <3>2 DEF ItemOK
  <2>6. StoreInv' /\ Grows /\ DOMAIN store' = DOMAIN store \cup {id}
    <3>1. \A v \in Versions : writers[v] \subseteq writers'[v]
      BY <1>3 DEF Upsert
    <3>2. complete' = complete /\ doc' = doc
      BY <1>3 DEF Upsert
    <3> DEFINE item == Item(doc[c], id)
    <3>3. ItemOK(id, item)'
      BY <2>5
    <3> QED BY <1>1, <2>1, <2>4, <2>5, <3>1, <3>2, PutKeeps
  <2>7. Others(c)
    BY <1>1, <1>3, <2>1 DEF Upsert, Others
  <2>8. WriterInv(c)'
    BY <1>1, <1>3, <2>0, <2>1, <2>6 DEF Upsert, WriterInv
  <2>9. ReaderInv(c)'
    BY <1>1, <1>3, <2>0, <2>6 DEF Upsert, ReaderInv, ItemsOK, ItemOK, Grows
  <2> QED BY <2>6, <2>7, <2>8, <2>9, OneMoves
<1>4. ASSUME Throttled(c) \/ GivesUp(c) \/ IngestFails(c) PROVE CosmosInv'
  <2>0. at[c] = "upserting" /\ UNCHANGED <<store, got, writers, complete>>
        /\ \/ UNCHANGED <<at, doc, todo>>
           \/ at' = [at EXCEPT ![c] = "idle"] /\ DOMAIN todo' = Clients
    BY <1>1, <1>4 DEF Throttled, GivesUp, OutOfTries, IngestFails, Leave, Goto
  <2>1. Grows
    BY <2>0 DEF Grows
  <2>2. Others(c)
    BY <1>1, <1>4 DEF Others, Throttled, GivesUp, OutOfTries, IngestFails, Leave, Goto
  <2>3. StoreInv'
    BY <1>1, <2>0, <2>1, StoreKeeps
  <2>4. WriterInv(c)'
    BY <1>1, <2>0 DEF WriterInv, ItemOK
  <2>5. ReaderInv(c)'
    BY <1>1, <2>0 DEF ReaderInv, ItemsOK, ItemOK, StoredOK
  <2> QED BY <2>1, <2>2, <2>3, <2>4, <2>5, OneMoves
<1>5. ASSUME IngestReturns(c) PROVE CosmosInv'
  <2>0. at[c] = "upserting" /\ doc[c] \in Docs /\ ItemIds(doc[c]) \subseteq DOMAIN store
    BY <1>1, <1>5 DEF IngestReturns, WriterInv
  <2>1. UNCHANGED <<store, todo, got, writers>> /\ at' = [at EXCEPT ![c] = "idle"]
    BY <1>5 DEF IngestReturns, Goto
  <2>2. Grows /\ Others(c)
    BY <1>1, <1>5 DEF IngestReturns, Goto, Grows, Others
  <2>3. StoreInv'
    <3>1. \A id \in DOMAIN store : ItemOK(id, store[id])' /\ HeaderId(id[1]) \in DOMAIN store'
      BY <1>1, <2>1 DEF StoreInv, ItemOK
    <3>2. ASSUME NEW v \in Versions, NEW d \in complete'[v]
          PROVE  d \in Docs /\ Version[d] = v /\ ItemIds(d) \subseteq DOMAIN store
      <4>1. d \in complete[v] \/ (d = doc[c] /\ v = Version[doc[c]])
        <5>1. complete' = [complete EXCEPT ![Version[doc[c]]] = @ \cup {doc[c]}]
          BY <1>5 DEF IngestReturns
        <5>2. DOMAIN complete = Versions
          BY <1>1
        <5>3. CASE v = Version[doc[c]]
          BY <3>2, <5>1, <5>2, <5>3
        <5>4. CASE v # Version[doc[c]]
          <6>1. complete'[v] = complete[v]
            BY <5>1, <5>2, <5>4
          <6> QED BY <3>2, <6>1
        <5> QED BY <5>3, <5>4
      <4> QED BY <1>1, <2>0, <4>1 DEF StoreInv, StoredOK
    <3>3. \A v \in Versions : StoredOK(complete[v], v)'
      BY <2>1, <3>2 DEF StoredOK
    <3> QED BY <2>1, <3>1, <3>3 DEF StoreInv
  <2>4. WriterInv(c)'
    BY <1>1, <2>1 DEF WriterInv
  <2>5. ReaderInv(c)'
    BY <1>1, <2>0, <2>1 DEF ReaderInv, ItemsOK, ItemOK
  <2> QED BY <2>2, <2>3, <2>4, <2>5, OneMoves
<1> QED BY <1>2, <1>3, <1>4, <1>5 DEF Ingesting

LEMMA EditSteps ==
  ASSUME CosmosInv, [CosmosNext]_cosmosOrderVars, NEW c \in Clients,
         \/ \E k \in Keys : EditBegins(c, k)
         \/ EditUpserts(c) \/ HeaderRead(c) \/ HeaderUpserts(c) \/ EditFails(c)
  PROVE  CosmosInv'
<1>1. ReaderInv(c) /\ WriterInv(c) /\ StoreInv
      /\ at \in [Clients -> {"idle", "upserting", "editing", "header", "first page", "last page"}]
      /\ DOMAIN got = Clients
      /\ writers \in [Versions -> SUBSET (Docs \cup Clients)]
  BY DEF CosmosInv, Typed
<1>2. ASSUME \/ \E k \in Keys : EditBegins(c, k)
             \/ HeaderRead(c)
             \/ EditFails(c)
      PROVE  CosmosInv'
  <2>0. UNCHANGED <<store, doc, todo, tries, writers, complete, last>>
    BY <1>2 DEF EditBegins, HeaderRead, EditFails
  <2>1. Grows
    BY <2>0 DEF Grows
  <2>2. Others(c)
    BY <1>1, <1>2, <2>0 DEF Others, EditBegins, HeaderRead, EditFails, Goto
  <2>3. StoreInv'
    BY <1>1, <2>0, <2>1, StoreKeeps
  <2>4. WriterInv(c)' /\ ReaderInv(c)'
    <3>1. CASE \E k \in Keys : EditBegins(c, k)
      <4>1. PICK k \in Keys, v \in FoundVersions :
              got' = [got EXCEPT ![c] = [kind |-> "edit", version |-> v, key |-> k]]
        BY <3>1 DEF EditBegins
      <4>2. at'[c] = "editing" /\ got'[c] = [kind |-> "edit", version |-> v, key |-> k]
        BY <1>1, <3>1, <4>1 DEF EditBegins, Goto
      <4>3. v \in Versions /\ HeaderId(v) \in DOMAIN store'
        BY <2>0 DEF FoundVersions
      <4> QED BY <4>2, <4>3 DEF WriterInv, ReaderInv
    <3>2. CASE HeaderRead(c)
      <4>1. PICK v \in FoundVersions :
              got' = [got EXCEPT ![c] = [kind |-> "header", version |-> v, item |-> store[HeaderId(v)]]]
        BY <3>2 DEF HeaderRead
      <4>2. at'[c] = "header" /\ got'[c] = [kind |-> "header", version |-> v, item |-> store[HeaderId(v)]]
        BY <1>1, <3>2, <4>1 DEF HeaderRead, Goto
      <4>3. v \in Versions /\ HeaderId(v) \in DOMAIN store
        BY DEF FoundVersions
      <4>4. ItemOK(HeaderId(v), store[HeaderId(v)])
        BY <1>1, <4>3 DEF StoreInv
      <4>5. got'[c].version = v /\ got'[c].item = store[HeaderId(v)] /\ got'[c].kind = "header"
        BY <4>2
      <4>6. WriterInv(c)'
        BY <2>0, <4>2, <4>3, <4>4, <4>5 DEF WriterInv, ItemOK
      <4>7. ReaderInv(c)'
        BY <4>2, <4>5 DEF ReaderInv
      <4> QED BY <4>6, <4>7
    <3>3. CASE EditFails(c)
      BY <1>1, <3>3 DEF EditFails, Goto, WriterInv, ReaderInv, Nothing
    <3> QED BY <1>2, <3>1, <3>2, <3>3
  <2> QED BY <2>1, <2>2, <2>3, <2>4, OneMoves
<1>3. ASSUME EditUpserts(c) PROVE CosmosInv'
  <2>0. DEFINE v == got[c].version
  <2>1. v \in Versions /\ got[c].key \in Keys /\ HeaderId(v) \in DOMAIN store
    BY <1>1, <1>3 DEF EditUpserts, WriterInv
  <2>2. PICK id, item : /\ id = <<v, got[c].key, 0>>
                        /\ item = [by |-> c, count |-> 1]
                        /\ store' = Put(store, id, item)
    BY <1>3 DEF EditUpserts
  <2>3. id[1] = v /\ id[2] = got[c].key /\ id[2] # "HEADER" /\ item.by = c /\ c \notin Docs
    BY <2>1, <2>2, Ids, CosmosAssumption
  <2>4. writers' = [writers EXCEPT ![v] = @ \cup {c}] /\ UNCHANGED <<doc, todo, tries, complete, last>>
    BY <1>3 DEF EditUpserts
  <2>5. ItemOK(id, item)'
    BY <1>1, <2>1, <2>3, <2>4 DEF ItemOK
  <2>6. \A w \in Versions : writers[w] \subseteq writers'[w]
    BY <1>1, <2>4
  <2>7. StoreInv' /\ Grows
    BY <1>1, <2>1, <2>2, <2>3, <2>4, <2>5, <2>6, PutKeeps
  <2>8. at'[c] = "idle" /\ got'[c] = Nothing /\ Others(c)
    BY <1>1, <1>3, <2>4 DEF EditUpserts, Goto, Others
  <2>9. WriterInv(c)' /\ ReaderInv(c)'
    BY <2>8 DEF WriterInv, ReaderInv, Nothing
  <2> QED BY <2>7, <2>8, <2>9, OneMoves
<1>4. ASSUME HeaderUpserts(c) PROVE CosmosInv'
  <2>0. DEFINE v == got[c].version
  <2>1. v \in Versions /\ HeaderId(v) \in DOMAIN store /\ ItemOK(HeaderId(v), got[c].item)
    BY <1>1, <1>4 DEF HeaderUpserts, WriterInv
  <2>2. PICK id, item : id = HeaderId(v) /\ item = got[c].item /\ store' = Put(store, id, item)
    BY <1>4 DEF HeaderUpserts
  <2>3. UNCHANGED <<doc, todo, tries, writers, complete, last>>
    BY <1>4 DEF HeaderUpserts
  <2>4. ItemOK(id, item)'
    BY <2>1, <2>2, <2>3 DEF ItemOK
  <2>5. id[1] = v
    BY <2>2, HeaderIds
  <2>6. StoreInv' /\ Grows
    BY <1>1, <2>1, <2>2, <2>3, <2>4, <2>5, PutKeeps
  <2>7. at'[c] = "idle" /\ got'[c] = Nothing /\ Others(c)
    BY <1>1, <1>4, <2>3 DEF HeaderUpserts, Goto, Others
  <2>8. WriterInv(c)' /\ ReaderInv(c)'
    BY <2>7 DEF WriterInv, ReaderInv, Nothing
  <2> QED BY <2>6, <2>7, <2>8, OneMoves
<1> QED BY <1>2, <1>3, <1>4

\* The stored items of a version are good ones of it.
LEMMA StoreItems ==
  ASSUME StoreInv, NEW ids, NEW q, NEW v, ids \subseteq Wanted(q, v)
  PROVE  ItemsOK(Restrict(store, ids), v, q)
<1>1. Wanted(q, v) \subseteq {id \in DOMAIN store : id[1] = v /\ id[2] \in q}
  BY DEF Wanted, AtVersion, Restrict
<1>2. \A id \in ids : id \in DOMAIN store /\ id[1] = v /\ id[2] \in q
  BY <1>1
<1>3. DOMAIN Restrict(store, ids) = ids /\ \A id \in ids : Restrict(store, ids)[id] = store[id]
  BY DEF Restrict
<1>4. \A id \in DOMAIN store : ItemOK(id, store[id])
  BY DEF StoreInv
<1> QED BY <1>2, <1>3, <1>4 DEF ItemsOK

LEMMA ReadSteps ==
  ASSUME CosmosInv, [CosmosNext]_cosmosOrderVars, NEW c \in Clients,
         \/ \E q \in {Whole, {"HEADER"}} \cup {{k} : k \in Keys} : ReadBegins(c, q)
         \/ FirstPage(c) \/ LastPage(c) \/ Search(c)
  PROVE  CosmosInv'
<1>1. ReaderInv(c) /\ WriterInv(c) /\ StoreInv
      /\ at \in [Clients -> {"idle", "upserting", "editing", "header", "first page", "last page"}]
      /\ DOMAIN got = Clients
      /\ complete \in [Versions -> SUBSET Docs]
  BY DEF CosmosInv, Typed
<1>2. UNCHANGED <<store, doc, todo, tries, writers, complete, last>>
  BY DEF ReadBegins, FirstPage, LastPage, Search
<1>3. Grows
  BY <1>2 DEF Grows
<1>4. Others(c)
  BY <1>1, <1>2 DEF Others, ReadBegins, FirstPage, LastPage, Search, Goto
<1>5. StoreInv'
  BY <1>1, <1>2, <1>3, StoreKeeps
<1>6. \A seen, v, q : ItemsOK(seen, v, q) => ItemsOK(seen, v, q)'
  BY <1>3, ItemKeeps DEF ItemsOK
<1>7. \A D, v : StoredOK(D, v) => StoredOK(D, v)'
  BY <1>3, StoredKeeps
<1>8. WriterInv(c)' /\ ReaderInv(c)'
  <2>1. ASSUME NEW q \in {Whole, {"HEADER"}} \cup {{k} : k \in Keys}, ReadBegins(c, q)
        PROVE  WriterInv(c)' /\ ReaderInv(c)'
    <3>1. PICK v \in FoundVersions :
            got' = [got EXCEPT ![c] =
              [kind |-> "stub", of |-> q, version |-> v, complete |-> complete[v], last |-> last]]
      BY <2>1 DEF ReadBegins
    <3>2. got'[c] = [kind |-> "stub", of |-> q, version |-> v, complete |-> complete[v], last |-> last]
      BY <1>1, <3>1
    <3>3. at'[c] \in {"first page", "last page"}
      BY <1>1, <2>1 DEF ReadBegins, Goto
    <3>4. got'[c].kind = "stub" /\ got'[c].version = v /\ got'[c].of = q /\ got'[c].complete = complete[v]
      BY <3>2
    <3>5. v \in Versions /\ q \subseteq Whole
      BY DEF FoundVersions, Whole
    <3>6. StoredOK(complete[v], v)
      BY <1>1, <3>5 DEF StoreInv
    <3>7. StoredOK(got[c].complete, got[c].version)'
      BY <1>2, <3>4, <3>6 DEF StoredOK
    <3>8. WriterInv(c)'
      BY <3>3 DEF WriterInv
    <3>9. ReaderInv(c)'
      BY <3>3, <3>4, <3>5, <3>7 DEF ReaderInv
    <3> QED BY <3>8, <3>9
  <2>2. ASSUME FirstPage(c) PROVE WriterInv(c)' /\ ReaderInv(c)'
    <3>0. PICK ids \in SUBSET Wanted(got[c].of, got[c].version) :
            got' = [got EXCEPT ![c] =
              [kind |-> "page", of |-> got[c].of, version |-> got[c].version, complete |-> got[c].complete,
               last |-> got[c].last, items |-> Restrict(store, ids)]]
      BY <2>2 DEF FirstPage
    <3>1. at[c] = "first page" /\ at'[c] = "last page"
      BY <1>1, <2>2 DEF FirstPage, Goto
    <3>2. /\ got'[c].kind = "page" /\ got'[c].of = got[c].of /\ got'[c].version = got[c].version
          /\ got'[c].complete = got[c].complete /\ got'[c].items = Restrict(store, ids)
      BY <1>1, <3>0
    <3>3. got[c].version \in Versions /\ got[c].of \subseteq Whole /\ StoredOK(got[c].complete, got[c].version)
      BY <1>1, <3>1 DEF ReaderInv
    <3>4. ItemsOK(Restrict(store, ids), got[c].version, got[c].of)
      BY <1>1, <3>0, StoreItems
    <3>5. ItemsOK(got[c].items, got[c].version, got[c].of)'
      BY <3>4, <3>2, <1>2 DEF ItemsOK, ItemOK
    <3>6. StoredOK(got[c].complete, got[c].version)'
      BY <3>3, <3>2, <1>2 DEF StoredOK
    <3>7. WriterInv(c)'
      BY <3>1 DEF WriterInv
    <3>8. ReaderInv(c)'
      BY <3>1, <3>2, <3>3, <3>5, <3>6 DEF ReaderInv
    <3> QED BY <3>7, <3>8
  <2>3. ASSUME LastPage(c) PROVE WriterInv(c)' /\ ReaderInv(c)'
    <3> DEFINE W == Wanted(got[c].of, got[c].version)
    <3> DEFINE F == FirstItems(c)
    <3> DEFINE I == [id \in W |-> IF id \in DOMAIN F THEN F[id] ELSE store[id]]
    <3>1. at[c] = "last page" /\ at'[c] = "idle"
      BY <1>1, <2>3 DEF LastPage, Goto
    <3>2. /\ got'[c].kind = "read" /\ got'[c].of = got[c].of /\ got'[c].version = got[c].version
          /\ got'[c].complete = got[c].complete /\ got'[c].items = I
      BY <1>1, <2>3 DEF LastPage
    <3>3. got[c].version \in Versions /\ got[c].of \subseteq Whole /\ StoredOK(got[c].complete, got[c].version)
      BY <1>1, <3>1 DEF ReaderInv
    <3>4. \A id \in DOMAIN F : ItemOK(id, F[id])
      <4>1. CASE got[c].kind = "page"
        BY <1>1, <3>1, <4>1 DEF ReaderInv, FirstItems, ItemsOK
      <4>2. CASE got[c].kind # "page"
        BY <4>2 DEF FirstItems, Restrict
      <4> QED BY <4>1, <4>2
    <3>5. W = {id \in DOMAIN store : id[1] = got[c].version /\ id[2] \in got[c].of}
      BY DEF Wanted, AtVersion, Restrict
    <3>6. \A id \in DOMAIN store : ItemOK(id, store[id])
      BY <1>1 DEF StoreInv
    <3> HIDE DEF F, W
    <3>7. ItemsOK(I, got[c].version, got[c].of)
      BY <3>4, <3>5, <3>6 DEF ItemsOK
    <3>8. ASSUME NEW d \in got[c].complete
          PROVE  d \in Docs /\ {id \in ItemIds(d) : id[2] \in got[c].of} \subseteq DOMAIN I
      <4>1. d \in Docs /\ Version[d] = got[c].version /\ ItemIds(d) \subseteq DOMAIN store
        BY <3>3 DEF StoredOK
      <4>2. \A id \in ItemIds(d) : id[1] = got[c].version
        BY <4>1, ItemForm
      <4> QED BY <3>5, <4>1, <4>2
    <3> HIDE DEF I
    <3>9. ItemsOK(got[c].items, got[c].version, got[c].of)'
      BY <3>2, <3>7, <1>2 DEF ItemsOK, ItemOK
    <3>10. WriterInv(c)'
      BY <3>1 DEF WriterInv
    <3>11. ReaderInv(c)'
      BY <3>1, <3>2, <3>3, <3>8, <3>9 DEF ReaderInv
    <3> QED BY <3>10, <3>11
  <2>4. ASSUME Search(c) PROVE WriterInv(c)' /\ ReaderInv(c)'
    <3>1. at[c] = "idle" /\ at'[c] = "idle"
      BY <2>4 DEF Search
    <3>2. /\ got'[c].kind = "rows" /\ got'[c].complete = complete
          /\ got'[c].rows = [v \in FoundVersions |-> store[HeaderId(v)].by]
      BY <1>1, <2>4 DEF Search
    <3>3. ASSUME NEW v \in FoundVersions PROVE store[HeaderId(v)].by \in writers'[v]
      <4>1. HeaderId(v) \in DOMAIN store /\ HeaderId(v)[1] = v
        BY HeaderIds DEF FoundVersions
      <4>2. ItemOK(HeaderId(v), store[HeaderId(v)])
        BY <1>1, <4>1 DEF StoreInv
      <4> QED BY <1>2, <4>1, <4>2 DEF ItemOK
    <3>4. ASSUME NEW v \in Versions, complete[v] # {} PROVE v \in FoundVersions
      <4>1. PICK d \in complete[v] : TRUE
        BY <3>4
      <4>2. d \in Docs /\ Version[d] = v /\ ItemIds(d) \subseteq DOMAIN store
        BY <1>1 DEF StoreInv, StoredOK
      <4> QED BY <4>2, HeaderIsItem DEF FoundVersions
    <3>5. WriterInv(c)'
      BY <3>1 DEF WriterInv
    <3>6. ReaderInv(c)'
      BY <3>1, <3>2, <3>3, <3>4 DEF ReaderInv
    <3> QED BY <3>5, <3>6
  <2> QED BY <2>1, <2>2, <2>3, <2>4
<1> QED BY <1>3, <1>4, <1>5, <1>8, OneMoves

LEMMA CosmosInitInv == CosmosInit => CosmosInv
<1> SUFFICES ASSUME CosmosInit PROVE CosmosInv
  OBVIOUS
<1>1. Typed
  BY CosmosAssumption DEF CosmosInit, Typed
<1>2. StoreInv
  BY DEF CosmosInit, StoreInv, StoredOK
<1>3. ASSUME NEW c \in Clients PROVE WriterInv(c) /\ ReaderInv(c)
  BY DEF CosmosInit, WriterInv, ReaderInv, Nothing
<1> QED BY <1>1, <1>2, <1>3 DEF CosmosInv

LEMMA CosmosStep == CosmosInv /\ [CosmosNext]_cosmosOrderVars => CosmosInv'
<1> SUFFICES ASSUME CosmosInv, [CosmosNext]_cosmosOrderVars PROVE CosmosInv'
  OBVIOUS
<1>1. ASSUME NEW c \in Writers, Ingesting(c) \/ \E d \in Docs : IngestBegins(c, d) PROVE CosmosInv'
  BY <1>1, IngestSteps DEF Clients
<1>2. ASSUME NEW c \in Writers,
             \/ \E k \in Keys : EditBegins(c, k)
             \/ EditUpserts(c) \/ HeaderRead(c) \/ HeaderUpserts(c) \/ EditFails(c)
      PROVE  CosmosInv'
  BY <1>2, EditSteps DEF Clients
<1>3. ASSUME NEW c \in Readers,
             \/ \E q \in {Whole, {"HEADER"}} \cup {{k} : k \in Keys} : ReadBegins(c, q)
             \/ FirstPage(c) \/ LastPage(c) \/ Search(c)
      PROVE  CosmosInv'
  BY <1>3, ReadSteps DEF Clients
<1>4. CASE UNCHANGED cosmosOrderVars
  <2>1. Grows /\ store' = store /\ complete' = complete
    BY <1>4 DEF cosmosOrderVars, Grows
  <2>2. StoreInv'
    BY <2>1, StoreKeeps DEF CosmosInv
  <2>3. ASSUME NEW c \in Clients PROVE WriterInv(c)' /\ ReaderInv(c)'
    <3>1. at'[c] = at[c] /\ doc'[c] = doc[c] /\ todo'[c] = todo[c] /\ got'[c] = got[c]
      BY <1>4 DEF cosmosOrderVars
    <3> QED BY <2>1, <3>1, ClientKeeps DEF CosmosInv
  <2> QED BY <2>2, <2>3, TypedStep DEF CosmosInv
<1> QED BY <1>1, <1>2, <1>3, <1>4 DEF CosmosNext

LEMMA CosmosInvHolds == CosmosSpec => []CosmosInv
BY CosmosInitInv, CosmosStep, PTL DEF CosmosSpec

LEMMA InvTypes == CosmosInv => CosmosTypeOK
<1> SUFFICES ASSUME CosmosInv PROVE CosmosTypeOK
  OBVIOUS
<1>1. ASSUME NEW id \in DOMAIN store
      PROVE  /\ id[1] \in Versions
             /\ store[id].by \in Docs \cup Clients
             /\ store[id].by \in Docs => Version[store[id].by] = id[1]
  <2>1. ItemOK(id, store[id])
    BY DEF CosmosInv, StoreInv
  <2>2. id[1] \in Versions /\ store[id].by \in writers[id[1]]
    BY <2>1 DEF ItemOK
  <2>3. store[id].by \in Docs => id \in ItemIds(store[id].by)
    BY <2>1 DEF ItemOK
  <2> QED BY <2>2, <2>3, ItemForm DEF CosmosInv, Typed
<1> QED BY <1>1 DEF CosmosInv, Typed, CosmosTypeOK

\* Every item is of a version that some document has, a document's items are
\* of its own version, and no upsert is tried more often than MaxTries.
THEOREM CosmosTypeCorrect == CosmosSpec => []CosmosTypeOK
BY CosmosInvHolds, InvTypes, PTL

LEMMA InvReaches == CosmosInv => BlocksAreReachable
BY DEF CosmosInv, StoreInv, BlocksAreReachable

\* Wherever ingests stop, fail, run twice or run at once with edits, a version
\* that has an item has its header.
THEOREM BlocksAreReachableHolds == CosmosSpec => []BlocksAreReachable
BY CosmosInvHolds, InvReaches, PTL

LEMMA InvConverges == CosmosInv => RetriesConverge
<1> SUFFICES ASSUME CosmosInv, NEW c \in Readers
             PROVE  /\ got[c].kind = "read" =>
                         \A d \in got[c].complete :
                           writers[got[c].version] = {d} => ReadsAs(got[c].items, d, got[c].of)
                    /\ got[c].kind = "rows" =>
                         \A v \in Versions : \A d \in got[c].complete[v] :
                           writers[v] = {d} => v \in DOMAIN got[c].rows /\ got[c].rows[v] = d
  BY DEF RetriesConverge
<1>0. ReaderInv(c)
  BY DEF CosmosInv, Clients
<1>1. ASSUME got[c].kind = "read", NEW d \in got[c].complete, writers[got[c].version] = {d}
      PROVE  ReadsAs(got[c].items, d, got[c].of)
  <2>1. /\ got[c].of \subseteq Whole /\ d \in Docs
        /\ {id \in ItemIds(d) : id[2] \in got[c].of} \subseteq DOMAIN got[c].items
    BY <1>0, <1>1 DEF ReaderInv
  <2>2. ASSUME NEW id \in DOMAIN got[c].items
        PROVE  id \in ItemIds(d) /\ id[2] \in got[c].of /\ got[c].items[id] = Item(d, id)
    <3>1. id[1] = got[c].version /\ id[2] \in got[c].of /\ ItemOK(id, got[c].items[id])
      BY <1>0, <1>1 DEF ReaderInv, ItemsOK
    <3>2. got[c].items[id].by = d
      BY <1>1, <3>1 DEF ItemOK
    <3> QED BY <2>1, <3>1, <3>2 DEF ItemOK
  <2>3. DOMAIN got[c].items = {id \in ItemIds(d) : id[2] \in got[c].of}
    BY <2>1, <2>2
  <2>4. OwnItems(got[c].items, d, got[c].of)
    BY <2>2, <2>3 DEF OwnItems
  <2> QED BY <2>1, <2>4, OwnItemsReadBack
<1>2. ASSUME got[c].kind = "rows", NEW v \in Versions, NEW d \in got[c].complete[v], writers[v] = {d}
      PROVE  v \in DOMAIN got[c].rows /\ got[c].rows[v] = d
  BY <1>0, <1>2 DEF ReaderInv
<1> QED BY <1>1, <1>2

\* However often a document was tried, and by however many callers: if it alone
\* was written at its version and one ingest_order returned before a read began,
\* the read gives back the document, and a search has its row.
THEOREM RetriesConvergeHolds == CosmosSpec => []RetriesConverge
BY CosmosInvHolds, InvConverges, PTL

=============================================================================
