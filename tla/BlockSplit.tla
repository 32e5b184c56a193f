------------------------------ MODULE BlockSplit ------------------------------
(***************************************************************************)
(* The lossless split of an order: split_object_data and reassemble of     *)
(* ingestion/parser/block_splitter.py, with a store in between that gives  *)
(* back all the blocks, or those of one type; and, of the same document,   *)
(* the get_block of the two backends that keep it whole.                   *)
(*                                                                         *)
(* A document is its plain sections and its composite ones (CDFs,          *)
(* CDFAmounts, Title).  Of a plain section only the shape matters: an      *)
(* object or array, or null or a scalar.  A composite section is an object *)
(* or an array, and an object is the set of its fields; a field is known   *)
(* by the element it belongs to and its key, so two elements never share   *)
(* one.  A read that finds nothing (404) is Nothing.                       *)
(*                                                                         *)
(* SplitInit, SplitSpec and so on carry the name of the module, which      *)
(* Documents_proofs extends together with others.                          *)
(***************************************************************************)
EXTENDS Integers, Sequences, FiniteSets, Functions

CONSTANTS
  Plain,        \* the keys that are not composite: sections, header fields, others
  PlainType,    \* the block type of each: ORDER for a header field, MISC for the others
  PlainSub,     \* the sub-type of each
  Parents,      \* the keys of COMPOSITE_SPLITS
  TypeOf,       \* the block type of each parent
  MainSub,      \* the sub-type of what is left of an element: MAIN, or AMOUNTS for CDFAmounts
  RawSub,       \* the sub-type <PARENT>_RAW
  SubOf,        \* SubOf[p][key]: the sub-type of a key of an element, or Rest
  Rest,         \* the key has no sub-type
  MaxLength     \* bound on the elements of an array

SubTypes(p) == Range(SubOf[p]) \ {Rest}

\* Every sub-type of a block that is made from parent p.
SubsOf(p) == SubTypes(p) \cup {MainSub[p], RawSub[p]}

\* What BLOCK_MAP and COMPOSITE_SPLITS are: the block types of the composite
\* sections are no others', and the sub-types of two parents of one type differ.
ASSUME SplitAssumption ==
  /\ PlainType \in [Plain -> STRING] /\ PlainSub \in [Plain -> STRING]
  /\ DOMAIN TypeOf = Parents /\ DOMAIN MainSub = Parents
  /\ DOMAIN RawSub = Parents /\ DOMAIN SubOf = Parents
  /\ Plain \cap Parents = {} /\ "none" \notin Parents
  /\ \A p \in Parents : TypeOf[p] \notin Range(PlainType) \cup {"ORDER", "MISC"}
  /\ \A p \in Parents : MainSub[p] # RawSub[p] /\ {MainSub[p], RawSub[p]} \cap SubTypes(p) = {}
  /\ \A p, q \in Parents : p # q /\ TypeOf[p] = TypeOf[q] => SubsOf(p) \cap SubsOf(q) = {}
  /\ MaxLength \in Nat

VARIABLES
  obj,          \* ObjectData
  at,           \* "parsed", "stored", "read", or "failed"
  blocks,       \* what the split made, as the store keeps it
  back          \* what was read: the whole order, and each type from each kind of store

splitVars == <<obj, at, blocks, back>>

Types == Range(PlainType) \cup Range(TypeOf)

----------------------------------------------------------------------------
(* Documents                                                               *)

\* The element at index i: an object with some of the keys, or a value that is
\* not an object.
Objects(p, i) == {[dict |-> TRUE, fields |-> {<<i, key>> : key \in K}] : K \in SUBSET DOMAIN SubOf[p]}

Value(i) == [dict |-> FALSE, fields |-> {<<i, "value">>}]

Arrays(p) ==
  UNION {{a \in [1..n -> UNION {Objects(p, i) \cup {Value(i)} : i \in 1..n}] :
            \A i \in 1..n : a[i] \in Objects(p, i) \cup {Value(i)}} : n \in 0..MaxLength}

Absent == [kind |-> "absent", elements |-> <<>>]
Null == [kind |-> "null", elements |-> <<>>]
Array(a) == [kind |-> "array", elements |-> a]
Object(e) == [kind |-> "object", elements |-> <<e>>]

Nodes(p) == {Absent, Null} \cup {Array(a) : a \in Arrays(p)} \cup {Object(e) : e \in Objects(p, 0)}

PlainSections == [Plain -> {"absent", "structure", "scalar"}]

CompositeSections ==
  {f \in [Parents -> UNION {Nodes(p) : p \in Parents}] : \A p \in Parents : f[p] \in Nodes(p)}

----------------------------------------------------------------------------
(* split_object_data                                                       *)

\* mark is __container__, the marker that only the last block of an element
\* has; section is the parent of a raw block.
Block(type, sub, seq, section, content, mark) ==
  [type |-> type, sub |-> sub, seq |-> seq, section |-> section, content |-> content, mark |-> mark]

NoMark == [parent |-> "none", isArray |-> FALSE]

\* How to put the section back together.
Container(p, node) == [parent |-> p, isArray |-> node.kind = "array"]

SectionsIn(plain, K) == {<<k, plain[k]>> : k \in {j \in K : plain[j] # "absent"}}

\* The sections of one type and sub-type are one block: BLOCK_MAP, then
\* ORDER/HEADER, then MISC/MAIN.
PlainBlocks(plain) ==
  {b \in {Block(PlainType[k], PlainSub[k], 0, "none",
               SectionsIn(plain, {j \in Plain : PlainType[j] = PlainType[k] /\ PlainSub[j] = PlainSub[k]}),
               NoMark) : k \in Plain} :
     b.content # {}}

SequenceZero(node, i) == 0    \* mutant: every element has sequence 0

\* enumerate(node): an element keeps its place in the array.
SequenceNo(node, i) == IF node.kind = "array" THEN i - 1 ELSE 0

Fields(p, element, sub) == {f \in element.fields : SubOf[p][f[2]] = sub}

MainSubType(p) == MainSub[p]

ElementBlocks(p, node, i) ==
  {Block(TypeOf[p], sub, SequenceNo(node, i), "none", Fields(p, node.elements[i], sub), NoMark) :
     sub \in {s \in SubTypes(p) : Fields(p, node.elements[i], s) # {}}}
  \cup
  {Block(TypeOf[p], MainSubType(p), SequenceNo(node, i), "none", Fields(p, node.elements[i], Rest), Container(p, node))}

IsObject(element) == element.dict

\* The i-th smallest number of S.
Nth(S, i) == CHOOSE n \in S : Cardinality({m \in S : m < n}) = i - 1

NonObjects(node) ==
  LET places == {i \in DOMAIN node.elements : ~IsObject(node.elements[i])}
  IN  [i \in 1..Cardinality(places) |-> node.elements[Nth(places, i)]]

RawBlocks(p, node) ==
  IF NonObjects(node) = <<>> THEN {}
  ELSE {Block(TypeOf[p], RawSub[p], 0, p, NonObjects(node), NoMark)}

\* _split_composite
SplitComposite(p, node) ==
  RawBlocks(p, node) \cup
  UNION {ElementBlocks(p, node, i) : i \in {j \in DOMAIN node.elements : IsObject(node.elements[j])}}

Key(b) == <<b.type, b.sub, b.seq>>

\* Type, sub-type and sequence are the key of ord.OrderJsonBlocks and the id of
\* a Cosmos item: of two blocks with the same key only one is kept.
ByKey(bs) == {CHOOSE b \in bs : Key(b) = key : key \in {Key(b) : b \in bs}}

Split ==
  /\ at = "parsed"
  /\ \A p \in Parents : obj.node[p].kind # "null"
  /\ blocks' = ByKey(PlainBlocks(obj.plain) \cup UNION {SplitComposite(p, obj.node[p]) : p \in Parents})
  /\ at' = "stored"
  /\ UNCHANGED <<obj, back>>

\* dict(None): the section is there and null.
SplitFails ==
  /\ at = "parsed"
  /\ \E p \in Parents : obj.node[p].kind = "null"
  /\ at' = "failed"
  /\ UNCHANGED <<obj, blocks, back>>

----------------------------------------------------------------------------
(* reassemble                                                              *)

\* The blocks of a parent: those it is the container of, and those whose
\* sub-type it declares (_owner_of).
PartsOf(p, bs) ==
  {b \in bs : b.mark.parent = p \/ (b.mark = NoMark /\ b.type = TypeOf[p] /\ b.sub \in SubTypes(p))}

IsArray(p, bs) == \A b \in bs : b.mark.parent = p => b.mark.isArray

ElementAt(parts, seq) ==
  [dict |-> TRUE, fields |-> UNION {b.content : b \in {c \in parts : c.seq = seq}}]

\* A raw block goes to the top level, as the value of its parent; the element
\* blocks of that parent then replace it.
NodeFrom(p, bs) ==
  LET parts == PartsOf(p, bs)
      seqs == {b.seq : b \in parts}
      raw == {b \in bs : b.section = p}
  IN  CASE parts # {} /\ IsArray(p, bs) -> Array([i \in 1..Cardinality(seqs) |-> ElementAt(parts, Nth(seqs, i))])
        [] parts # {} /\ ~IsArray(p, bs) ->
             Object([dict |-> TRUE, fields |-> UNION {b.content : b \in parts}])
        [] parts = {} /\ raw # {} -> Array((CHOOSE b \in raw : TRUE).content)
        [] OTHER -> Absent

\* flat.update(payload) of every block that is no part of a composite.
PlainFrom(bs) ==
  LET found == UNION {b.content : b \in {c \in bs : \E k \in Plain : PlainType[k] = c.type /\ PlainSub[k] = c.sub}}
  IN  [k \in Plain |-> IF \E e \in found : e[1] = k THEN (CHOOSE e \in found : e[1] = k)[2] ELSE "absent"]

Reassemble(bs) ==
  [plain |-> PlainFrom(bs), node |-> [p \in Parents |-> NodeFrom(p, bs)]]

OneType(bs, type) == {b \in bs : b.type = type}

----------------------------------------------------------------------------
(* get_block of a document that is stored whole.                           *)

Sections(P, Q) ==
  [plain |-> [k \in Plain |-> IF k \in P THEN obj.plain[k] ELSE "absent"],
   node  |-> [p \in Parents |-> IF p \in Q THEN obj.node[p] ELSE Absent]]

\* NAMED_KEYS, HEADER_KEYS and MISC_EXCLUDED.
NamedPlain == {k \in Plain : PlainType[k] \notin {"ORDER", "MISC"}}

HeaderKeys == {k \in Plain : PlainType[k] = "ORDER"}

NamedOnly == NamedPlain    \* mutant: header fields are not excluded from MISC

MiscExcluded == NamedPlain \cup HeaderKeys

\* BLOCK_KEYS of a type: its plain keys and its composites.
BlockKeys(type) == {k \in NamedPlain : PlainType[k] = type} \cup {p \in Parents : TypeOf[p] = type}

\* sections_for_block.
SectionsForBlock(type) ==
  CASE type = "MISC"  -> Sections(Plain \ MiscExcluded, {})
    [] type = "ORDER" -> Sections(HeaderKeys, {})
    [] OTHER          -> Sections(BlockKeys(type) \cap Plain, BlockKeys(type) \cap Parents)

\* JSON_QUERY of a path: SQL NULL unless it leads to an object or an array.
Queried(k) ==
  \/ k \in Plain /\ obj.plain[k] = "structure"
  \/ k \in Parents /\ obj.node[k].kind \in {"array", "object"}

\* SqlFullJsonRepository.get_block: one JSON_QUERY per key; a type without
\* keys reads the payload.
SqlBlock(type) ==
  LET found == {k \in BlockKeys(type) : Queried(k)}
  IN  IF BlockKeys(type) = {} THEN SectionsForBlock(type)
      ELSE Sections(found \cap Plain, found \cap Parents)

\* MongoOrderRepository.get_block: a projection of the keys, or of ObjectData,
\* keeps what is there, null and scalars too; sections_for_block of that.
MongoBlock(type) == SectionsForBlock(type)

\* get_full_order and get_block of the decomposed backends, and get_block of
\* the others, for every type.
Read ==
  /\ at = "stored"
  /\ back' = [full  |-> Reassemble(blocks),
              of    |-> [t \in Types |-> Reassemble(OneType(blocks, t))],
              sql   |-> [t \in Types |-> SqlBlock(t)],
              mongo |-> [t \in Types |-> MongoBlock(t)]]
  /\ at' = "read"
  /\ UNCHANGED <<obj, blocks>>

----------------------------------------------------------------------------

Nothing == [plain |-> [k \in Plain |-> "absent"], node |-> [p \in Parents |-> Absent]]

SplitInit ==
  /\ \E plain \in PlainSections, node \in CompositeSections : obj = [plain |-> plain, node |-> node]
  /\ at = "parsed"
  /\ blocks = {}
  /\ back = [full |-> Nothing, of |-> [t \in Types |-> Nothing],
             sql |-> [t \in Types |-> Nothing], mongo |-> [t \in Types |-> Nothing]]

SplitNext == Split \/ SplitFails \/ Read

SplitSpec == SplitInit /\ [][SplitNext]_splitVars

----------------------------------------------------------------------------

\* A composite array is not empty and holds only objects, or none.
Regular(node) ==
  /\ node # Array(<<>>)
  /\ \A i, j \in DOMAIN node.elements : node.elements[i].dict = node.elements[j].dict

RegularDocument == \A p \in Parents : Regular(obj.node[p])

\* Splitting loses nothing of a regular document, wherever its arrays are
\* nested and however its elements are filled: empty elements, elements
\* without a sub-section, and two parents of one block type, whose blocks the
\* store must keep apart by their keys, included.
RegularRoundTrip == at = "read" /\ RegularDocument => back.full = obj

\* No section of the type is null or a scalar.
Structured(type) ==
  /\ \A k \in BlockKeys(type) \cap Plain : obj.plain[k] # "scalar"
  /\ \A p \in BlockKeys(type) \cap Parents : obj.node[p].kind # "null"

\* One contract over every backend: a block read from the blocks of its type
\* alone is what the Mongo backend projects out of the whole document, and,
\* where no section of the type is null or a scalar, what JSON_QUERY takes out
\* of it.  MISC is the same complement of sections and header fields for all.
BlockReadsAgree ==
  at = "read" /\ RegularDocument =>
    \A t \in Types : /\ back.of[t] = back.mongo[t]
                     /\ Structured(t) => back.of[t] = back.sql[t]

\* "Mirrors what reassemble() produces for the decomposed backends"
\* (sections_for_block), of every section a regular document may have: not kept
\* for a section that is null or a scalar, which JSON_QUERY does not see.
AllBlockReadsAgree ==
  at = "read" /\ RegularDocument => \A t \in Types : back.of[t] = back.sql[t]

\* "reassemble(split_object_data(object_data)) == object_data" (ARCHITECTURE.md),
\* "Lossless and deterministic" (split_object_data), of any
\* document that is split at all.
RoundTrip == at = "read" => back.full = obj

=============================================================================
