------------------------------ MODULE SizeGuard ------------------------------
(***************************************************************************)
(* The item-size guard of Cosmos: enforce, _chunk_block_recursive and      *)
(* _chunk_block of cosmos/modeling/size_guard.py for one block, and the    *)
(* merge of its chunks, merge_chunks of ingestion/parser/block_splitter.py.*)
(*                                                                         *)
(* A payload is the bytes of everything but the elements of its arrays,    *)
(* and the elements of each array.  A JSON list costs its elements and the *)
(* commas between them.  An array inside an element of another array is    *)
(* always smaller than that one and is therefore never the largest: the    *)
(* branch of _chunk_block that refuses it is dead code.                    *)
(*                                                                         *)
(* GuardInit, GuardSpec and so on carry the name of the module, which      *)
(* Documents_proofs extends together with others.                          *)
(***************************************************************************)
EXTENDS Integers, Sequences, SequencesExt

CONSTANTS
  Paths,        \* the paths of the arrays, in the order of the walk
  Shell,        \* the bytes of the nested dicts down to a path, by path
  Slack,        \* the 32 bytes that _chunk_block adds to an element
  Effective,    \* budget - ENVELOPE_RESERVE_BYTES
  MaxDepth,     \* 6 in the code
  Sizes,        \* the sizes of an element
  Others,       \* the sizes of everything else
  MaxElements   \* bound on the elements of one array

ASSUME GuardAssumption ==
  /\ Shell \in [Range(Paths) -> Nat]
  /\ {Slack, Effective, MaxDepth, MaxElements} \subseteq Nat
  /\ Sizes \subseteq Nat \ {0}
  /\ Others \subseteq Nat \ {0}

VARIABLES
  block,        \* the payload given to enforce
  todo,         \* the parts not looked at yet, in order, and the depth of each
  leaves,       \* the parts that fit and are not merged yet, in order
  state,        \* "guarding", "refused", or "merged"
  merged        \* what the leaves have been merged into

guardVars == <<block, todo, leaves, state, merged>>

PathSet == Range(Paths)

----------------------------------------------------------------------------
(* Payloads                                                                *)

\* Element i of the array at p.
Lists(p) ==
  UNION {{[i \in 1..n |-> [path |-> p, pos |-> i, size |-> s[i]]] : s \in [1..n -> Sizes]} :
           n \in 0..MaxElements}

Payloads ==
  {[other |-> o, lists |-> l] :
     o \in Others,
     l \in {f \in [PathSet -> UNION {Lists(p) : p \in PathSet}] : \A p \in PathSet : f[p] \in Lists(p)}}

Total(list) == FoldLeft(LAMBDA n, e : n + e.size, 0, list)

\* What a list adds to the two bytes of an empty one.
ListBytes(list) == IF list = <<>> THEN 0 ELSE Total(list) + Len(list) - 1

\* compact_bytes(payload)
Bytes(payload) == payload.other + FoldLeft(LAMBDA n, p : n + ListBytes(payload.lists[p]), 0, Paths)

\* The path that _find_largest_array returns, if there is an array that is not
\* empty: of two equal ones the first of the walk.
Largest(payload) ==
  {Paths[i] : i \in {j \in DOMAIN Paths :
     /\ payload.lists[Paths[j]] # <<>>
     /\ \A k \in DOMAIN Paths :
          LET a == ListBytes(payload.lists[Paths[j]])
              b == ListBytes(payload.lists[Paths[k]])
          IN  payload.lists[Paths[k]] # <<>> => a > b \/ (a = b /\ j <= k)}}

HasArray(payload) == \E p \in PathSet : payload.lists[p] # <<>>

----------------------------------------------------------------------------
(* _chunk_block                                                            *)

OtherBytes(payload, p) == Bytes([payload EXCEPT !.lists[p] = <<>>])

ElementFits(payload, p, e) == e.size + 1 + Shell[p] + Slack <= Effective

\* The bytes counted for a chunk of elements a..i, a comma for each.
Counted(payload, p, a, i) ==
  (IF a = 1 THEN OtherBytes(payload, p) ELSE Shell[p]) + Total(SubSeq(payload.lists[p], a, i)) + i - a + 1

LastBefore(starts, i) == Max({a \in Range(starts) : a < i})

\* Where the chunks start, in order: at an element that would take its chunk
\* over the limit.  The first element of a chunk is taken without asking.
Starts(payload, p) ==
  {starts \in UNION {[1..n -> DOMAIN payload.lists[p]] : n \in DOMAIN payload.lists[p]} :
     /\ \A j \in 2..Len(starts) : starts[j - 1] < starts[j]
     /\ \A i \in DOMAIN payload.lists[p] :
          i \in Range(starts) <=> i = 1 \/ Counted(payload, p, LastBefore(starts, i), i) > Effective}

\* The j-th chunk ends before the next one starts.
Slice(list, starts, j) ==
  SubSeq(list, starts[j], IF j = Len(starts) THEN Len(list) ELSE starts[j + 1] - 1)

\* Chunk 0 carries the rest of the block, the others the nested shell.
PartAt(payload, p, starts, j) ==
  LET slice == Slice(payload.lists[p], starts, j)
  IN  IF j = 1 THEN [payload EXCEPT !.lists[p] = slice]
      ELSE [other |-> Shell[p], lists |-> [q \in PathSet |-> IF q = p THEN slice ELSE <<>>]]

Parts(payload, p, starts) == [j \in DOMAIN starts |-> PartAt(payload, p, starts, j)]

----------------------------------------------------------------------------
(* enforce, _chunk_block_recursive and merge_chunks                        *)

\* The payload that merge_chunks starts with.
Empty == [other |-> 0, lists |-> [p \in PathSet |-> <<>>]]

GuardInit ==
  /\ block \in Payloads
  /\ todo = <<[payload |-> block, depth |-> 0]>>
  /\ leaves = <<>>
  /\ state = "guarding"
  /\ merged = Empty

Running == state = "guarding" /\ todo # <<>>

First == Head(todo).payload

Fits(payload) == Bytes(payload) <= Effective

Keep ==
  /\ Running
  /\ Fits(First)
  /\ leaves' = Append(leaves, First)
  /\ todo' = Tail(todo)
  /\ UNCHANGED <<block, state, merged>>

Refused ==
  \/ Head(todo).depth > MaxDepth
  \/ ~HasArray(First)
  \/ \E p \in Largest(First) : \E i \in DOMAIN First.lists[p] : ~ElementFits(First, p, First.lists[p][i])

\* ItemTooLargeError: nothing of the block is stored.
Refuse ==
  /\ Running
  /\ ~Fits(First)
  /\ Refused
  /\ state' = "refused"
  /\ UNCHANGED <<block, todo, leaves, merged>>

SameDepth(depth) == depth    \* mutant: depth is not passed on

Deeper(depth) == depth + 1

PartsLast(parts, others) == others \o parts    \* mutant: a part's own parts come after the rest

InPlace(parts, others) == parts \o others

Chunk ==
  /\ Running
  /\ ~Fits(First)
  /\ ~Refused
  /\ \E p \in Largest(First) : \E starts \in Starts(First, p) :
       LET parts == Parts(First, p, starts)
       IN  todo' = InPlace([i \in DOMAIN parts |->
                              [payload |-> parts[i], depth |-> Deeper(Head(todo).depth)]], Tail(todo))
  /\ UNCHANGED <<block, leaves, state, merged>>

\* _deep_merge: lists are extended, and of everything else the first chunk's
\* stays.
DeepMerge(base, add) ==
  [other |-> IF base.other = 0 THEN add.other ELSE base.other,
   lists |-> [p \in PathSet |-> base.lists[p] \o add.lists[p]]]

\* merge_chunks, in the order of the chunk index
Merge ==
  /\ state = "guarding"
  /\ todo = <<>> /\ leaves # <<>>
  /\ merged' = DeepMerge(merged, Head(leaves))
  /\ leaves' = Tail(leaves)
  /\ state' = IF Len(leaves) = 1 THEN "merged" ELSE state
  /\ UNCHANGED <<block, todo>>

GuardNext == Keep \/ Refuse \/ Chunk \/ Merge

GuardSpec == GuardInit /\ [][GuardNext]_guardVars

GuardFairSpec == GuardSpec /\ WF_guardVars(GuardNext)

----------------------------------------------------------------------------

\* However often a block was cut, and along which arrays, the merge of its
\* chunks is the block: every element once, in its place, the rest once.
MergeIsLossless == state = "merged" => merged = block

\* A block with one array is stored whenever each of its elements fits beside
\* the rest, whatever their sizes and order.
OneArrayIsStored ==
  (\E p \in PathSet : block.lists[p] # <<>> /\ \A q \in PathSet \ {p} : block.lists[q] = <<>>)
  /\ (\A p \in PathSet : \A i \in DOMAIN block.lists[p] :
        /\ Shell[p] + block.lists[p][i].size + 1 + Slack <= Effective
        /\ block.other + block.lists[p][i].size + 1 <= Effective)
    => state # "refused"

\* The rounds of cutting come to an end, although a round may give back the
\* part it was given.
GuardEnds == <>(state # "guarding")

\* "Refuse - if a single indivisible element exceeds the budget"
\* (COSMOS_DESIGN.md): a block is refused only if an element does not fit, or
\* what is not an array does not.
RefusesOnlyIndivisible ==
  state = "refused" =>
    \/ block.other > Effective
    \/ \E p \in PathSet : \E i \in DOMAIN block.lists[p] : ~ElementFits(block, p, block.lists[p][i])

=============================================================================
