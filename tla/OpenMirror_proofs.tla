-------------------------- MODULE OpenMirror_proofs --------------------------
(***************************************************************************)
(* OpenMirror proved for any tables, keys, batches and number of pushes.   *)
(*                                                                         *)
(* What the landing zone comes to is After: the file with the highest      *)
(* sequence of those with a key decides, a file put on top wins (AfterPut) *)
(* and merging the lowest file changes nothing (AfterMerge).  Inductive is *)
(*   SequencesKnown   the files are the sequences between the last one     *)
(*                    consumed and the last one used, or a repair deletes  *)
(*                    them while the replicator waits                      *)
(*   SchemasKnown     a table is created with the schema that is pinned    *)
(*   RowsKnown        the files of a table have rows of it, and a read has *)
(*                    one of each key                                      *)
(*   DataInv          what a watermark passes is merged or lies there; of  *)
(*                    a push's own watermark, or is about to be uploaded;  *)
(*                    and a row that changed since is later than both;     *)
(*                    unless a repair has deleted files and not yet        *)
(*                    cleared the watermarks.                              *)
(***************************************************************************)
EXTENDS OpenMirror, WellFoundedInduction, TLAPS

----------------------------------------------------------------------------
(* Numbers                                                                 *)

Smaller == {p \in Nat \X Nat : p[1] < p[2]}

LEMMA SmallerIsWellFounded == IsWellFoundedOn(Smaller, Nat)
<1>1. OpToRel(<, Nat) = Smaller
  BY DEF OpToRel, Smaller
<1> QED BY <1>1, NatLessThanWellFounded

LEMMA LeastOf ==
  ASSUME NEW S, S \subseteq Nat, S # {}
  PROVE  \E x \in S : \A y \in S : x <= y
<1>1. PICK x \in S : \A y \in S : <<y, x>> \notin Smaller
  BY SmallerIsWellFounded, WFMin
<1>2. \A y \in S : x <= y
  <2> SUFFICES ASSUME NEW y \in S, ~(x <= y) PROVE FALSE
    OBVIOUS
  <2>1. y \in Nat /\ x \in Nat /\ y < x
    OBVIOUS
  <2>2. <<y, x>> \in Nat \X Nat /\ <<y, x>>[1] < <<y, x>>[2]
    BY <2>1
  <2> QED BY <1>1, <2>2 DEF Smaller
<1> QED BY <1>2

LEMMA MinIs ==
  ASSUME NEW S, S \subseteq Nat, S # {}
  PROVE  Min(S) \in S /\ \A y \in S : Min(S) <= y
BY LeastOf DEF Min

LEMMA MaxIs ==
  ASSUME NEW S, S \subseteq Nat, S # {}, NEW b \in Nat, \A x \in S : x <= b
  PROVE  Max(S) \in S /\ \A y \in S : Max(S) >= y
<1> DEFINE above == {n \in Nat : \A x \in S : x <= n}
<1>1. PICK n \in above : \A m \in above : n <= m
  BY LeastOf
<1>2. n \in S
  <2> SUFFICES ASSUME n \notin S PROVE FALSE
    OBVIOUS
  <2>1. \A x \in S : x <= n - 1
    OBVIOUS
  <2>2. n - 1 \in Nat
    <3>1. PICK x \in S : TRUE
      OBVIOUS
    <3>2. x \in Nat /\ x <= n /\ x # n
      BY <3>1
    <3> QED BY <3>2
  <2>3. n - 1 \in above
    BY <2>1, <2>2
  <2> QED BY <1>1, <2>3
<1>3. \E x \in S : \A y \in S : x >= y
  BY <1>1, <1>2
<1> QED BY <1>3 DEF Max

LEMMA MaxOfTwo ==
  ASSUME NEW a \in Nat, NEW b \in Nat
  PROVE  Max({a, b}) \in Nat /\ Max({a, b}) >= a /\ Max({a, b}) >= b /\ Max({a, b}) \in {a, b}
<1>1. Max({a, b}) \in {a, b} /\ \A y \in {a, b} : Max({a, b}) >= y
  BY MaxIs, a + b \in Nat, a <= a + b, b <= a + b
<1> QED BY <1>1

----------------------------------------------------------------------------
(* What the files of a table come to                                       *)

Has(rows, k) == \E r \in rows : r[1] = k

VersionIn(rows, k) == (CHOOSE r \in rows : r[1] = k)[2]

After(fs, old, k) ==
  LET with == {s \in DOMAIN fs : Has(fs[s].rows, k)}
  IN  IF with = {} THEN old ELSE VersionIn(fs[Max(with)].rows, k)

LEMMA MergedIsAfter == \A k \in Keys : Merged(k) = After(zone[TableOf[k]], mirror[k], k)
BY DEF Merged, After, Has, VersionIn

\* The file with the highest sequence of those with the key decides.
LEMMA AfterTop ==
  ASSUME NEW fs, DOMAIN fs \subseteq Nat, NEW old, NEW k, NEW s \in DOMAIN fs, Has(fs[s].rows, k),
         \A x \in DOMAIN fs : Has(fs[x].rows, k) => x <= s
  PROVE  After(fs, old, k) = VersionIn(fs[s].rows, k)
<1> DEFINE with == {x \in DOMAIN fs : Has(fs[x].rows, k)}
<1>1. s \in with /\ \A x \in with : s >= x
  OBVIOUS
<1>2. \A x \in with : (\A y \in with : x >= y) => x = s
  BY <1>1
<1>3. Max(with) = s
  BY <1>1, <1>2 DEF Max
<1> QED BY <1>1, <1>3 DEF After

LEMMA AfterNone ==
  ASSUME NEW fs, NEW old, NEW k, \A x \in DOMAIN fs : ~Has(fs[x].rows, k)
  PROVE  After(fs, old, k) = old
BY DEF After

Bounded(fs) == DOMAIN fs \subseteq Nat /\ \E b \in Nat : \A s \in DOMAIN fs : s <= b

LEMMA TopExists ==
  ASSUME NEW fs, Bounded(fs), NEW k, NEW x \in DOMAIN fs, Has(fs[x].rows, k)
  PROVE  \E s \in DOMAIN fs : Has(fs[s].rows, k) /\ \A y \in DOMAIN fs : Has(fs[y].rows, k) => y <= s
<1> DEFINE with == {y \in DOMAIN fs : Has(fs[y].rows, k)}
<1>1. PICK b \in Nat : \A s \in DOMAIN fs : s <= b
  BY DEF Bounded
<1>2. with \subseteq Nat /\ with # {} /\ \A y \in with : y <= b
  BY <1>1 DEF Bounded
<1> HIDE DEF with
<1>3. Max(with) \in with /\ \A y \in with : Max(with) >= y
  BY <1>2, MaxIs
<1>4. \A y \in with : y <= Max(with)
  BY <1>2, <1>3
<1> QED BY <1>3, <1>4 DEF with

LEMMA AfterPut ==
  ASSUME NEW fs, Bounded(fs), NEW seq \in Nat, \A s \in DOMAIN fs : s < seq, NEW file, NEW old, NEW k
  PROVE  /\ Bounded(Put(fs, seq, file))
         /\ After(Put(fs, seq, file), old, k) =
              IF Has(file.rows, k) THEN VersionIn(file.rows, k) ELSE After(fs, old, k)
<1> DEFINE new == Put(fs, seq, file)
<1>1. /\ DOMAIN new = DOMAIN fs \cup {seq} /\ new[seq] = file
      /\ \A s \in DOMAIN fs : new[s] = fs[s] /\ s # seq /\ s \in Nat
  BY DEF Put, Bounded
<1>2. Bounded(new)
  BY <1>1 DEF Bounded
<1> HIDE DEF new
<1>3. CASE Has(file.rows, k)
  <2>1. \A x \in DOMAIN new : x <= seq
    BY <1>1
  <2> QED BY <1>1, <1>2, <1>3, <2>1, AfterTop DEF Bounded, new
<1>4. CASE ~Has(file.rows, k) /\ \E x \in DOMAIN fs : Has(fs[x].rows, k)
  <2>1. PICK s \in DOMAIN fs :
          Has(fs[s].rows, k) /\ \A y \in DOMAIN fs : Has(fs[y].rows, k) => y <= s
    BY <1>4, TopExists
  <2>2. After(fs, old, k) = VersionIn(fs[s].rows, k)
    BY <2>1, AfterTop DEF Bounded
  <2>3. s \in DOMAIN new /\ Has(new[s].rows, k) /\ \A y \in DOMAIN new : Has(new[y].rows, k) => y <= s
    BY <1>1, <1>4, <2>1
  <2>4. After(new, old, k) = VersionIn(new[s].rows, k)
    BY <1>2, <2>3, AfterTop DEF Bounded
  <2> QED BY <1>1, <1>2, <1>4, <2>2, <2>4 DEF new
<1>5. CASE ~Has(file.rows, k) /\ ~\E x \in DOMAIN fs : Has(fs[x].rows, k)
  <2>1. After(fs, old, k) = old
    BY <1>5, AfterNone
  <2>2. After(new, old, k) = old
    BY <1>1, <1>5, AfterNone
  <2> QED BY <1>2, <1>5, <2>1, <2>2 DEF new
<1> QED BY <1>3, <1>4, <1>5

\* Merging the lowest file changes nothing of what all files come to.
LEMMA AfterMerge ==
  ASSUME NEW fs, Bounded(fs), NEW low \in DOMAIN fs, \A s \in DOMAIN fs : low <= s, NEW old, NEW k
  PROVE  /\ Bounded([s \in DOMAIN fs \ {low} |-> fs[s]])
         /\ After([s \in DOMAIN fs \ {low} |-> fs[s]],
                  IF Has(fs[low].rows, k) THEN VersionIn(fs[low].rows, k) ELSE old, k) =
              After(fs, old, k)
<1> DEFINE new == [s \in DOMAIN fs \ {low} |-> fs[s]]
           now == IF Has(fs[low].rows, k) THEN VersionIn(fs[low].rows, k) ELSE old
<1>1. DOMAIN new = DOMAIN fs \ {low} /\ \A s \in DOMAIN new : new[s] = fs[s]
  OBVIOUS
<1>2. Bounded(new)
  BY <1>1 DEF Bounded
<1> HIDE DEF new
<1>3. CASE \E x \in DOMAIN new : Has(fs[x].rows, k)
  <2>1. PICK s \in DOMAIN fs :
          Has(fs[s].rows, k) /\ \A y \in DOMAIN fs : Has(fs[y].rows, k) => y <= s
    BY <1>1, <1>3, TopExists
  <2>2. s # low
    BY <1>1, <1>3, <2>1 DEF Bounded
  <2>3. After(fs, old, k) = VersionIn(fs[s].rows, k)
    BY <2>1, AfterTop DEF Bounded
  <2>4. s \in DOMAIN new /\ Has(new[s].rows, k) /\ \A y \in DOMAIN new : Has(new[y].rows, k) => y <= s
    BY <1>1, <2>1, <2>2
  <2> HIDE DEF now
  <2>5. After(new, now, k) = VersionIn(new[s].rows, k)
    BY <1>2, <2>4, AfterTop DEF Bounded
  <2> QED BY <1>1, <1>2, <2>3, <2>4, <2>5 DEF new, now
<1>4. CASE ~\E x \in DOMAIN new : Has(fs[x].rows, k)
  <2>1. After(new, now, k) = now
    <3> HIDE DEF now
    <3> QED BY <1>1, <1>4, AfterNone
  <2>2. CASE Has(fs[low].rows, k)
    <3>1. \A x \in DOMAIN fs : Has(fs[x].rows, k) => x <= low
      BY <1>1, <1>4, <2>2 DEF Bounded
    <3>2. After(fs, old, k) = VersionIn(fs[low].rows, k)
      BY <2>2, <3>1, AfterTop DEF Bounded
    <3> QED BY <1>2, <2>1, <2>2, <3>2 DEF new
  <2>3. CASE ~Has(fs[low].rows, k)
    <3>1. After(fs, old, k) = old
      BY <1>1, <1>4, <2>3, AfterNone
    <3> QED BY <1>2, <2>1, <2>3, <3>1 DEF new
  <2> QED BY <2>2, <2>3
<1> QED BY <1>3, <1>4

----------------------------------------------------------------------------
(* The invariant                                                           *)

Pushed == [at : {"idle", "tables", "upload", "schemas"}, mode : {"full", "incremental"}, left : SUBSET Tables,
           table : Tables \cup {"none"}, rows : SUBSET (Keys \X Nat), seq : Nat, wm : Nat, pushes : Nat]

Memory == [seq : [Tables -> Nat], wm : [Tables -> Nat], pinned : [Tables -> Schemas]]

Repairs == [at : {"none", "stopping", "deleting", "clearing"}, left : [Tables -> SUBSET Nat],
            on : BOOLEAN, swept : BOOLEAN]

TypeInv ==
  /\ row \in [Keys -> [ver : Nat, ts : Nat]] /\ clock \in Nat
  /\ \A k \in Keys : row[k].ts <= clock /\ (row[k].ver # 0 => row[k].ts # 0)
  /\ zone = [t \in Tables |-> zone[t]] /\ \A t \in Tables : Bounded(zone[t])
  /\ consumed \in [Tables -> Nat]
  /\ first \in [Tables -> Schemas]
  /\ saved \in [seq : [Tables -> Nat], wm : [Tables -> Nat]]
  /\ pinned \in [Tables -> Schemas]
  /\ mem \in [seq : [Tables -> Nat], wm : [Tables -> Nat], pinned : [Tables -> Schemas]]
  /\ push \in Pushed
  /\ push.at = "upload" => push.table \in Tables
  /\ repair \in Repairs
  /\ repair.at # "none" => push.at = "idle"

\* The highest sequence a push has used for a table, as the next one knows it.
Used(t) == IF push.at \in {"tables", "upload"} THEN mem.seq[t] ELSE saved.seq[t]

Orderly == met \cap {"crash", "refused", "repair"} = {}

\* What has been used and not consumed is what lies there.
Consecutive == \A t \in Tables : consumed[t] <= Used(t) /\ Files(t) = (consumed[t] + 1) .. Used(t)

\* A repair deletes what lies there, and the replicator waits.
InSequence ==
  /\ repair.at \in {"none", "stopping"} => Consecutive
  /\ repair.at \in {"stopping", "deleting"} => \A t \in Tables : Files(t) \subseteq repair.left[t]
  /\ repair.at = "deleting" => ~repair.on
  /\ repair.at = "clearing" => \A t \in Tables : Files(t) = {} /\ consumed[t] = 0
  /\ push.at = "upload" => push.seq = mem.seq[push.table] + 1

SequencesKnown == Orderly => InSequence

Pin(t) == IF push.at = "idle" THEN pinned[t] ELSE mem.pinned[t]

Completed == met \cap {"crash", "refused"} = {}

SchemasKnown ==
  /\ push.at = "upload" => mem.pinned[push.table] # "none"
  /\ \A t \in Tables : first[t] = "none" => Files(t) = {}
  /\ Completed => SchemasMatch /\ \A t \in Tables : first[t] \in {"none", Pin(t)}

\* The rows of a file, and those still to be uploaded, are of one table, and
\* there is one of each key.
RowsKnown ==
  /\ \A t \in Tables : \A s \in Files(t) : \A r \in zone[t][s].rows : TableOf[r[1]] = t
  /\ push.at = "upload" =>
       /\ \A r \in push.rows : TableOf[r[1]] = push.table
       /\ \A r1, r2 \in push.rows : r1[1] = r2[1] => r1 = r2

Exact == met \cap {"late", "listing"} = {} /\ ~repair.swept

Covered(wm) ==
  \A k \in Keys :
    TableOf[k] \in Watermarked /\ row[k].ver # 0 /\ row[k].ts <= wm[TableOf[k]] => Merged(k) = row[k].ver

\* No watermark is ahead of the commits.
WatermarksKnown ==
  /\ \A t \in Tables : saved.wm[t] <= clock
  /\ push.at # "idle" => \A t \in Tables : mem.wm[t] <= clock
  /\ push.at = "upload" => push.wm <= clock

\* A row that changed after it was read is later than every watermark.
ReadRows ==
  push.at = "upload" =>
    \A r \in push.rows : row[r[1]].ver # 0 /\ row[r[1]].ver # r[2] =>
      /\ row[r[1]].ts > push.wm
      /\ row[r[1]].ts > mem.wm[push.table]
      /\ row[r[1]].ts > saved.wm[push.table]

\* What the push's watermark passes is merged, or about to be uploaded.
Pending ==
  push.at = "upload" =>
    \A k \in Keys :
      TableOf[k] = push.table /\ row[k].ver # 0 /\ row[k].ts <= push.wm =>
        Merged(k) = row[k].ver \/ <<k, row[k].ver>> \in push.rows

NewestSequence == push.at = "upload" => \A s \in Files(push.table) : s < push.seq

DataInv ==
  Exact =>
    /\ WatermarksKnown /\ ReadRows /\ Pending /\ NewestSequence
    /\ Covered(saved.wm) /\ (push.at # "idle" => Covered(mem.wm))

IInv == TypeInv /\ SequencesKnown /\ SchemasKnown /\ RowsKnown /\ DataInv

----------------------------------------------------------------------------
(* Types                                                                   *)

LEMMA InitTypes == Init => TypeInv
<1> SUFFICES ASSUME Init PROVE TypeInv
  OBVIOUS
<1>1. Zero \in [Tables -> Nat]
  BY DEF Zero
<1>2. row \in [Keys -> [ver : Nat, ts : Nat]] /\ clock \in Nat
      /\ \A k \in Keys : row[k].ts <= clock /\ row[k].ver = 0
  BY DEF Init
<1>3. zone = [t \in Tables |-> zone[t]] /\ \A t \in Tables : Bounded(zone[t])
  BY DEF Init, Bounded, NoFiles
<1>4. saved \in [seq : [Tables -> Nat], wm : [Tables -> Nat]]
  BY <1>1 DEF Init
<1>5. mem \in [seq : [Tables -> Nat], wm : [Tables -> Nat], pinned : [Tables -> Schemas]]
  BY DEF Init, NoMemory, Schemas
<1>6. push \in Pushed /\ push.at = "idle"
  BY DEF Init, Idle, Pushed
<1>7. repair \in Repairs
  BY DEF Init, Repairs, NoneLeft
<1> QED BY <1>1, <1>2, <1>3, <1>4, <1>5, <1>6, <1>7 DEF Init, TypeInv, Schemas

LEMMA EndsType ==
  ASSUME TypeInv, Ends
  PROVE  push' \in Pushed /\ push'.at = "idle" /\ mem' \in Memory
<1>1. push' \in Pushed /\ push'.at = "idle"
  BY DEF TypeInv, Ends, Idle, Pushed
<1>2. mem' \in Memory
  BY DEF Ends, NoMemory, Memory, Schemas
<1> QED BY <1>1, <1>2

LEMMA SelectedAre ==
  ASSUME NEW t \in Tables
  PROVE  Selected(t) \subseteq Keys /\ \A k \in Selected(t) : TableOf[k] = t /\ row[k].ver # 0
BY DEF Selected

LEMMA ListedIs ==
  ASSUME TypeInv, NEW t \in Tables
  PROVE  Listed(t) \in Files(t) \cup {0} /\ \A s \in Files(t) : s <= Listed(t)
<1>1. PICK b \in Nat : \A s \in DOMAIN zone[t] : s <= b
  BY DEF TypeInv, Bounded
<1> DEFINE S == DOMAIN zone[t] \cup {0}
<1>2. S \subseteq Nat /\ S # {} /\ \A s \in S : s <= b
  BY <1>1 DEF TypeInv, Bounded
<1> HIDE DEF S
<1>3. Max(S) \in S /\ \A s \in S : Max(S) >= s
  BY <1>2, MaxIs
<1>4. \A s \in S : s <= Max(S)
  BY <1>2, <1>3
<1> QED BY <1>3, <1>4 DEF S, Listed, Files

\* What reading a table sets up.
LEMMA ReadEffect ==
  ASSUME TypeInv, NEW t \in Tables, ReadTable(t)
  PROVE  /\ UNCHANGED <<row, clock, zone, first, consumed, mirror, saved, pinned, repair>>
         /\ push.at = "tables" /\ push' \in Pushed /\ push'.at = "upload" /\ push'.table = t
         /\ push'.rows = {<<k, row[k].ver>> : k \in Selected(t)}
         /\ push'.wm <= clock /\ \A k \in Selected(t) : row[k].ts <= push'.wm
         /\ push'.seq > mem.seq[t]
         /\ \E listed \in {Listed(t), 0} :
              /\ push'.seq = Max({listed, mem.seq[t]}) + 1
              /\ met' = IF listed = Listed(t) THEN met ELSE met \cup {"listing"}
         /\ "listing" \notin met' => \A s \in Files(t) : s < push'.seq
         /\ mem'.seq = mem.seq /\ mem'.wm = mem.wm
         /\ mem'.pinned \in [Tables -> Schemas] /\ mem'.pinned[t] # "none"
         /\ \A u \in Tables : mem.pinned[u] # "none" \/ u # t => mem'.pinned[u] = mem.pinned[u]
         /\ mem' \in [seq : [Tables -> Nat], wm : [Tables -> Nat], pinned : [Tables -> Schemas]]
<1> DEFINE rows == {<<k, row[k].ver>> : k \in Selected(t)}
           schema == SchemaFor(t, {r[2] : r \in rows})
           times == {row[k].ts : k \in Selected(t)}
<1>1. /\ UNCHANGED <<row, clock, zone, first, consumed, mirror, saved, pinned, repair>>
      /\ push.at = "tables" /\ rows # {} /\ Pinnable(schema)
      /\ mem' = [mem EXCEPT !.pinned[t] = schema]
  BY DEF ReadTable, source, replica, files
<1>2. PICK listed \in {Listed(t), 0} :
        /\ push' = [push EXCEPT !.at = "upload", !.table = t, !.rows = rows,
                      !.seq = NextSequence(t, listed), !.wm = Max(times)]
        /\ met' = IF listed = Listed(t) THEN met ELSE met \cup {"listing"}
  BY DEF ReadTable
<1>3. times \subseteq Nat /\ times # {} /\ \A x \in times : x <= clock
  BY <1>1, SelectedAre DEF TypeInv
<1>4. Max(times) \in Nat /\ Max(times) <= clock /\ \A k \in Selected(t) : row[k].ts <= Max(times)
  <2>1. clock \in Nat /\ \A k \in Selected(t) : row[k].ts \in times
    BY DEF TypeInv
  <2> HIDE DEF times
  <2>2. Max(times) \in times /\ \A x \in times : Max(times) >= x
    BY <1>3, <2>1, MaxIs
  <2> QED BY <1>3, <2>1, <2>2
<1>5. listed \in Nat /\ mem.seq[t] \in Nat
  BY ListedIs DEF TypeInv, Bounded, Files
<1>6. /\ NextSequence(t, listed) = Max({listed, mem.seq[t]}) + 1
      /\ NextSequence(t, listed) \in Nat /\ NextSequence(t, listed) > mem.seq[t]
      /\ NextSequence(t, listed) > listed
  BY <1>5, MaxOfTwo DEF NextSequence
<1>7. rows \subseteq Keys \X Nat
  BY SelectedAre DEF TypeInv
<1>8. schema \in Schemas /\ schema # "none" /\ (mem.pinned[t] # "none" => schema = mem.pinned[t])
  BY <1>1 DEF TypeInv, SchemaFor, Inferred, Pinnable, Schemas
<1> HIDE DEF schema, rows, times
<1>9. /\ push' \in Pushed /\ push'.at = "upload" /\ push'.table = t /\ push'.rows = rows
      /\ push'.seq = NextSequence(t, listed) /\ push'.wm = Max(times)
  BY <1>2, <1>4, <1>6, <1>7 DEF TypeInv, Pushed
<1>10. /\ mem'.seq = mem.seq /\ mem'.wm = mem.wm /\ mem'.pinned = [mem.pinned EXCEPT ![t] = schema]
       /\ mem' \in [seq : [Tables -> Nat], wm : [Tables -> Nat], pinned : [Tables -> Schemas]]
  <2>1. mem \in [seq : [Tables -> Nat], wm : [Tables -> Nat], pinned : [Tables -> Schemas]]
    BY DEF TypeInv
  <2>2. [mem.pinned EXCEPT ![t] = schema] \in [Tables -> Schemas]
    BY <1>8, <2>1
  <2>3. mem' = [mem EXCEPT !.pinned = [mem.pinned EXCEPT ![t] = schema]]
    BY <1>1, <2>1
  <2> DEFINE new == [mem.pinned EXCEPT ![t] = schema]
  <2> HIDE DEF new
  <2>4. mem' = [mem EXCEPT !.pinned = new] /\ new \in [Tables -> Schemas]
    BY <2>2, <2>3 DEF new
  <2>5. mem'.seq = mem.seq /\ mem'.wm = mem.wm /\ mem'.pinned = new
    BY <2>1, <2>4
  <2>6. mem' \in [seq : [Tables -> Nat], wm : [Tables -> Nat], pinned : [Tables -> Schemas]]
    BY <2>1, <2>4
  <2> QED BY <2>5, <2>6 DEF new
<1>11. /\ mem'.pinned \in [Tables -> Schemas] /\ mem'.pinned[t] # "none"
       /\ \A u \in Tables : mem.pinned[u] # "none" \/ u # t => mem'.pinned[u] = mem.pinned[u]
  BY <1>8, <1>10 DEF TypeInv
<1>12. "listing" \notin met' => \A s \in Files(t) : s < push'.seq
  <2> SUFFICES ASSUME "listing" \notin met', NEW s \in Files(t) PROVE s < push'.seq
    OBVIOUS
  <2>1. listed = Listed(t)
    BY <1>2
  <2>2. s <= listed /\ s \in Nat
    BY <2>1, ListedIs DEF TypeInv, Bounded, Files
  <2> QED BY <1>5, <1>6, <1>9, <2>2
<1> QED BY <1>1, <1>2, <1>4, <1>6, <1>9, <1>10, <1>11, <1>12 DEF rows

\* What the upload of one file does to the landing zone and its schemas ...
FilePut(chunk) ==
  LET t == push.table
  IN  /\ zone' = [u \in Tables |-> zone'[u]]
      /\ zone'[t] = Put(zone[t], push.seq, [rows |-> chunk, schema |-> mem.pinned[t]])
      /\ \A u \in Tables : u # t => zone'[u] = zone[u]
      /\ first' \in [Tables -> Schemas]
      /\ \A u \in Tables : first'[u] = IF u = t /\ first[t] = "none" THEN mem.pinned[t] ELSE first[u]

\* ... and what the push remembers of it.
PutRemembered(chunk) ==
  LET t == push.table
  IN  /\ mem' \in Memory /\ push' \in Pushed /\ mem'.pinned = mem.pinned
      /\ \A u \in Tables : mem'.seq[u] = IF u = t THEN Max({mem.seq[t], push.seq}) ELSE mem.seq[u]
      /\ \/ /\ chunk = push.rows /\ push'.at = "tables"
            /\ \A u \in Tables : mem'.wm[u] = IF u = t /\ t \in Watermarked THEN push.wm ELSE mem.wm[u]
         \/ /\ push'.at = "upload" /\ push'.table = t /\ push'.rows = push.rows \ chunk
            /\ push'.seq = push.seq + 1 /\ push'.wm = push.wm /\ mem'.wm = mem.wm

LEMMA UploadEffect ==
  ASSUME TypeInv, Upload
  PROVE  /\ push.table \in Tables /\ push.at = "upload"
         /\ UNCHANGED <<row, clock, met, consumed, mirror, saved, pinned, repair>>
         /\ \E chunk \in SUBSET push.rows : FilePut(chunk) /\ PutRemembered(chunk)
<1> DEFINE t == push.table
<1>1. t \in Tables /\ push.at = "upload" /\ push \in Pushed /\ mem \in Memory
  BY DEF TypeInv, Upload, Memory
<1>2. PICK chunk \in SUBSET push.rows :
        /\ zone' = [zone EXCEPT ![t] = Put(@, push.seq, [rows |-> chunk, schema |-> mem.pinned[t]])]
        /\ IF chunk = push.rows
             THEN /\ push' = [push EXCEPT !.at = "tables", !.left = @ \ {t}, !.rows = {}]
                  /\ mem' = [mem EXCEPT !.seq = RecordSequence(t), !.wm = Watermark(t)]
             ELSE /\ push' = [push EXCEPT !.rows = @ \ chunk, !.seq = @ + 1]
                  /\ mem' = [mem EXCEPT !.seq = RecordSequence(t)]
  BY DEF Upload
<1>3. /\ UNCHANGED <<row, clock, met, consumed, mirror, saved, pinned, repair>>
      /\ first' = [first EXCEPT ![t] = IF @ = "none" THEN mem.pinned[t] ELSE @]
  BY DEF Upload, source, replica, files
<1>4. /\ zone' = [u \in Tables |-> zone'[u]]
      /\ zone'[t] = Put(zone[t], push.seq, [rows |-> chunk, schema |-> mem.pinned[t]])
      /\ \A u \in Tables : u # t => zone'[u] = zone[u]
  <2> DEFINE P == Put(zone[t], push.seq, [rows |-> chunk, schema |-> mem.pinned[t]])
  <2>1. zone = [u \in Tables |-> zone[u]]
    BY DEF TypeInv
  <2>2. zone' = [zone EXCEPT ![t] = P]
    BY <1>2
  <2> HIDE DEF P
  <2>3. zone' = [u \in Tables |-> zone'[u]] /\ zone'[t] = P /\ \A u \in Tables : u # t => zone'[u] = zone[u]
    BY <1>1, <2>1, <2>2
  <2> QED BY <2>3 DEF P
<1>5. /\ first' \in [Tables -> Schemas]
      /\ \A u \in Tables : first'[u] = IF u = t /\ first[t] = "none" THEN mem.pinned[t] ELSE first[u]
  <2>1. mem.pinned[t] \in Schemas /\ first \in [Tables -> Schemas]
    BY <1>1 DEF TypeInv, Memory
  <2> QED BY <1>1, <1>3, <2>1
<1>6. /\ RecordSequence(t) \in [Tables -> Nat]
      /\ \A u \in Tables : RecordSequence(t)[u] = IF u = t THEN Max({mem.seq[t], push.seq}) ELSE mem.seq[u]
  <2>1. mem.seq \in [Tables -> Nat] /\ push.seq \in Nat
    BY <1>1 DEF Memory, Pushed
  <2>2. Max({mem.seq[t], push.seq}) \in Nat
    BY <1>1, <2>1, MaxOfTwo
  <2> DEFINE m == Max({mem.seq[t], push.seq})
  <2>3. RecordSequence(t) = [mem.seq EXCEPT ![t] = m]
    BY <1>1, <2>1 DEF RecordSequence
  <2> HIDE DEF m
  <2>4. m \in Nat
    BY <2>2 DEF m
  <2>5. /\ RecordSequence(t) \in [Tables -> Nat]
        /\ \A u \in Tables : RecordSequence(t)[u] = IF u = t THEN m ELSE mem.seq[u]
    BY <1>1, <2>1, <2>3, <2>4
  <2> QED BY <2>5 DEF m
<1>7. /\ Watermark(t) \in [Tables -> Nat]
      /\ \A u \in Tables : Watermark(t)[u] = IF u = t /\ t \in Watermarked THEN push.wm ELSE mem.wm[u]
  <2>1. mem.wm \in [Tables -> Nat] /\ push.wm \in Nat
    BY <1>1 DEF Memory, Pushed
  <2> QED BY <1>1, <2>1 DEF Watermark
<1> DEFINE sq == RecordSequence(t)
           wm == Watermark(t)
<1>8. /\ mem' \in Memory /\ mem'.seq = sq /\ mem'.pinned = mem.pinned
      /\ mem'.wm = IF chunk = push.rows THEN wm ELSE mem.wm
  <2>1. sq \in [Tables -> Nat] /\ wm \in [Tables -> Nat]
    BY <1>6, <1>7
  <2>2. mem' = IF chunk = push.rows THEN [mem EXCEPT !.seq = sq, !.wm = wm] ELSE [mem EXCEPT !.seq = sq]
    BY <1>2
  <2> HIDE DEF sq, wm
  <2>3. CASE chunk = push.rows
    BY <1>1, <2>1, <2>2, <2>3 DEF Memory
  <2>4. CASE chunk # push.rows
    BY <1>1, <2>1, <2>2, <2>4 DEF Memory
  <2> QED BY <2>3, <2>4
<1>9. FilePut(chunk)
  BY <1>4, <1>5 DEF FilePut
<1>10. ASSUME chunk = push.rows
       PROVE  push' \in Pushed /\ push'.at = "tables"
  <2> DEFINE left == push.left \ {t}
  <2>1. left \in SUBSET Tables
    BY <1>1 DEF Pushed
  <2>2. push' = [push EXCEPT !.at = "tables", !.left = left, !.rows = {}]
    BY <1>2, <1>10
  <2> HIDE DEF left
  <2> QED BY <1>1, <2>1, <2>2 DEF Pushed
<1>11. ASSUME chunk # push.rows
       PROVE  /\ push' \in Pushed /\ push'.at = "upload" /\ push'.table = t /\ push'.rows = push.rows \ chunk
              /\ push'.seq = push.seq + 1 /\ push'.wm = push.wm
  <2> DEFINE rows == push.rows \ chunk
             next == push.seq + 1
  <2>1. rows \in SUBSET (Keys \X Nat) /\ next \in Nat
    BY <1>1 DEF Pushed
  <2>2. push' = [push EXCEPT !.rows = rows, !.seq = next]
    BY <1>2, <1>11
  <2> HIDE DEF rows, next
  <2>3. /\ push' \in Pushed /\ push'.at = "upload" /\ push'.table = t /\ push'.rows = rows
        /\ push'.seq = next /\ push'.wm = push.wm
    BY <1>1, <2>1, <2>2 DEF Pushed
  <2> QED BY <2>3 DEF rows, next
<1>12. PutRemembered(chunk)
  <2>1. CASE chunk = push.rows
    BY <1>6, <1>7, <1>8, <1>10, <2>1 DEF PutRemembered
  <2>2. CASE chunk # push.rows
    BY <1>6, <1>8, <1>11, <2>2 DEF PutRemembered
  <2> QED BY <2>1, <2>2
<1> HIDE DEF t
<1> QED BY <1>1, <1>3, <1>9, <1>12 DEF t

\* What the replicator does with one file.
Merges(t, low) ==
  /\ \A s \in Files(t) : low <= s
  /\ low > consumed[t]
  /\ zone' = [u \in Tables |-> zone'[u]]
  /\ zone'[t] = [s \in DOMAIN zone[t] \ {low} |-> zone[t][s]]
  /\ \A u \in Tables : u # t => zone'[u] = zone[u]
  /\ consumed' \in [Tables -> Nat]
  /\ \A u \in Tables : consumed'[u] = IF u = t THEN low ELSE consumed[u]
  /\ \A k \in Keys : mirror'[k] = IF Has(zone[t][low].rows, k)
                                    THEN VersionIn(zone[t][low].rows, k) ELSE mirror[k]

LEMMA ConsumeEffect ==
  ASSUME TypeInv, NEW t \in Tables, Consume(t)
  PROVE  /\ UNCHANGED <<row, clock, met, first, mem, push, saved, pinned, repair>>
         /\ repair.on
         /\ \E low \in Files(t) : Merges(t, low)
<1> DEFINE low == Lowest(t)
           rest == [s \in DOMAIN zone[t] \ {low} |-> zone[t][s]]
<1>1. DOMAIN zone[t] \subseteq Nat /\ zone = [u \in Tables |-> zone[u]] /\ consumed \in [Tables -> Nat]
  BY DEF TypeInv, Bounded
<1>2. CASE DOMAIN zone[t] # {}
  <2>1. low \in Files(t) /\ (\A s \in Files(t) : low <= s) /\ low \in Nat
    BY <1>1, <1>2, MinIs DEF Lowest, Files
  <2>2. /\ low > consumed[t] /\ repair.on
        /\ UNCHANGED <<row, clock, met, first, mem, push, saved, pinned, repair>>
        /\ zone' = [zone EXCEPT ![t] = rest]
        /\ consumed' = [consumed EXCEPT ![t] = low]
    BY DEF Consume, source, files
  <2>3. \A k \in Keys : mirror'[k] = IF Has(zone[t][low].rows, k)
                                      THEN VersionIn(zone[t][low].rows, k) ELSE mirror[k]
    BY DEF Consume, Has, VersionIn
  <2> HIDE DEF low, rest
  <2>4. /\ zone' = [u \in Tables |-> zone'[u]] /\ zone'[t] = rest
        /\ \A u \in Tables : u # t => zone'[u] = zone[u]
        /\ consumed' \in [Tables -> Nat]
        /\ \A u \in Tables : consumed'[u] = IF u = t THEN low ELSE consumed[u]
    BY <1>1, <2>1, <2>2
  <2>5. Merges(t, low)
    BY <2>1, <2>2, <2>3, <2>4 DEF Merges, rest
  <2> QED BY <2>1, <2>2, <2>5
<1>3. CASE DOMAIN zone[t] = {}
  BY <1>3 DEF Consume
<1> QED BY <1>2, <1>3

\* What the other steps do.
LEMMA WriteEffect ==
  ASSUME TypeInv, NEW k \in Keys, Write(k)
  PROVE  /\ UNCHANGED <<zone, first, consumed, mirror, saved, pinned, mem, push, repair>>
         /\ clock' = clock + 1
         /\ \E ts \in Nat :
              /\ ts # 0 /\ ts <= clock + 1
              /\ row' = [row EXCEPT ![k] = [ver |-> clock + 1, ts |-> ts]]
              /\ met' = IF ts = clock + 1 THEN met ELSE met \cup {"late"}
<1>1. /\ UNCHANGED <<zone, first, consumed, mirror, saved, pinned, mem, push, repair>>
      /\ clock' = clock + 1
  BY DEF Write, replica, files
<1>2. clock \in Nat /\ row[k].ts \in Nat
  BY DEF TypeInv
<1>3. \A ts \in Stamps(k) : ts \in Nat /\ ts # 0 /\ ts <= clock + 1
  BY <1>2 DEF Stamps
<1>4. PICK ts \in Stamps(k) :
        /\ row' = [row EXCEPT ![k] = [ver |-> clock + 1, ts |-> ts]]
        /\ met' = IF ts = clock + 1 THEN met ELSE met \cup {"late"}
  BY DEF Write
<1> QED BY <1>1, <1>3, <1>4

LEMMA DeleteEffect ==
  ASSUME TypeInv, NEW k \in Keys, Delete(k)
  PROVE  /\ UNCHANGED <<met, clock, zone, first, consumed, mirror, saved, pinned, mem, push, repair>>
         /\ row' = [row EXCEPT ![k].ver = 0]
BY DEF Delete, replica, files

LEMMA BeginEffect ==
  ASSUME TypeInv, NEW mode \in {"full", "incremental"}, NEW ts \in SUBSET Tables, Begin(mode, ts)
  PROVE  /\ UNCHANGED <<met, row, clock, zone, first, consumed, mirror, saved, pinned, repair>>
         /\ push.at = "idle" /\ repair.at = "none" /\ push'.at = "tables" /\ push' \in Pushed
         /\ mem' \in Memory /\ mem'.seq = saved.seq /\ mem'.wm = saved.wm /\ mem'.pinned = pinned
<1>1. push \in Pushed /\ push' = [push EXCEPT !.at = "tables", !.mode = mode, !.left = ts, !.pushes = @ + 1]
  BY DEF TypeInv, Begin
<1> DEFINE n == push.pushes + 1
<1>2. push' \in Pushed /\ push'.at = "tables"
  <2>1. n \in Nat /\ push' = [push EXCEPT !.at = "tables", !.mode = mode, !.left = ts, !.pushes = n]
    BY <1>1 DEF Pushed
  <2> HIDE DEF n
  <2> QED BY <1>1, <2>1 DEF Pushed
<1>3. mem' \in Memory /\ mem'.seq = saved.seq /\ mem'.wm = saved.wm /\ mem'.pinned = pinned
  BY DEF TypeInv, Begin, Memory
<1> QED BY <1>2, <1>3 DEF Begin, source, replica, files

LEMMA NoChangesEffect ==
  ASSUME TypeInv, NEW t \in Tables, NoChanges(t)
  PROVE  /\ UNCHANGED <<met, row, clock, zone, first, consumed, mirror, saved, pinned, mem, repair>>
         /\ push.at = "tables" /\ push'.at = "tables" /\ push' \in Pushed
<1>1. push \in Pushed /\ push' = [push EXCEPT !.left = @ \ {t}] /\ push.at = "tables"
  BY DEF TypeInv, NoChanges
<1> DEFINE left == push.left \ {t}
<1>2. left \in SUBSET Tables /\ push' = [push EXCEPT !.left = left]
  BY <1>1 DEF Pushed
<1> HIDE DEF left
<1>3. push' \in Pushed /\ push'.at = "tables"
  BY <1>1, <1>2 DEF Pushed
<1> QED BY <1>1, <1>3 DEF NoChanges, source, replica, files

\* A push that ends without saving anything.
Stopped ==
  /\ UNCHANGED <<row, clock, zone, first, consumed, mirror, saved, pinned, repair>>
  /\ push' \in Pushed /\ push'.at = "idle" /\ mem' \in Memory
  /\ met \subseteq met' /\ met' \cap {"crash", "refused"} # {}

LEMMA StoppedEffect ==
  ASSUME TypeInv, Crash \/ \E t \in Tables : RefusePin(t)
  PROVE  Stopped
<1>1. Ends
  BY DEF Crash, RefusePin
<1>2. UNCHANGED <<row, clock, zone, first, consumed, mirror, saved, pinned, repair>>
  BY DEF Crash, RefusePin, source, replica, files
<1>3. met \subseteq met' /\ met' \cap {"crash", "refused"} # {}
  BY DEF Crash, RefusePin
<1> QED BY <1>1, <1>2, <1>3, EndsType DEF Stopped

LEMMA SaveWatermarksEffect ==
  ASSUME TypeInv, SaveWatermarks
  PROVE  /\ UNCHANGED <<met, row, clock, zone, first, consumed, mirror, mem, pinned, repair>>
         /\ push.at = "tables" /\ push'.at = "schemas" /\ push' \in Pushed
         /\ saved' \in [seq : [Tables -> Nat], wm : [Tables -> Nat]]
         /\ saved'.seq = mem.seq /\ saved'.wm = mem.wm
<1>1. push \in Pushed /\ push' = [push EXCEPT !.at = "schemas"] /\ push.at = "tables"
  BY DEF TypeInv, SaveWatermarks
<1>2. push' \in Pushed /\ push'.at = "schemas"
  BY <1>1 DEF Pushed
<1>3. saved' = [seq |-> mem.seq, wm |-> mem.wm]
  BY DEF SaveWatermarks
<1>4. mem.seq \in [Tables -> Nat] /\ mem.wm \in [Tables -> Nat]
  BY DEF TypeInv
<1>5. saved' \in [seq : [Tables -> Nat], wm : [Tables -> Nat]] /\ saved'.seq = mem.seq /\ saved'.wm = mem.wm
  BY <1>3, <1>4
<1> QED BY <1>1, <1>2, <1>5 DEF SaveWatermarks, source, replica

LEMMA SaveSchemasEffect ==
  ASSUME TypeInv, SaveSchemas
  PROVE  /\ UNCHANGED <<met, row, clock, zone, first, consumed, mirror, saved, repair>>
         /\ push.at = "schemas" /\ push'.at = "idle" /\ push' \in Pushed /\ mem' \in Memory
         /\ pinned' = mem.pinned
<1>1. Ends
  BY DEF SaveSchemas
<1> QED BY <1>1, EndsType DEF SaveSchemas, source, replica

\* The steps of a repair that leave the files alone and what is saved of them.
RepairWaits == RepairLists \/ RepairStops \/ RepairStarts \/ RepairDies

LEMMA RepairWaitsEffect ==
  ASSUME TypeInv, RepairWaits
  PROVE  /\ UNCHANGED <<row, clock, zone, first, mirror, saved, pinned, mem, push>>
         /\ push.at = "idle" /\ repair' \in Repairs /\ repair'.swept = repair.swept
         /\ consumed' \in [Tables -> Nat]
         /\ met \subseteq met'
<1>a. repair \in Repairs /\ push.at = "idle" /\ consumed \in [Tables -> Nat]
  BY DEF TypeInv, RepairWaits, RepairLists, RepairStops, RepairStarts, RepairDies
<1>b. NoneLeft \in [Tables -> SUBSET Nat]
  BY DEF NoneLeft
<1>1. UNCHANGED <<row, clock, zone, first, mirror, saved, pinned, mem, push>> /\ met \subseteq met'
  BY DEF RepairWaits, RepairLists, RepairStops, RepairStarts, RepairDies, source, replica, files
<1>2. CASE RepairLists
  <2>1. PICK listed \in {[t \in Tables |-> Files(t)], NoneLeft} :
          repair' = [repair EXCEPT !.at = "stopping", !.left = listed]
    BY <1>2 DEF RepairLists
  <2>2. [t \in Tables |-> Files(t)] \in [Tables -> SUBSET Nat]
    BY DEF TypeInv, Bounded, Files
  <2>3. listed \in [Tables -> SUBSET Nat]
    BY <1>b, <2>1, <2>2
  <2>4. repair' \in Repairs /\ repair'.swept = repair.swept
    BY <1>a, <2>1, <2>3 DEF Repairs
  <2> QED BY <1>2, <1>a, <1>1, <2>4 DEF RepairLists, replica
<1>3. CASE RepairStops
  <2>1. repair.on \in BOOLEAN
    BY <1>a DEF Repairs
  <2>2. PICK on \in BOOLEAN : repair' = [repair EXCEPT !.at = "deleting", !.on = on]
    BY <1>3, <2>1 DEF RepairStops
  <2>3. repair' \in Repairs /\ repair'.swept = repair.swept
    BY <1>a, <2>2 DEF Repairs
  <2> QED BY <1>3, <1>a, <1>1, <2>3 DEF RepairStops, replica
<1>4. CASE RepairStarts
  <2>1. \/ repair' = [repair EXCEPT !.at = "clearing", !.on = TRUE]
        \/ repair' = [repair EXCEPT !.at = "clearing"]
    BY <1>4 DEF RepairStarts
  <2>2. repair' \in Repairs /\ repair'.swept = repair.swept
    BY <1>a, <2>1 DEF Repairs
  <2>3. consumed' \in [Tables -> Nat]
    BY <1>4, <1>a DEF RepairStarts, Zero
  <2> QED BY <1>a, <1>1, <2>2, <2>3
<1>5. CASE RepairDies
  <2>1. repair' \in Repairs /\ repair'.swept = repair.swept
    BY <1>5, <1>a, <1>b DEF RepairDies, Repairs
  <2> QED BY <1>5, <1>a, <1>1, <2>1 DEF RepairDies, replica
<1> QED BY <1>2, <1>3, <1>4, <1>5 DEF RepairWaits

LEMMA RepairDeletesEffect ==
  ASSUME TypeInv, NEW t \in Tables, RepairDeletes(t)
  PROVE  /\ UNCHANGED <<row, clock, first, consumed, mirror, saved, pinned, mem, push>>
         /\ push.at = "idle" /\ repair.at = "deleting" /\ repair' \in Repairs
         /\ repair'.at = "deleting" /\ repair'.on = repair.on /\ repair'.swept
         /\ zone' = [u \in Tables |-> zone'[u]] /\ \A u \in Tables : Bounded(zone'[u])
         /\ \A u \in Tables : Files(u)' \subseteq Files(u) /\ \A s \in Files(u)' : zone'[u][s] = zone[u][s]
         /\ Orderly' /\ (\A u \in Tables : Files(u) \subseteq repair.left[u]) =>
              \A u \in Tables : Files(u)' \subseteq repair'.left[u]
         /\ met \subseteq met'
<1> DEFINE s == Min(repair.left[t])
           rest == [i \in DOMAIN zone[t] \ {s} |-> zone[t][i]]
           fewer == repair.left[t] \ {s}
<1>1. /\ repair \in Repairs /\ push.at = "idle" /\ repair.at = "deleting"
      /\ zone = [u \in Tables |-> zone[u]] /\ \A u \in Tables : Bounded(zone[u])
  BY DEF TypeInv, RepairDeletes
<1>2. /\ UNCHANGED <<row, clock, first, consumed, mirror, saved, pinned, mem, push>>
      /\ met \subseteq met'
      /\ zone' = [zone EXCEPT ![t] = rest] \/ (zone' = zone /\ "repair" \in met')
      /\ repair' = [repair EXCEPT !.left[t] = fewer, !.swept = TRUE]
  BY DEF RepairDeletes, source, replica, files
<1>3. fewer \subseteq Nat /\ \A x \in repair.left[t] : x # s => x \in fewer
  BY <1>1 DEF Repairs
<1>4. DOMAIN rest = DOMAIN zone[t] \ {s} /\ \A i \in DOMAIN rest : rest[i] = zone[t][i]
  OBVIOUS
<1>5. Bounded(rest)
  BY <1>1, <1>4 DEF Bounded
<1> HIDE DEF rest, fewer, s
<1>6. /\ repair' \in Repairs /\ repair'.at = "deleting" /\ repair'.on = repair.on /\ repair'.swept
      /\ \A u \in Tables : repair'.left[u] = IF u = t THEN fewer ELSE repair.left[u]
  <2>1. /\ [repair.left EXCEPT ![t] = fewer] \in [Tables -> SUBSET Nat]
        /\ \A u \in Tables : [repair.left EXCEPT ![t] = fewer][u] = IF u = t THEN fewer ELSE repair.left[u]
    BY <1>1, <1>3 DEF Repairs
  <2> DEFINE left == [repair.left EXCEPT ![t] = fewer]
  <2>2. repair' = [repair EXCEPT !.left = left, !.swept = TRUE]
    BY <1>1, <1>2 DEF Repairs
  <2> HIDE DEF left
  <2>3. repair' \in Repairs /\ repair'.at = "deleting" /\ repair'.on = repair.on /\ repair'.swept /\ repair'.left = left
    BY <1>1, <2>1, <2>2 DEF Repairs, left
  <2> QED BY <2>1, <2>3 DEF left
<1>7. CASE zone' = [zone EXCEPT ![t] = rest]
  <2>1. /\ zone' = [u \in Tables |-> zone'[u]]
        /\ \A u \in Tables : zone'[u] = IF u = t THEN rest ELSE zone[u]
    BY <1>1, <1>7
  <2>2. \A u \in Tables : Bounded(zone'[u])
    BY <1>1, <1>5, <2>1
  <2>3. \A u \in Tables : DOMAIN zone'[u] = IF u = t THEN DOMAIN zone[t] \ {s} ELSE DOMAIN zone[u]
    BY <1>4, <2>1
  <2>4. \A u \in Tables : \A i \in DOMAIN zone'[u] : zone'[u][i] = zone[u][i]
    BY <1>4, <2>1
  <2>5. (\A u \in Tables : Files(u) \subseteq repair.left[u]) => \A u \in Tables : DOMAIN zone'[u] \subseteq repair'.left[u]
    BY <1>3, <1>6, <2>3 DEF Files
  <2> QED BY <1>1, <1>2, <1>6, <2>1, <2>2, <2>3, <2>4, <2>5 DEF Files
<1>8. CASE zone' = zone /\ "repair" \in met'
  BY <1>1, <1>2, <1>6, <1>8 DEF Files, Orderly
<1> QED BY <1>2, <1>7, <1>8

LEMMA RepairClearsEffect ==
  ASSUME TypeInv, RepairClears
  PROVE  /\ UNCHANGED <<met, row, clock, zone, first, consumed, mirror, pinned, mem, push>>
         /\ push.at = "idle" /\ repair.at = "clearing"
         /\ repair' \in Repairs /\ repair'.at = "none" /\ ~repair'.swept
         /\ saved' \in [seq : [Tables -> Nat], wm : [Tables -> Nat]]
         /\ \A t \in Tables : saved'.seq[t] = 0 /\ saved'.wm[t] = 0
<1>1. repair \in Repairs /\ push.at = "idle" /\ repair.at = "clearing"
  BY DEF TypeInv, RepairClears
<1>2. repair' = [repair EXCEPT !.at = "none", !.swept = FALSE]
  BY DEF RepairClears
<1>3. repair' \in Repairs /\ repair'.at = "none" /\ ~repair'.swept
  BY <1>1, <1>2 DEF Repairs
<1>4. saved' = [seq |-> Zero, wm |-> Zero]
  BY DEF RepairClears, Forgotten
<1>5. Zero \in [Tables -> Nat] /\ \A t \in Tables : Zero[t] = 0
  BY DEF Zero
<1>6. /\ saved' \in [seq : [Tables -> Nat], wm : [Tables -> Nat]]
      /\ saved'.seq = Zero /\ saved'.wm = Zero
  BY <1>4, <1>5
<1> QED BY <1>1, <1>3, <1>5, <1>6 DEF RepairClears, source, replica

\* What has gone wrong is never forgotten.
LEMMA MetGrows == Next => met \subseteq met'
<1> SUFFICES ASSUME Next PROVE met \subseteq met'
  OBVIOUS
<1> QED BY DEF Next, Write, Delete, Begin, NoChanges, ReadTable, RefusePin, Consume, Upload,
              SaveWatermarks, SaveSchemas, Crash, RepairLists, RepairGoesOn, RepairStops, RepairDeletes,
              RepairStarts, RepairClears, RepairDies



----------------------------------------------------------------------------
(* Every step keeps the types                                              *)

LEMMA TypeStep == TypeInv /\ [Next]_vars => TypeInv'
<1> SUFFICES ASSUME TypeInv, [Next]_vars PROVE TypeInv'
  OBVIOUS
<1> USE DEF Memory
<1>1. CASE UNCHANGED vars
  BY <1>1 DEF TypeInv, vars, Bounded
<1>2. ASSUME NEW k \in Keys, Write(k) PROVE TypeInv'
  <2>1. PICK ts \in Nat : ts # 0 /\ ts <= clock + 1 /\ row' = [row EXCEPT ![k] = [ver |-> clock + 1, ts |-> ts]]
    BY <1>2, WriteEffect
  <2>2. UNCHANGED <<zone, first, consumed, saved, pinned, mem, push, repair>> /\ clock' = clock + 1
    BY <1>2, WriteEffect
  <2>3. /\ row' \in [Keys -> [ver : Nat, ts : Nat]] /\ clock' \in Nat
        /\ \A j \in Keys : row'[j].ts <= clock' /\ (row'[j].ver # 0 => row'[j].ts # 0)
    BY <2>1, <2>2 DEF TypeInv
  <2> QED BY <2>2, <2>3 DEF TypeInv, Bounded
<1>3. ASSUME NEW k \in Keys, Delete(k) PROVE TypeInv'
  <2>1. /\ UNCHANGED <<clock, zone, first, consumed, saved, pinned, mem, push, repair>>
        /\ row' = [row EXCEPT ![k].ver = 0]
    BY <1>3, DeleteEffect
  <2>2. row' \in [Keys -> [ver : Nat, ts : Nat]] /\ \A j \in Keys : row'[j].ts <= clock' /\ (row'[j].ver # 0 => row'[j].ts # 0)
    BY <2>1 DEF TypeInv
  <2> QED BY <2>1, <2>2 DEF TypeInv, Bounded
<1>4. ASSUME NEW mode \in {"full", "incremental"}, NEW ts \in SUBSET Tables, Begin(mode, ts) PROVE TypeInv'
  BY <1>4, BeginEffect DEF TypeInv, Bounded
<1>5. ASSUME NEW t \in Tables, NoChanges(t) PROVE TypeInv'
  BY <1>5, NoChangesEffect DEF TypeInv, Bounded
<1>6. ASSUME NEW t \in Tables, ReadTable(t) PROVE TypeInv'
  <2>1. /\ UNCHANGED <<row, clock, zone, first, consumed, mirror, saved, pinned, repair>>
        /\ push.at # "idle" /\ push' \in Pushed /\ push'.table = t
        /\ mem' \in [seq : [Tables -> Nat], wm : [Tables -> Nat], pinned : [Tables -> Schemas]]
    BY <1>6, ReadEffect
  <2> QED BY <2>1 DEF TypeInv, Bounded
<1>7. CASE Crash \/ \E t \in Tables : RefusePin(t)
  BY <1>7, StoppedEffect DEF TypeInv, Bounded, Stopped
<1>8. ASSUME NEW t \in Tables, Consume(t) PROVE TypeInv'
  <2>1. UNCHANGED <<row, clock, met, first, mem, push, saved, pinned, repair>>
    BY <1>8, ConsumeEffect
  <2>2. PICK low \in Files(t) : Merges(t, low)
    BY <1>8, ConsumeEffect
  <2>3. Bounded(zone'[t])
    BY <2>2 DEF TypeInv, Bounded, Merges
  <2>4. /\ zone' = [u \in Tables |-> zone'[u]] /\ \A u \in Tables : Bounded(zone'[u])
        /\ consumed' \in [Tables -> Nat]
    BY <2>2, <2>3 DEF TypeInv, Merges
  <2> QED BY <2>1, <2>4 DEF TypeInv, Bounded
<1>9. CASE Upload
  <2>1. UNCHANGED <<row, clock, met, consumed, mirror, saved, pinned, repair>> /\ push.table \in Tables /\ push.at = "upload"
    BY <1>9, UploadEffect
  <2>2. PICK chunk \in SUBSET push.rows : FilePut(chunk) /\ PutRemembered(chunk)
    BY <1>9, UploadEffect
  <2>3. Bounded(zone'[push.table])
    <3> DEFINE file == [rows |-> chunk, schema |-> mem.pinned[push.table]]
    <3>1. zone'[push.table] = Put(zone[push.table], push.seq, file)
      BY <2>2 DEF FilePut
    <3>2. push.seq \in Nat /\ Bounded(zone[push.table])
      BY <2>1 DEF TypeInv, Pushed
    <3>3. DOMAIN zone'[push.table] = DOMAIN zone[push.table] \cup {push.seq}
      BY <3>1 DEF Put
    <3>4. PICK b \in Nat : \A s \in DOMAIN zone[push.table] : s <= b
      BY <3>2 DEF Bounded
    <3>5. b + push.seq \in Nat /\ \A s \in DOMAIN zone'[push.table] : s <= b + push.seq
      BY <3>2, <3>3, <3>4 DEF Bounded
    <3> QED BY <3>2, <3>3, <3>5 DEF Bounded
  <2>4. /\ zone' = [u \in Tables |-> zone'[u]] /\ \A u \in Tables : Bounded(zone'[u])
        /\ first' \in [Tables -> Schemas]
    BY <2>2, <2>3 DEF TypeInv, FilePut
  <2>5. mem' \in Memory /\ push' \in Pushed /\ (push'.at = "upload" => push'.table \in Tables)
    BY <2>1, <2>2 DEF PutRemembered
  <2> QED BY <2>1, <2>4, <2>5 DEF TypeInv, Bounded
<1>10. CASE SaveWatermarks
  BY <1>10, SaveWatermarksEffect DEF TypeInv, Bounded
<1>11. CASE SaveSchemas
  BY <1>11, SaveSchemasEffect DEF TypeInv, Bounded
<1>12. CASE RepairWaits
  BY <1>12, RepairWaitsEffect DEF TypeInv, Bounded
<1>13. ASSUME NEW t \in Tables, RepairDeletes(t) PROVE TypeInv'
  BY <1>13, RepairDeletesEffect DEF TypeInv
<1>14. CASE RepairClears
  BY <1>14, RepairClearsEffect DEF TypeInv, Bounded
<1> QED BY <1>1, <1>2, <1>3, <1>4, <1>5, <1>6, <1>7, <1>8, <1>9, <1>10, <1>11, <1>12, <1>13, <1>14
     DEF Next, RepairGoesOn, RepairWaits

----------------------------------------------------------------------------
(* Sequences                                                               *)

\* Between the steps of a repair.
LEMMA RepairSequences ==
  ASSUME TypeInv, InSequence, Orderly', RepairWaits
  PROVE  InSequence'
<1>1. /\ UNCHANGED <<zone, saved, mem, push>> /\ push.at = "idle" /\ \A t \in Tables : Files(t)' = Files(t)
      /\ \A t \in Tables : Used(t)' = Used(t)
  BY RepairWaitsEffect DEF Used, Files
<1>2. repair \in Repairs /\ consumed \in [Tables -> Nat]
  BY DEF TypeInv
<1>3. CASE RepairLists
  <2>1. PICK listed \in {[t \in Tables |-> Files(t)]} \cup {NoneLeft : f \in Faults \cap {"listing"}} :
          /\ repair' = [repair EXCEPT !.at = "stopping", !.left = listed]
          /\ met' = met \cup {f \in {"listing", "repair"} : \E t \in Tables : listed[t] # Files(t)}
    BY <1>3 DEF RepairLists
  <2>2. \A t \in Tables : listed[t] = Files(t)
    BY <2>1 DEF Orderly
  <2>3. repair'.at = "stopping" /\ repair'.left = listed
    BY <1>2, <2>1 DEF Repairs
  <2>4. repair.at = "none" /\ consumed' = consumed
    BY <1>3 DEF RepairLists, replica
  <2>5. Consecutive
    BY <2>4 DEF InSequence
  <2>6. Consecutive' /\ push'.at = "idle" /\ \A t \in Tables : Files(t)' \subseteq repair'.left[t]
    BY <1>1, <2>2, <2>3, <2>4, <2>5 DEF Consecutive
  <2> QED BY <2>3, <2>6 DEF InSequence
<1>4. CASE RepairStops
  <2>1. PICK on \in {FALSE, repair.on} :
          /\ repair' = [repair EXCEPT !.at = "deleting", !.on = on]
          /\ met' = met \cup {f \in {"repair"} : on}
    BY <1>4 DEF RepairStops
  <2>2. ~on
    <3>1. "repair" \notin met'
      BY DEF Orderly
    <3> QED BY <2>1, <3>1, Zenon
  <2>3. repair'.at = "deleting" /\ repair'.left = repair.left /\ repair'.on = on
    BY <1>2, <2>1 DEF Repairs
  <2>4. repair.at = "stopping"
    BY <1>4 DEF RepairStops
  <2> QED BY <1>1, <2>2, <2>3, <2>4 DEF InSequence
<1>5. CASE RepairStarts
  <2>1. repair.at = "deleting" /\ \A t \in Tables : Files(t) = {}
    BY <1>5 DEF RepairStarts, NoneLeft, InSequence
  <2>2. repair' = [repair EXCEPT !.at = "clearing", !.on = TRUE] /\ consumed' = Zero
    BY <1>5, <2>1 DEF RepairStarts, Orderly, InSequence
  <2>3. repair'.at = "clearing" /\ \A t \in Tables : consumed'[t] = 0
    BY <1>2, <2>2 DEF Repairs, Zero
  <2> QED BY <1>1, <2>1, <2>3 DEF InSequence
<1>6. CASE RepairDies
  BY <1>6 DEF RepairDies, Orderly
<1> QED BY <1>3, <1>4, <1>5, <1>6 DEF RepairWaits

LEMMA SequencesStep ==
  ASSUME TypeInv, SequencesKnown, [Next]_vars
  PROVE  SequencesKnown'
<1> SUFFICES ASSUME Orderly'
             PROVE  InSequence'
  BY DEF SequencesKnown
<1>a. met \subseteq met'
  BY MetGrows DEF vars
<1>b. InSequence
  BY <1>a DEF SequencesKnown, Orderly
<1>c. \A t \in Tables : consumed[t] \in Nat /\ mem.seq[t] \in Nat /\ saved.seq[t] \in Nat
  BY DEF TypeInv
\* A step of a push: no repair is running.
<1>d. ASSUME repair.at = "none"
      PROVE  /\ \A t \in Tables : consumed[t] <= Used(t) /\ Files(t) = (consumed[t] + 1) .. Used(t)
             /\ push.at = "upload" => push.seq = mem.seq[push.table] + 1
  BY <1>b, <1>d DEF InSequence, Consecutive
<1>e. ASSUME push.at # "idle"
      PROVE  repair.at = "none"
  BY <1>e DEF TypeInv
<1>f. ASSUME repair.at = "none", repair' = repair,
             \A t \in Tables : consumed'[t] <= Used(t)' /\ Files(t)' = (consumed'[t] + 1) .. Used(t)',
             push'.at = "upload" => push'.seq = mem'.seq[push'.table] + 1
      PROVE  InSequence'
  BY <1>f DEF InSequence, Consecutive
<1>1. CASE UNCHANGED vars
  BY <1>1, <1>b DEF vars, InSequence, Consecutive, Used, Files
<1>2. ASSUME NEW k \in Keys, Write(k) \/ Delete(k)
      PROVE  UNCHANGED <<zone, consumed, saved, mem, push, repair>>
  BY <1>2, WriteEffect, DeleteEffect
<1>3. ASSUME UNCHANGED <<zone, consumed, saved, mem, push, repair>>
      PROVE  InSequence'
  BY <1>3, <1>b DEF InSequence, Consecutive, Used, Files
<1>4. ASSUME NEW mode \in {"full", "incremental"}, NEW ts \in SUBSET Tables, Begin(mode, ts)
      PROVE  InSequence'
  BY <1>4, <1>d, <1>f, BeginEffect DEF Used, Files
<1>5. ASSUME NEW t \in Tables, NoChanges(t)
      PROVE  InSequence'
  <2>1. UNCHANGED <<zone, consumed, saved, mem, repair>> /\ push.at = "tables" /\ push'.at = "tables"
    BY <1>5, NoChangesEffect
  <2> QED BY <1>d, <1>e, <1>f, <2>1 DEF Used, Files
<1>6. ASSUME NEW t \in Tables, ReadTable(t)
      PROVE  InSequence'
  <2>1. /\ UNCHANGED <<zone, consumed, repair>> /\ push.at = "tables" /\ push'.at = "upload" /\ push'.table = t
        /\ mem'.seq = mem.seq
    BY <1>6, ReadEffect
  <2>2. PICK listed \in {Listed(t), 0} : push'.seq = Max({listed, mem.seq[t]}) + 1
    BY <1>6, ReadEffect
  <2>3. Files(t) = (consumed[t] + 1) .. mem.seq[t]
    BY <1>d, <1>e, <2>1 DEF Used
  <2>4. listed \in Nat /\ listed <= mem.seq[t]
    BY <1>c, <2>2, <2>3, ListedIs
  <2>5. Max({listed, mem.seq[t]}) = mem.seq[t]
    <3>1. mem.seq[t] \in Nat
      BY <1>c
    <3> DEFINE m == Max({listed, mem.seq[t]})
    <3>2. m \in Nat /\ m >= mem.seq[t] /\ m \in {listed, mem.seq[t]}
      BY <2>4, <3>1, MaxOfTwo
    <3> HIDE DEF m
    <3>3. m = mem.seq[t]
      BY <2>4, <3>1, <3>2
    <3> QED BY <3>3 DEF m
  <2> QED BY <1>d, <1>e, <1>f, <2>1, <2>2, <2>5 DEF Used, Files
<1>7. CASE Crash \/ \E t \in Tables : RefusePin(t)
  BY <1>7, StoppedEffect DEF Stopped, Orderly
<1>8. ASSUME NEW t \in Tables, Consume(t)
      PROVE  InSequence'
  <2>1. UNCHANGED <<mem, push, saved, repair>> /\ repair.on
    BY <1>8, ConsumeEffect
  <2>2. PICK low \in Files(t) : Merges(t, low)
    BY <1>8, ConsumeEffect
  <2>3. /\ Files(t)' = Files(t) \ {low} /\ \A u \in Tables : u # t => Files(u)' = Files(u)
        /\ \A u \in Tables : consumed'[u] = IF u = t THEN low ELSE consumed[u]
    BY <2>2 DEF Merges, Files
  <2>4. \A u \in Tables : Used(u)' = Used(u) /\ Used(u) \in Nat
    BY <1>c, <2>1 DEF Used
  <2>a. repair.at \in {"none", "stopping"}
    BY <1>b, <2>1, <2>2 DEF InSequence, TypeInv, Repairs
  <2>b. Consecutive
    BY <1>b, <2>a DEF InSequence
  <2>5. low = consumed[t] + 1
    <3>1. \A s \in (consumed[t] + 1) .. Used(t) : low <= s
      BY <2>b, <2>2 DEF Merges, Consecutive
    <3> QED BY <2>b, <1>c, <2>2, <2>4, <3>1 DEF Consecutive
  <2>6. low <= Used(t) /\ Files(t) \ {low} = (low + 1) .. Used(t)
    BY <2>b, <1>c, <2>4, <2>5 DEF Consecutive
  <2>7. Consecutive'
    BY <2>b, <2>3, <2>4, <2>6 DEF Consecutive
  <2>8. repair.at = "stopping" => \A u \in Tables : Files(u)' \subseteq repair.left[u]
    BY <1>b, <2>3 DEF InSequence
  <2> QED BY <1>b, <2>1, <2>a, <2>7, <2>8 DEF InSequence
<1>9. CASE Upload
  <2> DEFINE t == push.table
  <2>1. consumed' = consumed /\ saved' = saved /\ repair' = repair /\ t \in Tables /\ push.at = "upload"
    BY <1>9, UploadEffect
  <2>2. PICK chunk \in SUBSET push.rows : FilePut(chunk) /\ PutRemembered(chunk)
    BY <1>9, UploadEffect
  <2>3. DOMAIN zone'[t] = Files(t) \cup {push.seq} /\ \A u \in Tables : u # t => Files(u)' = Files(u)
    <3> DEFINE file == [rows |-> chunk, schema |-> mem.pinned[t]]
    <3>1. zone'[t] = Put(zone[t], push.seq, file) /\ \A u \in Tables : u # t => zone'[u] = zone[u]
      BY <2>2 DEF FilePut
    <3> QED BY <3>1 DEF Put, Files
  <2>4. push.seq = mem.seq[t] + 1 /\ Max({mem.seq[t], push.seq}) = push.seq
    <3>1. push.seq = mem.seq[t] + 1 /\ mem.seq[t] \in Nat /\ push.seq \in Nat
      BY <1>d, <1>e, <1>c, <2>1
    <3> DEFINE m == Max({mem.seq[t], push.seq})
    <3>2. m \in Nat /\ m >= push.seq /\ m \in {mem.seq[t], push.seq}
      BY <3>1, MaxOfTwo
    <3> HIDE DEF m
    <3>3. m = push.seq
      BY <3>1, <3>2
    <3> QED BY <3>1, <3>3 DEF m
  <2>5. \A u \in Tables : mem'.seq[u] = IF u = t THEN push.seq ELSE mem.seq[u]
    BY <2>2, <2>4 DEF PutRemembered
  <2>6. push'.at \in {"tables", "upload"}
        /\ (push'.at = "upload" => push'.table = t /\ push'.seq = push.seq + 1)
    BY <2>2 DEF PutRemembered
  <2>7. \A u \in Tables : Used(u) = mem.seq[u] /\ Used(u)' = mem'.seq[u]
    BY <2>1, <2>6 DEF Used
  <2>8. Files(t) \cup {push.seq} = (consumed[t] + 1) .. push.seq /\ consumed[t] <= push.seq
    <3>1. /\ consumed[t] \in Nat /\ mem.seq[t] \in Nat /\ consumed[t] <= mem.seq[t]
          /\ Files(t) = (consumed[t] + 1) .. mem.seq[t]
      BY <1>d, <1>e, <1>c, <2>1, <2>7
    <3> QED BY ONLY <2>4, <3>1
  <2> HIDE DEF t
  <2>9. ASSUME NEW u \in Tables
        PROVE  consumed'[u] <= Used(u)' /\ Files(u)' = (consumed'[u] + 1) .. Used(u)'
    <3>1. CASE u = t
      BY <2>1, <2>3, <2>5, <2>7, <2>8, <3>1 DEF Files
    <3>2. CASE u # t
      BY <1>d, <1>e, <2>1, <2>3, <2>5, <2>7, <3>2
    <3> QED BY <3>1, <3>2
  <2> QED BY <1>e, <1>f, <2>1, <2>5, <2>6, <2>9
<1>10. CASE SaveWatermarks
  <2>1. UNCHANGED <<zone, consumed, mem, repair>> /\ push.at = "tables" /\ push'.at = "schemas" /\ saved'.seq = mem.seq
    BY <1>10, SaveWatermarksEffect
  <2> QED BY <1>d, <1>e, <1>f, <2>1 DEF Used, Files
<1>11. CASE SaveSchemas
  <2>1. UNCHANGED <<zone, consumed, saved, repair>> /\ push.at = "schemas" /\ push'.at = "idle"
    BY <1>11, SaveSchemasEffect
  <2> QED BY <1>d, <1>e, <1>f, <2>1 DEF Used, Files
<1>12. CASE RepairWaits
  BY <1>12, <1>b, RepairSequences
<1>13. ASSUME NEW t \in Tables, RepairDeletes(t) PROVE InSequence'
  BY <1>13, <1>b, RepairDeletesEffect DEF InSequence
<1>14. CASE RepairClears
  <2>1. /\ UNCHANGED <<zone, consumed, mem, push>> /\ push.at = "idle" /\ repair.at = "clearing" /\ repair'.at = "none"
        /\ \A t \in Tables : saved'.seq[t] = 0
    BY <1>14, RepairClearsEffect
  <2>2. \A t \in Tables : Files(t)' = {} /\ consumed'[t] = 0 /\ Used(t)' = 0
    BY <1>b, <2>1 DEF InSequence, Used, Files
  <2>3. \A t \in Tables : consumed'[t] <= Used(t)' /\ (consumed'[t] + 1) .. Used(t)' = {}
    BY <2>2
  <2> QED BY <2>1, <2>2, <2>3 DEF InSequence, Consecutive
<1> QED BY <1>1, <1>2, <1>3, <1>4, <1>5, <1>6, <1>7, <1>8, <1>9, <1>10, <1>11, <1>12, <1>13, <1>14
     DEF Next, RepairGoesOn, RepairWaits

----------------------------------------------------------------------------
(* Schemas                                                                 *)

LEMMA SchemasStep ==
  ASSUME TypeInv, SchemasKnown, [Next]_vars
  PROVE  SchemasKnown'
<1>a. met \subseteq met'
  BY MetGrows DEF vars
<1>b. Completed' => Completed
  BY <1>a DEF Completed
<1>1. ASSUME UNCHANGED <<zone, first, pinned, mem, push>>
      PROVE  SchemasKnown'
  BY <1>1, <1>b DEF SchemasKnown, SchemasMatch, Files, Pin, Completed
<1>2. ASSUME NEW k \in Keys, Write(k) \/ Delete(k)
      PROVE  UNCHANGED <<zone, first, pinned, mem, push>>
  BY <1>2, WriteEffect, DeleteEffect
<1>3. ASSUME UNCHANGED <<zone, first>>, push'.at # "upload", Completed' => \A t \in Tables : Pin(t)' = Pin(t)
      PROVE  SchemasKnown'
  BY <1>3, <1>b DEF SchemasKnown, SchemasMatch, Files, Completed
<1>4. ASSUME NEW mode \in {"full", "incremental"}, NEW ts \in SUBSET Tables, Begin(mode, ts)
      PROVE  SchemasKnown'
  BY <1>3, <1>4, BeginEffect DEF Pin
<1>5. ASSUME NEW t \in Tables, NoChanges(t)
      PROVE  SchemasKnown'
  BY <1>3, <1>5, NoChangesEffect DEF Pin
<1>6. ASSUME NEW t \in Tables, ReadTable(t)
      PROVE  SchemasKnown'
  <2>1. /\ UNCHANGED <<zone, first>> /\ push.at = "tables" /\ push'.at = "upload" /\ push'.table = t
        /\ mem'.pinned[t] # "none"
        /\ \A u \in Tables : mem.pinned[u] # "none" \/ u # t => mem'.pinned[u] = mem.pinned[u]
    BY <1>6, ReadEffect
  <2>2. \A u \in Tables : Pin(u) = "none" \/ Pin(u)' = Pin(u)
    BY <2>1 DEF Pin
  <2> QED BY <1>b, <2>1, <2>2 DEF SchemasKnown, SchemasMatch, Files, Completed
<1>7. CASE Crash \/ \E t \in Tables : RefusePin(t)
  <2>1. UNCHANGED <<zone, first>> /\ push'.at # "upload" /\ ~Completed'
    BY <1>7, StoppedEffect DEF Stopped, Completed
  <2> QED BY <1>3, <2>1
<1>8. ASSUME NEW t \in Tables, Consume(t)
      PROVE  SchemasKnown'
  <2>1. UNCHANGED <<met, first, mem, push, pinned>>
    BY <1>8, ConsumeEffect
  <2>2. PICK low \in Files(t) : Merges(t, low)
    BY <1>8, ConsumeEffect
  <2>3. \A u \in Tables : Files(u)' \subseteq Files(u) /\ \A s \in Files(u)' : zone'[u][s] = zone[u][s]
    BY <2>2 DEF Merges, Files
  <2>4. Files(t) # {}
    BY <2>2
  <2> QED BY <1>b, <2>1, <2>3 DEF SchemasKnown, SchemasMatch, Pin
<1>9. CASE Upload
  <2> DEFINE t == push.table
             file(chunk) == [rows |-> chunk, schema |-> mem.pinned[t]]
  <2>1. pinned' = pinned /\ met' = met /\ t \in Tables /\ push.at = "upload"
    BY <1>9, UploadEffect
  <2>2. PICK chunk \in SUBSET push.rows : FilePut(chunk) /\ PutRemembered(chunk)
    BY <1>9, UploadEffect
  <2>3. /\ zone'[t] = Put(zone[t], push.seq, file(chunk)) /\ \A u \in Tables : u # t => zone'[u] = zone[u]
        /\ \A u \in Tables : first'[u] = IF u = t /\ first[t] = "none" THEN mem.pinned[t] ELSE first[u]
    BY <2>2 DEF FilePut
  <2>4. mem.pinned[t] # "none" /\ \A u \in Tables : first[u] = "none" => Files(u) = {}
    BY <2>1 DEF SchemasKnown
  <2>5. /\ \A s \in DOMAIN zone'[t] : zone'[t][s].schema = mem.pinned[t] \/ (s \in Files(t) /\ zone'[t][s] = zone[t][s])
        /\ \A u \in Tables : u # t => Files(u)' = Files(u)
    BY <2>3 DEF Put, Files
  <2>6. /\ mem'.pinned = mem.pinned /\ push'.at \in {"tables", "upload"}
        /\ push'.at = "upload" => push'.table = t
    BY <2>2 DEF PutRemembered
  <2>7. \A u \in Tables : Pin(u) = mem.pinned[u] /\ Pin(u)' = mem.pinned[u]
    BY <2>1, <2>6 DEF Pin
  <2>8. \A u \in Tables : first'[u] = "none" => Files(u)' = {}
    BY <2>1, <2>3, <2>4, <2>5
  <2>9. ASSUME Completed'
        PROVE  SchemasMatch' /\ \A u \in Tables : first'[u] \in {"none", Pin(u)'}
    <3>1. SchemasMatch /\ \A u \in Tables : first[u] \in {"none", mem.pinned[u]}
      BY <1>b, <2>7, <2>9 DEF SchemasKnown, Completed
    <3>2. \A u \in Tables : first'[u] \in {"none", mem.pinned[u]}
      BY <2>1, <2>3, <3>1
    <3>3. first'[t] = mem.pinned[t] /\ (Files(t) # {} => first[t] = mem.pinned[t])
      BY <2>1, <2>3, <2>4, <3>1
    <3>4. \A s \in DOMAIN zone'[t] : zone'[t][s].schema = first'[t]
      BY <2>1, <2>5, <3>1, <3>3 DEF SchemasMatch
    <3>5. \A u \in Tables : u # t => \A s \in Files(u)' : zone'[u][s].schema = first'[u]
      BY <2>3, <2>5, <3>1 DEF SchemasMatch
    <3>6. SchemasMatch'
      BY <3>4, <3>5 DEF SchemasMatch, Files
    <3> QED BY <2>7, <3>2, <3>6
  <2>10. push'.at = "upload" => mem'.pinned[push'.table] # "none"
    BY <2>4, <2>6
  <2> QED BY <2>8, <2>9, <2>10 DEF SchemasKnown, Completed
<1>10. CASE SaveWatermarks
  BY <1>3, <1>10, SaveWatermarksEffect DEF Pin
<1>11. CASE SaveSchemas
  BY <1>3, <1>11, SaveSchemasEffect DEF Pin
<1>12. CASE RepairWaits
  <2>1. UNCHANGED <<zone, first, pinned, mem, push>>
    BY <1>12, RepairWaitsEffect
  <2> QED BY <1>1, <2>1
<1>13. ASSUME NEW t \in Tables, RepairDeletes(t) PROVE SchemasKnown'
  <2>1. /\ UNCHANGED <<first, pinned, mem, push>> /\ push.at = "idle"
        /\ \A u \in Tables : Files(u)' \subseteq Files(u) /\ \A s \in Files(u)' : zone'[u][s] = zone[u][s]
    BY <1>13, RepairDeletesEffect
  <2> QED BY <1>b, <2>1 DEF SchemasKnown, SchemasMatch, Pin
<1>14. CASE RepairClears
  <2>1. UNCHANGED <<zone, first, pinned, mem, push>>
    BY <1>14, RepairClearsEffect
  <2> QED BY <1>1, <2>1
<1> QED BY <1>1, <1>2, <1>4, <1>5, <1>6, <1>7, <1>8, <1>9, <1>10, <1>11, <1>12, <1>13, <1>14
     DEF Next, vars, RepairGoesOn, RepairWaits

----------------------------------------------------------------------------
(* Rows                                                                    *)

LEMMA RowsStep ==
  ASSUME TypeInv, RowsKnown, [Next]_vars
  PROVE  RowsKnown'
<1>1. ASSUME UNCHANGED <<zone, push>> PROVE RowsKnown'
  BY <1>1 DEF RowsKnown, Files
<1>2. ASSUME UNCHANGED zone, push'.at # "upload" PROVE RowsKnown'
  BY <1>2 DEF RowsKnown, Files
<1>3. ASSUME NEW k \in Keys, Write(k) \/ Delete(k) PROVE UNCHANGED <<zone, push>>
  BY <1>3, WriteEffect, DeleteEffect
<1>4. ASSUME NEW mode \in {"full", "incremental"}, NEW ts \in SUBSET Tables, Begin(mode, ts) PROVE RowsKnown'
  BY <1>2, <1>4, BeginEffect
<1>5. ASSUME NEW t \in Tables, NoChanges(t) PROVE RowsKnown'
  BY <1>2, <1>5, NoChangesEffect
<1>6. ASSUME NEW t \in Tables, ReadTable(t) PROVE RowsKnown'
  <2>1. UNCHANGED zone /\ push'.table = t /\ push'.rows = {<<k, row[k].ver>> : k \in Selected(t)}
    BY <1>6, ReadEffect
  <2>2. \A r \in push'.rows : \E k \in Selected(t) : r = <<k, row[k].ver>> /\ TableOf[k] = t
    BY <2>1, SelectedAre
  <2> QED BY <2>1, <2>2 DEF RowsKnown, Files
<1>7. CASE Crash \/ \E t \in Tables : RefusePin(t)
  BY <1>2, <1>7, StoppedEffect DEF Stopped
<1>8. ASSUME NEW t \in Tables, Consume(t) PROVE RowsKnown'
  <2>1. push' = push
    BY <1>8, ConsumeEffect
  <2>2. PICK low \in Files(t) : Merges(t, low)
    BY <1>8, ConsumeEffect
  <2>3. \A u \in Tables : Files(u)' \subseteq Files(u) /\ \A s \in Files(u)' : zone'[u][s] = zone[u][s]
    BY <2>2 DEF Merges, Files
  <2> QED BY <2>1, <2>3 DEF RowsKnown
<1>9. CASE Upload
  <2> DEFINE t == push.table
             file(chunk) == [rows |-> chunk, schema |-> mem.pinned[t]]
  <2>1. push.at = "upload"
    BY <1>9, UploadEffect
  <2>2. PICK chunk \in SUBSET push.rows : FilePut(chunk) /\ PutRemembered(chunk)
    BY <1>9, UploadEffect
  <2>3. zone'[t] = Put(zone[t], push.seq, file(chunk)) /\ \A u \in Tables : u # t => zone'[u] = zone[u]
    BY <2>2 DEF FilePut
  <2>4. \A s \in DOMAIN zone'[t] : zone'[t][s].rows = chunk \/ (s \in Files(t) /\ zone'[t][s] = zone[t][s])
    BY <2>3 DEF Put, Files
  <2>5. push'.at = "upload" => push'.table = t /\ push'.rows \subseteq push.rows
    BY <2>2 DEF PutRemembered
  <2>6. \A r \in push.rows : TableOf[r[1]] = t
    BY <2>1 DEF RowsKnown
  <2>7. \A u \in Tables : \A s \in Files(u)' : \A r \in zone'[u][s].rows : TableOf[r[1]] = u
    <3>1. \A s \in DOMAIN zone'[t] : \A r \in zone'[t][s].rows : t \in Tables => TableOf[r[1]] = t
      BY <2>4, <2>6 DEF RowsKnown
    <3>2. \A u \in Tables : u # t => Files(u)' = Files(u) /\ zone'[u] = zone[u]
      BY <2>3 DEF Files
    <3> QED BY <3>1, <3>2 DEF RowsKnown, Files
  <2> QED BY <2>1, <2>5, <2>7 DEF RowsKnown
<1>10. CASE SaveWatermarks
  BY <1>2, <1>10, SaveWatermarksEffect
<1>11. CASE SaveSchemas
  BY <1>2, <1>11, SaveSchemasEffect
<1>12. CASE RepairWaits
  BY <1>1, <1>12, RepairWaitsEffect
<1>13. ASSUME NEW t \in Tables, RepairDeletes(t) PROVE RowsKnown'
  <2>1. /\ UNCHANGED push
        /\ \A u \in Tables : Files(u)' \subseteq Files(u) /\ \A s \in Files(u)' : zone'[u][s] = zone[u][s]
    BY <1>13, RepairDeletesEffect
  <2> QED BY <2>1 DEF RowsKnown
<1>14. CASE RepairClears
  BY <1>1, <1>14, RepairClearsEffect
<1> QED BY <1>1, <1>3, <1>4, <1>5, <1>6, <1>7, <1>8, <1>9, <1>10, <1>11, <1>12, <1>13, <1>14
     DEF Next, vars, RepairGoesOn, RepairWaits

----------------------------------------------------------------------------
(* What the files come to                                                  *)

LEMMA MergedNext == \A k \in Keys : Merged(k)' = After(zone'[TableOf[k]], mirror'[k], k)
BY DEF Merged, After, Has, VersionIn

\* Nothing that a watermark covers depends on anything else.
LEMMA MergedSame ==
  ASSUME UNCHANGED <<zone, mirror>>
  PROVE  \A k \in Keys : Merged(k)' = Merged(k)
BY MergedNext, MergedIsAfter

LEMMA ConsumeMerged ==
  ASSUME TypeInv, RowsKnown, NEW t \in Tables, NEW low \in Files(t), Merges(t, low), NEW k \in Keys
  PROVE  Merged(k)' = Merged(k)
<1> DEFINE rest == [s \in DOMAIN zone[t] \ {low} |-> zone[t][s]]
<1>1. /\ zone'[t] = rest /\ \A u \in Tables : u # t => zone'[u] = zone[u]
      /\ mirror'[k] = IF Has(zone[t][low].rows, k) THEN VersionIn(zone[t][low].rows, k) ELSE mirror[k]
      /\ \A s \in DOMAIN zone[t] : low <= s
      /\ low \in DOMAIN zone[t]
  BY DEF Merges, Files
<1>2. TableOf[k] \in Tables /\ Bounded(zone[t])
  BY MirrorAssumption DEF TypeInv
<1>3. CASE TableOf[k] = t
  <2>1. After(rest, mirror'[k], k) = After(zone[t], mirror[k], k)
    BY <1>1, <1>2, AfterMerge
  <2> HIDE DEF rest
  <2> QED BY <1>1, <1>3, <2>1, MergedNext, MergedIsAfter
<1>4. CASE TableOf[k] # t
  <2>1. ~Has(zone[t][low].rows, k)
    BY <1>4 DEF RowsKnown, Has
  <2> HIDE DEF rest
  <2>2. zone'[TableOf[k]] = zone[TableOf[k]] /\ mirror'[k] = mirror[k]
    BY <1>1, <1>2, <1>4, <2>1
  <2> QED BY <2>2, MergedNext, MergedIsAfter
<1> QED BY <1>3, <1>4

LEMMA UploadMerged ==
  ASSUME TypeInv, RowsKnown, NewestSequence, push.at = "upload",
         NEW chunk \in SUBSET push.rows, FilePut(chunk), mirror' = mirror, NEW k \in Keys
  PROVE  /\ TableOf[k] # push.table => Merged(k)' = Merged(k)
         /\ TableOf[k] = push.table =>
              \/ \E r \in chunk : r[1] = k /\ Merged(k)' = r[2]
              \/ (\A r \in chunk : r[1] # k) /\ Merged(k)' = Merged(k)
<1> DEFINE t == push.table
           file == [rows |-> chunk, schema |-> mem.pinned[t]]
<1>1. zone'[t] = Put(zone[t], push.seq, file) /\ \A u \in Tables : u # t => zone'[u] = zone[u]
  BY DEF FilePut
<1>2. t \in Tables /\ push.seq \in Nat /\ TableOf[k] \in Tables
  BY MirrorAssumption DEF TypeInv, Pushed
<1>3. Bounded(zone[t]) /\ \A s \in DOMAIN zone[t] : s < push.seq
  BY <1>2 DEF TypeInv, NewestSequence, Files
<1>4. CASE TableOf[k] # t
  <2> HIDE DEF t, file
  <2>1. zone'[TableOf[k]] = zone[TableOf[k]] /\ mirror'[k] = mirror[k]
    BY <1>1, <1>2, <1>4
  <2>2. Merged(k)' = Merged(k)
    BY <2>1, MergedNext, MergedIsAfter
  <2> QED BY <1>4, <2>2 DEF t
<1>5. CASE TableOf[k] = t
  <2>1. After(Put(zone[t], push.seq, file), mirror[k], k) =
          IF Has(file.rows, k) THEN VersionIn(file.rows, k) ELSE After(zone[t], mirror[k], k)
    BY <1>2, <1>3, AfterPut
  <2>2. file.rows = chunk
    OBVIOUS
  <2> HIDE DEF file
  <2>3. Merged(k)' = IF Has(chunk, k) THEN VersionIn(chunk, k) ELSE Merged(k)
    BY <1>1, <1>5, <2>1, <2>2, MergedNext, MergedIsAfter
  <2>4. CASE Has(chunk, k)
    <3>1. PICK r \in chunk : r[1] = k /\ VersionIn(chunk, k) = r[2]
      BY <2>4 DEF Has, VersionIn
    <3> QED BY <1>5, <2>3, <2>4, <3>1
  <2>5. CASE ~Has(chunk, k)
    BY <1>5, <2>3, <2>5 DEF Has
  <2> QED BY <2>4, <2>5
<1> QED BY <1>4, <1>5


----------------------------------------------------------------------------
(* The watermarks                                                          *)

LEMMA UploadData ==
  ASSUME TypeInv, RowsKnown, DataInv, Upload
  PROVE  DataInv'
<1> DEFINE t == push.table
<1>1. /\ UNCHANGED <<row, clock, met, consumed, mirror, saved, pinned, repair>>
      /\ t \in Tables /\ push.at = "upload"
  BY UploadEffect
<1>2. PICK chunk \in SUBSET push.rows : FilePut(chunk) /\ PutRemembered(chunk)
  BY UploadEffect
<1> SUFFICES ASSUME Exact
             PROVE  /\ WatermarksKnown' /\ ReadRows' /\ Pending' /\ NewestSequence'
                    /\ Covered(saved.wm)' /\ (push'.at # "idle" => Covered(mem.wm)')
  BY <1>1 DEF DataInv, Exact
<1>3. /\ WatermarksKnown /\ ReadRows /\ Pending /\ NewestSequence
      /\ Covered(saved.wm) /\ Covered(mem.wm)
  BY <1>1 DEF DataInv
<1>4. /\ \A k \in Keys : row[k].ts \in Nat
      /\ clock \in Nat /\ push.wm \in Nat /\ push.seq \in Nat /\ push.rows \subseteq Keys \X Nat
      /\ \A u \in Tables : mem.wm[u] \in Nat /\ saved.wm[u] \in Nat
  BY DEF TypeInv, Pushed
<1>5. \/ /\ chunk = push.rows /\ push'.at = "tables"
         /\ \A u \in Tables : mem'.wm[u] = IF u = t /\ t \in Watermarked THEN push.wm ELSE mem.wm[u]
      \/ /\ push'.at = "upload" /\ push'.table = t /\ push'.rows = push.rows \ chunk
         /\ push'.seq = push.seq + 1 /\ push'.wm = push.wm /\ mem'.wm = mem.wm
  BY <1>2 DEF PutRemembered
\* The row of a key of the table, once the file is there.
<1>6. ASSUME NEW k \in Keys, TableOf[k] = t, row[k].ver # 0,
             row[k].ts <= push.wm \/ row[k].ts <= mem.wm[t] \/ row[k].ts <= saved.wm[t]
      PROVE  \/ Merged(k)' = row[k].ver
             \/ (\A r \in chunk : r[1] # k) /\ Merged(k)' = Merged(k)
  <2>1. CASE \E r \in chunk : r[1] = k /\ Merged(k)' = r[2]
    <3>1. PICK r \in chunk : r[1] = k /\ Merged(k)' = r[2]
      BY <2>1
    <3>2. r[2] = row[k].ver
      BY <1>1, <1>3, <1>4, <1>6, <3>1 DEF ReadRows
    <3> QED BY <3>1, <3>2
  <2>2. CASE (\A r \in chunk : r[1] # k) /\ Merged(k)' = Merged(k)
    BY <2>2
  <2> QED BY <1>1, <1>2, <1>3, <1>6, <2>1, <2>2, UploadMerged
<1>7. ASSUME NEW k \in Keys, TableOf[k] # t PROVE Merged(k)' = Merged(k)
  BY <1>1, <1>2, <1>3, <1>7, UploadMerged
<1>8. Covered(saved.wm)'
  <2> SUFFICES ASSUME NEW k \in Keys, TableOf[k] \in Watermarked, row[k].ver # 0,
                      row[k].ts <= saved.wm[TableOf[k]]
               PROVE  Merged(k)' = row[k].ver
    BY <1>1 DEF Covered
  <2>1. Merged(k) = row[k].ver
    BY <1>3 DEF Covered
  <2> QED BY <1>6, <1>7, <2>1
<1>9. ASSUME NEW k \in Keys, TableOf[k] \in Watermarked, row[k].ver # 0, row[k].ts <= mem.wm[TableOf[k]]
      PROVE  Merged(k)' = row[k].ver
  <2>1. Merged(k) = row[k].ver
    BY <1>3, <1>9 DEF Covered
  <2> QED BY <1>6, <1>7, <1>9, <2>1
<1>10. CASE chunk = push.rows /\ push'.at = "tables"
            /\ \A u \in Tables : mem'.wm[u] = IF u = t /\ t \in Watermarked THEN push.wm ELSE mem.wm[u]
  <2>1. ReadRows' /\ Pending' /\ NewestSequence'
    BY <1>10 DEF ReadRows, Pending, NewestSequence
  <2>2. WatermarksKnown'
    BY <1>1, <1>3, <1>10 DEF WatermarksKnown
  <2>3. Covered(mem.wm)'
    <3> SUFFICES ASSUME NEW k \in Keys, TableOf[k] \in Watermarked, row[k].ver # 0,
                        row[k].ts <= mem'.wm[TableOf[k]]
                 PROVE  Merged(k)' = row[k].ver
      BY <1>1 DEF Covered
    <3>1. TableOf[k] \in Tables
      BY MirrorAssumption
    <3>2. CASE TableOf[k] = t
      <4>1. row[k].ts <= push.wm
        BY <1>10, <3>1, <3>2
      <4>2. Merged(k) = row[k].ver \/ <<k, row[k].ver>> \in push.rows
        BY <1>1, <1>3, <3>2, <4>1 DEF Pending
      <4>3. (\A r \in chunk : r[1] # k) => <<k, row[k].ver>> \notin push.rows
        BY <1>10
      <4> QED BY <1>6, <3>2, <4>1, <4>2, <4>3
    <3>3. CASE TableOf[k] # t
      BY <1>9, <1>10, <3>1, <3>3
    <3> QED BY <3>2, <3>3
  <2> QED BY <1>8, <2>1, <2>2, <2>3
<1>11. CASE push'.at = "upload" /\ push'.table = t /\ push'.rows = push.rows \ chunk
            /\ push'.seq = push.seq + 1 /\ push'.wm = push.wm /\ mem'.wm = mem.wm
  <2>1. ReadRows'
    BY <1>1, <1>3, <1>11 DEF ReadRows
  <2>2. Pending'
    <3> SUFFICES ASSUME NEW k \in Keys, TableOf[k] = t, row[k].ver # 0, row[k].ts <= push.wm
                 PROVE  Merged(k)' = row[k].ver \/ <<k, row[k].ver>> \in push'.rows
      BY <1>1, <1>11 DEF Pending
    <3>1. Merged(k) = row[k].ver \/ <<k, row[k].ver>> \in push.rows
      BY <1>1, <1>3 DEF Pending
    <3>2. (\A r \in chunk : r[1] # k) => <<k, row[k].ver>> \notin chunk
      OBVIOUS
    <3> QED BY <1>6, <1>11, <3>1, <3>2
  <2>3. NewestSequence'
    <3> DEFINE file == [rows |-> chunk, schema |-> mem.pinned[t]]
    <3>1. zone'[t] = Put(zone[t], push.seq, file)
      BY <1>2 DEF FilePut
    <3>2. DOMAIN zone'[t] = Files(t) \cup {push.seq}
      BY <3>1 DEF Put, Files
    <3>3. Files(t) \subseteq Nat /\ \A s \in Files(t) : s < push.seq
      BY <1>1, <1>3 DEF TypeInv, Bounded, NewestSequence, Files
    <3>4. \A s \in DOMAIN zone'[t] : s < push.seq + 1
      BY <1>4, <3>2, <3>3 DEF Files
    <3>5. push'.table = t /\ push'.seq = push.seq + 1
      BY <1>11
    <3> HIDE DEF t
    <3> QED BY <3>4, <3>5 DEF NewestSequence, Files
  <2>4. WatermarksKnown'
    BY <1>1, <1>3, <1>11 DEF WatermarksKnown
  <2>5. Covered(mem.wm)'
    BY <1>1, <1>9, <1>11 DEF Covered
  <2> QED BY <1>8, <2>1, <2>2, <2>3, <2>4, <2>5
<1> HIDE DEF t
<1> QED BY <1>5, <1>10, <1>11

LEMMA WriteData ==
  ASSUME TypeInv, DataInv, NEW k \in Keys, Write(k)
  PROVE  DataInv'
<1>1. UNCHANGED <<zone, first, consumed, mirror, saved, pinned, mem, push, repair>> /\ clock' = clock + 1
  BY WriteEffect
<1>2. PICK ts \in Nat :
        /\ ts # 0 /\ row' = [row EXCEPT ![k] = [ver |-> clock + 1, ts |-> ts]]
        /\ met' = IF ts = clock + 1 THEN met ELSE met \cup {"late"}
  BY WriteEffect
<1> SUFFICES ASSUME Exact'
             PROVE  /\ WatermarksKnown' /\ ReadRows' /\ Pending' /\ NewestSequence'
                    /\ Covered(saved.wm)' /\ (push'.at # "idle" => Covered(mem.wm)')
  BY DEF DataInv
<1>3. ts = clock + 1 /\ Exact
  BY <1>1, <1>2 DEF Exact
<1>4. /\ WatermarksKnown /\ ReadRows /\ Pending /\ NewestSequence
      /\ Covered(saved.wm) /\ (push.at # "idle" => Covered(mem.wm))
  BY <1>3 DEF DataInv
<1>5. /\ clock \in Nat /\ push.wm \in Nat /\ push.rows \subseteq Keys \X Nat
      /\ push.at = "upload" => push.table \in Tables
      /\ \A u \in Tables : mem.wm[u] \in Nat /\ saved.wm[u] \in Nat
      /\ \A j \in Keys : TableOf[j] \in Tables
  BY MirrorAssumption DEF TypeInv, Pushed
<1>6. row'[k].ts = clock + 1 /\ row'[k].ver # 0 /\ \A j \in Keys : j # k => row'[j] = row[j]
  BY <1>2, <1>3, <1>5 DEF TypeInv
<1>7. /\ \A u \in Tables : saved.wm[u] <= clock
      /\ push.at # "idle" => \A u \in Tables : mem.wm[u] <= clock
      /\ push.at = "upload" => push.wm <= clock
  BY <1>4 DEF WatermarksKnown
<1>8. WatermarksKnown'
  BY <1>1, <1>4, <1>5, <1>6, <1>7 DEF WatermarksKnown
<1>9. ReadRows'
  <2> SUFFICES ASSUME push.at = "upload", NEW r \in push.rows, row'[r[1]].ver # 0, row'[r[1]].ver # r[2]
               PROVE  /\ row'[r[1]].ts > push.wm
                      /\ row'[r[1]].ts > mem.wm[push.table]
                      /\ row'[r[1]].ts > saved.wm[push.table]
    BY <1>1 DEF ReadRows
  <2>1. CASE r[1] = k
    BY <1>5, <1>6, <1>7, <2>1
  <2>2. CASE r[1] # k
    BY <1>4, <1>5, <1>6, <2>2 DEF ReadRows
  <2> QED BY <2>1, <2>2
<1>10. \A j \in Keys : Merged(j)' = Merged(j)
  BY <1>1, MergedSame
<1>11. Pending'
  <2> SUFFICES ASSUME push.at = "upload", NEW j \in Keys, TableOf[j] = push.table, row'[j].ver # 0,
                      row'[j].ts <= push.wm
               PROVE  Merged(j)' = row'[j].ver \/ <<j, row'[j].ver>> \in push.rows
    BY <1>1 DEF Pending
  <2>1. j # k
    BY <1>5, <1>6, <1>7
  <2> QED BY <1>4, <1>6, <1>10, <2>1 DEF Pending
<1>12. NewestSequence'
  BY <1>1, <1>4 DEF NewestSequence, Files
<1>13. Covered(saved.wm)'
  <2> SUFFICES ASSUME NEW j \in Keys, TableOf[j] \in Watermarked, row'[j].ver # 0,
                      row'[j].ts <= saved.wm[TableOf[j]]
               PROVE  Merged(j)' = row'[j].ver
    BY <1>1 DEF Covered
  <2>1. j # k
    BY <1>5, <1>6, <1>7
  <2> QED BY <1>4, <1>6, <1>10, <2>1 DEF Covered
<1>14. ASSUME push.at # "idle" PROVE Covered(mem.wm)'
  <2> SUFFICES ASSUME NEW j \in Keys, TableOf[j] \in Watermarked, row'[j].ver # 0,
                      row'[j].ts <= mem.wm[TableOf[j]]
               PROVE  Merged(j)' = row'[j].ver
    BY <1>1 DEF Covered
  <2>1. j # k
    BY <1>5, <1>6, <1>7, <1>14
  <2> QED BY <1>4, <1>6, <1>10, <1>14, <2>1 DEF Covered
<1> QED BY <1>1, <1>8, <1>9, <1>11, <1>12, <1>13, <1>14

LEMMA DeleteData ==
  ASSUME TypeInv, DataInv, NEW k \in Keys, Delete(k)
  PROVE  DataInv'
<1>1. /\ UNCHANGED <<met, clock, zone, first, consumed, mirror, saved, pinned, mem, push, repair>>
      /\ row' = [row EXCEPT ![k].ver = 0]
  BY DeleteEffect
<1>2. \A j \in Keys : row'[j].ver # 0 => row'[j] = row[j]
  BY <1>1 DEF TypeInv
<1>3. \A j \in Keys : Merged(j)' = Merged(j)
  BY <1>1, MergedSame
<1> SUFFICES ASSUME Exact
             PROVE  /\ WatermarksKnown' /\ ReadRows' /\ Pending' /\ NewestSequence'
                    /\ Covered(saved.wm)' /\ (push'.at # "idle" => Covered(mem.wm)')
  BY <1>1 DEF DataInv, Exact
<1>4. /\ WatermarksKnown /\ ReadRows /\ Pending /\ NewestSequence
      /\ Covered(saved.wm) /\ (push.at # "idle" => Covered(mem.wm))
  BY DEF DataInv
<1>5. WatermarksKnown'
  BY <1>1, <1>2, <1>4 DEF WatermarksKnown
<1>6. ReadRows'
  <2>1. push.rows \subseteq Keys \X Nat
    BY DEF TypeInv, Pushed
  <2> QED BY <1>1, <1>2, <1>4, <2>1 DEF ReadRows
<1>7. Pending'
  BY <1>1, <1>2, <1>3, <1>4 DEF Pending
<1>8. NewestSequence'
  BY <1>1, <1>4 DEF NewestSequence, Files
<1>9. Covered(saved.wm)' /\ (push'.at # "idle" => Covered(mem.wm)')
  BY <1>1, <1>2, <1>3, <1>4 DEF Covered
<1> QED BY <1>5, <1>6, <1>7, <1>8, <1>9

LEMMA ReadData ==
  ASSUME TypeInv, DataInv, NEW t \in Tables, ReadTable(t)
  PROVE  DataInv'
<1>1. /\ UNCHANGED <<row, clock, zone, first, consumed, mirror, saved, pinned, repair>>
      /\ push.at = "tables" /\ push'.at = "upload" /\ push'.table = t
      /\ push'.rows = {<<k, row[k].ver>> : k \in Selected(t)}
      /\ push'.wm <= clock /\ \A k \in Selected(t) : row[k].ts <= push'.wm
      /\ "listing" \notin met' => \A s \in Files(t) : s < push'.seq
      /\ mem'.wm = mem.wm
  BY ReadEffect
<1>2. met \subseteq met'
  BY DEF ReadTable
<1> SUFFICES ASSUME Exact'
             PROVE  /\ WatermarksKnown' /\ ReadRows' /\ Pending' /\ NewestSequence'
                    /\ Covered(saved.wm)' /\ Covered(mem.wm)'
  BY DEF DataInv
<1>3. Exact /\ "listing" \notin met'
  BY <1>1, <1>2 DEF Exact
<1>4. WatermarksKnown /\ Covered(saved.wm) /\ Covered(mem.wm)
  BY <1>1, <1>3 DEF DataInv
<1>5. \A j \in Keys : Merged(j)' = Merged(j)
  BY <1>1, MergedSame
<1>6. WatermarksKnown'
  BY <1>1, <1>4 DEF WatermarksKnown
<1>7. ReadRows'
  <2>1. \A r \in push'.rows : \E k \in Keys : r = <<k, row[k].ver>>
    BY <1>1, SelectedAre
  <2> QED BY <1>1, <2>1 DEF ReadRows
<1>8. Pending'
  <2> SUFFICES ASSUME NEW k \in Keys, TableOf[k] = t, row[k].ver # 0, row[k].ts <= push'.wm
               PROVE  Merged(k)' = row[k].ver \/ <<k, row[k].ver>> \in push'.rows
    BY <1>1 DEF Pending
  <2>1. CASE k \in Selected(t)
    BY <1>1, <2>1
  <2>2. CASE k \notin Selected(t)
    <3>1. t \in Watermarked /\ ~(row[k].ts > mem.wm[t])
      BY <2>2 DEF Selected
    <3>2. row[k].ts \in Nat /\ mem.wm[t] \in Nat
      BY DEF TypeInv
    <3>3. row[k].ts <= mem.wm[t]
      BY <3>1, <3>2
    <3>4. Merged(k) = row[k].ver
      BY <1>4, <3>1, <3>3 DEF Covered
    <3> QED BY <1>5, <3>4
  <2> QED BY <2>1, <2>2
<1>9. NewestSequence'
  BY <1>1, <1>3 DEF NewestSequence, Files
<1>10. Covered(saved.wm)' /\ Covered(mem.wm)'
  BY <1>1, <1>4, <1>5 DEF Covered
<1> QED BY <1>6, <1>7, <1>8, <1>9, <1>10

\* A step between the tables, or out of the push.
LEMMA QuietData ==
  ASSUME TypeInv, DataInv, UNCHANGED <<row, clock, zone, mirror>>, met \subseteq met', push'.at # "upload",
         repair'.swept = repair.swept,
         WatermarksKnown => \A t \in Tables : saved'.wm[t] <= clock,
         WatermarksKnown /\ push'.at # "idle" => \A t \in Tables : mem'.wm[t] <= clock,
         Covered(saved.wm) /\ (push.at # "idle" => Covered(mem.wm)) =>
           Covered(saved'.wm) /\ (push'.at # "idle" => Covered(mem'.wm))
  PROVE  DataInv'
<1> SUFFICES ASSUME Exact'
             PROVE  /\ WatermarksKnown' /\ ReadRows' /\ Pending' /\ NewestSequence'
                    /\ Covered(saved.wm)' /\ (push'.at # "idle" => Covered(mem.wm)')
  BY DEF DataInv
<1>1. Exact
  BY DEF Exact
<1>2. WatermarksKnown /\ Covered(saved.wm) /\ (push.at # "idle" => Covered(mem.wm))
  BY <1>1 DEF DataInv
<1>3. WatermarksKnown'
  BY <1>2 DEF WatermarksKnown
<1>4. ReadRows' /\ Pending' /\ NewestSequence'
  BY DEF ReadRows, Pending, NewestSequence
<1>5. \A k \in Keys : Merged(k)' = Merged(k)
  BY MergedSame
<1>6. Covered(saved'.wm) => Covered(saved.wm)'
  BY <1>5 DEF Covered
<1>7. Covered(mem'.wm) => Covered(mem.wm)'
  BY <1>5 DEF Covered
<1> QED BY <1>2, <1>3, <1>4, <1>6, <1>7

LEMMA DataStep ==
  ASSUME TypeInv, RowsKnown, DataInv, [Next]_vars
  PROVE  DataInv'
<1>1. CASE UNCHANGED vars
  <2>1. \A k \in Keys : Merged(k)' = Merged(k)
    BY <1>1, MergedSame DEF vars
  <2> QED BY <1>1, <2>1 DEF vars, DataInv, Exact, WatermarksKnown, ReadRows, Pending, NewestSequence,
                            Covered, Files
<1>2. ASSUME NEW mode \in {"full", "incremental"}, NEW ts \in SUBSET Tables, Begin(mode, ts) PROVE DataInv'
  BY <1>2, BeginEffect, QuietData DEF WatermarksKnown
<1>3. ASSUME NEW t \in Tables, NoChanges(t) PROVE DataInv'
  BY <1>3, NoChangesEffect, QuietData DEF WatermarksKnown
<1>4. CASE Crash \/ \E t \in Tables : RefusePin(t)
  BY <1>4, StoppedEffect, QuietData DEF WatermarksKnown, Stopped
<1>5. CASE SaveWatermarks
  BY <1>5, SaveWatermarksEffect, QuietData DEF WatermarksKnown
<1>6. CASE SaveSchemas
  BY <1>6, SaveSchemasEffect, QuietData DEF WatermarksKnown
<1>7. ASSUME NEW t \in Tables, Consume(t) PROVE DataInv'
  <2>1. UNCHANGED <<row, clock, met, first, mem, push, saved, pinned, repair>>
    BY <1>7, ConsumeEffect
  <2>2. PICK low \in Files(t) : Merges(t, low)
    BY <1>7, ConsumeEffect
  <2>3. \A k \in Keys : Merged(k)' = Merged(k)
    BY <2>2, ConsumeMerged
  <2>4. \A u \in Tables : Files(u)' \subseteq Files(u)
    BY <2>2 DEF Merges, Files
  <2>5. push.at = "upload" => push.table \in Tables
    BY DEF TypeInv
  <2>6. NewestSequence => NewestSequence'
    BY <2>1, <2>4, <2>5 DEF NewestSequence
  <2>7. WatermarksKnown' = WatermarksKnown /\ ReadRows' = ReadRows /\ (Pending => Pending')
    BY <2>1, <2>3 DEF WatermarksKnown, ReadRows, Pending
  <2>8. (Covered(saved.wm) => Covered(saved.wm)') /\ (Covered(mem.wm) => Covered(mem.wm)')
    BY <2>1, <2>3 DEF Covered
  <2> QED BY <2>1, <2>6, <2>7, <2>8 DEF DataInv, Exact
<1>8. CASE RepairWaits
  BY <1>8, RepairWaitsEffect, QuietData DEF WatermarksKnown
<1>9. ASSUME NEW t \in Tables, RepairDeletes(t) PROVE DataInv'
  BY <1>9, RepairDeletesEffect DEF DataInv, Exact
\* Nothing has a timestamp that the cleared watermarks pass.
<1>10. CASE RepairClears
  <2>1. /\ UNCHANGED <<row, clock, mem, push>> /\ push.at = "idle"
        /\ \A t \in Tables : saved'.wm[t] = 0
    BY <1>10, RepairClearsEffect
  <2>2. WatermarksKnown'
    BY <2>1 DEF WatermarksKnown, TypeInv
  <2>3. \A k \in Keys : row[k].ver # 0 => ~(row[k].ts <= saved'.wm[TableOf[k]])
    <3>1. \A k \in Keys : row[k].ts \in Nat /\ TableOf[k] \in Tables /\ (row[k].ver # 0 => row[k].ts # 0)
      BY MirrorAssumption DEF TypeInv
    <3> QED BY <2>1, <3>1
  <2>4. Covered(saved.wm)'
    BY <2>1, <2>3 DEF Covered
  <2> QED BY <2>1, <2>2, <2>4 DEF DataInv, ReadRows, Pending, NewestSequence
<1> QED BY <1>1, <1>2, <1>3, <1>4, <1>5, <1>6, <1>7, <1>8, <1>9, <1>10, UploadData, WriteData, DeleteData, ReadData
     DEF Next, RepairGoesOn, RepairWaits


----------------------------------------------------------------------------
(* Theorems                                                                *)

LEMMA InitInv == Init => IInv
<1> SUFFICES ASSUME Init PROVE IInv
  OBVIOUS
<1>1. /\ push.at = "idle" /\ met = {} /\ repair.at = "none"
      /\ \A t \in Tables : zone[t] = NoFiles /\ consumed[t] = 0 /\ first[t] = "none" /\ saved.seq[t] = 0
      /\ \A t \in Tables : saved.wm[t] = 0
      /\ \A k \in Keys : row[k].ver = 0
      /\ clock = 0
  BY DEF Init, Idle, Zero
<1>2. \A t \in Tables : Files(t) = {} /\ Used(t) = 0
  BY <1>1 DEF Files, NoFiles, Used
<1>3. SequencesKnown
  <2>1. \A t \in Tables : (consumed[t] + 1) .. Used(t) = {} /\ consumed[t] <= Used(t)
    BY <1>1, <1>2
  <2> QED BY <1>1, <1>2, <2>1 DEF SequencesKnown, InSequence, Consecutive
<1>4. SchemasKnown
  BY <1>1, <1>2 DEF SchemasKnown, SchemasMatch
<1>5. RowsKnown
  BY <1>1, <1>2 DEF RowsKnown
<1>6. DataInv
  BY <1>1 DEF DataInv, WatermarksKnown, ReadRows, Pending, NewestSequence, Covered
<1> QED BY <1>3, <1>4, <1>5, <1>6, InitTypes DEF IInv

\* The rows, files, sequences and schemas keep their types, the landing zone of
\* a table is finite and no timestamp is ahead of the clock.
THEOREM TypeCorrect == Spec => []TypeInv
<1> QED BY InitTypes, TypeStep, PTL DEF Spec

\* All of it together.
LEMMA Inductive == Spec => []IInv
<1>1. IInv /\ [Next]_vars => IInv'
  BY TypeStep, SequencesStep, SchemasStep, RowsStep, DataStep DEF IInv
<1> QED BY <1>1, InitInv, PTL DEF Spec

\* Whatever is listed, consumed, deleted or committed meanwhile, and for any
\* tables: as long as every push has come to its end, every file has the schema
\* its table was created with.
THEOREM EveryBatchMatchesHolds == Spec => []EveryBatchMatches
<1>1. IInv => EveryBatchMatches
  BY DEF IInv, SchemasKnown, Completed, EveryBatchMatches
<1> QED BY <1>1, Inductive, PTL

\* The saved watermark is never ahead of the data, wherever a push dies, but
\* for the time from the first deletion of a repair to the end of that one or,
\* if it is killed, of a later one; late commits and failed listings set aside.
THEOREM WatermarkIsCoveredHolds == Spec => []WatermarkIsCovered
<1>1. IInv => WatermarkIsCovered
  BY DEF IInv, DataInv, Exact, Covered, WatermarkIsCovered
<1> QED BY <1>1, Inductive, PTL

\* As long as every push and every repair has come to its end and every repair
\* has done all it set out to do, a file is put after every sequence that is
\* consumed or lies there, also when the listing of a push fails.
THEOREM SequencesIncreaseHolds == Spec => SequencesIncrease
<1>1. ASSUME IInv, [Next]_vars, Orderly'
      PROVE  FreshSequences
  <2>a. met \subseteq met'
    BY <1>1, MetGrows DEF vars
  <2>b. InSequence
    BY <1>1, <2>a DEF IInv, SequencesKnown, Orderly
  <2>1. CASE zone' = zone
    BY <2>1 DEF FreshSequences
  <2>2. ASSUME NEW t \in Tables, Consume(t) PROVE FreshSequences
    <3>1. PICK low \in Files(t) : Merges(t, low)
      BY <1>1, <2>2, ConsumeEffect DEF IInv
    <3>2. \A u \in Tables : DOMAIN zone'[u] \subseteq Files(u) /\ \A s \in DOMAIN zone'[u] : zone'[u][s] = zone[u][s]
      BY <3>1 DEF Merges, Files
    <3> QED BY <3>2 DEF FreshSequences
  <2>3. CASE Upload
    <3> DEFINE t == push.table
    <3>1. t \in Tables /\ push.at = "upload"
      BY <1>1, <2>3, UploadEffect DEF IInv
    <3>2. PICK chunk \in SUBSET push.rows : FilePut(chunk)
      BY <1>1, <2>3, UploadEffect DEF IInv
    <3> DEFINE file == [rows |-> chunk, schema |-> mem.pinned[t]]
    <3>3. zone'[t] = Put(zone[t], push.seq, file) /\ \A u \in Tables : u # t => zone'[u] = zone[u]
      BY <3>2 DEF FilePut
    <3>4. \A s \in DOMAIN zone'[t] : s = push.seq \/ (s \in Files(t) /\ zone'[t][s] = zone[t][s])
      BY <3>3 DEF Put, Files
    <3>5. /\ consumed[t] \in Nat /\ mem.seq[t] \in Nat /\ push.seq = mem.seq[t] + 1
          /\ consumed[t] <= mem.seq[t] /\ Files(t) = (consumed[t] + 1) .. mem.seq[t]
      BY <1>1, <2>b, <3>1 DEF IInv, TypeInv, InSequence, Consecutive, Used
    <3>6. Listed(t) \in Files(t) \cup {0}
      BY <1>1, <3>1, ListedIs DEF IInv
    <3>7. push.seq > consumed[t] /\ push.seq > Listed(t)
      BY <3>5, <3>6
    <3> HIDE DEF t
    <3> QED BY <3>3, <3>4, <3>7 DEF FreshSequences
  <2>4. ASSUME NEW t \in Tables, RepairDeletes(t) PROVE FreshSequences
    <3>1. \A u \in Tables : Files(u)' \subseteq Files(u) /\ \A s \in Files(u)' : zone'[u][s] = zone[u][s]
      BY <1>1, <2>4, RepairDeletesEffect DEF IInv
    <3> QED BY <3>1 DEF FreshSequences, Files
  <2>5. ASSUME RepairWaits \/ RepairClears PROVE zone' = zone
    BY <1>1, <2>5, RepairWaitsEffect, RepairClearsEffect DEF IInv
  <2> QED BY <1>1, <2>1, <2>2, <2>3, <2>4, <2>5
       DEF Next, vars, Write, Delete, Begin, NoChanges, ReadTable, RefusePin, SaveWatermarks, SaveSchemas, Crash,
           RepairGoesOn, RepairWaits
<1>2. IInv /\ [Next]_vars => [met' \cap {"crash", "refused", "repair"} = {} => FreshSequences]_vars
  BY <1>1 DEF Orderly
<1> QED BY <1>2, Inductive, PTL DEF Spec, SequencesIncrease

=============================================================================
