------------------------------ MODULE OpenMirror ------------------------------
(***************************************************************************)
(* The push of the operational tables to a Fabric Open Mirroring landing   *)
(* zone: push_sql of ingestion/fabric/push_to_onelake.py, run again and    *)
(* again as a command, and fabric/repair_open_mirror.py.  push_cosmos is   *)
(* the same push of one table, with a schema that is written in the code.  *)
(*                                                                         *)
(* A push keeps the sequence numbers it used and the watermarks it reached *)
(* in memory and saves them, and the schemas it pinned, after the last     *)
(* table.  A row is known by its version, a number no other commit has.    *)
(*                                                                         *)
(* The replicator is external: it merges the lowest file of a table and    *)
(* deletes it; a file whose sequence it has processed before, or whose     *)
(* schema is not that of the table, it leaves there, and with it all the   *)
(* files after it (FABRIC_ANALYTICS.md, 7a).                               *)
(***************************************************************************)
EXTENDS Integers, FiniteSets, FiniteSetsExt

CONSTANTS
  Tables,       \* the tables of one mirror
  Keys,         \* keys of rows
  TableOf,      \* the table of each key
  Watermarked,  \* the tables with a timestamp column
  BatchRows,    \* rows in one file
  HasNull,      \* the versions whose nullable column is NULL
  Faults,       \* what may go wrong: see the actions
  MaxClock,     \* bound on the commits
  MaxPushes     \* bound on the pushes

ASSUME MirrorAssumption ==
  /\ TableOf \in [Keys -> Tables]
  /\ Watermarked \subseteq Tables
  /\ BatchRows \in Nat \ {0}
  /\ Faults \subseteq {"crash",      \* the process is killed, or a call raises
                       "listing",    \* get_paths raises, which is swallowed
                       "repair",     \* a repair's call is refused or a file is not
                                     \* deleted, and it goes on
                       "late"}       \* a row is committed after its timestamp was taken

VARIABLES
  row,          \* the committed row of each key: its version (0: no row) and timestamp
  clock,        \* the number of commits so far
  zone,         \* the landing zone: the files of each table by sequence
  consumed,     \* the highest sequence the replicator has processed, by table
  first,        \* the schema of the first file of each table, or "none"
  mirror,       \* the version of each key in the Delta tables
  saved,        \* fabric-push-watermarks.json: seq and wm, by table
  pinned,       \* fabric-parquet-schemas.json: the schema of each table, or "none"
  mem,          \* seq, wm and pinned of the running push
  push,         \* what the running push does next
  repair,       \* what the running repair does next, whether mirroring is on,
                \* and whether files are gone whose watermarks are still saved
  met           \* what has gone wrong so far (history)

vars == <<row, clock, zone, consumed, first, mirror, saved, pinned, mem, push, repair, met>>

source == <<row, clock>>
replica == <<consumed, mirror>>
files == <<saved, pinned>>

NoFiles == [s \in {} |-> s]
Idle == [at |-> "idle", mode |-> "full", left |-> {}, table |-> "none", rows |-> {},
         seq |-> 0, wm |-> 0, pushes |-> 0]
NoMemory == [seq |-> [t \in Tables |-> 0], wm |-> [t \in Tables |-> 0],
             pinned |-> [t \in Tables |-> "none"]]
NoneLeft == [t \in Tables |-> {}]

Zero == [t \in Tables |-> 0]

Init ==
  /\ row = [k \in Keys |-> [ver |-> 0, ts |-> 0]]
  /\ clock = 0
  /\ zone = [t \in Tables |-> NoFiles]
  /\ consumed = Zero
  /\ first = [t \in Tables |-> "none"]
  /\ mirror = [k \in Keys |-> 0]
  /\ saved = [seq |-> Zero, wm |-> Zero]
  /\ pinned = [t \in Tables |-> "none"]
  /\ mem = NoMemory
  /\ push = Idle
  /\ repair = [at |-> "none", left |-> NoneLeft, on |-> TRUE, swept |-> FALSE]
  /\ met = {}

----------------------------------------------------------------------------
(* The operational store                                                   *)

\* SYSUTCDATETIME() is taken when the statement runs, the row is seen when its
\* transaction commits.
Stamps(k) == IF "late" \in Faults THEN (row[k].ts .. clock + 1) \ {0} ELSE {clock + 1}

Write(k) ==
  /\ clock < MaxClock
  /\ clock' = clock + 1
  /\ \E ts \in Stamps(k) :
       /\ row' = [row EXCEPT ![k] = [ver |-> clock + 1, ts |-> ts]]
       /\ met' = IF ts = clock + 1 THEN met ELSE met \cup {"late"}
  /\ UNCHANGED <<zone, first, mem, push, repair, replica, files>>

\* A re-ingest deletes child rows; the next one may insert the key again.
Delete(k) ==
  /\ row[k].ver # 0
  /\ row' = [row EXCEPT ![k].ver = 0]
  /\ UNCHANGED <<met, clock, zone, first, mem, push, repair, replica, files>>

----------------------------------------------------------------------------
(* push_sql                                                                *)

Begin(mode, ts) ==
  /\ push.at = "idle"
  /\ repair.at = "none"
  /\ push.pushes < MaxPushes
  /\ push' = [push EXCEPT !.at = "tables", !.mode = mode, !.left = ts, !.pushes = @ + 1]
  /\ mem' = [seq |-> saved.seq, wm |-> saved.wm, pinned |-> pinned]
  /\ UNCHANGED <<met, zone, first, repair, source, replica, files>>

\* WHERE <watermark> > ? only in incremental mode, and only with a watermark.
Selected(t) ==
  {k \in Keys :
     /\ TableOf[k] = t
     /\ row[k].ver # 0
     /\ push.mode = "incremental" /\ t \in Watermarked /\ mem.wm[t] # 0 => row[k].ts > mem.wm[t]}

Files(t) == DOMAIN zone[t]

Listed(t) == Max(Files(t) \cup {0})

NextSequence(t, listed) == Max({listed, mem.seq[t]}) + 1

\* What pyarrow infers for the nullable column of these rows.
Inferred(vers) ==
  IF vers \cap HasNull = {} THEN "int64" ELSE IF vers \subseteq HasNull THEN "null" ELSE "double"

Repinned(t, vers) == Inferred(vers)    \* mutant: every push infers its schema

SchemaFor(t, vers) == IF mem.pinned[t] # "none" THEN mem.pinned[t] ELSE Inferred(vers)

Pinnable(schema) == schema # "null"

NoChanges(t) ==
  /\ push.at = "tables"
  /\ t \in push.left
  /\ Selected(t) = {}
  /\ push' = [push EXCEPT !.left = @ \ {t}]
  /\ UNCHANGED <<met, zone, first, mem, repair, source, replica, files>>

\* The query, the listing of the landing zone and the pinning of the schema.
ReadTable(t) ==
  LET rows == {<<k, row[k].ver>> : k \in Selected(t)}
      schema == SchemaFor(t, {r[2] : r \in rows})
  IN  /\ push.at = "tables"
      /\ t \in push.left
      /\ rows # {}
      /\ Pinnable(schema)
      /\ \E listed \in {Listed(t)} \cup {0 : f \in Faults \cap {"listing"}} :
           /\ push' = [push EXCEPT !.at = "upload", !.table = t, !.rows = rows,
                         !.seq = NextSequence(t, listed),
                         !.wm = Max({row[k].ts : k \in Selected(t)})]
           /\ met' = IF listed = Listed(t) THEN met ELSE met \cup {"listing"}
      /\ mem' = [mem EXCEPT !.pinned[t] = schema]
      /\ UNCHANGED <<zone, first, repair, source, replica, files>>

\* The process ends, and with it all it kept in memory; its files stay.
Ends ==
  /\ push' = [Idle EXCEPT !.pushes = push.pushes]
  /\ mem' = NoMemory

\* "refusing to pin a schema": SystemExit, in the middle of the tables.
RefusePin(t) ==
  /\ push.at = "tables"
  /\ t \in push.left
  /\ Selected(t) # {}
  /\ ~Pinnable(SchemaFor(t, {row[k].ver : k \in Selected(t)}))
  /\ Ends
  /\ met' = met \cup {"refused"}
  /\ UNCHANGED <<zone, first, repair, source, replica, files>>

Put(fs, seq, file) == [s \in DOMAIN fs \cup {seq} |-> IF s = seq THEN file ELSE fs[s]]

RecordNothing(t) == mem.seq    \* mutant: record_sequence is not called

RecordSequence(t) == [mem.seq EXCEPT ![t] = Max({@, push.seq})]

WatermarkFirst(t) == [mem.wm EXCEPT ![t] = IF t \in Watermarked THEN clock ELSE @]    \* mutant: the time of the push

Watermark(t) == [mem.wm EXCEPT ![t] = IF t \in Watermarked THEN push.wm ELSE @]

\* One file: the next BatchRows rows, in the order of a SELECT with no ORDER BY.
\* An existing file of that name is overwritten.
Upload ==
  LET t == push.table
      schema == mem.pinned[t]
  IN  /\ push.at = "upload"
      /\ \E chunk \in SUBSET push.rows :
           /\ Cardinality(chunk) = Min({BatchRows, Cardinality(push.rows)})
           /\ zone' = [zone EXCEPT ![t] = Put(@, push.seq, [rows |-> chunk, schema |-> schema])]
           /\ IF chunk = push.rows
                THEN /\ push' = [push EXCEPT !.at = "tables", !.left = @ \ {t}, !.rows = {}]
                     /\ mem' = [mem EXCEPT !.seq = RecordSequence(t), !.wm = Watermark(t)]
                ELSE /\ push' = [push EXCEPT !.rows = @ \ chunk, !.seq = @ + 1]
                     /\ mem' = [mem EXCEPT !.seq = RecordSequence(t)]
      /\ first' = [first EXCEPT ![t] = IF @ = "none" THEN schema ELSE @]
      /\ UNCHANGED <<met, repair, source, replica, files>>

\* After the last table: save_watermarks, then save_schemas.
SaveWatermarks ==
  /\ push.at = "tables"
  /\ push.left = {}
  /\ saved' = [seq |-> mem.seq, wm |-> mem.wm]
  /\ push' = [push EXCEPT !.at = "schemas"]
  /\ UNCHANGED <<met, zone, first, mem, pinned, repair, source, replica>>

SaveSchemas ==
  /\ push.at = "schemas"
  /\ pinned' = mem.pinned
  /\ Ends
  /\ UNCHANGED <<met, zone, first, saved, repair, source, replica>>

Crash ==
  /\ "crash" \in Faults
  /\ push.at # "idle"
  /\ Ends
  /\ met' = met \cup {"crash"}
  /\ UNCHANGED <<zone, first, repair, source, replica, files>>

----------------------------------------------------------------------------
(* The replicator, and the repair of a halted mirror                       *)

Lowest(t) == Min(DOMAIN zone[t])

Consume(t) ==
  /\ repair.on
  /\ DOMAIN zone[t] # {}
  /\ Lowest(t) > consumed[t]
  /\ zone[t][Lowest(t)].schema = first[t]
  /\ LET merged == zone[t][Lowest(t)].rows
     IN  mirror' = [k \in Keys |-> IF \E r \in merged : r[1] = k
                                     THEN (CHOOSE r \in merged : r[1] = k)[2]
                                     ELSE mirror[k]]
  /\ consumed' = [consumed EXCEPT ![t] = Lowest(t)]
  /\ zone' = [zone EXCEPT ![t] = [s \in DOMAIN @ \ {Lowest(t)} |-> @[s]]]
  /\ UNCHANGED <<met, first, mem, push, repair, source, files>>

\* repair_open_mirror lists the files, which may fail; the replicator goes on
\* until mirroring is stopped.
RepairLists ==
  /\ push.at = "idle"
  /\ repair.at = "none"
  /\ \E listed \in {[t \in Tables |-> Files(t)]} \cup {NoneLeft : f \in Faults \cap {"listing"}} :
       /\ repair' = [repair EXCEPT !.at = "stopping", !.left = listed]
       /\ met' = met \cup {f \in {"listing", "repair"} : \E t \in Tables : listed[t] # Files(t)}
  /\ UNCHANGED <<zone, first, mem, push, source, replica, files>>

\* stopMirroring: its status is printed and nothing depends on it.
RepairStops ==
  /\ repair.at = "stopping"
  /\ \E on \in {FALSE} \cup {repair.on : f \in Faults \cap {"repair"}} :
       /\ repair' = [repair EXCEPT !.at = "deleting", !.on = on]
       /\ met' = met \cup {f \in {"repair"} : on}
  /\ UNCHANGED <<zone, first, mem, push, source, replica, files>>

\* The files of a table go in the order of their names, one by one; a file
\* stays if the call raises, as it does if the file is gone already.
RepairDeletes(t) ==
  /\ repair.at = "deleting"
  /\ repair.left[t] # {}
  /\ LET s == Min(repair.left[t]) IN
       /\ \/ /\ zone' = [zone EXCEPT ![t] = [i \in DOMAIN @ \ {s} |-> @[i]]]
             /\ UNCHANGED met
          \/ /\ "repair" \in Faults
             /\ s \in Files(t)
             /\ met' = met \cup {"repair"}
             /\ UNCHANGED zone
       /\ repair' = [repair EXCEPT !.left[t] = @ \ {s}, !.swept = TRUE]
  /\ UNCHANGED <<first, mem, push, source, replica, files>>

\* startMirroring, whose status is ignored too; the replicator that starts
\* again has processed nothing.
RepairStarts ==
  /\ repair.at = "deleting"
  /\ repair.left = NoneLeft
  /\ \/ /\ repair' = [repair EXCEPT !.at = "clearing", !.on = TRUE]
        /\ consumed' = IF repair.on THEN consumed ELSE Zero
        /\ UNCHANGED met
     \/ /\ "repair" \in Faults
        /\ repair' = [repair EXCEPT !.at = "clearing"]
        /\ met' = met \cup {"repair"}
        /\ UNCHANGED consumed
  /\ UNCHANGED <<zone, first, mirror, mem, push, source, files>>

\* Mutant: the sequences are forgotten and the watermark is not.
SequencesForgotten == [saved EXCEPT !.seq = Zero]

Forgotten == [seq |-> Zero, wm |-> Zero]

\* Only now are the sequences and the watermark forgotten; the pinned schemas
\* stay.
RepairClears ==
  /\ repair.at = "clearing"
  /\ saved' = Forgotten
  /\ repair' = [repair EXCEPT !.at = "none", !.swept = FALSE]
  /\ UNCHANGED <<met, zone, first, mem, push, pinned, source, replica>>

\* The repair is killed, or its call to Fabric raises.
RepairDies ==
  /\ "crash" \in Faults
  /\ repair.at # "none"
  /\ repair' = [repair EXCEPT !.at = "none", !.left = NoneLeft]
  /\ met' = met \cup {"crash"}
  /\ UNCHANGED <<zone, first, mem, push, source, replica, files>>

RepairGoesOn ==
  RepairStops \/ RepairStarts \/ RepairClears \/ \E t \in Tables : RepairDeletes(t)

----------------------------------------------------------------------------

Next ==
  \/ \E k \in Keys : Write(k) \/ Delete(k)
  \/ \E mode \in {"full", "incremental"}, ts \in SUBSET Tables \ {{}} : Begin(mode, ts)
  \/ \E t \in Tables : NoChanges(t) \/ ReadTable(t) \/ RefusePin(t) \/ Consume(t)
  \/ Upload
  \/ SaveWatermarks
  \/ SaveSchemas
  \/ Crash
  \/ RepairLists
  \/ RepairGoesOn
  \/ RepairDies

Spec == Init /\ [][Next]_vars

\* The replicator polls the landing zone all the time, and a repair that is not
\* killed runs to its end.
FairSpec == Spec /\ WF_vars(RepairGoesOn) /\ \A t \in Tables : WF_vars(Consume(t))

----------------------------------------------------------------------------

Schemas == {"none", "int64", "double"}

FileOK(f) == f.schema \in Schemas \ {"none"} /\ f.rows # {} /\ \A r \in f.rows : r[1] \in Keys /\ r[2] \in 1..MaxClock

TypeOK ==
  /\ row \in [Keys -> [ver : 0..MaxClock, ts : 0..MaxClock]]
  /\ clock \in 0..MaxClock
  /\ \A t \in Tables : DOMAIN zone[t] \subseteq Nat \ {0} /\ \A s \in DOMAIN zone[t] : FileOK(zone[t][s])
  /\ consumed \in [Tables -> Nat]
  /\ first \in [Tables -> Schemas]
  /\ mirror \in [Keys -> 0..MaxClock]
  /\ saved \in [seq : [Tables -> Nat], wm : [Tables -> 0..MaxClock]]
  /\ pinned \in [Tables -> Schemas]
  /\ mem \in [seq : [Tables -> Nat], wm : [Tables -> 0..MaxClock], pinned : [Tables -> Schemas]]
  /\ push.at \in {"idle", "tables", "upload", "schemas"}
  /\ repair \in [at : {"none", "stopping", "deleting", "clearing"}, left : [Tables -> SUBSET (Nat \ {0})],
                 on : BOOLEAN, swept : BOOLEAN]
  /\ met \subseteq Faults \cup {"refused", "repair"}

\* A file is put where no file is, after every sequence the replicator has
\* processed ("Fabric will not re-process a sequence it has already consumed").
FreshSequences ==
  \A t \in Tables : \A s \in DOMAIN zone'[t] :
    zone[t] # zone'[t] /\ (s \notin Files(t) \/ zone'[t][s] # zone[t][s]) =>
      s > consumed[t] /\ s > Listed(t)

\* As long as every push and every repair has come to its end and every repair
\* has done all it set out to do, sequences only grow, although the files the
\* replicator has merged are gone from the listing and the listing may fail.
SequencesIncrease ==
  [][met' \cap {"crash", "refused", "repair"} = {} => FreshSequences]_vars

SchemasMatch == \A t \in Tables : \A s \in Files(t) : zone[t][s].schema = first[t]

\* As long as every push has come to its end, every file has the schema its
\* table was created with ("every batch must match what the FIRST push
\* created", pinned_schema).
EveryBatchMatches == met \cap {"crash", "refused"} = {} => SchemasMatch

\* The version of a key once every file in the landing zone is merged.
Merged(k) ==
  LET with == {s \in DOMAIN zone[TableOf[k]] : \E r \in zone[TableOf[k]][s].rows : r[1] = k}
  IN  IF with = {} THEN mirror[k]
      ELSE (CHOOSE r \in zone[TableOf[k]][Max(with)].rows : r[1] = k)[2]

\* The watermark is never ahead of the data, wherever a push dies: a row whose
\* timestamp the saved watermark has passed is in the mirror, or in a file that
\* wins over the other files with that row.  Rows above it are pushed again.
\* Late commits and failing listings are set aside, and the time from a
\* repair's first deletion to the end of that repair, or, if it is killed, of
\* a later one: a repair that comes to its end, refused calls and files it
\* could not delete included, makes it true again.
WatermarkIsCovered ==
  met \cap {"late", "listing"} = {} /\ ~repair.swept =>
    \A k \in Keys :
      TableOf[k] \in Watermarked /\ row[k].ver # 0 /\ row[k].ts <= saved.wm[TableOf[k]] =>
        Merged(k) = row[k].ver

\* As long as every push and every repair has come to its end and every repair
\* has done all it set out to do, replication does not halt: again and again the
\* landing zone of a table is empty, so every file that lands is merged and
\* deleted, or swept away by a repair.
LandedFilesAreMerged ==
  \A t \in Tables : []<>(Files(t) = {} \/ met \cap {"crash", "refused", "repair"} # {})

----------------------------------------------------------------------------
(* What the documentation says and the code does not keep.                 *)

\* Sequences only grow, also past a push that refused a schema: record_sequence
\* remembers the highest one "so it survives the replicator deleting the file
\* from the landing zone".
SequencesAreNeverReused == [][FreshSequences]_vars

\* A schema that is pinned stays: "every batch must match what the FIRST push
\* created" (pinned_schema).  A push that refuses the schema of one table has
\* uploaded files of others, whose schemas it does not save.
PinsOutliveRefusals == "crash" \notin met => SchemasMatch

\* WatermarkIsCovered with killed repairs: a repair deletes files before it
\* forgets the watermark that has passed their rows.
KilledRepairsAreHarmless ==
  met \cap {"late", "listing"} = {} /\ repair.at = "none" =>
    \A k \in Keys :
      TableOf[k] \in Watermarked /\ row[k].ver # 0 /\ row[k].ts <= saved.wm[TableOf[k]] =>
        Merged(k) = row[k].ver

=============================================================================
