---------------------------- MODULE Fabric_proofs ----------------------------
(***************************************************************************)
(* What Fabric is set up with and what reads it, proved for any number of  *)
(* runs, commands and failures: FabricSetup, and Analytics, whose names    *)
(* carry its name where FabricSetup has the same.                          *)
(*                                                                         *)
(* FabricSetup.  A state file is written from what a run has got, so what  *)
(* is inductive is what a run has got at each place of its plan (Place),   *)
(* that it exists (GotExists), that the mirrors are among the findings     *)
(* before they are in the file (RecordedFirst), and that a name about to   *)
(* be posted is free or could not be seen (SeenBeforePosted).              *)
(*                                                                         *)
(* Analytics.  MirrorInv says what the mirrors can hold: rows that were in *)
(* the store once, as long as no re-ingest deleted one (Replicated), and   *)
(* for a command that began when they had caught up and was not disturbed, *)
(* every row as it is in the store (CalmHolds).  A step is one of the      *)
(* command, the beginning of one, or one that leaves the command alone     *)
(* (Frames), and on top of that each kind of command has an invariant of   *)
(* its own: what it has seen at each place of its plan and how that is to  *)
(* the stores (OperationalInv, ReadsInv, FabricInv, BuildInv).             *)
(***************************************************************************)
EXTENDS FabricSetup, Analytics, FiniteSetTheorems, SequenceTheorems, TLAPS

----------------------------------------------------------------------------
(* FabricSetup                                                             *)

\* The stages of an item, the last of which moves on to the next item.
AtItem == stage \in {"list", "post", "poll", "relist"}

PlaceProvision ==
  /\ AtItem
  /\ \/ todo = Provision /\ got = {}
     \/ todo = <<"lakehouse", "warehouse">> /\ got = {"workspace"}
     \/ todo = <<"warehouse">> /\ got = {"workspace", "lakehouse"}

PlaceNative ==
  /\ AtItem /\ got = {}
  /\ todo \in {TryNative, <<"nativeCosmos">>,
               <<"nativeSql", "nativeCosmos", "mirSql", "mirCosmos">>,
               <<"nativeCosmos", "mirSql", "mirCosmos">>}

PlaceMirror ==
  /\ AtItem
  /\ \/ todo = OpenMirroring /\ got = {}
     \/ todo = <<"mirCosmos">> /\ got = {"mirSql"}

Provisioned ==
  /\ stage \in {"save", "end"} /\ todo = <<>>
  /\ {"workspace", "lakehouse"} \subseteq got /\ got \subseteq {"workspace", "lakehouse", "warehouse"}

Tried == stage = "end" /\ todo = <<>> /\ got = {}

Mirrored == stage \in {"record", "save", "end"} /\ todo = <<>> /\ got = Mirrors

Place ==
  \/ stage = "none"
  \/ PlaceProvision \/ PlaceNative \/ PlaceMirror
  \/ Provisioned \/ Tried \/ Mirrored

GotExists == got \subseteq exists

MirroringIsFound == \E f \in findings : Key(f) = "openMirroring"

RecordedFirst == got = Mirrors /\ stage \in {"save", "end"} => MirroringIsFound

SeenBeforePosted == stage = "post" /\ item \notin Natives => ~Taken \/ item \in blind

StateType == state \subseteq [items : SUBSET Items, mirrors : SUBSET Items]

IInv ==
  /\ StateType /\ Place /\ GotExists /\ RecordedFirst /\ SeenBeforePosted
  /\ StateNamesWhatExists /\ MirrorsAreRecorded

-----------------------------------------------------------------------------
(* The plans                                                               *)

LEMMA Plans ==
  /\ Head(Provision) = "workspace" /\ Tail(Provision) = <<"lakehouse", "warehouse">>
  /\ Len(Provision) = 3 /\ Provision[2] = "lakehouse"
  /\ Head(TryNative) = "nativeSql" /\ Tail(TryNative) = <<"nativeCosmos">>
  /\ Len(TryNative) = 2 /\ TryNative[2] = "nativeCosmos"
  /\ Head(OpenMirroring) = "mirSql" /\ Tail(OpenMirroring) = <<"mirCosmos">>
  /\ Len(OpenMirroring) = 2 /\ OpenMirroring[2] = "mirCosmos"
BY DEF Provision, TryNative, OpenMirroring

LEMMA LongPlan ==
  TryNative \o OpenMirroring = <<"nativeSql", "nativeCosmos", "mirSql", "mirCosmos">>
<1> DEFINE long == <<"nativeSql", "nativeCosmos", "mirSql", "mirCosmos">>
           both == TryNative \o OpenMirroring
<1> DEFINE Names == Natives \cup Mirrors
<1>1. /\ TryNative \in Seq(Names) /\ OpenMirroring \in Seq(Names) /\ long \in Seq(Names)
      /\ Len(TryNative) = 2 /\ Len(OpenMirroring) = 2 /\ Len(long) = 4
  BY DEF TryNative, OpenMirroring, Natives, Mirrors
<1>2. /\ both \in Seq(Names) /\ Len(both) = 4
      /\ both[1] = long[1] /\ both[2] = long[2] /\ both[3] = long[3] /\ both[4] = long[4]
  <2> HIDE DEF Names
  <2>1. /\ both \in Seq(Names) /\ Len(both) = Len(TryNative) + Len(OpenMirroring)
        /\ \A k \in 1 .. Len(TryNative) + Len(OpenMirroring) :
             both[k] = IF k <= Len(TryNative) THEN TryNative[k]
                       ELSE OpenMirroring[k - Len(TryNative)]
    <3> HIDE DEF long
    <3> QED BY <1>1, ConcatProperties, Zenon
  <2>2. both[1] = TryNative[1] /\ both[2] = TryNative[2]
        /\ both[3] = OpenMirroring[1] /\ both[4] = OpenMirroring[2]
    <3> HIDE DEF both
    <3> QED BY <1>1, <2>1
  <2> QED BY <1>1, <2>1, <2>2 DEF TryNative, OpenMirroring
<1>3. \A k \in 1..4 : both[k] = long[k]
  <2>1. \A k \in 1..4 : k = 1 \/ k = 2 \/ k = 3 \/ k = 4
    OBVIOUS
  <2> QED BY <1>2, <2>1
<1> HIDE DEF long, both, Names
<1>4. both = long
  BY <1>1, <1>2, <1>3, SeqEqual
<1> QED BY <1>4 DEF long, both

\* Moving on from an item that the run has got, or from one it can do without.
LEMMA MovesFromProvision ==
  ASSUME PlaceProvision, Moves, got' = got \cup {item} \/ (item = "warehouse" /\ got' = got)
  PROVE  (PlaceProvision' /\ stage' = "list") \/ Provisioned'
<1>1. CASE todo = Provision
  <2>1. item = "workspace" /\ todo' = <<"lakehouse", "warehouse">> /\ stage' = "list"
    BY <1>1, Plans DEF item, Moves, NextStage, Natives
  <2>2. got = {}
    BY <1>1 DEF PlaceProvision, Provision
  <2> QED BY <2>1, <2>2 DEF PlaceProvision, AtItem
<1>2. CASE todo = <<"lakehouse", "warehouse">>
  <2>1. item = "lakehouse" /\ todo' = <<"warehouse">> /\ stage' = "list"
    BY <1>2 DEF item, Moves, NextStage, Natives
  <2>2. got = {"workspace"}
    BY <1>2 DEF PlaceProvision, Provision
  <2> QED BY <2>1, <2>2 DEF PlaceProvision, AtItem
<1>3. CASE todo = <<"warehouse">>
  <2>1. item = "warehouse" /\ todo' = <<>> /\ stage' = "save"
    BY <1>3 DEF item, Moves, NextStage, LastStage, Natives, Mirrors
  <2>2. got = {"workspace", "lakehouse"}
    BY <1>3 DEF PlaceProvision, Provision
  <2> QED BY <2>1, <2>2 DEF Provisioned
<1> QED BY <1>1, <1>2, <1>3 DEF PlaceProvision

LEMMA MovesFromNative ==
  ASSUME PlaceNative, Moves, got' = got
  PROVE  PlaceNative' \/ (PlaceMirror' /\ stage' = "list") \/ Tried'
<1>1. CASE todo = TryNative
  <2>1. todo' = <<"nativeCosmos">> /\ stage' = "post"
    BY <1>1, Plans DEF Moves, NextStage, Natives
  <2> QED BY <2>1 DEF PlaceNative, AtItem
<1>2. CASE todo = <<"nativeCosmos">>
  <2>1. todo' = <<>> /\ stage' = "end"
    BY <1>2 DEF item, Moves, NextStage, LastStage, Natives, Mirrors
  <2> QED BY <2>1 DEF PlaceNative, Tried
<1>3. CASE todo = <<"nativeSql", "nativeCosmos", "mirSql", "mirCosmos">>
  <2>1. todo' = <<"nativeCosmos", "mirSql", "mirCosmos">> /\ stage' = "post"
    BY <1>3 DEF Moves, NextStage, Natives
  <2> QED BY <2>1 DEF PlaceNative, AtItem
<1>4. CASE todo = <<"nativeCosmos", "mirSql", "mirCosmos">>
  <2>1. todo' = <<"mirSql", "mirCosmos">> /\ stage' = "list"
    BY <1>4 DEF Moves, NextStage, Natives
  <2> QED BY <2>1 DEF PlaceNative, PlaceMirror, OpenMirroring, AtItem
<1> QED BY <1>1, <1>2, <1>3, <1>4 DEF PlaceNative

LEMMA MovesFromMirror ==
  ASSUME PlaceMirror, Moves, got' = got \cup {item}
  PROVE  (PlaceMirror' /\ stage' = "list") \/ (Mirrored' /\ stage' = "record")
<1>1. CASE todo = OpenMirroring
  <2>1. item = "mirSql" /\ todo' = <<"mirCosmos">> /\ stage' = "list"
    BY <1>1, Plans DEF item, Moves, NextStage, Natives
  <2>2. got = {}
    BY <1>1 DEF PlaceMirror, OpenMirroring
  <2> QED BY <2>1, <2>2 DEF PlaceMirror, AtItem
<1>2. CASE todo = <<"mirCosmos">>
  <2>1. item = "mirCosmos" /\ todo' = <<>> /\ stage' = "record"
    BY <1>2 DEF item, Moves, NextStage, LastStage, FirstFile, Natives, Mirrors
  <2>2. got = {"mirSql"}
    BY <1>2 DEF PlaceMirror, OpenMirroring
  <2> QED BY <2>1, <2>2 DEF Mirrored, Mirrors
<1> QED BY <1>1, <1>2 DEF PlaceMirror

LEMMA ItemOfPlace ==
  ASSUME Place, AtItem
  PROVE  \/ PlaceProvision /\ item \in {"workspace", "lakehouse", "warehouse"}
         \/ PlaceNative /\ item \in Natives
         \/ PlaceMirror /\ item \in Mirrors
<1>1. PlaceProvision \/ PlaceNative \/ PlaceMirror
  BY DEF Place, AtItem, Provisioned, Tried, Mirrored
<1>2. PlaceProvision => item \in {"workspace", "lakehouse", "warehouse"}
  BY Plans DEF PlaceProvision, item
<1>3. PlaceNative => item \in Natives
  BY Plans DEF PlaceNative, item, Natives
<1>4. PlaceMirror => item \in Mirrors
  BY Plans DEF PlaceMirror, item, Mirrors
<1> QED BY <1>1, <1>2, <1>3, <1>4

LEMMA Advance ==
  ASSUME Place, AtItem, Moves,
         item \in Natives => got' = got,
         item \notin Natives => got' = got \cup {item} \/ (item = "warehouse" /\ got' = got)
  PROVE  /\ Place'
         /\ stage' = "post" => item' \in Natives
         /\ stage' \in {"save", "end"} => got' # Mirrors
<1>1. "mirSql" \notin {"workspace", "lakehouse", "warehouse"} /\ Mirrors # {} /\ "mirSql" \in Mirrors
  BY DEF Mirrors
<1>2. CASE PlaceProvision /\ item \in {"workspace", "lakehouse", "warehouse"}
  <2>1. item \notin Natives
    BY <1>2 DEF Natives
  <2>2. (PlaceProvision' /\ stage' = "list") \/ Provisioned'
    BY <1>2, <2>1, MovesFromProvision
  <2> QED BY <1>1, <2>2 DEF Place, Provisioned
<1>3. CASE PlaceNative /\ item \in Natives
  <2>1. PlaceNative' \/ (PlaceMirror' /\ stage' = "list") \/ Tried'
    BY <1>3, MovesFromNative
  <2>2. CASE PlaceNative'
    <3>1. Place' /\ AtItem'
      BY <2>2 DEF Place, PlaceNative
    <3>2. item' \in Natives
      BY <2>2, Plans DEF PlaceNative, item, Natives
    <3> QED BY <3>1, <3>2 DEF AtItem
  <2> QED BY <1>1, <2>1, <2>2 DEF Place, Tried
<1>4. CASE PlaceMirror /\ item \in Mirrors
  <2>1. item \notin Natives /\ item # "warehouse"
    BY <1>4 DEF Natives, Mirrors
  <2>2. (PlaceMirror' /\ stage' = "list") \/ (Mirrored' /\ stage' = "record")
    BY <1>4, <2>1, MovesFromMirror
  <2> QED BY <2>2 DEF Place
<1> QED BY <1>2, <1>3, <1>4, ItemOfPlace

LEMMA StaysAtItem ==
  ASSUME Place, AtItem, AtItem', UNCHANGED <<todo, got>>
  PROVE  Place' /\ RecordedFirst'
<1>1. PlaceProvision \/ PlaceNative \/ PlaceMirror
  BY ItemOfPlace
<1>2. Place'
  BY <1>1 DEF Place, PlaceProvision, PlaceNative, PlaceMirror
<1>3. stage' \notin {"save", "end"}
  BY DEF AtItem
<1> QED BY <1>2, <1>3 DEF RecordedFirst

-----------------------------------------------------------------------------
(* The files                                                               *)

LEMMA RecordKeeps ==
  ASSUME NEW key \in Natives, NEW outcome, findings' = Recorded(key, outcome), MirroringIsFound
  PROVE  MirroringIsFound'
<1>1. PICK f \in findings : Key(f) = "openMirroring"
  BY DEF MirroringIsFound
<1>2. key # "openMirroring"
  BY DEF Natives
<1>3. f \in findings'
  BY <1>1, <1>2 DEF Recorded
<1> QED BY <1>1, <1>3 DEF MirroringIsFound

\* A step that leaves the state file alone keeps what is said of it.
FileHolds == StateType /\ StateNamesWhatExists /\ MirrorsAreRecorded

LEMMA FileStays ==
  ASSUME FileHolds, state' = state, exists \subseteq exists', MirroringIsFound => MirroringIsFound'
  PROVE  FileHolds'
<1>1. StateType'
  BY DEF FileHolds, StateType
<1>2. StateNamesWhatExists'
  BY DEF FileHolds, StateNamesWhatExists
<1>3. MirrorsAreRecorded'
  BY DEF FileHolds, MirrorsAreRecorded, MirroringIsFound
<1> QED BY <1>1, <1>2, <1>3 DEF FileHolds

LEMMA Ended ==
  ASSUME IInv, stage' = "none", got' = got, exists' = exists, state' = state,
         MirroringIsFound => MirroringIsFound'
  PROVE  IInv'
<1>1. FileHolds'
  BY FileStays DEF IInv, FileHolds
<1>2. Place' /\ GotExists' /\ RecordedFirst' /\ SeenBeforePosted'
  BY DEF IInv, Place, GotExists, RecordedFirst, SeenBeforePosted
<1> QED BY <1>1, <1>2 DEF IInv, FileHolds

-----------------------------------------------------------------------------
(* The steps                                                               *)

LEMMA InitIsFine == Init => IInv
BY DEF Init, IInv, StateType, Place, GotExists, RecordedFirst, SeenBeforePosted,
       StateNamesWhatExists, MirrorsAreRecorded

LEMMA HaveStep ==
  ASSUME IInv, AtItem, Have, exists \subseteq exists', item \in exists'
  PROVE  IInv'
<1>1. Moves /\ state' = state
  BY DEF Have
<1>2. /\ item \in Natives => got' = got
      /\ item \notin Natives => got' = got \cup {item}
  BY DEF Have
<1>3. /\ Place'
      /\ stage' = "post" => item' \in Natives
      /\ stage' \in {"save", "end"} => got' # Mirrors
  BY <1>1, <1>2, Advance DEF IInv
<1>4. MirroringIsFound => MirroringIsFound'
  <2>1. CASE item \in Natives
    BY <2>1, RecordKeeps DEF Have
  <2>2. CASE item \notin Natives
    BY <2>2 DEF Have, MirroringIsFound
  <2> QED BY <2>1, <2>2
<1>5. FileHolds'
  BY <1>1, <1>4, FileStays DEF IInv, FileHolds
<1>6. GotExists'
  BY <1>2 DEF IInv, GotExists
<1>7. RecordedFirst' /\ SeenBeforePosted'
  BY <1>3 DEF RecordedFirst, SeenBeforePosted
<1> QED BY <1>3, <1>5, <1>6, <1>7 DEF IInv, FileHolds

LEMMA RaiseStep ==
  ASSUME IInv, AtItem, NEW how, Raises(how), exists' = exists
  PROVE  IInv'
<1>1. state' = state /\ got' = got
  BY DEF Raises
<1>2. MirroringIsFound => MirroringIsFound'
  <2>1. CASE item \in Natives
    BY <2>1, RecordKeeps DEF Raises
  <2>2. CASE item \notin Natives
    BY <2>2 DEF Raises, MirroringIsFound
  <2> QED BY <2>1, <2>2
<1>3. CASE item \in Natives \cup {"warehouse"}
  <2>1. Moves
    BY <1>3 DEF Raises
  <2>2. item \notin Natives => item = "warehouse"
    BY <1>3
  <2>3. /\ Place'
        /\ stage' = "post" => item' \in Natives
        /\ stage' \in {"save", "end"} => got' # Mirrors
    BY <1>1, <2>1, <2>2, Advance DEF IInv
  <2>4. FileHolds'
    BY <1>1, <1>2, FileStays DEF IInv, FileHolds
  <2>5. GotExists' /\ RecordedFirst' /\ SeenBeforePosted'
    BY <1>1, <2>3 DEF IInv, GotExists, RecordedFirst, SeenBeforePosted
  <2> QED BY <2>3, <2>4, <2>5 DEF IInv, FileHolds
<1>4. CASE item \notin Natives \cup {"warehouse"}
  <2>1. stage' = "none"
    BY <1>4 DEF Raises, Ends
  <2> QED BY <1>1, <1>2, <2>1, Ended
<1> QED BY <1>3, <1>4

LEMMA StartStep ==
  ASSUME IInv, NEW plan, Starts(plan),
         plan \in {Provision, TryNative, OpenMirroring, TryNative \o OpenMirroring}
  PROVE  IInv'
<1>1. /\ todo' = plan /\ got' = {}
      /\ stage' = IF Head(plan) \in Natives THEN "post" ELSE "list"
      /\ UNCHANGED <<exists, state, findings>>
  BY DEF Starts, service, files
<1>2. AtItem' /\ (stage' = "post" => item' \in Natives)
  BY <1>1 DEF AtItem, item
<1>3. Place'
  BY <1>1, <1>2, LongPlan DEF Place, PlaceProvision, PlaceNative, PlaceMirror
<1>4. FileHolds'
  <2>1. MirroringIsFound => MirroringIsFound'
    BY <1>1 DEF MirroringIsFound
  <2> QED BY <1>1, <2>1, FileStays DEF IInv, FileHolds
<1>5. GotExists' /\ SeenBeforePosted'
  BY <1>1, <1>2 DEF GotExists, SeenBeforePosted
<1>6. RecordedFirst'
  BY <1>1 DEF RecordedFirst, Mirrors
<1> QED BY <1>3, <1>4, <1>5, <1>6 DEF IInv, FileHolds

\* The item is looked for or waited for on.
LEMMA StayStep ==
  ASSUME IInv, AtItem, AtItem', UNCHANGED <<exists, todo, got, files>>,
         stage' = "post" /\ item \notin Natives => ~Taken' \/ item \in blind'
  PROVE  IInv'
<1>1. Place' /\ RecordedFirst'
  BY StaysAtItem DEF IInv
<1>2. FileHolds'
  <2>1. MirroringIsFound => MirroringIsFound'
    BY DEF MirroringIsFound, files
  <2> QED BY <2>1, FileStays DEF IInv, FileHolds, files
<1>3. GotExists'
  BY DEF IInv, GotExists
<1>4. item' = item
  BY DEF item
<1>5. SeenBeforePosted'
  BY <1>4 DEF SeenBeforePosted
<1> QED BY <1>1, <1>2, <1>3, <1>5 DEF IInv, FileHolds

LEMMA SaveStep ==
  ASSUME IInv, Save
  PROVE  IInv'
<1>1. /\ state' = Contents /\ stage' = "end"
      /\ UNCHANGED <<exists, todo, got, findings>>
  BY DEF Save, FirstFile, service
<1>2. Place' /\ GotExists' /\ RecordedFirst' /\ SeenBeforePosted'
  <2>1. Provisioned \/ Mirrored
    BY DEF IInv, Save, Place, PlaceProvision, PlaceNative, PlaceMirror, AtItem, Tried
  <2>2. Place'
    BY <1>1, <2>1 DEF Place, Provisioned, Mirrored
  <2>3. GotExists' /\ SeenBeforePosted'
    BY <1>1 DEF IInv, GotExists, SeenBeforePosted
  <2>4. RecordedFirst'
    BY <1>1 DEF IInv, Save, RecordedFirst, MirroringIsFound
  <2> QED BY <2>2, <2>3, <2>4
<1>3. CASE Provisioned
  <2>1. ~(got \subseteq Mirrors) /\ got \subseteq Items
    BY <1>3 DEF Provisioned, Mirrors, Items
  <2>2. state' = {[items |-> got, mirrors |-> {}]}
    BY <1>1, <2>1 DEF Contents
  <2>3. StateType'
    BY <2>1, <2>2 DEF StateType
  <2>4. StateNamesWhatExists'
    <3>1. \A t \in state' : t.items = got /\ t.mirrors = {}
      BY <2>2
    <3> QED BY <1>1, <1>3, <3>1 DEF IInv, GotExists, Provisioned, StateNamesWhatExists
  <2>5. MirrorsAreRecorded'
    BY <2>2 DEF MirrorsAreRecorded
  <2> QED BY <1>2, <2>3, <2>4, <2>5 DEF IInv
<1>4. CASE Mirrored
  <2>1. got = Mirrors /\ got \subseteq Items
    BY <1>4 DEF Mirrored, Items
  <2>2. state' = {[s EXCEPT !.mirrors = got] : s \in state}
    BY <1>1, <2>1 DEF Contents
  <2>3. \A t \in state' : \E s \in state :
          /\ t \in [items : SUBSET Items, mirrors : SUBSET Items]
          /\ t.items = s.items /\ t.mirrors = got
    BY <2>1, <2>2 DEF IInv, StateType
  <2>4. StateType'
    BY <2>3 DEF StateType
  <2>5. StateNamesWhatExists'
    BY <1>1, <2>1, <2>3 DEF IInv, GotExists, StateNamesWhatExists
  <2>6. MirroringIsFound
    BY <2>1 DEF IInv, RecordedFirst, Save
  <2>7. MirrorsAreRecorded'
    BY <1>1, <2>6 DEF MirrorsAreRecorded, MirroringIsFound
  <2> QED BY <1>2, <2>4, <2>5, <2>7 DEF IInv
<1> QED
  BY <1>3, <1>4 DEF IInv, Save, Place, PlaceProvision, PlaceNative, PlaceMirror, AtItem, Tried

LEMMA RecordStep ==
  ASSUME IInv, Record
  PROVE  IInv'
<1>1. /\ findings' = Recorded("openMirroring", "succeeded") /\ stage' = "save"
      /\ UNCHANGED <<exists, todo, got, state>>
  BY DEF Record, FirstFile, service
<1>2. MirroringIsFound'
  <2>1. <<"openMirroring", "succeeded">> \in findings'
    BY <1>1 DEF Recorded
  <2>2. Key(<<"openMirroring", "succeeded">>) = "openMirroring"
    BY DEF Key
  <2> QED BY <2>1, <2>2 DEF MirroringIsFound
<1>3. Mirrored
  BY DEF IInv, Record, Place, PlaceProvision, PlaceNative, PlaceMirror, AtItem, Provisioned, Tried
<1>4. FileHolds'
  BY <1>1, <1>2, FileStays DEF IInv, FileHolds
<1>5. Place'
  BY <1>1, <1>3 DEF Place, Mirrored
<1>6. GotExists' /\ RecordedFirst' /\ SeenBeforePosted'
  BY <1>1, <1>2 DEF IInv, GotExists, RecordedFirst, SeenBeforePosted
<1> QED BY <1>4, <1>5, <1>6 DEF IInv, FileHolds

\* Fabric settles an operation: the name stays taken or becomes free.
LEMMA ServiceStep ==
  ASSUME IInv, NEW i \in Items, OperationSucceeds(i) \/ OperationFails(i)
  PROVE  IInv'
<1>1. /\ exists \subseteq exists' /\ exists' \cup pending' \subseteq exists \cup pending
      /\ UNCHANGED <<todo, stage, got, blind, files>>
  BY DEF OperationSucceeds, OperationFails
<1>2. FileHolds'
  <2>1. MirroringIsFound => MirroringIsFound'
    BY <1>1 DEF MirroringIsFound, files
  <2> QED BY <1>1, <2>1, FileStays DEF IInv, FileHolds, files
<1>3. item' = item
  BY <1>1 DEF item
<1>4. Place' /\ GotExists' /\ RecordedFirst'
  <2>1. Place'
    BY <1>1 DEF IInv, Place, PlaceProvision, PlaceNative, PlaceMirror, AtItem,
                Provisioned, Tried, Mirrored
  <2>2. GotExists'
    BY <1>1 DEF IInv, GotExists
  <2>3. RecordedFirst'
    BY <1>1 DEF IInv, RecordedFirst, MirroringIsFound, files
  <2> QED BY <2>1, <2>2, <2>3
<1>5. SeenBeforePosted'
  BY <1>1, <1>3 DEF IInv, SeenBeforePosted, Taken
<1> QED BY <1>2, <1>4, <1>5 DEF IInv, FileHolds

-----------------------------------------------------------------------------

LEMMA StepStep ==
  ASSUME IInv, Step
  PROVE  IInv'
<1> USE DEF service
<1>1. CASE ListFinds
  BY <1>1, HaveStep DEF ListFinds, AtItem, Listed
<1>2. CASE ListMisses
  <2>1. /\ AtItem /\ AtItem' /\ UNCHANGED <<exists, todo, got, files>>
        /\ item \notin exists
        /\ pending' = pending /\ blind' = blind \cup ({item} \cap pending)
    BY <1>2 DEF ListMisses, AtItem, Listed
  <2>2. item' = item
    BY <2>1 DEF item
  <2>3. ~Taken' \/ item \in blind'
    BY <2>1, <2>2 DEF Taken
  <2> QED BY <2>1, <2>3, StayStep
<1>3. CASE PostConflicts
  BY <1>3, RaiseStep DEF PostConflicts, AtItem
<1>4. CASE PostCreates
  BY <1>4, HaveStep DEF PostCreates, AtItem
<1>5. CASE PostAccepted
  BY <1>5, StayStep DEF PostAccepted, AtItem
<1>6. CASE PollSucceeds
  BY <1>6, HaveStep DEF PollSucceeds, AtItem, Succeeded
<1>7. CASE PollWithoutId
  BY <1>7, StayStep DEF PollWithoutId, AtItem
<1>8. CASE RelistFinds
  BY <1>8, HaveStep DEF RelistFinds, AtItem
<1>9. CASE PollFails
  BY <1>9, RaiseStep DEF PollFails, AtItem
<1>10. CASE PollTimesOut
  BY <1>10, RaiseStep DEF PollTimesOut, AtItem
<1>11. CASE Record
  BY <1>11, RecordStep
<1>12. CASE Save
  BY <1>12, SaveStep
<1>13. CASE Finishes
  BY <1>13, Ended DEF Finishes, Ends, files, MirroringIsFound
<1> QED
  BY <1>1, <1>2, <1>3, <1>4, <1>5, <1>6, <1>7, <1>8, <1>9, <1>10, <1>11, <1>12, <1>13 DEF Step

LEMMA FaultStep ==
  ASSUME IInv, ListFails \/ PostFails \/ RelistFails \/ Dies
  PROVE  IInv'
<1> USE DEF service
<1>1. CASE ListFails
  <2>1. CASE item = "workspace"
    BY <1>1, <2>1, RaiseStep DEF ListFails, AtItem
  <2>2. CASE item # "workspace"
    BY <1>1, <2>2, StayStep DEF ListFails, AtItem
  <2> QED BY <2>1, <2>2
<1>2. CASE PostFails
  BY <1>2, RaiseStep DEF PostFails, AtItem
<1>3. CASE RelistFails
  BY <1>3, RaiseStep DEF RelistFails, AtItem
<1>4. CASE Dies
  BY <1>4, Ended DEF Dies, Ends, files, MirroringIsFound
<1> QED BY <1>1, <1>2, <1>3, <1>4

LEMMA NextStep ==
  ASSUME IInv, [Next]_vars
  PROVE  IInv'
<1>1. ASSUME NEW plan \in {Provision, TryNative, OpenMirroring, TryNative \o OpenMirroring},
             Starts(plan)
      PROVE  IInv'
  BY <1>1, StartStep
<1>2. ASSUME NEW i \in Items, OperationSucceeds(i) \/ OperationFails(i) PROVE IInv'
  BY <1>2, ServiceStep
<1>3. CASE UNCHANGED vars
  BY <1>3 DEF vars, service, files, IInv, StateType, Place, PlaceProvision, PlaceNative,
              PlaceMirror, AtItem, Provisioned, Tried, Mirrored, GotExists, RecordedFirst,
              MirroringIsFound, SeenBeforePosted, item, Taken, StateNamesWhatExists,
              MirrorsAreRecorded
<1> QED BY <1>1, <1>2, <1>3, StepStep, FaultStep DEF Next

LEMMA Inductive == Spec => []IInv
<1>1. IInv /\ [Next]_vars => IInv'
  BY NextStep
<1> QED BY InitIsFine, <1>1, PTL DEF Spec

\* Whatever fails, dies or is run again, the state file names only items that
\* are there and all that every later script needs (provision_fabric.main,
\* setup_mirroring.main).
THEOREM StateNamesWhatExistsHolds == Spec => []StateNamesWhatExists
<1>1. IInv => StateNamesWhatExists
  BY DEF IInv
<1> QED BY Inductive, <1>1, PTL

\* The mirrors of the state file are among the findings: setup_mirroring.main
\* records them before it saves.
THEOREM MirrorsAreRecordedHolds == Spec => []MirrorsAreRecorded
<1>1. IInv => MirrorsAreRecorded
  BY DEF IInv
<1> QED BY Inductive, <1>1, PTL

-----------------------------------------------------------------------------
(* Conflicts                                                               *)

Explained == ended' = "conflict" /\ ended # "conflict" => item \in blind

LEMMA OnlyPostConflicts ==
  ASSUME [Next]_vars, ended' = "conflict", ended # "conflict"
  PROVE  PostConflicts
<1>1. Have => ended' = ended
  BY DEF Have
<1>2. \A how : Raises(how) => ended' = ended \/ ended' = how
  BY DEF Raises, Ends
<1>3. CASE Step
  BY <1>1, <1>2, <1>3 DEF Step, ListFinds, ListMisses, PostCreates, PostAccepted, PollSucceeds,
       PollWithoutId, RelistFinds, PollFails, PollTimesOut, Record, Save, Finishes, Ends
<1>4. CASE ListFails \/ PostFails \/ RelistFails \/ Dies
  BY <1>2, <1>4 DEF ListFails, PostFails, RelistFails, Dies, Ends
<1>5. ASSUME NEW plan, Starts(plan) PROVE FALSE
  BY <1>5 DEF Starts
<1>6. ASSUME NEW i \in Items, OperationSucceeds(i) \/ OperationFails(i) PROVE FALSE
  BY <1>6 DEF OperationSucceeds, OperationFails
<1>7. CASE UNCHANGED vars
  BY <1>7 DEF vars
<1> QED BY <1>3, <1>4, <1>5, <1>6, <1>7 DEF Next

LEMMA ConflictStep ==
  ASSUME IInv, [Next]_vars
  PROVE  Explained
<1> SUFFICES ASSUME ended' = "conflict", ended # "conflict"
             PROVE  item \in blind
  BY DEF Explained
<1>1. stage = "post" /\ Taken /\ Raises("conflict")
  BY OnlyPostConflicts DEF PostConflicts
<1>2. item \notin Natives
  BY <1>1 DEF Raises
<1> QED BY <1>1, <1>2 DEF IInv, SeenBeforePosted

\* A script fails on a name that is taken only when its list of the items
\* failed, or when an operation that an earlier run gave up was making the item
\* (create_item, create_workspace, create_open_mirror).
THEOREM ConflictsAreExplainedHolds == Spec => ConflictsAreExplained
<1>1. IInv /\ [Next]_vars => [Explained]_vars
  BY ConflictStep
<1> QED BY Inductive, <1>1, PTL DEF Spec, ConflictsAreExplained, Explained

----------------------------------------------------------------------------
(* Analytics: the stores and the mirrors                                   *)

CmdFields == {"kind", "order", "todo", "seen", "failed", "calm", "quiet"}

RowType == [doc : Docs \cup {NoDoc}, mark : Nat]

StoresTyped ==
  /\ sql \in [Orders -> RowType]
  /\ IsFiniteSet(DOMAIN items)
  /\ \A k \in DOMAIN items : k = <<k[1], k[2], k[3]>> /\ items[k] \in RowType
  /\ DOMAIN landed = Tables /\ DOMAIN mirror = Tables
  /\ DOMAIN cmd = CmdFields
  /\ commands \in Nat

\* The tables no row of which has gone from the store.
Stays(t) == t \in {"Orders", "CosmosOrderItems"} \/ ~shrunk

\* Rows of a table that were in the store once.
Replicated(t, f) ==
  /\ Stays(t) => DOMAIN f \subseteq DOMAIN Rows(t)
  /\ t = "Orders" => \A k \in DOMAIN f : f[k].doc \in Docs

\* The rows of a table are as they are in the store, or there are more.
Shows(f, t) == \A k \in DOMAIN Rows(t) : k \in DOMAIN f /\ f[k] = Rows(t)[k]

\* A command that began with the mirror caught up, and was not disturbed.
CalmHolds ==
  cmd.calm /\ cmd.kind \notin Backends =>
    \A t \in Tables : Shows(mirror[t], t) /\ landed[t] \in {Nothing, Rows(t)}

MirrorInv ==
  /\ StoresTyped
  /\ \A t \in Tables : Replicated(t, landed[t]) /\ Replicated(t, mirror[t])
  /\ CalmHolds

RowsForm ==
  /\ DOMAIN Rows("Orders") = Stored /\ \A p \in Stored : Rows("Orders")[p] = sql[p]
  /\ DOMAIN Rows("OrderJsonBlocks") = UNION {BlockKeys(p, sql[p].doc) : p \in Stored}
  /\ DOMAIN Rows("Loans") = UNION {LoanKeys(p, sql[p].doc) : p \in Stored}
  /\ \A t \in {"OrderJsonBlocks", "Loans"} : \A k \in DOMAIN Rows(t) : Rows(t)[k] = Row(NoDoc)
  /\ Rows("CosmosOrderItems") = items

LEMMA RowsAre == RowsForm
BY DEF RowsForm, Rows, Restrict, Children

LEMMA RowsAreNext == RowsForm'
BY RowsAre, PTL

LEMMA PairsAreNotTriples ==
  ASSUME NEW a, NEW b, NEW c, NEW d, NEW e
  PROVE  <<a, b>> # <<c, d, e>>
<1>1. Len(<<a, b>>) = 2 /\ Len(<<c, d, e>>) = 3
  OBVIOUS
<1> QED BY <1>1

LEMMA SameRows == UNCHANGED stores => \A t : Rows(t)' = Rows(t)
BY DEF stores, Rows, Children, Stored

\* A re-ingest either leaves every child row of the order or is remembered.
LEMMA IngestGrows ==
  ASSUME StoresTyped, NEW o \in Orders, NEW d \in Docs, SqlIngest(o, d)
  PROVE  /\ Stored' = Stored \cup {o} /\ items' = items
         /\ \A t \in Tables : Stays(t)' => Stays(t) /\ DOMAIN Rows(t) \subseteq DOMAIN Rows(t)'
<1>1. sql' = [sql EXCEPT ![o] = Row(d)] /\ items' = items
      /\ shrunk' = (shrunk \/ ~ChildKeys(o, sql[o].doc) \subseteq ChildKeys(o, d))
  BY DEF SqlIngest
<1>2. /\ sql'[o].doc = d /\ d # NoDoc
      /\ \A p \in Orders : p # o => sql'[p] = sql[p]
  BY <1>1, AnalyticsAssumption DEF StoresTyped, RowType, Row
<1>3. Stored' = Stored \cup {o}
  BY <1>2 DEF Stored
<1>4. ASSUME ~shrunk', o \in Stored
      PROVE  /\ BlockKeys(o, sql[o].doc) \subseteq BlockKeys(o, d)
             /\ LoanKeys(o, sql[o].doc) \subseteq LoanKeys(o, d)
  <2>1. BlockKeys(o, sql[o].doc) \cup LoanKeys(o, sql[o].doc) \subseteq BlockKeys(o, d) \cup LoanKeys(o, d)
    BY <1>1, <1>2, <1>4 DEF ChildKeys, Stored
  <2>2. \A j \in BlockKeys(o, sql[o].doc) : j \notin LoanKeys(o, d)
    BY PairsAreNotTriples DEF BlockKeys, LoanKeys
  <2>3. \A j \in LoanKeys(o, sql[o].doc) : j \notin BlockKeys(o, d)
    BY PairsAreNotTriples DEF BlockKeys, LoanKeys
  <2> QED BY <2>1, <2>2, <2>3
<1>5. Stays("Orders")' => DOMAIN Rows("Orders") \subseteq DOMAIN Rows("Orders")'
  BY <1>3, RowsAre, RowsAreNext DEF RowsForm
<1>6. Stays("CosmosOrderItems")' => DOMAIN Rows("CosmosOrderItems") \subseteq DOMAIN Rows("CosmosOrderItems")'
  BY <1>1, RowsAre, RowsAreNext DEF RowsForm
<1>7. ASSUME ~shrunk'
      PROVE  /\ DOMAIN Rows("OrderJsonBlocks") \subseteq DOMAIN Rows("OrderJsonBlocks")'
             /\ DOMAIN Rows("Loans") \subseteq DOMAIN Rows("Loans")'
  <2>1. ASSUME NEW p \in Stored
        PROVE  /\ p \in Stored'
               /\ BlockKeys(p, sql[p].doc) \subseteq BlockKeys(p, sql'[p].doc)
               /\ LoanKeys(p, sql[p].doc) \subseteq LoanKeys(p, sql'[p].doc)
    BY <1>2, <1>3, <1>4, <1>7 DEF Stored
  <2>2. /\ DOMAIN Rows("OrderJsonBlocks") = UNION {BlockKeys(p, sql[p].doc) : p \in Stored}
        /\ DOMAIN Rows("Loans") = UNION {LoanKeys(p, sql[p].doc) : p \in Stored}
    BY RowsAre DEF RowsForm
  <2>3. /\ DOMAIN Rows("OrderJsonBlocks")' = UNION {BlockKeys(p, sql'[p].doc) : p \in Stored'}
        /\ DOMAIN Rows("Loans")' = UNION {LoanKeys(p, sql'[p].doc) : p \in Stored'}
    BY RowsAreNext DEF RowsForm
  <2>4. ASSUME NEW k \in DOMAIN Rows("OrderJsonBlocks") PROVE k \in DOMAIN Rows("OrderJsonBlocks")'
    <3>1. PICK p \in Stored : k \in BlockKeys(p, sql[p].doc)
      BY <2>2
    <3> QED BY <2>1, <2>3, <3>1
  <2>5. ASSUME NEW k \in DOMAIN Rows("Loans") PROVE k \in DOMAIN Rows("Loans")'
    <3>1. PICK p \in Stored : k \in LoanKeys(p, sql[p].doc)
      BY <2>2
    <3> QED BY <2>1, <2>3, <3>1
  <2> QED BY <2>4, <2>5
<1>8. \A t \in Tables : Stays(t)' => Stays(t)
  BY <1>1 DEF Stays
<1>9. \A t \in Tables : Stays(t)' => DOMAIN Rows(t) \subseteq DOMAIN Rows(t)'
  BY <1>5, <1>6, <1>7 DEF Tables, SqlTables, Stays
<1> QED BY <1>1, <1>3, <1>8, <1>9

\* Rows that stay in a table are still those of it when the table grows.
LEMMA ReplicatedStays ==
  ASSUME NEW t \in Tables, NEW f, Replicated(t, f),
         Stays(t)' => Stays(t) /\ DOMAIN Rows(t) \subseteq DOMAIN Rows(t)'
  PROVE  Replicated(t, f)'
BY DEF Replicated

LEMMA UpsertGrows ==
  ASSUME StoresTyped, NEW o \in Orders, NEW d \in Docs, NEW b, CosmosUpsert(o, d, <<o, Version[d], b>>)
  PROVE  /\ \E row \in RowType : items' = Put(items, <<o, Version[d], b>>, row)
         /\ UNCHANGED <<sql, shrunk>>
         /\ StoresTyped'
         /\ \A t \in Tables : Stays(t)' => Stays(t) /\ DOMAIN Rows(t) \subseteq DOMAIN Rows(t)'
<1> DEFINE key == <<o, Version[d], b>>
<1>1. PICK row \in RowType : items' = Put(items, key, row)
  BY DEF CosmosUpsert, Row, RowType
<1>2. UNCHANGED <<sql, shrunk, landed, mirror, commands>> /\ DOMAIN cmd' = DOMAIN cmd
  BY DEF CosmosUpsert, Commits, Disturbs, replica
<1>3. DOMAIN items' = DOMAIN items \cup {key}
  BY <1>1 DEF Put
<1>4. key = <<key[1], key[2], key[3]>>
  OBVIOUS
<1> HIDE DEF key
<1>5. StoresTyped'
  <2>1. IsFiniteSet(DOMAIN items')
    BY <1>3, FS_AddElement DEF StoresTyped
  <2>2. \A k \in DOMAIN items' : k = <<k[1], k[2], k[3]>> /\ items'[k] \in RowType
    BY <1>1, <1>3, <1>4 DEF Put, StoresTyped
  <2> QED BY <1>2, <2>1, <2>2 DEF StoresTyped
<1>6. ASSUME NEW t \in Tables, Stays(t)' PROVE Stays(t) /\ DOMAIN Rows(t) \subseteq DOMAIN Rows(t)'
  <2>1. Stays(t)
    BY <1>2, <1>6 DEF Stays
  <2>2. CASE t = "CosmosOrderItems"
    BY <1>3, <2>1, <2>2, RowsAre, RowsAreNext DEF RowsForm
  <2>3. CASE t # "CosmosOrderItems"
    <3>1. Rows(t)' = Rows(t)
      BY <1>2, <2>3 DEF Rows, Children, Stored, Tables, SqlTables
    <3> QED BY <2>1, <3>1
  <2> QED BY <2>2, <2>3
<1> QED BY <1>1, <1>2, <1>5, <1>6 DEF key

LEMMA MarksType ==
  ASSUME StoresTyped, NEW row \in RowType
  PROVE  Marks(row) \in RowType /\ Marks(row).doc = row.doc
BY DEF StoresTyped, RowType, Marks, Marker

LEMMA MarkGrows ==
  ASSUME StoresTyped, WriteMarker
  PROVE  /\ StoresTyped'
         /\ \A t \in Tables : Stays(t)' => Stays(t) /\ DOMAIN Rows(t) \subseteq DOMAIN Rows(t)'
<1>1. UNCHANGED <<shrunk, landed, mirror, commands>>
  BY DEF WriteMarker, replica
<1>2. DOMAIN cmd' = DOMAIN cmd
  BY DEF WriteMarker
<1>3. ASSUME NEW p \in Stored, sql' = [sql EXCEPT ![p] = Marks(@)]
      PROVE  /\ sql' \in [Orders -> RowType]
             /\ \A q \in Orders : sql'[q].doc = sql[q].doc
  <2>1. p \in Orders /\ sql[p] \in RowType
    BY DEF Stored, StoresTyped
  <2>2. Marks(sql[p]) \in RowType /\ Marks(sql[p]).doc = sql[p].doc
    BY <2>1, MarksType
  <2>3. sql' = [sql EXCEPT ![p] = Marks(sql[p])]
    BY <1>3
  <2> QED BY <2>1, <2>2, <2>3 DEF StoresTyped
<1>4. ASSUME NEW h \in Headers(items), items' = [items EXCEPT ![h] = Marks(@)]
      PROVE  /\ DOMAIN items' = DOMAIN items
             /\ \A k \in DOMAIN items : items'[k] \in RowType
  <2>1. h \in DOMAIN items /\ items[h] \in RowType
    BY DEF Headers, StoresTyped
  <2>2. Marks(items[h]) \in RowType
    BY <2>1, MarksType
  <2>3. items' = [items EXCEPT ![h] = Marks(items[h])]
    BY <1>4
  <2> QED BY <2>1, <2>2, <2>3 DEF StoresTyped
<1>5. /\ sql' \in [Orders -> RowType] /\ \A q \in Orders : sql'[q].doc = sql[q].doc
  BY <1>3 DEF WriteMarker, StoresTyped
<1>6. /\ DOMAIN items' = DOMAIN items /\ \A k \in DOMAIN items : items'[k] \in RowType
  BY <1>4 DEF WriteMarker, StoresTyped
<1>7. StoresTyped'
  BY <1>1, <1>2, <1>5, <1>6 DEF StoresTyped
<1>8. Stored' = Stored
  BY <1>5 DEF Stored
<1>9. ASSUME NEW t \in Tables, Stays(t)' PROVE Stays(t) /\ DOMAIN Rows(t) \subseteq DOMAIN Rows(t)'
  <2>1. \A p \in Stored : sql'[p].doc = sql[p].doc
    BY <1>5 DEF Stored
  <2>2. DOMAIN Rows("OrderJsonBlocks")' = DOMAIN Rows("OrderJsonBlocks")
    <3>1. {BlockKeys(p, sql'[p].doc) : p \in Stored'} = {BlockKeys(p, sql[p].doc) : p \in Stored}
      BY <1>8, <2>1
    <3> QED BY <3>1, RowsAre, RowsAreNext DEF RowsForm
  <2>3. DOMAIN Rows("Loans")' = DOMAIN Rows("Loans")
    <3>1. {LoanKeys(p, sql'[p].doc) : p \in Stored'} = {LoanKeys(p, sql[p].doc) : p \in Stored}
      BY <1>8, <2>1
    <3> QED BY <3>1, RowsAre, RowsAreNext DEF RowsForm
  <2>4. DOMAIN Rows("Orders")' = DOMAIN Rows("Orders")
    BY <1>8, RowsAre, RowsAreNext DEF RowsForm
  <2>5. DOMAIN Rows("CosmosOrderItems")' = DOMAIN Rows("CosmosOrderItems")
    BY <1>6, RowsAre, RowsAreNext DEF RowsForm
  <2> QED BY <1>1, <1>9, <2>2, <2>3, <2>4, <2>5 DEF Stays, Tables, SqlTables
<1> QED BY <1>5, <1>6, <1>7, <1>9

----------------------------------------------------------------------------

\* What any step does to the stores, the mirrors and the command.
LEMMA StoresStep ==
  ASSUME MirrorInv, [AnalyticsNext]_analyticsVars
  PROVE  /\ StoresTyped'
         /\ \A t \in Tables : Stays(t)' => Stays(t) /\ DOMAIN Rows(t) \subseteq DOMAIN Rows(t)'
<1> DEFINE Goal == /\ StoresTyped'
                   /\ \A t \in Tables : Stays(t)' => Stays(t) /\ DOMAIN Rows(t) \subseteq DOMAIN Rows(t)'
<1>1. StoresTyped
  BY DEF MirrorInv
<1>2. ASSUME NEW p \in Orders, NEW d \in Docs, SqlIngest(p, d) PROVE Goal
  <2>1. sql' = [sql EXCEPT ![p] = Row(d)] /\ items' = items
    BY <1>2 DEF SqlIngest
  <2>2. Row(d) \in RowType
    BY DEF Row, RowType
  <2>3. UNCHANGED <<landed, mirror, commands>> /\ DOMAIN cmd' = DOMAIN cmd
    BY <1>2 DEF SqlIngest, Commits, Disturbs, replica
  <2>4. StoresTyped'
    BY <1>1, <2>1, <2>2, <2>3 DEF StoresTyped
  <2> QED BY <1>1, <1>2, <2>4, IngestGrows
<1>3. ASSUME NEW p \in Orders, NEW d \in Docs, NEW b, CosmosUpsert(p, d, <<p, Version[d], b>>) PROVE Goal
  BY <1>1, <1>3, UpsertGrows
<1>4. CASE WriteMarker
  BY <1>1, <1>4, MarkGrows
<1>5. ASSUME UNCHANGED <<sql, items, shrunk>>,
             DOMAIN landed' = Tables, DOMAIN mirror' = Tables, DOMAIN cmd' = CmdFields, commands' \in Nat
      PROVE  Goal
  <2>1. \A t : Rows(t)' = Rows(t)
    BY <1>5, SameRows DEF stores
  <2> QED BY <1>1, <1>5, <2>1 DEF StoresTyped, Stays
<1>6. ASSUME NEW tables, Push(tables) PROVE Goal
  BY <1>1, <1>5, <1>6 DEF Push, stores, StoresTyped
<1>7. ASSUME NEW t \in Tables, Merge(t) PROVE Goal
  BY <1>1, <1>5, <1>7 DEF Merge, stores, bounds, StoresTyped
<1>8. ASSUME NEW kind, NEW p, Begins(kind, p) PROVE Goal
  <2>1. DOMAIN cmd' = CmdFields /\ commands' \in Nat
    BY <1>1, <1>8 DEF Begins, CmdFields, StoresTyped
  <2> QED BY <1>1, <1>5, <1>8, <2>1 DEF Begins, stores, replica, StoresTyped
<1>9. ASSUME CommandStep, ~WriteMarker PROVE Goal
  <2>1. UNCHANGED <<sql, items, shrunk, landed, mirror, commands>> /\ DOMAIN cmd' = DOMAIN cmd
    BY <1>9 DEF CommandStep, ReadHead, ReadBlocks, ReadJoined, ReadRow, ReadChildren, ReadMatches, SqlList,
       CosmosList, Count, CountFails, SqlSummary, CosmosSummary, StatementRuns, StatementFails,
       NothingToWrite, PushReturns, PollFinds, PollGivesUp, Fails, ReadsOnly, Sees, Answers,
       stores, replica, bounds, Building
  <2> QED BY <1>1, <1>5, <2>1 DEF StoresTyped
<1>10. CASE UNCHANGED analyticsVars
  BY <1>1, <1>5, <1>10 DEF analyticsVars, stores, replica, bounds, StoresTyped
<1> QED BY <1>2, <1>3, <1>4, <1>6, <1>7, <1>8, <1>9, <1>10 DEF AnalyticsNext, Environment

\* A step of a command changes neither what it is nor what it knows of others.
LEMMA CommandStays ==
  ASSUME StoresTyped, CommandStep
  PROVE  /\ cmd'.kind = cmd.kind /\ cmd'.calm = cmd.calm /\ cmd'.quiet = cmd.quiet
         /\ UNCHANGED <<landed, mirror, shrunk, commands>>
         /\ UNCHANGED stores \/ cmd.kind \in Backends
BY DEF StoresTyped, CmdFields, CommandStep, ReadHead, ReadBlocks, ReadJoined, ReadRow, ReadChildren, ReadMatches,
       SqlList, CosmosList, Count, CountFails, SqlSummary, CosmosSummary, StatementRuns, StatementFails,
       WriteMarker, NothingToWrite, PushReturns, PollFinds, PollGivesUp, Fails, ReadsOnly, Sees, Answers,
       stores, replica, bounds, At

LEMMA RowsReplicated ==
  ASSUME MirrorInv, NEW t \in Tables
  PROVE  Replicated(t, Rows(t))
<1>1. \A p \in Stored : sql[p].doc \in Docs
  BY DEF MirrorInv, StoresTyped, Stored, RowType
<1>2. t = "Orders" => \A k \in DOMAIN Rows(t) : Rows(t)[k].doc \in Docs
  BY <1>1, RowsAre DEF RowsForm
<1> QED BY <1>2 DEF Replicated

LEMMA MergedReplicated ==
  ASSUME NEW t, NEW f, NEW g, Replicated(t, f), Replicated(t, g)
  PROVE  Replicated(t, Merged(f, g))
<1>1. DOMAIN Merged(f, g) = DOMAIN f \cup DOMAIN g
  BY DEF Merged
<1>2. \A k \in DOMAIN f \cup DOMAIN g : Merged(f, g)[k] = IF k \in DOMAIN g THEN g[k] ELSE f[k]
  BY DEF Merged
<1> QED BY <1>1, <1>2 DEF Replicated

\* What a command that is calm sees of the mirrors stays.
LEMMA ReplicaStep ==
  ASSUME MirrorInv, [AnalyticsNext]_analyticsVars
  PROVE  (\A t \in Tables : Replicated(t, landed[t]) /\ Replicated(t, mirror[t]))' /\ CalmHolds'
<1>1. /\ StoresTyped /\ CalmHolds
      /\ \A t \in Tables : Replicated(t, landed[t]) /\ Replicated(t, mirror[t])
      /\ \A t \in Tables : Stays(t)' => Stays(t) /\ DOMAIN Rows(t) \subseteq DOMAIN Rows(t)'
  BY StoresStep DEF MirrorInv
<1>2. DOMAIN landed = Tables /\ DOMAIN mirror = Tables /\ DOMAIN cmd = CmdFields
  BY <1>1 DEF StoresTyped
<1>3. ASSUME UNCHANGED replica
      PROVE  (\A t \in Tables : Replicated(t, landed[t]) /\ Replicated(t, mirror[t]))'
  BY <1>1, <1>3, ReplicatedStays DEF replica
<1>4. ASSUME UNCHANGED <<replica, stores>>, cmd'.calm => cmd.calm, cmd'.kind = cmd.kind PROVE CalmHolds'
  BY <1>1, <1>4, SameRows DEF CalmHolds, Shows, replica
<1>5. ASSUME NEW p \in Orders, NEW d \in Docs, SqlIngest(p, d) \/ \E b : CosmosUpsert(p, d, <<p, Version[d], b>>)
      PROVE  (\A t \in Tables : Replicated(t, landed[t]) /\ Replicated(t, mirror[t]))' /\ CalmHolds'
  <2>1. UNCHANGED replica /\ cmd' = [cmd EXCEPT !.calm = FALSE, !.quiet = FALSE]
    BY <1>5 DEF SqlIngest, CosmosUpsert, Commits, Disturbs, replica
  <2>2. ~cmd'.calm
    BY <1>2, <2>1 DEF CmdFields
  <2> QED BY <1>3, <2>1, <2>2 DEF CalmHolds
<1>6. ASSUME NEW tables, Push(tables)
      PROVE  (\A t \in Tables : Replicated(t, landed[t]) /\ Replicated(t, mirror[t]))' /\ CalmHolds'
  <2>1. /\ UNCHANGED <<stores, mirror, cmd, shrunk>>
        /\ \A t \in Tables : landed'[t] \in {landed[t], Rows(t)}
    BY <1>6 DEF Push
  <2>2. \A t \in Tables : Replicated(t, landed'[t]) /\ Replicated(t, mirror'[t])
    BY <1>1, <2>1, RowsReplicated
  <2>3. \A t : Rows(t)' = Rows(t)
    BY <2>1, SameRows
  <2>4. (\A t \in Tables : Replicated(t, landed[t]) /\ Replicated(t, mirror[t]))'
    BY <2>1, <2>2, <2>3 DEF Replicated, Stays
  <2>5. CalmHolds'
    BY <1>1, <2>1, <2>3 DEF CalmHolds, Shows
  <2> QED BY <2>4, <2>5
<1>7. ASSUME NEW t \in Tables, Merge(t)
      PROVE  (\A u \in Tables : Replicated(u, landed[u]) /\ Replicated(u, mirror[u]))' /\ CalmHolds'
  <2>1. /\ mirror' = [mirror EXCEPT ![t] = Merged(mirror[t], landed[t])]
        /\ landed' = [landed EXCEPT ![t] = Nothing]
        /\ landed[t] # Nothing /\ UNCHANGED <<stores, cmd, shrunk>>
    BY <1>7 DEF Merge
  <2>2. /\ mirror'[t] = Merged(mirror[t], landed[t]) /\ landed'[t] = Nothing
        /\ \A u \in Tables : u # t => mirror'[u] = mirror[u] /\ landed'[u] = landed[u]
    BY <1>2, <2>1
  <2>3. \A u : Rows(u)' = Rows(u)
    BY <2>1, SameRows
  <2>4. Replicated(t, mirror'[t])
    BY <1>1, <2>2, MergedReplicated
  <2>5. Replicated(t, landed'[t])
    BY <2>2 DEF Replicated, Nothing
  <2>6. \A u \in Tables : Replicated(u, landed'[u]) /\ Replicated(u, mirror'[u])
    BY <1>1, <2>2, <2>4, <2>5
  <2>7. (\A u \in Tables : Replicated(u, landed[u]) /\ Replicated(u, mirror[u]))'
    BY <2>1, <2>3, <2>6 DEF Replicated, Stays
  <2>8. CalmHolds'
    <3> SUFFICES ASSUME cmd.calm, cmd.kind \notin Backends, NEW u \in Tables
                 PROVE  (\A k \in DOMAIN Rows(u) : k \in DOMAIN mirror'[u] /\ mirror'[u][k] = Rows(u)[k])
                        /\ landed'[u] \in {Nothing, Rows(u)}
      BY <2>1, <2>3 DEF CalmHolds, Shows
    <3>1. (\A k \in DOMAIN Rows(u) : k \in DOMAIN mirror[u] /\ mirror[u][k] = Rows(u)[k])
          /\ landed[u] \in {Nothing, Rows(u)}
      BY <1>1 DEF CalmHolds, Shows
    <3>2. CASE u = t
      <4>1. landed[t] = Rows(t)
        BY <2>1, <3>1, <3>2
      <4> QED BY <2>2, <3>1, <3>2, <4>1 DEF Merged
    <3>3. CASE u # t
      BY <2>2, <3>1, <3>3
    <3> QED BY <3>2, <3>3
  <2> QED BY <2>7, <2>8
<1>8. ASSUME NEW kind, NEW p, Begins(kind, p)
      PROVE  (\A t \in Tables : Replicated(t, landed[t]) /\ Replicated(t, mirror[t]))' /\ CalmHolds'
  <2>1. UNCHANGED <<stores, replica>> /\ cmd'.calm = Settled
    BY <1>8 DEF Begins
  <2>2. CalmHolds'
    <3>1. \A t : Rows(t)' = Rows(t)
      BY <2>1, SameRows
    <3> SUFFICES ASSUME Settled, NEW t \in Tables
                 PROVE  (\A k \in DOMAIN Rows(t) : k \in DOMAIN mirror[t] /\ mirror[t][k] = Rows(t)[k])
                        /\ landed[t] = Nothing
      BY <2>1, <3>1 DEF CalmHolds, Shows, replica
    <3> QED BY DEF Settled
  <2> QED BY <1>3, <2>1, <2>2
<1>9. ASSUME CommandStep
      PROVE  (\A t \in Tables : Replicated(t, landed[t]) /\ Replicated(t, mirror[t]))' /\ CalmHolds'
  <2>1. /\ cmd'.kind = cmd.kind /\ cmd'.calm = cmd.calm /\ UNCHANGED replica
        /\ UNCHANGED stores \/ cmd.kind \in Backends
    BY <1>1, <1>9, CommandStays DEF replica
  <2>2. CalmHolds'
    BY <1>4, <2>1 DEF CalmHolds
  <2> QED BY <1>3, <2>1, <2>2
<1>10. CASE UNCHANGED analyticsVars
  BY <1>3, <1>4, <1>10 DEF analyticsVars
<1> QED BY <1>5, <1>6, <1>7, <1>8, <1>9, <1>10 DEF AnalyticsNext, Environment

LEMMA MirrorInitially == AnalyticsInit => MirrorInv
<1> SUFFICES ASSUME AnalyticsInit PROVE MirrorInv
  OBVIOUS
<1>1. StoresTyped
  <2>1. DOMAIN Nothing = {} /\ IsFiniteSet({})
    BY FS_EmptySet DEF Nothing
  <2> QED BY <2>1 DEF AnalyticsInit, StoresTyped, RowType, Row, CmdFields
<1>2. \A t \in Tables : Replicated(t, landed[t]) /\ Replicated(t, mirror[t])
  BY DEF AnalyticsInit, Replicated, Nothing
<1>3. CalmHolds
  BY DEF AnalyticsInit, CalmHolds
<1> QED BY <1>1, <1>2, <1>3 DEF MirrorInv

LEMMA MirrorStep == MirrorInv /\ [AnalyticsNext]_analyticsVars => MirrorInv'
BY StoresStep, ReplicaStep DEF MirrorInv

LEMMA MirrorHolds == AnalyticsSpec => []MirrorInv
BY MirrorInitially, MirrorStep, PTL DEF AnalyticsSpec

----------------------------------------------------------------------------
(* Analytics: the steps of a command                                       *)

LEMMA SeesIs ==
  ASSUME StoresTyped, NEW x, Sees(x)
  PROVE  /\ cmd'.todo = Tail(cmd.todo) /\ cmd'.seen = Put(cmd.seen, Head(cmd.todo), x)
         /\ cmd'.order = cmd.order /\ cmd'.failed = cmd.failed
BY DEF StoresTyped, CmdFields, Sees

LEMMA AnswersIs ==
  ASSUME StoresTyped, NEW x, Answers(x)
  PROVE  /\ cmd'.todo = <<>> /\ cmd'.seen = Put(cmd.seen, Head(cmd.todo), x)
         /\ cmd'.order = cmd.order /\ cmd'.failed = cmd.failed
BY DEF StoresTyped, CmdFields, Answers

LEMMA FailsIs ==
  ASSUME StoresTyped, Fails
  PROVE  cmd'.todo = <<>> /\ cmd'.failed # {} /\ cmd'.seen = cmd.seen /\ cmd'.order = cmd.order
BY DEF StoresTyped, CmdFields, Fails

\* A command begins.
Started ==
  /\ cmd'.kind \in Kinds /\ cmd'.todo = Plan(cmd'.kind) /\ cmd'.seen = Nothing /\ cmd'.failed = {}
  /\ cmd'.calm = Settled /\ cmd'.quiet
  /\ commands' = commands + 1
  /\ UNCHANGED <<stores, replica, facts, shrunk>>

\* The stores and the mirrors go on while a command runs.
Watched ==
  /\ cmd'.kind = cmd.kind /\ cmd'.order = cmd.order /\ cmd'.todo = cmd.todo
  /\ cmd'.seen = cmd.seen /\ cmd'.failed = cmd.failed
  /\ facts' = facts /\ commands' = commands
  /\ \/ ~cmd'.calm /\ ~cmd'.quiet
     \/ /\ cmd'.calm = cmd.calm /\ cmd'.quiet = cmd.quiet /\ UNCHANGED <<stores, shrunk>>
        /\ \A t \in Tables : DOMAIN mirror[t] \subseteq DOMAIN mirror'[t]

LEMMA Frames ==
  ASSUME MirrorInv, [AnalyticsNext]_analyticsVars
  PROVE  CommandStep \/ Started \/ Watched
<1>1. DOMAIN mirror = Tables /\ DOMAIN cmd = CmdFields
  BY DEF MirrorInv, StoresTyped
<1>2. ASSUME NEW p, NEW d, SqlIngest(p, d) \/ \E k : CosmosUpsert(p, d, k) PROVE Watched
  <2>1. cmd' = [cmd EXCEPT !.calm = FALSE, !.quiet = FALSE] /\ UNCHANGED <<facts, commands>>
    BY <1>2 DEF SqlIngest, CosmosUpsert, Commits, Disturbs
  <2> QED BY <1>1, <2>1 DEF CmdFields, Watched
<1>3. ASSUME NEW tables, Push(tables) PROVE Watched
  BY <1>3 DEF Push, Watched
<1>4. ASSUME NEW t \in Tables, Merge(t) PROVE Watched
  <2>1. \A u \in Tables : mirror'[u] = IF u = t THEN Merged(mirror[t], landed[t]) ELSE mirror[u]
    BY <1>1, <1>4 DEF Merge
  <2>2. DOMAIN mirror[t] \subseteq DOMAIN Merged(mirror[t], landed[t])
    BY DEF Merged
  <2>3. \A u \in Tables : DOMAIN mirror[u] \subseteq DOMAIN mirror'[u]
    BY <2>1, <2>2
  <2> QED BY <1>4, <2>3 DEF Merge, bounds, Watched
<1>5. ASSUME NEW kind \in Kinds, NEW p, Begins(kind, p) PROVE Started
  BY <1>5 DEF Begins, Started
<1>6. CASE UNCHANGED analyticsVars
  BY <1>6 DEF analyticsVars, stores, replica, bounds, Watched
<1> QED BY <1>2, <1>3, <1>4, <1>5, <1>6 DEF AnalyticsNext, Environment

\* The steps that a command of a kind can take.
LEMMA StepsOf ==
  ASSUME CommandStep
  PROVE  /\ cmd.kind = "full" => ReadHead \/ ReadBlocks \/ Fails
         /\ cmd.kind = "block" => ReadJoined \/ Fails
         /\ cmd.kind = "summary" => ReadRow \/ ReadChildren \/ Fails
         /\ cmd.kind = "search" => (\E wanted \in Criteria : ReadMatches(wanted)) \/ Fails
         /\ cmd.kind = "operational" =>
              \/ SqlList \/ CosmosList \/ Fails
              \/ \E p \in Orders : SqlSummary(p)
              \/ \E h \in Headers(items) : CosmosSummary(h)
         /\ cmd.kind = "fabric" => Count \/ CountFails \/ Fails
         /\ cmd.kind = "build" => StatementRuns \/ StatementFails
         /\ cmd.kind \in Backends => WriteMarker \/ NothingToWrite \/ PushReturns \/ PollFinds \/ PollGivesUp \/ Fails
         /\ cmd.kind # "none" \/ Fails
BY DEF CommandStep, ReadHead, ReadBlocks, ReadJoined, ReadRow, ReadChildren, ReadMatches,
       SqlList, CosmosList, Count, CountFails, SqlSummary, CosmosSummary, StatementRuns, StatementFails,
       WriteMarker, NothingToWrite, PushReturns, PollFinds, PollGivesUp, Fails, At, Backends, Building

----------------------------------------------------------------------------
(* Analytics: reconcile_operational                                        *)

ListedInSql ==
  /\ "sqlList" \in DOMAIN cmd.seen
  /\ cmd.quiet =>
       /\ DOMAIN cmd.seen["sqlList"] \in AtMost(Stored)
       /\ \A p \in DOMAIN cmd.seen["sqlList"] : cmd.seen["sqlList"][p] = Version[sql[p].doc]

ListedInCosmos ==
  /\ "cosmosList" \in DOMAIN cmd.seen
  /\ cmd.quiet =>
       /\ \A p \in DOMAIN cmd.seen["cosmosList"] : Header(p, cmd.seen["cosmosList"][p]) \in Headers(items)
       /\ Cardinality(Headers(items)) <= ListLimit =>
            \A h \in Headers(items) : h[1] \in DOMAIN cmd.seen["cosmosList"]

\* How far the check has come, and what it has seen of stores that were not
\* committed to since it began.
OperationalInv ==
  cmd.kind = "operational" =>
    /\ cmd.todo \in {<<"sqlList", "cosmosList">>, <<"cosmosList">>, <<"sqlSummary">>, <<"cosmosSummary">>, <<>>}
    /\ \/ cmd.todo = <<>> /\ cmd.failed # {}
       \/ cmd.todo = <<"sqlList", "cosmosList">>
       \/ ListedInSql
    /\ \/ cmd.todo = <<>> /\ cmd.failed # {}
       \/ cmd.todo \in {<<"sqlList", "cosmosList">>, <<"cosmosList">>}
       \/ ListedInCosmos

\* A list that is not cut is the whole of it.
LEMMA WholeList ==
  ASSUME NEW S, IsFiniteSet(S), Cardinality(S) <= ListLimit, NEW T \in AtMost(S)
  PROVE  T = S
<1>1. Cardinality(S) \in Nat /\ ListLimit \in Nat
  BY FS_CardinalityType, AnalyticsAssumption
<1>2. T \in SUBSET S /\ Cardinality(T) = Cardinality(S)
  BY <1>1 DEF AtMost
<1> QED BY <1>2, FS_Subset

LEMMA FiniteStores ==
  ASSUME StoresTyped
  PROVE  IsFiniteSet(Stored) /\ IsFiniteSet(Headers(items))
<1>1. Stored \in SUBSET Orders /\ Headers(items) \in SUBSET DOMAIN items
  BY DEF Stored, Headers
<1>2. IsFiniteSet(Orders) /\ IsFiniteSet(DOMAIN items)
  BY AnalyticsAssumption DEF StoresTyped
<1> QED BY <1>1, <1>2, FS_Subset

LEMMA FirstOf ==
  /\ \A a : Head(<<a>>) = a /\ Tail(<<a>>) = <<>> /\ <<a>> # <<>>
  /\ \A a, b : Head(<<a, b>>) = a /\ Tail(<<a, b>>) = <<b>> /\ <<a, b>> # <<>>
  /\ \A a, b, c : Head(<<a, b, c>>) = a /\ Tail(<<a, b, c>>) = <<b, c>> /\ <<a, b, c>> # <<>>
OBVIOUS

LEMMA OperationalLists ==
  ASSUME MirrorInv, OperationalInv, cmd.kind = "operational", SqlList \/ CosmosList
  PROVE  OperationalInv'
<1>1. StoresTyped /\ UNCHANGED stores /\ cmd'.kind = cmd.kind /\ cmd'.quiet = cmd.quiet
  BY DEF MirrorInv, StoresTyped, CmdFields, SqlList, CosmosList, Sees, ReadsOnly
<1>2. Stored' = Stored /\ Headers(items)' = Headers(items) /\ sql' = sql /\ items' = items
  BY <1>1 DEF stores, Stored, Headers
<1>3. CASE SqlList
  <2>1. PICK os \in AtMost(Stored) : Sees([p \in os |-> Version[sql[p].doc]])
    BY <1>3 DEF SqlList
  <2>2. Running /\ Head(cmd.todo) = "sqlList"
    BY <1>3 DEF SqlList, At
  <2>3. cmd.todo = <<"sqlList", "cosmosList">>
    BY <2>2, FirstOf DEF OperationalInv, Running
  <2>4. /\ cmd'.todo = <<"cosmosList">>
        /\ cmd'.seen = Put(cmd.seen, "sqlList", [p \in os |-> Version[sql[p].doc]])
    BY <1>1, <2>1, <2>2, <2>3, SeesIs, FirstOf
  <2>5. /\ "sqlList" \in DOMAIN cmd'.seen
        /\ cmd'.seen["sqlList"] = [p \in os |-> Version[sql[p].doc]]
    BY <2>4 DEF Put
  <2>6. ListedInSql'
    BY <1>2, <2>1, <2>5 DEF ListedInSql, AtMost
  <2> QED BY <2>4, <2>6 DEF OperationalInv
<1>4. CASE CosmosList
  <2>1. PICK hs \in AtMost(Headers(items)) : \E last \in [{h[1] : h \in hs} -> hs] :
          /\ \A p \in DOMAIN last : last[p][1] = p
          /\ LET listed == [p \in DOMAIN last |-> last[p][2]]
                 seen == Put(Put(cmd.seen, "cosmosList", listed), "agree", Nothing)
             IN cmd' = [cmd EXCEPT !.seen = seen, !.todo =
                          IF DOMAIN listed \cap DOMAIN seen["sqlList"] = {} THEN <<>> ELSE <<"sqlSummary">>]
    BY <1>4 DEF CosmosList
  <2>2. PICK last \in [{h[1] : h \in hs} -> hs] :
          /\ \A p \in DOMAIN last : last[p][1] = p
          /\ LET listed == [p \in DOMAIN last |-> last[p][2]]
                 seen == Put(Put(cmd.seen, "cosmosList", listed), "agree", Nothing)
             IN cmd' = [cmd EXCEPT !.seen = seen, !.todo =
                          IF DOMAIN listed \cap DOMAIN seen["sqlList"] = {} THEN <<>> ELSE <<"sqlSummary">>]
    BY <2>1
  <2> DEFINE listed == [p \in DOMAIN last |-> last[p][2]]
  <2>3. /\ cmd'.seen = Put(Put(cmd.seen, "cosmosList", listed), "agree", Nothing)
        /\ cmd'.todo \in {<<>>, <<"sqlSummary">>}
    BY <1>1, <2>2 DEF StoresTyped, CmdFields
  <2>4. ListedInSql
    <3>1. Running /\ Head(cmd.todo) = "cosmosList"
      BY <1>4 DEF CosmosList, At
    <3> QED BY <3>1, FirstOf DEF OperationalInv, Running
  <2>5. /\ "cosmosList" \in DOMAIN cmd'.seen /\ "sqlList" \in DOMAIN cmd'.seen
        /\ cmd'.seen["cosmosList"] = listed /\ cmd'.seen["sqlList"] = cmd.seen["sqlList"]
    <3> HIDE DEF listed
    <3> QED BY <2>3, <2>4 DEF Put, ListedInSql
  <2>6. hs \subseteq Headers(items) /\ DOMAIN listed = {h[1] : h \in hs}
    BY <2>1 DEF AtMost
  <2>7. ASSUME NEW p \in DOMAIN listed PROVE Header(p, listed[p]) \in Headers(items)
    <3>1. last[p] \in Headers(items) /\ last[p][1] = p /\ listed[p] = last[p][2]
      BY <2>2, <2>6, <2>7
    <3>2. last[p] = <<last[p][1], last[p][2], last[p][3]>> /\ last[p][3] = "HEADER"
      BY <1>1, <3>1 DEF Headers, StoresTyped
    <3> QED BY <3>1, <3>2 DEF Header
  <2>8. Cardinality(Headers(items)) <= ListLimit => \A h \in Headers(items) : h[1] \in DOMAIN listed
    BY <1>1, <2>1, <2>6, WholeList, FiniteStores
  <2>9. ListedInCosmos'
    BY <1>2, <2>5, <2>7, <2>8 DEF ListedInCosmos
  <2>10. ListedInSql'
    BY <1>1, <1>2, <2>4, <2>5 DEF ListedInSql, AtMost
  <2> QED BY <2>3, <2>9, <2>10 DEF OperationalInv
<1> QED BY <1>3, <1>4

LEMMA OperationalSummaries ==
  ASSUME MirrorInv, OperationalInv, cmd.kind = "operational",
         (\E p \in Orders : SqlSummary(p)) \/ (\E h \in Headers(items) : CosmosSummary(h))
  PROVE  OperationalInv'
<1>1. StoresTyped /\ UNCHANGED stores /\ cmd'.kind = cmd.kind /\ cmd'.quiet = cmd.quiet
  BY DEF MirrorInv, StoresTyped, CmdFields, SqlSummary, CosmosSummary, ReadsOnly
<1>2. Stored' = Stored /\ Headers(items)' = Headers(items) /\ sql' = sql /\ items' = items
  BY <1>1 DEF stores, Stored, Headers
<1>3. Running /\ Head(cmd.todo) \in {"sqlSummary", "cosmosSummary"}
  BY DEF SqlSummary, CosmosSummary, At
<1>4. ListedInSql /\ ListedInCosmos
  BY <1>3, FirstOf DEF OperationalInv, Running
<1>5. /\ \E x : cmd'.seen = Put(cmd.seen, "row", x) \/ cmd'.seen = Put(cmd.seen, "agree", x)
      /\ cmd'.todo \in {<<>>, <<"sqlSummary">>, <<"cosmosSummary">>}
  BY <1>1 DEF StoresTyped, CmdFields, SqlSummary, CosmosSummary
<1>6. /\ "cosmosList" \in DOMAIN cmd'.seen /\ "sqlList" \in DOMAIN cmd'.seen
      /\ cmd'.seen["cosmosList"] = cmd.seen["cosmosList"] /\ cmd'.seen["sqlList"] = cmd.seen["sqlList"]
  BY <1>4, <1>5 DEF Put, ListedInSql, ListedInCosmos
<1>7. ListedInSql' /\ ListedInCosmos'
  BY <1>1, <1>2, <1>4, <1>6 DEF ListedInSql, ListedInCosmos, AtMost
<1> QED BY <1>5, <1>7 DEF OperationalInv

LEMMA OperationalStep == MirrorInv /\ OperationalInv /\ [AnalyticsNext]_analyticsVars => OperationalInv'
<1> SUFFICES ASSUME MirrorInv, OperationalInv, [AnalyticsNext]_analyticsVars, cmd'.kind = "operational"
             PROVE  OperationalInv'
  BY DEF OperationalInv
<1>1. StoresTyped
  BY DEF MirrorInv
<1>2. CASE Started
  BY <1>2 DEF Started, OperationalInv, Plan
<1>3. CASE Watched
  <2>1. cmd'.quiet => cmd.quiet /\ sql' = sql /\ items' = items
    BY <1>3 DEF Watched, stores
  <2>2. /\ cmd'.kind = cmd.kind /\ cmd'.todo = cmd.todo /\ cmd'.seen = cmd.seen /\ cmd'.failed = cmd.failed
    BY <1>3 DEF Watched
  <2>3. ListedInSql => ListedInSql'
    BY <2>1, <2>2 DEF ListedInSql, AtMost, Stored
  <2>4. ListedInCosmos => ListedInCosmos'
    BY <2>1, <2>2 DEF ListedInCosmos, Headers
  <2> QED BY <2>2, <2>3, <2>4 DEF OperationalInv
<1>4. CASE CommandStep
  <2>1. cmd.kind = "operational"
    BY <1>1, <1>4, CommandStays
  <2>2. CASE Fails
    BY <1>1, <2>2, FailsIs DEF OperationalInv
  <2> QED BY <1>4, <2>1, <2>2, StepsOf, OperationalLists, OperationalSummaries
<1> QED BY <1>2, <1>3, <1>4, Frames

\* reconcile_operational passes only if the stores hold the same orders, each
\* with its current version.
THEOREM PassMeansTheSameOrdersHolds == AnalyticsSpec => []PassMeansTheSameOrders
<1>1. AnalyticsInit => OperationalInv
  BY DEF AnalyticsInit, OperationalInv
<1>2. MirrorInv /\ OperationalInv => PassMeansTheSameOrders
  <2> SUFFICES ASSUME MirrorInv, OperationalInv, Done({"operational"}), cmd.quiet, OperationalPassed,
                      Cardinality(Stored) <= ListLimit, Cardinality(Headers(items)) <= ListLimit
               PROVE  /\ {h[1] : h \in Headers(items)} = Stored
                      /\ \A p \in Stored : Header(p, Version[sql[p].doc]) \in Headers(items)
    BY DEF PassMeansTheSameOrders
  <2>1. StoresTyped /\ cmd.kind = "operational" /\ cmd.todo = <<>> /\ cmd.failed = {}
    BY DEF MirrorInv, Done, Running
  <2>2. ListedInSql /\ ListedInCosmos
    BY <2>1, FirstOf DEF OperationalInv
  <2> DEFINE ours == cmd.seen["sqlList"]
             theirs == cmd.seen["cosmosList"]
  <2>3. DOMAIN ours = Stored
    BY <2>1, <2>2, WholeList, FiniteStores DEF ListedInSql
  <2>4. DOMAIN theirs = Stored /\ \A p \in Stored : theirs[p] = Version[sql[p].doc]
    BY <2>2, <2>3 DEF OperationalPassed, InBoth, ListedInSql
  <2>5. \A p \in Stored : Header(p, Version[sql[p].doc]) \in Headers(items)
    BY <2>2, <2>4 DEF ListedInCosmos
  <2>6. \A h \in Headers(items) : h[1] \in Stored
    BY <2>2, <2>4 DEF ListedInCosmos
  <2>7. \A p \in Stored : \E h \in Headers(items) : h[1] = p
    <3>1. \A p, v : Header(p, v)[1] = p
      BY DEF Header
    <3> QED BY <2>5, <3>1
  <2> QED BY <2>5, <2>6, <2>7
<1> QED BY <1>1, <1>2, OperationalStep, MirrorHolds, PTL DEF AnalyticsSpec

----------------------------------------------------------------------------
(* Analytics: the reads of FabricOrderRepository                           *)

\* What the mirrored tables show of an order while the command is calm.
LEMMA CalmSees ==
  ASSUME MirrorInv, cmd.calm, cmd.kind \notin Backends
  PROVE  /\ DOMAIN mirror["Orders"] = Stored /\ \A p \in Stored : mirror["Orders"][p] = sql[p]
         /\ \A p \in Stored : BlockKeys(p, sql[p].doc) \subseteq DOMAIN mirror["OrderJsonBlocks"]
         /\ order \in Stored /\ ~shrunk => LoansOf(mirror["Loans"]) = LoanKeys(order, sql[order].doc)
<1>1. \A t \in Tables : Shows(mirror[t], t) /\ Replicated(t, mirror[t])
  BY DEF MirrorInv, CalmHolds
<1>2. RowsForm /\ {"Orders", "OrderJsonBlocks", "Loans"} \subseteq Tables
  BY RowsAre DEF Tables, SqlTables
<1>3. DOMAIN mirror["Orders"] = Stored /\ \A p \in Stored : mirror["Orders"][p] = sql[p]
  BY <1>1, <1>2 DEF Shows, Replicated, Stays, RowsForm
<1>4. ASSUME NEW p \in Stored, NEW k \in BlockKeys(p, sql[p].doc) PROVE k \in DOMAIN mirror["OrderJsonBlocks"]
  BY <1>1, <1>2, <1>4 DEF Shows, RowsForm
<1>5. ASSUME order \in Stored, ~shrunk PROVE LoansOf(mirror["Loans"]) = LoanKeys(order, sql[order].doc)
  <2>1. DOMAIN mirror["Loans"] = UNION {LoanKeys(p, sql[p].doc) : p \in Stored}
    BY <1>1, <1>2, <1>5 DEF Shows, Replicated, Stays, RowsForm
  <2>2. \A p \in Stored : \A k \in LoanKeys(p, sql[p].doc) : k[1] = p
    BY DEF LoanKeys
  <2>3. ASSUME NEW k \in DOMAIN mirror["Loans"], k[1] = order PROVE k \in LoanKeys(order, sql[order].doc)
    <3>1. PICK p \in Stored : k \in LoanKeys(p, sql[p].doc)
      BY <2>1
    <3> QED BY <2>2, <2>3, <3>1
  <2> QED BY <1>5, <2>1, <2>2, <2>3 DEF LoansOf
<1> QED BY <1>3, <1>4, <1>5

ReadsInv ==
  /\ cmd.kind = "full" =>
       /\ cmd.todo \in {<<"head", "blocks">>, <<"blocks">>, <<>>}
       /\ cmd.todo = <<"blocks">> =>
            /\ "head" \in DOMAIN cmd.seen
            /\ cmd.calm /\ order \in Stored => cmd.seen["head"] = sql[order].doc
  /\ cmd.kind = "block" => cmd.todo \in {<<"join">>, <<>>}
  /\ cmd.kind = "summary" =>
       /\ cmd.todo \in {<<"row", "counts", "roles">>, <<"counts", "roles">>, <<"roles">>, <<>>}
       /\ cmd.calm /\ ~shrunk /\ order \in Stored =>
            /\ cmd.todo \in {<<"counts", "roles">>, <<"roles">>} =>
                 "row" \in DOMAIN cmd.seen /\ cmd.seen["row"] = sql[order].doc
            /\ cmd.todo = <<"roles">> =>
                 "counts" \in DOMAIN cmd.seen /\ cmd.seen["counts"] = LoanKeys(order, sql[order].doc)
  /\ cmd.kind = "search" => cmd.todo \in {<<"rows">>, <<>>}
  /\ FabricReadsAreRight

LEMMA BlocksOfOneVersion ==
  ASSUME NEW v
  PROVE  /\ \A k \in DOMAIN BlocksAt(v) : k[1] = order /\ k[2] = v
         /\ \A k \in DOMAIN mirror["OrderJsonBlocks"] : k[1] = order /\ k[2] = v => k \in DOMAIN BlocksAt(v)
BY DEF BlocksAt, Restrict

LEMMA FullReads ==
  ASSUME MirrorInv, ReadsInv, cmd.kind = "full", ReadHead \/ ReadBlocks
  PROVE  ReadsInv'
<1>1. /\ StoresTyped /\ UNCHANGED <<stores, shrunk>> /\ cmd'.kind = "full"
      /\ cmd'.calm = cmd.calm /\ cmd'.order = cmd.order /\ cmd'.failed = cmd.failed
  BY DEF MirrorInv, StoresTyped, CmdFields, ReadHead, ReadBlocks, Sees, Answers, ReadsOnly
<1>2. sql' = sql /\ Stored' = Stored /\ order' = order
  BY <1>1 DEF stores, Stored, order
<1>3. cmd.calm => /\ DOMAIN mirror["Orders"] = Stored /\ \A p \in Stored : mirror["Orders"][p] = sql[p]
                  /\ \A p \in Stored : BlockKeys(p, sql[p].doc) \subseteq DOMAIN mirror["OrderJsonBlocks"]
  BY CalmSees DEF Backends
<1>4. SettledSummaryIsExact' /\ SettledSearchIsExact'
  BY <1>1 DEF SettledSummaryIsExact, SettledSearchIsExact, Done
<1>5. CASE ReadHead
  <2>1. Running /\ Head(cmd.todo) = "head"
    BY <1>5 DEF ReadHead, At
  <2>2. cmd.todo = <<"head", "blocks">>
    BY <2>1, FirstOf DEF ReadsInv, Running
  <2>3. CASE InMirror
    <3>1. Sees(mirror["Orders"][order].doc)
      BY <1>5, <2>3 DEF ReadHead
    <3>2. cmd'.todo = <<"blocks">> /\ cmd'.seen = Put(cmd.seen, "head", mirror["Orders"][order].doc)
      BY <1>1, <2>1, <2>2, <3>1, SeesIs, FirstOf
    <3>3. "head" \in DOMAIN cmd'.seen /\ cmd'.seen["head"] = mirror["Orders"][order].doc
      BY <3>2 DEF Put
    <3>4. ReadsAreOfOneVersion'
      BY <3>2, FirstOf DEF ReadsAreOfOneVersion, Done, Running
    <3> QED BY <1>1, <1>2, <1>3, <1>4, <3>2, <3>3, <3>4 DEF ReadsInv, FabricReadsAreRight
  <2>4. CASE ~InMirror
    <3>1. Answers(NoDoc)
      BY <1>5, <2>4 DEF ReadHead
    <3>2. cmd'.todo = <<>> /\ cmd'.seen = Put(cmd.seen, "head", NoDoc)
      BY <1>1, <2>1, <3>1, AnswersIs
    <3>3. cmd'.seen["head"] = NoDoc
      BY <3>2 DEF Put
    <3>4. cmd.calm => order \notin Stored
      BY <1>3, <2>4 DEF InMirror
    <3>5. ReadsAreOfOneVersion'
      BY <1>1, <1>2, <3>3, <3>4 DEF ReadsAreOfOneVersion
    <3> QED BY <1>1, <1>4, <3>2, <3>5, FirstOf DEF ReadsInv, FabricReadsAreRight
  <2> QED BY <2>3, <2>4
<1>6. CASE ReadBlocks
  <2>1. Running /\ Head(cmd.todo) = "blocks"
    BY <1>6 DEF ReadBlocks, At
  <2>2. cmd.todo = <<"blocks">>
    BY <2>1, FirstOf DEF ReadsInv, Running
  <2> DEFINE v == Version[cmd.seen["head"]]
             blocks == BlocksAt(v)
  <2>3. Sees(blocks)
    BY <1>6 DEF ReadBlocks
  <2> HIDE DEF blocks
  <2>4. cmd'.todo = <<>> /\ cmd'.seen = Put(cmd.seen, "blocks", blocks)
    BY <1>1, <2>1, <2>2, <2>3, SeesIs, FirstOf
  <2>5. cmd'.seen["blocks"] = blocks /\ cmd'.seen["head"] = cmd.seen["head"]
    BY <2>2, <2>4 DEF Put, ReadsInv
  <2>6. \A k \in DOMAIN blocks : k[1] = order /\ k[2] = v
    BY BlocksOfOneVersion DEF blocks
  <2>7. ASSUME cmd.calm, order \in Stored PROVE BlockKeys(order, sql[order].doc) \subseteq DOMAIN blocks
    <3>1. v = Version[sql[order].doc]
      BY <1>1, <2>2, <2>7 DEF ReadsInv
    <3>2. \A k \in BlockKeys(order, sql[order].doc) : k[1] = order /\ k[2] = v
      BY <3>1 DEF BlockKeys
    <3> QED BY <1>3, <2>7, <3>2, BlocksOfOneVersion DEF blocks
  <2>8. ReadsAreOfOneVersion'
    <3>1. Served' = blocks
      BY <1>1, <2>5 DEF Served
    <3> QED BY <1>1, <1>2, <2>5, <2>6, <2>7, <3>1 DEF ReadsAreOfOneVersion
  <2> QED BY <1>1, <1>4, <2>4, <2>8, FirstOf DEF ReadsInv, FabricReadsAreRight
<1> QED BY <1>5, <1>6

LEMMA BlockReads ==
  ASSUME MirrorInv, ReadsInv, cmd.kind = "block", ReadJoined
  PROVE  ReadsInv'
<1>1. /\ StoresTyped /\ UNCHANGED <<stores, shrunk>> /\ cmd'.kind = "block"
      /\ cmd'.calm = cmd.calm /\ cmd'.order = cmd.order
  BY DEF MirrorInv, StoresTyped, CmdFields, ReadJoined, Sees, ReadsOnly
<1>2. sql' = sql /\ Stored' = Stored /\ order' = order
  BY <1>1 DEF stores, Stored, order
<1>3. cmd.calm => /\ DOMAIN mirror["Orders"] = Stored /\ \A p \in Stored : mirror["Orders"][p] = sql[p]
                  /\ \A p \in Stored : BlockKeys(p, sql[p].doc) \subseteq DOMAIN mirror["OrderJsonBlocks"]
  BY CalmSees DEF Backends
<1>4. SettledSummaryIsExact' /\ SettledSearchIsExact'
  BY <1>1 DEF SettledSummaryIsExact, SettledSearchIsExact, Done
<1>5. Running /\ Head(cmd.todo) = "join"
  BY DEF ReadJoined, At
<1>6. cmd.todo = <<"join">>
  BY <1>5, FirstOf DEF ReadsInv, Running
<1> DEFINE blocks == IF InMirror THEN BlocksAt(MirroredVersion) ELSE Nothing
<1>7. Sees(blocks)
  BY DEF ReadJoined
<1> HIDE DEF blocks
<1>8. cmd'.todo = <<>> /\ cmd'.seen = Put(cmd.seen, "join", blocks)
  BY <1>1, <1>5, <1>6, <1>7, SeesIs, FirstOf
<1>9. Served' = blocks
  <2>1. cmd'.seen["join"] = blocks
    BY <1>8 DEF Put
  <2> QED BY <1>1, <2>1 DEF Served
<1>10. \A j, k \in DOMAIN blocks : j[1] = order /\ j[2] = k[2]
  BY BlocksOfOneVersion DEF blocks, Nothing
<1>11. ASSUME cmd.calm, order \in Stored PROVE BlockKeys(order, sql[order].doc) \subseteq DOMAIN blocks
  <2>1. InMirror /\ MirroredVersion = Version[sql[order].doc]
    BY <1>3, <1>11 DEF InMirror, MirroredVersion
  <2>2. \A k \in BlockKeys(order, sql[order].doc) : k[1] = order /\ k[2] = MirroredVersion
    BY <2>1 DEF BlockKeys
  <2> QED BY <1>3, <1>11, <2>1, <2>2, BlocksOfOneVersion DEF blocks
<1>12. ReadsAreOfOneVersion'
  BY <1>1, <1>2, <1>9, <1>10, <1>11 DEF ReadsAreOfOneVersion
<1> QED BY <1>1, <1>4, <1>8, <1>12 DEF ReadsInv, FabricReadsAreRight

LEMMA SummaryReads ==
  ASSUME MirrorInv, ReadsInv, cmd.kind = "summary", ReadRow \/ ReadChildren
  PROVE  ReadsInv'
<1>1. /\ StoresTyped /\ UNCHANGED <<stores, shrunk>> /\ cmd'.kind = "summary"
      /\ cmd'.calm = cmd.calm /\ cmd'.order = cmd.order /\ cmd'.failed = cmd.failed
  BY DEF MirrorInv, StoresTyped, CmdFields, ReadRow, ReadChildren, Sees, Answers, ReadsOnly
<1>2. sql' = sql /\ Stored' = Stored /\ order' = order
  BY <1>1 DEF stores, Stored, order
<1>3. ReadsAreOfOneVersion' /\ SettledSearchIsExact'
  BY <1>1 DEF ReadsAreOfOneVersion, SettledSearchIsExact, Done
<1> DEFINE calm == cmd.calm /\ ~shrunk /\ order \in Stored
<1>4. calm => /\ order \in DOMAIN mirror["Orders"] /\ mirror["Orders"][order] = sql[order]
              /\ LoansOf(mirror["Loans"]) = LoanKeys(order, sql[order].doc)
  BY CalmSees DEF Backends
<1>5. CASE ReadRow
  <2>1. Running /\ Head(cmd.todo) = "row"
    BY <1>5 DEF ReadRow, At
  <2>2. cmd.todo = <<"row", "counts", "roles">>
    BY <2>1, FirstOf DEF ReadsInv, Running
  <2>3. CASE InMirror
    <3>1. Sees(mirror["Orders"][order].doc)
      BY <1>5, <2>3 DEF ReadRow
    <3>2. cmd'.todo = <<"counts", "roles">> /\ cmd'.seen = Put(cmd.seen, "row", mirror["Orders"][order].doc)
      BY <1>1, <2>1, <2>2, <3>1, SeesIs, FirstOf
    <3>3. "row" \in DOMAIN cmd'.seen /\ cmd'.seen["row"] = mirror["Orders"][order].doc
      BY <3>2 DEF Put
    <3>4. SettledSummaryIsExact'
      BY <3>2, FirstOf DEF SettledSummaryIsExact, Done, Running
    <3> QED BY <1>1, <1>2, <1>3, <1>4, <3>2, <3>3, <3>4 DEF ReadsInv, FabricReadsAreRight
  <2>4. CASE ~InMirror
    <3>1. Answers(NoDoc)
      BY <1>5, <2>4 DEF ReadRow
    <3>2. cmd'.todo = <<>>
      BY <1>1, <3>1, AnswersIs
    <3>3. ~calm
      BY <1>4, <2>4 DEF InMirror
    <3>4. SettledSummaryIsExact'
      BY <1>1, <1>2, <3>3 DEF SettledSummaryIsExact
    <3> QED BY <1>1, <1>2, <1>3, <3>2, <3>3, <3>4, FirstOf DEF ReadsInv, FabricReadsAreRight
  <2> QED BY <2>3, <2>4
<1>6. CASE ReadChildren
  <2> DEFINE loans == LoansOf(mirror["Loans"])
  <2>1. Running /\ Head(cmd.todo) \in {"counts", "roles"} /\ Sees(loans)
    BY <1>6 DEF ReadChildren, At
  <2> HIDE DEF loans
  <2>2. CASE Head(cmd.todo) = "counts"
    <3>1. cmd.todo = <<"counts", "roles">>
      BY <2>1, <2>2, FirstOf DEF ReadsInv, Running
    <3>2. cmd'.todo = <<"roles">> /\ cmd'.seen = Put(cmd.seen, "counts", loans)
      BY <1>1, <2>1, <2>2, <3>1, SeesIs, FirstOf
    <3>3. /\ "counts" \in DOMAIN cmd'.seen /\ cmd'.seen["counts"] = loans
          /\ "row" \in DOMAIN cmd.seen => "row" \in DOMAIN cmd'.seen /\ cmd'.seen["row"] = cmd.seen["row"]
      BY <3>2 DEF Put
    <3>4. SettledSummaryIsExact'
      BY <3>2, FirstOf DEF SettledSummaryIsExact, Done, Running
    <3>5. calm => /\ "row" \in DOMAIN cmd'.seen /\ cmd'.seen["row"] = sql[order].doc
                  /\ cmd'.seen["counts"] = LoanKeys(order, sql[order].doc)
      BY <1>4, <3>1, <3>3 DEF ReadsInv, loans
    <3> QED BY <1>1, <1>2, <1>3, <3>2, <3>3, <3>4, <3>5, FirstOf DEF ReadsInv, FabricReadsAreRight
  <2>3. CASE Head(cmd.todo) = "roles"
    <3>1. cmd.todo = <<"roles">>
      BY <2>1, <2>3, FirstOf DEF ReadsInv, Running
    <3>2. cmd'.todo = <<>> /\ cmd'.seen = Put(cmd.seen, "roles", loans)
      BY <1>1, <2>1, <2>3, <3>1, SeesIs, FirstOf
    <3>3. /\ cmd'.seen["roles"] = loans
          /\ \A j \in {"row", "counts"} : j \in DOMAIN cmd.seen => cmd'.seen[j] = cmd.seen[j]
      BY <3>2 DEF Put
    <3>4. calm => /\ cmd'.seen["row"] = sql[order].doc
                  /\ cmd'.seen["counts"] = LoanKeys(order, sql[order].doc)
                  /\ cmd'.seen["roles"] = cmd'.seen["counts"]
      BY <1>4, <3>1, <3>3, FirstOf DEF ReadsInv, loans
    <3>5. SettledSummaryIsExact'
      BY <1>1, <1>2, <3>4 DEF SettledSummaryIsExact
    <3> QED BY <1>1, <1>3, <3>2, <3>5, FirstOf DEF ReadsInv, FabricReadsAreRight
  <2> QED BY <2>1, <2>2, <2>3
<1> QED BY <1>5, <1>6

LEMMA SearchReads ==
  ASSUME MirrorInv, ReadsInv, cmd.kind = "search", NEW wanted \in Criteria, ReadMatches(wanted)
  PROVE  ReadsInv'
<1>1. /\ StoresTyped /\ UNCHANGED <<stores, shrunk>> /\ cmd'.kind = "search" /\ cmd'.calm = cmd.calm
  BY DEF MirrorInv, StoresTyped, CmdFields, ReadMatches, Sees, ReadsOnly
<1>2. sql' = sql /\ Stored' = Stored
  BY <1>1 DEF stores, Stored
<1>3. ReadsAreOfOneVersion' /\ SettledSummaryIsExact'
  BY <1>1 DEF ReadsAreOfOneVersion, SettledSummaryIsExact, Done
<1>4. Running /\ Head(cmd.todo) = "rows"
  BY DEF ReadMatches, At
<1>5. cmd.todo = <<"rows">>
  BY <1>4, FirstOf DEF ReadsInv, Running
<1>6. PICK os \in AtMost(Matching(wanted)) : Sees([wanted |-> wanted, found |-> Restrict(mirror["Orders"], os)])
  BY DEF ReadMatches
<1> DEFINE answer == [wanted |-> wanted, found |-> Restrict(mirror["Orders"], os)]
<1>7. answer.wanted = wanted /\ answer.found = Restrict(mirror["Orders"], os)
  OBVIOUS
<1> HIDE DEF answer
<1>8. cmd'.todo = <<>> /\ cmd'.seen = Put(cmd.seen, "rows", answer)
  BY <1>1, <1>4, <1>5, <1>6, SeesIs, FirstOf DEF answer
<1>9. cmd'.seen["rows"] = answer
  BY <1>8 DEF Put
<1> DEFINE selected == {p \in Stored : sql[p].doc \in wanted}
<1>10. ASSUME cmd.calm, Cardinality(selected) <= ListLimit PROVE answer.found = Restrict(sql, selected)
  <2>1. DOMAIN mirror["Orders"] = Stored /\ \A p \in Stored : mirror["Orders"][p] = sql[p]
    BY <1>10, CalmSees DEF Backends
  <2>2. Matching(wanted) = selected
    BY <2>1 DEF Matching
  <2>3. IsFiniteSet(selected)
    BY <1>1, FiniteStores, FS_Subset
  <2>4. os = selected
    BY <1>6, <1>10, <2>2, <2>3, WholeList
  <2> QED BY <1>7, <2>1, <2>4 DEF Restrict
<1>11. SettledSearchIsExact'
  BY <1>1, <1>2, <1>7, <1>9, <1>10 DEF SettledSearchIsExact
<1> QED BY <1>1, <1>3, <1>8, <1>11 DEF ReadsInv, FabricReadsAreRight

LEMMA ReadsWatched ==
  ASSUME ReadsInv, Watched
  PROVE  ReadsInv'
<1>1. /\ cmd'.kind = cmd.kind /\ cmd'.order = cmd.order /\ cmd'.todo = cmd.todo
      /\ cmd'.seen = cmd.seen /\ cmd'.failed = cmd.failed
      /\ cmd'.calm => cmd.calm /\ UNCHANGED <<sql, items, shrunk>>
  BY DEF Watched, stores
<1>2. order' = order /\ Served' = Served /\ (cmd'.calm => Stored' = Stored) /\ \A kinds : Done(kinds)' = Done(kinds)
  BY <1>1 DEF order, Served, Stored, Done, Running
<1>3. ReadsAreOfOneVersion'
  BY <1>1, <1>2 DEF ReadsInv, FabricReadsAreRight, ReadsAreOfOneVersion
<1>4. SettledSummaryIsExact'
  BY <1>1, <1>2 DEF ReadsInv, FabricReadsAreRight, SettledSummaryIsExact
<1>5. SettledSearchIsExact'
  BY <1>1, <1>2 DEF ReadsInv, FabricReadsAreRight, SettledSearchIsExact
<1> QED BY <1>1, <1>2, <1>3, <1>4, <1>5 DEF ReadsInv, FabricReadsAreRight

LEMMA ReadsStep == MirrorInv /\ ReadsInv /\ [AnalyticsNext]_analyticsVars => ReadsInv'
<1> SUFFICES ASSUME MirrorInv, ReadsInv, [AnalyticsNext]_analyticsVars PROVE ReadsInv'
  OBVIOUS
<1>1. StoresTyped
  BY DEF MirrorInv
<1>2. CASE Started
  <2>1. cmd'.todo = Plan(cmd'.kind)
    BY <1>2 DEF Started
  <2>2. FabricReadsAreRight'
    BY <2>1, FirstOf DEF FabricReadsAreRight, ReadsAreOfOneVersion, SettledSummaryIsExact, SettledSearchIsExact,
                         Done, Running, Plan
  <2> QED BY <2>1, <2>2, FirstOf DEF ReadsInv, Plan
<1>3. CASE Watched
  BY <1>3, ReadsWatched
<1>4. CASE CommandStep
  <2>1. cmd'.kind = cmd.kind
    BY <1>1, <1>4, CommandStays
  <2>2. CASE Fails
    <3>1. cmd'.todo = <<>> /\ cmd'.failed # {}
      BY <1>1, <2>2, FailsIs
    <3>2. FabricReadsAreRight'
      BY <3>1 DEF FabricReadsAreRight, ReadsAreOfOneVersion, SettledSummaryIsExact, SettledSearchIsExact, Done
    <3> QED BY <3>1, <3>2, FirstOf DEF ReadsInv
  <2>3. CASE cmd.kind \notin {"full", "block", "summary", "search"}
    BY <2>1, <2>3 DEF ReadsInv, FabricReadsAreRight, ReadsAreOfOneVersion, SettledSummaryIsExact,
                      SettledSearchIsExact, Done
  <2> QED BY <1>4, <2>2, <2>3, StepsOf, FullReads, BlockReads, SummaryReads, SearchReads
<1> QED BY <1>2, <1>3, <1>4, Frames

\* The reads of FabricOrderRepository are of one version, and exact once the
\* mirror has caught up.
THEOREM FabricReadsAreRightHolds == AnalyticsSpec => []FabricReadsAreRight
<1>1. AnalyticsInit => ReadsInv
  BY DEF AnalyticsInit, ReadsInv, FabricReadsAreRight, ReadsAreOfOneVersion, SettledSummaryIsExact,
         SettledSearchIsExact, Done
<1>2. ReadsInv => FabricReadsAreRight
  BY DEF ReadsInv
<1> QED BY <1>1, <1>2, ReadsStep, MirrorHolds, PTL DEF AnalyticsSpec

----------------------------------------------------------------------------
(* Analytics: reconcile_fabric                                             *)

LEMMA ImageFinite ==
  ASSUME NEW S, IsFiniteSet(S), NEW f, DOMAIN f = S
  PROVE  IsFiniteSet({f[x] : x \in S})
<1> DEFINE T == {f[x] : x \in S}
           g == [x \in S |-> f[x]]
<1>1. g \in Surjection(S, T)
  BY DEF Surjection
<1> QED BY <1>1, FS_Surjection

LEMMA RowsFinite ==
  ASSUME StoresTyped
  PROVE  \A t \in Tables \ {"Loans"} : IsFiniteSet(DOMAIN Rows(t))
<1>1. IsFiniteSet(Stored) /\ IsFiniteSet(DOMAIN items)
  BY FiniteStores DEF StoresTyped
<1>2. ASSUME NEW p \in Stored PROVE IsFiniteSet(BlockKeys(p, sql[p].doc))
  <2> DEFINE d == sql[p].doc
             f == [b \in Blocks[d] |-> <<p, Version[d], b>>]
  <2>1. d \in Docs
    BY DEF Stored, StoresTyped, RowType
  <2>2. IsFiniteSet(Blocks[d])
    BY <2>1, AnalyticsAssumption
  <2>3. IsFiniteSet({f[b] : b \in Blocks[d]})
    BY <2>2, ImageFinite
  <2>4. BlockKeys(p, d) = {f[b] : b \in Blocks[d]}
    BY DEF BlockKeys
  <2> QED BY <2>3, <2>4
<1>3. IsFiniteSet({BlockKeys(p, sql[p].doc) : p \in Stored})
  <2> DEFINE f == [p \in Stored |-> BlockKeys(p, sql[p].doc)]
  <2>1. IsFiniteSet({f[p] : p \in Stored})
    BY <1>1, ImageFinite
  <2> QED BY <2>1
<1>4. \A T \in {BlockKeys(p, sql[p].doc) : p \in Stored} : IsFiniteSet(T)
  BY <1>2
<1>5. IsFiniteSet(DOMAIN Rows("OrderJsonBlocks"))
  <2>1. IsFiniteSet(UNION {BlockKeys(p, sql[p].doc) : p \in Stored})
    <3> HIDE DEF BlockKeys
    <3> QED BY <1>3, <1>4, FS_UNION
  <2> QED BY <2>1, RowsAre DEF RowsForm
<1> QED BY <1>1, <1>5, RowsAre DEF RowsForm, Tables, SqlTables

\* A mirror that holds nothing but rows of the store, and as many, holds them all.
LEMMA ArrivedByCount ==
  ASSUME MirrorInv, NEW t \in Tables \ {"Loans"}, Stays(t),
         \/ Cardinality(DOMAIN Rows(t)) = Cardinality(DOMAIN mirror[t])
         \/ Cardinality(DOMAIN Rows(t)) = 0
  PROVE  Arrived(t)
<1>1. IsFiniteSet(DOMAIN Rows(t))
  BY RowsFinite DEF MirrorInv
<1>2. DOMAIN mirror[t] \in SUBSET DOMAIN Rows(t)
  BY DEF MirrorInv, Replicated
<1>3. Cardinality(DOMAIN Rows(t)) = 0 => DOMAIN Rows(t) = {}
  BY <1>1, FS_EmptySet
<1>4. Cardinality(DOMAIN Rows(t)) = Cardinality(DOMAIN mirror[t]) => DOMAIN Rows(t) = DOMAIN mirror[t]
  BY <1>1, <1>2, FS_Subset
<1> QED BY <1>3, <1>4 DEF Arrived

LEMMA SameTables ==
  ASSUME MirrorInv, cmd.calm, cmd.kind \notin Backends, ~shrunk, NEW t \in Tables
  PROVE  DOMAIN mirror[t] = DOMAIN Rows(t)
BY DEF MirrorInv, CalmHolds, Shows, Replicated, Stays

TableOf == [fabOrders |-> "Orders", fabBlocks |-> "OrderJsonBlocks", fabItems |-> "CosmosOrderItems"]

\* Nothing disturbs the check and nothing in the stores makes it fail.
Exact ==
  /\ cmd.calm /\ ~shrunk
  /\ DOMAIN Rows("OrderJsonBlocks") # {}
  /\ \A k \in DOMAIN Rows("OrderJsonBlocks") : k[3] \notin Wide

\* What is kept of a count of the warehouse
Right(c) ==
  /\ c \in DOMAIN cmd.seen
  /\ cmd.quiet /\ cmd.seen[c] /\ c \in DOMAIN TableOf /\ Stays(TableOf[c]) => Arrived(TableOf[c])
  /\ Exact /\ cmd.failed = {} => cmd.seen[c]

\* The check before the i-th count: the counts of the stores that are not
\* compared yet, and those that are.
Compared(i) ==
  /\ cmd.quiet =>
       \A j \in {1, 2, 7, 8} : j < i /\ i <= j + 2 =>
         Counts[j] \in DOMAIN cmd.seen /\ cmd.seen[Counts[j]] = CountOf(Counts[j])
  /\ \A j \in {3, 4, 5, 6, 9, 10} : j < i => Right(Counts[j])
  /\ i < 11 => "fabHeaders" \notin DOMAIN cmd.seen

FabricInv ==
  cmd.kind = "fabric" =>
    /\ cmd.calm => cmd.quiet
    /\ \/ cmd.todo = <<>> /\ "fabHeaders" \notin DOMAIN cmd.seen
       \/ \E i \in 1..11 : cmd.todo = SubSeq(Counts, i, 10) /\ Compared(i)

CountNames == {Counts[i] : i \in 1..10}

LEMMA CountsAre ==
  /\ Counts \in Seq(CountNames) /\ Len(Counts) = 10
  /\ Counts[1] = "srcOrders" /\ Counts[2] = "srcBlocks" /\ Counts[3] = "fabOrders" /\ Counts[4] = "fabBlocks"
  /\ Counts[5] = "fabInvalid" /\ Counts[6] = "fabTruncated" /\ Counts[7] = "srcItems" /\ Counts[8] = "srcHeaders"
  /\ Counts[9] = "fabItems" /\ Counts[10] = "fabHeaders"
<1>1. Len(Counts) = 10 /\ DOMAIN Counts = 1..10 /\ Counts = [i \in 1..10 |-> Counts[i]]
  BY DEF Counts
<1>2. /\ Counts[1] = "srcOrders" /\ Counts[2] = "srcBlocks" /\ Counts[3] = "fabOrders" /\ Counts[4] = "fabBlocks"
      /\ Counts[5] = "fabInvalid" /\ Counts[6] = "fabTruncated" /\ Counts[7] = "srcItems"
      /\ Counts[8] = "srcHeaders" /\ Counts[9] = "fabItems" /\ Counts[10] = "fabHeaders"
  BY DEF Counts
<1> HIDE DEF Counts
<1>3. Counts \in Seq(CountNames)
  BY <1>1 DEF CountNames
<1> QED BY <1>1, <1>2, <1>3

\* What is left of a sequence of steps, from the i-th on.
LEMMA StepsLeft ==
  ASSUME NEW S, NEW s \in Seq(S)
  PROVE  /\ SubSeq(s, 1, Len(s)) = s /\ SubSeq(s, Len(s) + 1, Len(s)) = <<>>
         /\ \A i \in 1..Len(s) :
              /\ SubSeq(s, i, Len(s)) # <<>> /\ Len(SubSeq(s, i, Len(s))) = Len(s) - i + 1
              /\ Head(SubSeq(s, i, Len(s))) = s[i]
              /\ Tail(SubSeq(s, i, Len(s))) = SubSeq(s, i + 1, Len(s))
<1>1. Len(s) \in Nat
  OBVIOUS
<1>2. SubSeq(s, 1, Len(s)) = s
  BY SubSeqFull
<1>3. SubSeq(s, Len(s) + 1, Len(s)) = <<>>
  BY <1>1, SubSeqEmpty
<1>4. ASSUME NEW i \in 1..Len(s)
      PROVE  /\ SubSeq(s, i, Len(s)) # <<>> /\ Len(SubSeq(s, i, Len(s))) = Len(s) - i + 1
             /\ Head(SubSeq(s, i, Len(s))) = s[i]
             /\ Tail(SubSeq(s, i, Len(s))) = SubSeq(s, i + 1, Len(s))
  <2>1. i \in Int /\ Len(s) \in Int /\ i <= Len(s) /\ \A j \in i..Len(s) : s[j] \in S
    BY <1>1
  <2>2. Len(SubSeq(s, i, Len(s))) = IF i <= Len(s) THEN Len(s) - i + 1 ELSE 0
    BY <2>1, SubSeqProperties
  <2>3. Len(SubSeq(s, i, Len(s))) = Len(s) - i + 1 /\ Len(s) - i + 1 # 0
    BY <2>1, <2>2
  <2>4. Len(<<>>) = 0
    OBVIOUS
  <2>5. Len(s) \in i..Len(s)
    BY <2>1
  <2>6. Head(SubSeq(s, i, Len(s))) = s[i] /\ Tail(SubSeq(s, i, Len(s))) = SubSeq(s, i + 1, Len(s))
    BY <2>5, HeadTailOfSubSeq
  <2> QED BY <2>3, <2>4, <2>6
<1> QED BY <1>2, <1>3, <1>4

LEMMA CountsLeft ==
  /\ SubSeq(Counts, 1, 10) = Counts
  /\ SubSeq(Counts, 11, 10) = <<>>
  /\ \A i \in 1..10 : /\ SubSeq(Counts, i, 10) # <<>> /\ Head(SubSeq(Counts, i, 10)) = Counts[i]
                      /\ Tail(SubSeq(Counts, i, 10)) = SubSeq(Counts, i + 1, 10)
<1>1. Counts \in Seq(CountNames) /\ Len(Counts) = 10 /\ 10 + 1 = 11
  BY CountsAre
<1> QED BY <1>1, StepsLeft

\* What a count of the warehouse says of the mirror.
LEMMA VerdictIs ==
  ASSUME MirrorInv, cmd.kind = "fabric", cmd.calm => cmd.quiet,
         NEW c \in FabricCounts, NEW n \in {0, CountOf(c)},
         cmd.quiet /\ c \in DOMAIN SourceOf => cmd.seen[SourceOf[c]] = CountOf(SourceOf[c])
  PROVE  /\ cmd.quiet /\ Kept(c, n) /\ c \in DOMAIN TableOf /\ Stays(TableOf[c]) => Arrived(TableOf[c])
         /\ Exact /\ n = CountOf(c) => Kept(c, n)
<1>1. Kept(c, n) <=> IF c \in DOMAIN SourceOf THEN cmd.seen[SourceOf[c]] = n ELSE n = 0
  BY DEF Kept
<1>2. DOMAIN SourceOf = {"fabOrders", "fabBlocks", "fabItems", "fabHeaders"}
      /\ SourceOf["fabOrders"] = "srcOrders" /\ SourceOf["fabBlocks"] = "srcBlocks"
      /\ SourceOf["fabItems"] = "srcItems" /\ SourceOf["fabHeaders"] = "srcHeaders"
  BY DEF SourceOf
<1>3. RowsForm
  BY RowsAre
<1>4. ASSUME cmd.quiet, Kept(c, n), c \in DOMAIN TableOf, Stays(TableOf[c]) PROVE Arrived(TableOf[c])
  <2>1. c \in {"fabOrders", "fabBlocks", "fabItems"}
    BY <1>4 DEF TableOf
  <2>2. CountOf(SourceOf[c]) = n
    BY <1>1, <1>2, <1>4, <2>1
  <2>3. TableOf[c] \in Tables \ {"Loans"}
    BY <2>1 DEF TableOf, Tables, SqlTables
  <2>4. CountOf(SourceOf[c]) = Cardinality(DOMAIN Rows(TableOf[c]))
    BY <1>2, <1>3, <2>1 DEF CountOf, TableOf, RowsForm
  <2>5. CountOf(c) = Cardinality(DOMAIN mirror[TableOf[c]])
    BY <2>1 DEF CountOf, TableOf, BlockRows
  <2> QED BY <1>4, <2>2, <2>3, <2>4, <2>5, ArrivedByCount
<1>5. ASSUME Exact, n = CountOf(c) PROVE Kept(c, n)
  <2>1. \A t \in Tables : DOMAIN mirror[t] = DOMAIN Rows(t)
    BY <1>5, SameTables DEF Exact, Backends
  <2>2. /\ DOMAIN mirror["Orders"] = Stored
        /\ DOMAIN BlockRows = DOMAIN Rows("OrderJsonBlocks")
        /\ DOMAIN mirror["CosmosOrderItems"] = DOMAIN items
    BY <1>3, <2>1 DEF RowsForm, Tables, SqlTables, BlockRows
  <2>3. Headers(mirror["CosmosOrderItems"]) = Headers(items)
    BY <2>2 DEF Headers
  <2>4. OffLength = {} /\ DOMAIN BlockRows # {}
    BY <1>5, <2>2 DEF Exact, OffLength
  <2>5. cmd.quiet
    BY <1>5 DEF Exact
  <2>6. CASE c \in DOMAIN SourceOf
    <3>1. CountOf(c) = CountOf(SourceOf[c])
      BY <1>2, <2>2, <2>3, <2>6 DEF CountOf
    <3> QED BY <1>1, <1>5, <2>5, <2>6, <3>1
  <2>7. CASE c \notin DOMAIN SourceOf
    <3>1. c \in {"fabInvalid", "fabTruncated"}
      BY <1>2, <2>7 DEF FabricCounts
    <3>2. CountOf(c) = 0
      BY <2>4, <3>1, FS_EmptySet DEF CountOf, SumOver
    <3> QED BY <1>1, <1>5, <2>7, <3>2
  <2> QED BY <2>6, <2>7
<1> QED BY <1>4, <1>5

\* What the i-th count leaves of those before it.
LEMMA CountedIs ==
  ASSUME NEW i \in 1..10, cmd.todo = SubSeq(Counts, i, 10), NEW n
  PROVE  /\ Counts[i] \in DOMAIN Counted(n) /\ Counted(n)[Counts[i]] = Kept(Counts[i], n)
         /\ \A k \in DOMAIN cmd.seen :
              k # Counts[i] /\ (Counts[i] \in DOMAIN SourceOf => k # SourceOf[Counts[i]]) =>
                k \in DOMAIN Counted(n) /\ Counted(n)[k] = cmd.seen[k]
         /\ DOMAIN Counted(n) \subseteq DOMAIN cmd.seen \cup {Counts[i]}
<1>1. Head(cmd.todo) = Counts[i]
  BY CountsLeft
<1> DEFINE name == Counts[i]
           used == {SourceOf[c] : c \in {name} \cap DOMAIN SourceOf}
<1> HIDE DEF name
<1>2. Counted(n) = Put(Restrict(cmd.seen, DOMAIN cmd.seen \ used), name, Kept(name, n))
  BY <1>1 DEF Counted, name
<1>3. \A k : k \in used <=> name \in DOMAIN SourceOf /\ k = SourceOf[name]
  OBVIOUS
<1> HIDE DEF used
<1>4. /\ DOMAIN Counted(n) = (DOMAIN cmd.seen \ used) \cup {name}
      /\ Counted(n)[name] = Kept(name, n)
      /\ \A k \in DOMAIN cmd.seen \ used : k # name => Counted(n)[k] = cmd.seen[k]
  BY <1>2 DEF Put, Restrict
<1> QED BY <1>3, <1>4 DEF name

\* What the stores and the mirrors are to a step that lets a command see them.
Unmoved ==
  \/ ~cmd'.calm /\ ~cmd'.quiet
  \/ /\ cmd'.calm = cmd.calm /\ cmd'.quiet = cmd.quiet /\ UNCHANGED <<stores, shrunk>>
     /\ \A t \in Tables : DOMAIN mirror[t] \subseteq DOMAIN mirror'[t]

LEMMA RightStays ==
  ASSUME NEW c, Right(c), Unmoved, c \in DOMAIN cmd'.seen, cmd'.seen[c] = cmd.seen[c],
         cmd'.failed = {} => cmd.failed = {}
  PROVE  Right(c)'
<1>1. CASE ~cmd'.calm /\ ~cmd'.quiet
  BY <1>1 DEF Right, Exact
<1>2. CASE /\ cmd'.calm = cmd.calm /\ cmd'.quiet = cmd.quiet /\ UNCHANGED <<stores, shrunk>>
           /\ \A t \in Tables : DOMAIN mirror[t] \subseteq DOMAIN mirror'[t]
  <2>1. \A t : Rows(t)' = Rows(t)
    BY <1>2, SameRows
  <2>2. Exact' => Exact
    BY <1>2, <2>1 DEF Exact
  <2>3. ASSUME c \in DOMAIN TableOf PROVE Stays(TableOf[c])' => Stays(TableOf[c])
    BY <1>2 DEF Stays
  <2>4. ASSUME c \in DOMAIN TableOf, Arrived(TableOf[c]) PROVE Arrived(TableOf[c])'
    <3>1. TableOf[c] \in Tables
      BY <2>4 DEF TableOf, Tables, SqlTables
    <3> QED BY <1>2, <2>1, <2>4, <3>1 DEF Arrived
  <2> QED BY <1>2, <2>2, <2>3, <2>4 DEF Right
<1> QED BY <1>1, <1>2 DEF Unmoved

LEMMA SourcesStay ==
  ASSUME Unmoved, cmd'.quiet
  PROVE  \A c \in {"srcOrders", "srcBlocks", "srcItems", "srcHeaders"} : CountOf(c)' = CountOf(c)
<1>1. UNCHANGED stores
  BY DEF Unmoved
<1>2. \A t : Rows(t)' = Rows(t)
  BY <1>1, SameRows
<1> QED BY <1>1, <1>2 DEF CountOf, stores, Stored, Headers

\* What there is to say of one more count.
LEMMA CountStep ==
  ASSUME MirrorInv, cmd.kind = "fabric", cmd.calm => cmd.quiet,
         NEW i \in 1..10, cmd.todo = SubSeq(Counts, i, 10), Compared(i),
         NEW n, cmd'.seen = Counted(n), UNCHANGED <<stores, replica, shrunk>>,
         cmd'.calm = cmd.calm, cmd'.quiet = cmd.quiet,
         \/ n = CountOf(Counts[i]) /\ cmd'.failed = cmd.failed
         \/ n = 0 /\ Counts[i] \in FabricCounts /\ cmd'.failed # {}
  PROVE  Compared(i + 1)'
<1> USE CountsAre
<1>1. Unmoved
  BY DEF Unmoved, replica
<1>2. /\ Counts[i] \in DOMAIN cmd'.seen /\ cmd'.seen[Counts[i]] = Kept(Counts[i], n)
      /\ \A k \in DOMAIN cmd.seen :
           k # Counts[i] /\ (Counts[i] \in DOMAIN SourceOf => k # SourceOf[Counts[i]]) =>
             k \in DOMAIN cmd'.seen /\ cmd'.seen[k] = cmd.seen[k]
      /\ DOMAIN cmd'.seen \subseteq DOMAIN cmd.seen \cup {Counts[i]}
  <2>1. /\ Counts[i] \in DOMAIN Counted(n) /\ Counted(n)[Counts[i]] = Kept(Counts[i], n)
        /\ \A k \in DOMAIN cmd.seen :
             k # Counts[i] /\ (Counts[i] \in DOMAIN SourceOf => k # SourceOf[Counts[i]]) =>
               k \in DOMAIN Counted(n) /\ Counted(n)[k] = cmd.seen[k]
        /\ DOMAIN Counted(n) \subseteq DOMAIN cmd.seen \cup {Counts[i]}
    BY CountedIs
  <2> HIDE CountsAre
  <2> QED BY <2>1
<1>3. DOMAIN SourceOf = {"fabOrders", "fabBlocks", "fabItems", "fabHeaders"}
      /\ SourceOf["fabOrders"] = "srcOrders" /\ SourceOf["fabBlocks"] = "srcBlocks"
      /\ SourceOf["fabItems"] = "srcItems" /\ SourceOf["fabHeaders"] = "srcHeaders"
  BY DEF SourceOf
<1>4. cmd'.failed = {} => cmd.failed = {} /\ n = CountOf(Counts[i])
  OBVIOUS
<1>5. ASSUME cmd'.quiet, NEW j \in {1, 2, 7, 8}, j < i + 1, i + 1 <= j + 2
      PROVE  Counts[j] \in DOMAIN cmd'.seen /\ cmd'.seen[Counts[j]] = CountOf(Counts[j])'
  <2>1. CountOf(Counts[j])' = CountOf(Counts[j])
    BY <1>1, <1>5, SourcesStay
  <2>2. CASE j = i
    <3>1. Counts[i] \notin FabricCounts
      BY <1>5, <2>2 DEF FabricCounts
    <3>2. Kept(Counts[i], n) = CountOf(Counts[i])
      BY <3>1 DEF Kept
    <3> QED BY <1>2, <2>1, <2>2, <3>2
  <2>3. CASE j # i
    <3>1. i = j + 1
      BY <1>5, <2>3
    <3>2. Counts[j] \in DOMAIN cmd.seen /\ cmd.seen[Counts[j]] = CountOf(Counts[j])
      BY <1>5, <3>1 DEF Compared
    <3>3. Counts[j] # Counts[i] /\ (Counts[i] \in DOMAIN SourceOf => Counts[j] # SourceOf[Counts[i]])
      BY <1>3, <1>5, <3>1
    <3> QED BY <1>2, <2>1, <3>2, <3>3
  <2> QED BY <2>2, <2>3
<1>6. ASSUME NEW j \in {3, 4, 5, 6, 9, 10}, j < i + 1 PROVE Right(Counts[j])'
  <2>1. CASE j = i
    <3>1. Counts[i] \in FabricCounts
      BY <1>6, <2>1 DEF FabricCounts
    <3>2. cmd.quiet /\ Counts[i] \in DOMAIN SourceOf =>
            cmd.seen[SourceOf[Counts[i]]] = CountOf(SourceOf[Counts[i]])
      <4>1. SUFFICES ASSUME cmd.quiet, Counts[i] \in DOMAIN SourceOf
                     PROVE  cmd.seen[SourceOf[Counts[i]]] = CountOf(SourceOf[Counts[i]])
        OBVIOUS
      <4>2. PICK k \in {1, 2, 7, 8} : i = k + 2 /\ SourceOf[Counts[i]] = Counts[k]
        BY <1>3, <1>6, <2>1, <4>1
      <4> QED BY <4>1, <4>2 DEF Compared
    <3>3. n \in {0, CountOf(Counts[i])}
      OBVIOUS
    <3>4. /\ cmd.quiet /\ Kept(Counts[i], n) /\ Counts[i] \in DOMAIN TableOf /\ Stays(TableOf[Counts[i]]) =>
               Arrived(TableOf[Counts[i]])
          /\ Exact /\ n = CountOf(Counts[i]) => Kept(Counts[i], n)
      BY <3>1, <3>2, <3>3, VerdictIs
    <3>5. \A t : Rows(t)' = Rows(t) /\ (Arrived(t) => Arrived(t)') /\ (Stays(t)' => Stays(t))
      BY SameRows DEF Arrived, Stays, replica
    <3>6. Exact' => Exact
      BY <3>5 DEF Exact
    <3> QED BY <1>2, <1>4, <2>1, <3>4, <3>5, <3>6 DEF Right
  <2>2. CASE j # i
    <3>1. j < i
      BY <1>6, <2>2
    <3>2. Right(Counts[j])
      BY <3>1 DEF Compared
    <3>3. Counts[j] # Counts[i] /\ (Counts[i] \in DOMAIN SourceOf => Counts[j] # SourceOf[Counts[i]])
      BY <1>3, <1>6, <3>1
    <3>4. Counts[j] \in DOMAIN cmd'.seen /\ cmd'.seen[Counts[j]] = cmd.seen[Counts[j]]
      BY <1>2, <3>2, <3>3 DEF Right
    <3> QED BY <1>1, <1>4, <3>2, <3>4, RightStays
  <2> QED BY <2>1, <2>2
<1>7. ASSUME i + 1 < 11 PROVE "fabHeaders" \notin DOMAIN cmd'.seen
  <2>1. i \in 1..9
    BY <1>7
  <2>2. Counts[i] # "fabHeaders"
    BY <2>1
  <2>3. "fabHeaders" \notin DOMAIN cmd.seen
    BY <2>1 DEF Compared
  <2> QED BY <1>2, <2>2, <2>3
<1> QED BY <1>5, <1>6, <1>7 DEF Compared

LEMMA FabricStep == MirrorInv /\ FabricInv /\ [AnalyticsNext]_analyticsVars => FabricInv'
<1> SUFFICES ASSUME MirrorInv, FabricInv, [AnalyticsNext]_analyticsVars, cmd'.kind = "fabric" PROVE FabricInv'
  BY DEF FabricInv
<1>1. StoresTyped
  BY DEF MirrorInv
<1>2. CASE Started
  <2>1. cmd'.todo = SubSeq(Counts, 1, 10) /\ cmd'.seen = Nothing /\ cmd'.quiet
    BY <1>2, CountsLeft DEF Started, Plan
  <2>2. Compared(1)'
    BY <2>1 DEF Compared, Nothing
  <2> QED BY <2>1, <2>2 DEF FabricInv
<1>3. CASE Watched
  <2>1. /\ cmd.kind = "fabric" /\ cmd'.todo = cmd.todo /\ cmd'.seen = cmd.seen /\ cmd'.failed = cmd.failed
        /\ cmd.calm => cmd.quiet
    BY <1>3 DEF Watched, FabricInv
  <2>2. Unmoved
    BY <1>3 DEF Watched, Unmoved
  <2>3. cmd'.calm => cmd'.quiet
    BY <2>1, <2>2 DEF Unmoved
  <2>4. ASSUME NEW i \in 1..11, Compared(i) PROVE Compared(i)'
    <3>1. \A j \in {3, 4, 5, 6, 9, 10} : j < i => Right(Counts[j])'
      BY <2>1, <2>2, <2>4, RightStays DEF Compared, Right
    <3>2. ASSUME cmd'.quiet, NEW j \in {1, 2, 7, 8}, j < i, i <= j + 2
          PROVE  Counts[j] \in DOMAIN cmd'.seen /\ cmd'.seen[Counts[j]] = CountOf(Counts[j])'
      <4>1. cmd.quiet
        BY <2>2, <3>2 DEF Unmoved
      <4>2. Counts[j] \in {"srcOrders", "srcBlocks", "srcItems", "srcHeaders"}
        BY CountsAre
      <4>3. CountOf(Counts[j])' = CountOf(Counts[j])
        BY <2>2, <3>2, <4>2, SourcesStay
      <4> QED BY <2>1, <2>4, <3>2, <4>1, <4>3 DEF Compared
    <3> QED BY <2>1, <2>4, <3>1, <3>2 DEF Compared
  <2> QED BY <2>1, <2>3, <2>4 DEF FabricInv
<1>4. CASE CommandStep
  <2>1. cmd.kind = "fabric" /\ cmd'.calm = cmd.calm /\ cmd'.quiet = cmd.quiet /\ (cmd.calm => cmd.quiet)
    BY <1>1, <1>4, CommandStays DEF FabricInv
  <2>2. ASSUME Running
        PROVE  \E i \in 1..10 : cmd.todo = SubSeq(Counts, i, 10) /\ Head(cmd.todo) = Counts[i] /\ Compared(i)
    <3>1. PICK i \in 1..11 : cmd.todo = SubSeq(Counts, i, 10) /\ Compared(i)
      BY <2>1, <2>2 DEF Running, FabricInv
    <3>2. i \in 1..10
      BY <2>2, <3>1, CountsLeft DEF Running
    <3> QED BY <3>1, <3>2, CountsLeft
  <2>3. CASE Fails
    <3>1. cmd'.todo = <<>> /\ cmd'.seen = cmd.seen
      BY <1>1, <2>3, FailsIs
    <3>2. "fabHeaders" \notin DOMAIN cmd.seen
      BY <2>2, <2>3 DEF Fails, Compared
    <3> QED BY <2>1, <3>1, <3>2 DEF FabricInv
  <2>4. CASE Count \/ CountFails
    <3>1. Running
      BY <2>4 DEF Count, CountFails
    <3>2. PICK i \in 1..10 : cmd.todo = SubSeq(Counts, i, 10) /\ Head(cmd.todo) = Counts[i] /\ Compared(i)
      BY <2>2, <3>1
    <3>3. cmd'.todo = SubSeq(Counts, i + 1, 10)
      <4>1. cmd'.todo = Tail(cmd.todo)
        BY <1>1, <2>4 DEF StoresTyped, CmdFields, Count, CountFails
      <4> QED BY <3>2, <4>1, CountsLeft
    <3>4. UNCHANGED <<stores, replica, shrunk>>
      BY <2>4 DEF Count, CountFails, ReadsOnly
    <3>7. i + 1 \in 1..11
      OBVIOUS
    <3>5. CASE Count
      <4>1. cmd'.seen = Counted(CountOf(Counts[i])) /\ cmd'.failed = cmd.failed
        BY <1>1, <3>2, <3>5 DEF StoresTyped, CmdFields, Count
      <4>2. Compared(i + 1)'
        BY <2>1, <3>2, <3>4, <4>1, CountStep
      <4> QED BY <2>1, <3>3, <3>7, <4>2 DEF FabricInv
    <3>6. CASE CountFails
      <4>1. cmd'.seen = Counted(0) /\ cmd'.failed # {} /\ Counts[i] \in FabricCounts
        BY <1>1, <3>2, <3>6 DEF StoresTyped, CmdFields, CountFails
      <4>2. Compared(i + 1)'
        BY <2>1, <3>2, <3>4, <4>1, CountStep
      <4> QED BY <2>1, <3>3, <3>7, <4>2 DEF FabricInv
    <3> QED BY <2>4, <3>5, <3>6
  <2> QED BY <1>4, <2>1, <2>3, <2>4, StepsOf
<1> QED BY <1>2, <1>3, <1>4, Frames

\* Undisturbed, reconcile_fabric passes only if every order and item and, as
\* long as no re-ingest deleted a row, every block is in the mirror; caught up
\* besides, with a block, ASCII text and no failed query, it passes.
THEOREM FabricVerdictIsRightHolds == AnalyticsSpec => []FabricVerdictIsRight
<1>1. AnalyticsInit => FabricInv
  BY DEF AnalyticsInit, FabricInv
<1>2. MirrorInv /\ FabricInv => FabricVerdictIsRight
  <2> SUFFICES ASSUME MirrorInv, FabricInv, FabricReport PROVE FabricVerdictIsRight
    BY DEF FabricVerdictIsRight, PassMeansArrived, SettledPasses
  <2>1. cmd.kind = "fabric" /\ cmd.todo = <<>> /\ FabricCounts \subseteq DOMAIN cmd.seen
    BY DEF FabricReport, Running
  <2>2. PICK i \in 1..11 : cmd.todo = SubSeq(Counts, i, 10) /\ Compared(i)
    BY <2>1 DEF FabricInv, FabricCounts
  <2>3. i = 11
    BY <2>1, <2>2, CountsLeft
  <2>4. \A c \in FabricCounts : Right(c)
    BY <2>2, <2>3, CountsAre DEF Compared, FabricCounts
  <2>5. PassMeansArrived
    <3> SUFFICES ASSUME FabricPassed, cmd.quiet
                 PROVE  /\ Arrived("Orders") /\ Arrived("CosmosOrderItems")
                        /\ ~shrunk => Arrived("OrderJsonBlocks")
      BY DEF PassMeansArrived
    <3>1. cmd.seen["fabOrders"] /\ cmd.seen["fabBlocks"] /\ cmd.seen["fabItems"]
      BY DEF FabricPassed, SqlRowsMatch, CosmosRowsMatch
    <3> QED BY <2>4, <3>1 DEF Right, FabricCounts, TableOf, Stays
  <2>6. SettledPasses
    <3> SUFFICES ASSUME cmd.calm, cmd.failed = {}, ~shrunk, DOMAIN BlockRows # {}, OffLength = {}
                 PROVE  FabricPassed
      BY DEF SettledPasses
    <3>1. DOMAIN mirror["OrderJsonBlocks"] = DOMAIN Rows("OrderJsonBlocks")
      BY <2>1, SameTables DEF Backends, Tables, SqlTables
    <3>2. Exact
      BY <3>1 DEF Exact, BlockRows, OffLength
    <3>3. \A c \in FabricCounts : cmd.seen[c]
      BY <2>4, <3>2 DEF Right
    <3> QED BY <3>3 DEF FabricPassed, SqlRowsMatch, JsonIntact, CosmosRowsMatch, FabricCounts
  <2> QED BY <2>5, <2>6 DEF FabricVerdictIsRight
<1> QED BY <1>1, <1>2, FabricStep, MirrorHolds, PTL DEF AnalyticsSpec

----------------------------------------------------------------------------
(* Analytics: run_analytics.py --build                                     *)

Statements == Definitions \o Loading

PlanLength == 10 + DateBatches

Verbs == {"drop", "create", "delete", "sql", "cosmos", "client"}

Targets == {"DimDate", "FactOrder", "FactOrderCharge"}

LEMMA StatementsAre ==
  /\ Statements \in Seq(Verbs \X Targets) /\ Len(Statements) = PlanLength /\ DateBatches \in Nat \ {0}
  /\ Statements[1] = <<"drop", "DimDate">> /\ Statements[2] = <<"create", "DimDate">>
  /\ Statements[3] = <<"drop", "FactOrder">> /\ Statements[4] = <<"create", "FactOrder">>
  /\ Statements[5] = <<"drop", "FactOrderCharge">> /\ Statements[6] = <<"create", "FactOrderCharge">>
  /\ Statements[7] = <<"sql", "FactOrder">> /\ Statements[8] = <<"cosmos", "FactOrder">>
  /\ Statements[9] = <<"sql", "FactOrderCharge">> /\ Statements[10] = <<"delete", "DimDate">>
  /\ \A i \in 11..PlanLength : Statements[i] = <<"client", "DimDate">>
<1> DEFINE S == Verbs \X Targets
           made == Definitions
           first == <<<<"sql", "FactOrder">>, <<"cosmos", "FactOrder">>, <<"sql", "FactOrderCharge">>,
                      <<"delete", "DimDate">>>>
           days == [i \in 1..DateBatches |-> <<"client", "DimDate">>]
<1>1. DateBatches \in Nat \ {0}
  BY AnalyticsAssumption
<1>2. /\ made \in Seq(S) /\ Len(made) = 6
      /\ made[1] = <<"drop", "DimDate">> /\ made[2] = <<"create", "DimDate">>
      /\ made[3] = <<"drop", "FactOrder">> /\ made[4] = <<"create", "FactOrder">>
      /\ made[5] = <<"drop", "FactOrderCharge">> /\ made[6] = <<"create", "FactOrderCharge">>
  <2> DEFINE f(i) == <<IF i % 2 = 1 THEN "drop" ELSE "create", Warehouse[(i + 1) \div 2]>>
  <2>1. made = [i \in 1..6 |-> f(i)]
    BY DEF Definitions
  <2>2. Warehouse[1] = "DimDate" /\ Warehouse[2] = "FactOrder" /\ Warehouse[3] = "FactOrderCharge"
    BY DEF Warehouse
  <2>3. /\ 1 % 2 = 1 /\ 2 % 2 = 0 /\ 3 % 2 = 1 /\ 4 % 2 = 0 /\ 5 % 2 = 1 /\ 6 % 2 = 0
        /\ (1 + 1) \div 2 = 1 /\ (2 + 1) \div 2 = 1 /\ (3 + 1) \div 2 = 2 /\ (4 + 1) \div 2 = 2
        /\ (5 + 1) \div 2 = 3 /\ (6 + 1) \div 2 = 3
    OBVIOUS
  <2>4. /\ f(1) = <<"drop", "DimDate">> /\ f(2) = <<"create", "DimDate">>
        /\ f(3) = <<"drop", "FactOrder">> /\ f(4) = <<"create", "FactOrder">>
        /\ f(5) = <<"drop", "FactOrderCharge">> /\ f(6) = <<"create", "FactOrderCharge">>
    BY <2>2, <2>3
  <2> HIDE DEF made, f
  <2>5. /\ made[1] = <<"drop", "DimDate">> /\ made[2] = <<"create", "DimDate">>
        /\ made[3] = <<"drop", "FactOrder">> /\ made[4] = <<"create", "FactOrder">>
        /\ made[5] = <<"drop", "FactOrderCharge">> /\ made[6] = <<"create", "FactOrderCharge">>
    BY <2>1, <2>4
  <2>6. \A i \in 1..6 : f(i) \in S
    BY <2>4 DEF Verbs, Targets
  <2>7. made \in Seq(S) /\ Len(made) = 6
    BY <2>1, <2>6
  <2> QED BY <2>5, <2>7
<1> HIDE DEF made
<1>3. /\ first \in Seq(S) /\ Len(first) = 4
      /\ first[1] = <<"sql", "FactOrder">> /\ first[2] = <<"cosmos", "FactOrder">>
      /\ first[3] = <<"sql", "FactOrderCharge">> /\ first[4] = <<"delete", "DimDate">>
  BY DEF Verbs, Targets
<1>4. days \in Seq(S) /\ Len(days) = DateBatches /\ \A i \in 1..DateBatches : days[i] = <<"client", "DimDate">>
  BY <1>1 DEF Verbs, Targets
<1>5. Statements = made \o (first \o days)
  BY DEF Statements, Loading, made
<1> HIDE DEF S, first, days
<1>6. /\ first \o days \in Seq(S) /\ Len(first \o days) = 4 + DateBatches
      /\ \A i \in 1..4 + DateBatches : (first \o days)[i] = IF i <= 4 THEN first[i] ELSE days[i - 4]
  <2>1. /\ first \o days \in Seq(S) /\ Len(first \o days) = Len(first) + Len(days)
        /\ \A i \in 1..Len(first) + Len(days) :
             (first \o days)[i] = IF i <= Len(first) THEN first[i] ELSE days[i - Len(first)]
    BY <1>3, <1>4, ConcatProperties
  <2>2. Len(first) = 4 /\ Len(days) = DateBatches
    BY <1>3, <1>4
  <2> QED BY ONLY <2>1, <2>2
<1> DEFINE rest == first \o days
<1> HIDE DEF rest
<1>7. /\ Statements \in Seq(S) /\ Len(Statements) = 6 + (4 + DateBatches)
      /\ \A i \in 1..6 + (4 + DateBatches) : Statements[i] = IF i <= 6 THEN made[i] ELSE rest[i - 6]
  <2>1. rest \in Seq(S) /\ Len(rest) = 4 + DateBatches
    BY <1>6 DEF rest
  <2>2. /\ made \o rest \in Seq(S) /\ Len(made \o rest) = Len(made) + Len(rest)
        /\ \A i \in 1..Len(made) + Len(rest) :
             (made \o rest)[i] = IF i <= Len(made) THEN made[i] ELSE rest[i - Len(made)]
    BY <1>2, <2>1, ConcatProperties
  <2>3. Len(made) = 6 /\ Statements = made \o rest
    BY <1>2, <1>5 DEF rest
  <2> QED BY ONLY <2>1, <2>2, <2>3
<1>8. Len(Statements) = PlanLength /\ 6 + (4 + DateBatches) = PlanLength
  BY <1>1, <1>7 DEF PlanLength
<1>9. /\ \A i \in 1..6 : Statements[i] = made[i]
      /\ \A i \in 1..4 : Statements[i + 6] = first[i]
  <2>1. \A i \in 1..6 : i \in 1..6 + (4 + DateBatches) /\ i <= 6
    BY <1>1
  <2>2. \A i \in 1..4 : /\ i + 6 \in 1..6 + (4 + DateBatches) /\ ~(i + 6 <= 6) /\ (i + 6) - 6 = i
                        /\ i \in 1..4 + DateBatches /\ i <= 4
    BY <1>1
  <2>3. \A i \in 1..4 : Statements[i + 6] = rest[i]
    BY <1>7, <2>2
  <2>4. \A i \in 1..4 : rest[i] = first[i]
    BY <1>6, <2>2 DEF rest
  <2> QED BY <1>7, <2>1, <2>3, <2>4
<1>10. ASSUME NEW i \in 11..PlanLength PROVE Statements[i] = <<"client", "DimDate">>
  <2>1. i - 6 \in 1..4 + DateBatches /\ ~(i - 6 <= 4) /\ ~(i <= 6) /\ i - 10 \in 1..DateBatches
        /\ (i - 6) - 4 = i - 10 /\ i \in 1..6 + (4 + DateBatches)
    BY <1>1 DEF PlanLength
  <2>2. Statements[i] = rest[i - 6]
    BY <1>7, <2>1
  <2>3. rest[i - 6] = days[i - 10]
    BY <1>6, <2>1 DEF rest
  <2> QED BY <1>4, <2>1, <2>2, <2>3
<1>11. Statements[7] = first[1] /\ Statements[8] = first[2] /\ Statements[9] = first[3] /\ Statements[10] = first[4]
  BY <1>9
<1>12. Statements \in Seq(Verbs \X Targets)
  BY <1>7 DEF S
<1> QED BY <1>1, <1>2, <1>3, <1>8, <1>9, <1>10, <1>11, <1>12

\* The statements from the i-th on
From(i) == SubSeq(Statements, i, PlanLength)

LEMMA StatementsLeft ==
  /\ From(1) = Statements /\ From(PlanLength + 1) = <<>>
  /\ \A i \in 1..PlanLength : /\ From(i) # <<>> /\ Head(From(i)) = Statements[i] /\ Tail(From(i)) = From(i + 1)
                              /\ Len(From(i)) = PlanLength - i + 1
BY StatementsAre, StepsLeft DEF From

\* No statement of the table has failed.
NoneFailed(t) == \A stmt \in cmd.failed : stmt[2] # t

LoadOf(from, rows) == [by |-> commands, from |-> from, rows |-> rows]

CurrentBlockRows(rows) ==
  /\ ChargeRows \subseteq rows
  /\ \A k \in rows : k[2] = Version[sql[k[1]].doc]
  /\ ~shrunk => rows = ChargeRows

\* The three tables before the i-th statement
FactOrderIs(i) ==
  NoneFailed("FactOrder") /\ 5 <= i =>
    /\ "FactOrder" \in DOMAIN facts
    /\ i <= 7 => facts["FactOrder"] = <<>>
    /\ i = 8 => \E r : facts["FactOrder"] = <<LoadOf("sql", r)>> /\ (cmd.calm => r = Stored)
    /\ 9 <= i => \E r, q : /\ facts["FactOrder"] = <<LoadOf("sql", r), LoadOf("cosmos", q)>>
                           /\ cmd.calm => r = Stored /\ q = Headers(items)

FactOrderChargeIs(i) ==
  NoneFailed("FactOrderCharge") /\ 7 <= i =>
    /\ "FactOrderCharge" \in DOMAIN facts
    /\ i <= 9 => facts["FactOrderCharge"] = <<>>
    /\ 10 <= i => \E r : facts["FactOrderCharge"] = <<LoadOf("sql", r)>> /\ (cmd.calm => CurrentBlockRows(r))

DimDateIs(i) ==
  NoneFailed("DimDate") /\ 3 <= i =>
    /\ "DimDate" \in DOMAIN facts
    /\ facts["DimDate"] \in Seq({LoadOf("client", {})})
    /\ Len(facts["DimDate"]) = IF i <= 11 THEN 0 ELSE i - 11

TablesAre(i) == FactOrderIs(i) /\ FactOrderChargeIs(i) /\ DimDateIs(i)

BuildInv ==
  cmd.kind = "build" =>
    \E i \in 1..PlanLength + 1 :
      /\ TablesAre(i)
      /\ cmd.todo = From(i) \/ (cmd.todo = <<>> /\ 10 <= i /\ ~NoneFailed("DimDate"))

\* What the i-th statement leaves.
LEMMA StatementIs ==
  ASSUME StoresTyped, NEW i \in 1..PlanLength, cmd.todo = From(i), StatementRuns
  PROVE  /\ statement = Statements[i] /\ cmd'.todo = From(i + 1) /\ cmd'.failed = cmd.failed
         /\ \A t \in DOMAIN facts : t # Statements[i][2] => t \in DOMAIN facts' /\ facts'[t] = facts[t]
         /\ Statements[i][1] \in {"create", "delete"} =>
              Statements[i][2] \in DOMAIN facts' /\ facts'[Statements[i][2]] = <<>>
         /\ Statements[i][1] \in {"sql", "cosmos", "client"} =>
              /\ Statements[i][2] \in DOMAIN facts'
              /\ facts'[Statements[i][2]] = Append(facts[Statements[i][2]], LoadOf(Statements[i][1], Selected))
<1>1. Head(cmd.todo) = Statements[i] /\ Tail(cmd.todo) = From(i + 1)
  BY StatementsLeft
<1>2. cmd'.todo = Tail(cmd.todo) /\ cmd'.failed = cmd.failed /\ facts' = Executed
  BY DEF StatementRuns, StoresTyped, CmdFields
<1>3. statement = Statements[i] /\ target = Statements[i][2]
  BY <1>1 DEF statement, target
<1> DEFINE verb == Statements[i][1]
           name == Statements[i][2]
<1>4. Executed = CASE verb = "drop" -> Restrict(facts, DOMAIN facts \ {name})
                   [] verb \in {"create", "delete"} -> Put(facts, name, <<>>)
                   [] OTHER -> Put(facts, name, Append(facts[name], LoadOf(verb, Selected)))
  BY <1>3 DEF Executed, Load, LoadOf
<1>5. verb \in Verbs
  BY StatementsAre
<1> HIDE DEF verb, name
<1>6. CASE verb = "drop"
  <2>1. facts' = Restrict(facts, DOMAIN facts \ {name})
    BY <1>2, <1>4, <1>6
  <2>2. \A t \in DOMAIN facts : t # name => t \in DOMAIN facts' /\ facts'[t] = facts[t]
    BY <2>1 DEF Restrict
  <2> QED BY <1>1, <1>2, <1>3, <1>6, <2>2 DEF verb, name
<1>7. CASE verb \in {"create", "delete"}
  <2>1. facts' = Put(facts, name, <<>>)
    BY <1>2, <1>4, <1>7
  <2>2. name \in DOMAIN facts' /\ facts'[name] = <<>>
        /\ \A t \in DOMAIN facts : t # name => t \in DOMAIN facts' /\ facts'[t] = facts[t]
    BY <2>1 DEF Put
  <2> QED BY <1>1, <1>2, <1>3, <1>7, <2>2 DEF verb, name
<1>8. CASE verb \in {"sql", "cosmos", "client"}
  <2> DEFINE loaded == Append(facts[name], LoadOf(verb, Selected))
  <2>1. facts' = Put(facts, name, loaded)
    BY <1>2, <1>4, <1>8
  <2> HIDE DEF loaded
  <2>2. name \in DOMAIN facts' /\ facts'[name] = loaded
        /\ \A t \in DOMAIN facts : t # name => t \in DOMAIN facts' /\ facts'[t] = facts[t]
    BY <2>1 DEF Put
  <2> QED BY <1>1, <1>2, <1>3, <1>8, <2>2 DEF verb, name, loaded
<1> QED BY <1>5, <1>6, <1>7, <1>8 DEF Verbs

\* What a load selects.
LEMMA SelectedIs ==
  ASSUME MirrorInv, cmd.kind = "build"
  PROVE  /\ statement = <<"sql", "FactOrder">> /\ cmd.calm => Selected = Stored
         /\ statement = <<"cosmos", "FactOrder">> /\ cmd.calm => Selected = Headers(items)
         /\ statement = <<"sql", "FactOrderCharge">> /\ cmd.calm => CurrentBlockRows(Selected)
         /\ statement = <<"client", "DimDate">> => Selected = {}
<1>1. Selected = CASE statement = <<"sql", "FactOrder">> -> DOMAIN mirror["Orders"]
                   [] statement = <<"cosmos", "FactOrder">> -> Headers(mirror["CosmosOrderItems"])
                   [] statement = <<"sql", "FactOrderCharge">> -> CurrentBlocks
                   [] OTHER -> {}
  BY DEF Selected
<1>2. /\ statement = <<"sql", "FactOrder">> => Selected = DOMAIN mirror["Orders"]
      /\ statement = <<"cosmos", "FactOrder">> => Selected = Headers(mirror["CosmosOrderItems"])
      /\ statement = <<"sql", "FactOrderCharge">> => Selected = CurrentBlocks
      /\ statement = <<"client", "DimDate">> => Selected = {}
  BY <1>1
<1> HIDE DEF Selected
<1>3. ASSUME cmd.calm
      PROVE  /\ DOMAIN mirror["Orders"] = Stored /\ \A p \in Stored : mirror["Orders"][p] = sql[p]
             /\ DOMAIN mirror["CosmosOrderItems"] = DOMAIN items
             /\ DOMAIN Rows("OrderJsonBlocks") \subseteq DOMAIN BlockRows
             /\ ~shrunk => DOMAIN BlockRows = DOMAIN Rows("OrderJsonBlocks")
  <2>1. \A t \in Tables : Shows(mirror[t], t) /\ Replicated(t, mirror[t])
    BY <1>3 DEF MirrorInv, CalmHolds, Backends
  <2>2. RowsForm /\ {"Orders", "OrderJsonBlocks", "CosmosOrderItems"} \subseteq Tables
    BY RowsAre DEF Tables, SqlTables
  <2> QED BY <2>1, <2>2 DEF Shows, Replicated, Stays, RowsForm, BlockRows
<1>4. ASSUME cmd.calm PROVE Headers(mirror["CosmosOrderItems"]) = Headers(items)
  BY <1>3, <1>4 DEF Headers
<1>5. ASSUME cmd.calm PROVE CurrentBlockRows(CurrentBlocks)
  <2>1. CurrentBlocks =
          {k \in DOMAIN BlockRows : /\ k[1] \in Stored /\ k[2] = Version[sql[k[1]].doc]
                                    /\ k[3] \in Charges}
    BY <1>3, <1>5 DEF CurrentBlocks
  <2>2. ASSUME NEW k \in DOMAIN Rows("OrderJsonBlocks") PROVE k[1] \in Stored /\ k[2] = Version[sql[k[1]].doc]
    <3>1. PICK p \in Stored : k \in BlockKeys(p, sql[p].doc)
      BY RowsAre DEF RowsForm
    <3> QED BY <3>1 DEF BlockKeys
  <2> QED BY <1>3, <1>5, <2>1, <2>2 DEF CurrentBlockRows, ChargeRows
<1> QED BY <1>2, <1>3, <1>4, <1>5

\* A table stays as it is when a statement is about another one.
LEMMA OtherStatement ==
  ASSUME NEW i \in 1..PlanLength, UNCHANGED <<stores, shrunk, commands>>, cmd'.calm = cmd.calm,
         cmd.failed \subseteq cmd'.failed,
         \A t \in Targets : (t # Statements[i][2] \/ ~NoneFailed(t)') /\ t \in DOMAIN facts =>
                              ~NoneFailed(t)' \/ (t \in DOMAIN facts' /\ facts'[t] = facts[t])
  PROVE  /\ (Statements[i][2] # "FactOrder" \/ ~NoneFailed("FactOrder")') /\ FactOrderIs(i) => FactOrderIs(i + 1)'
         /\ (Statements[i][2] # "FactOrderCharge" \/ ~NoneFailed("FactOrderCharge")') /\ FactOrderChargeIs(i) =>
              FactOrderChargeIs(i + 1)'
         /\ (Statements[i][2] # "DimDate" \/ ~NoneFailed("DimDate")') /\ DimDateIs(i) => DimDateIs(i + 1)'
<1>1. \A t : NoneFailed(t)' => NoneFailed(t)
  BY DEF NoneFailed
<1>2. \A from, r : LoadOf(from, r)' = LoadOf(from, r)
  BY DEF LoadOf
<1>3. Stored' = Stored /\ Headers(items)' = Headers(items) /\ \A r : CurrentBlockRows(r)' = CurrentBlockRows(r)
  BY SameRows DEF stores, Stored, Headers, CurrentBlockRows, ChargeRows
<1>4. i \in Nat /\ PlanLength \in Nat
  BY StatementsAre DEF PlanLength
<1>5. ASSUME FactOrderIs(i), Statements[i][2] # "FactOrder", NoneFailed("FactOrder")', 5 <= i + 1
      PROVE  FactOrderIs(i + 1)'
  <2>1. i \notin {3, 4, 7, 8}
    BY <1>5, StatementsAre
  <2>2. 5 <= i /\ (i + 1 <= 7 => i <= 7) /\ i + 1 # 8 /\ (9 <= i + 1 => 9 <= i)
    BY <1>4, <1>5, <2>1
  <2>3. "FactOrder" \in DOMAIN facts' /\ facts'["FactOrder"] = facts["FactOrder"]
    BY <1>1, <1>5, <2>2 DEF FactOrderIs, Targets
  <2> QED BY <1>1, <1>2, <1>3, <1>5, <2>2, <2>3 DEF FactOrderIs
<1>6. ASSUME FactOrderChargeIs(i), Statements[i][2] # "FactOrderCharge", NoneFailed("FactOrderCharge")', 7 <= i + 1
      PROVE  FactOrderChargeIs(i + 1)'
  <2>1. i \notin {5, 6, 9}
    BY <1>6, StatementsAre
  <2>2. 7 <= i /\ (i + 1 <= 9 => i <= 9) /\ (10 <= i + 1 => 10 <= i)
    BY <1>4, <1>6, <2>1
  <2>3. "FactOrderCharge" \in DOMAIN facts' /\ facts'["FactOrderCharge"] = facts["FactOrderCharge"]
    BY <1>1, <1>6, <2>2 DEF FactOrderChargeIs, Targets
  <2> QED BY <1>1, <1>2, <1>3, <1>6, <2>2, <2>3 DEF FactOrderChargeIs
<1>7. ASSUME DimDateIs(i), Statements[i][2] # "DimDate", NoneFailed("DimDate")', 3 <= i + 1
      PROVE  DimDateIs(i + 1)'
  <2>1. i \notin {1, 2, 10} /\ i \notin 11..PlanLength
    BY <1>7, StatementsAre
  <2>2. 3 <= i /\ i <= 9
    BY <1>4, <1>7, <2>1
  <2>3. "DimDate" \in DOMAIN facts' /\ facts'["DimDate"] = facts["DimDate"]
    BY <1>1, <1>7, <2>2 DEF DimDateIs, Targets
  <2> QED BY <1>1, <1>2, <1>4, <1>7, <2>2, <2>3 DEF DimDateIs
<1> QED BY <1>5, <1>6, <1>7 DEF FactOrderIs, FactOrderChargeIs, DimDateIs

LEMMA Appended ==
  ASSUME NEW a, NEW b
  PROVE  Append(<<>>, a) = <<a>> /\ Append(<<a>>, b) = <<a, b>>
<1> DEFINE S == {a, b}
           s == Append(<<a>>, b)
           z == Append(<<>>, a)
<1>1. <<>> \in Seq(S) /\ <<a>> \in Seq(S) /\ Len(<<a>>) = 1 /\ <<a>>[1] = a /\ Len(<<>>) = 0
  OBVIOUS
<1>2. s \in Seq(S) /\ Len(s) = 2 /\ s[1] = a /\ s[2] = b
  BY <1>1, AppendProperties
<1>3. z \in Seq(S) /\ Len(z) = 1 /\ z[1] = a
  BY <1>1, AppendProperties
<1>4. <<a, b>> \in Seq(S) /\ Len(<<a, b>>) = 2 /\ <<a, b>>[1] = a /\ <<a, b>>[2] = b
  OBVIOUS
<1> HIDE DEF s, z, S
<1>5. s = <<a, b>>
  BY <1>2, <1>4
<1>6. z = <<a>>
  BY <1>1, <1>3
<1> QED BY <1>5, <1>6 DEF s, z

\* What a statement leaves of its own table.
LEMMA OwnStatement ==
  ASSUME MirrorInv, cmd.kind = "build", NEW i \in 1..PlanLength, cmd.todo = From(i), StatementRuns
  PROVE  /\ Statements[i][2] = "FactOrder" /\ FactOrderIs(i) => FactOrderIs(i + 1)'
         /\ Statements[i][2] = "FactOrderCharge" /\ FactOrderChargeIs(i) => FactOrderChargeIs(i + 1)'
         /\ Statements[i][2] = "DimDate" /\ DimDateIs(i) => DimDateIs(i + 1)'
<1>1. /\ StoresTyped /\ UNCHANGED <<stores, shrunk, commands>> /\ cmd'.calm = cmd.calm
  BY DEF MirrorInv, StoresTyped, CmdFields, StatementRuns, bounds
<1>2. /\ statement = Statements[i] /\ cmd'.failed = cmd.failed
      /\ Statements[i][1] \in {"create", "delete"} =>
           Statements[i][2] \in DOMAIN facts' /\ facts'[Statements[i][2]] = <<>>
      /\ Statements[i][1] \in {"sql", "cosmos", "client"} =>
           /\ Statements[i][2] \in DOMAIN facts'
           /\ facts'[Statements[i][2]] = Append(facts[Statements[i][2]], LoadOf(Statements[i][1], Selected))
  BY <1>1, StatementIs
<1>3. /\ \A from, r : LoadOf(from, r)' = LoadOf(from, r)
      /\ \A t : NoneFailed(t)' = NoneFailed(t)
  BY <1>1, <1>2 DEF LoadOf, NoneFailed
<1>4. Stored' = Stored /\ Headers(items)' = Headers(items) /\ \A r : CurrentBlockRows(r)' = CurrentBlockRows(r)
  BY <1>1, SameRows DEF stores, Stored, Headers, CurrentBlockRows, ChargeRows
<1>5. i \in Nat /\ PlanLength \in Nat
  BY StatementsAre DEF PlanLength
<1>6. \A a, b : Append(<<>>, a) = <<a>> /\ Append(<<a>>, b) = <<a, b>>
  BY Appended
<1>7. ASSUME Statements[i][2] = "FactOrder", FactOrderIs(i), NoneFailed("FactOrder"), 5 <= i + 1
      PROVE  FactOrderIs(i + 1)'
  <2>1. i \in {4, 7, 8}
    BY <1>5, <1>7, StatementsAre
  <2>2. CASE i = 4
    BY <1>2, <2>2, StatementsAre DEF FactOrderIs
  <2>3. CASE i = 7
    <3>1. facts["FactOrder"] = <<>> /\ Statements[i] = <<"sql", "FactOrder">>
      BY <1>7, <2>3, StatementsAre DEF FactOrderIs
    <3>2. "FactOrder" \in DOMAIN facts' /\ facts'["FactOrder"] = <<LoadOf("sql", Selected)>>
      <4>1. Statements[i][1] = "sql" /\ Statements[i][2] = "FactOrder"
        BY <3>1
      <4>2. "FactOrder" \in DOMAIN facts' /\ facts'["FactOrder"] = Append(facts["FactOrder"], LoadOf("sql", Selected))
        BY <1>2, <4>1
      <4>3. Append(<<>>, LoadOf("sql", Selected)) = <<LoadOf("sql", Selected)>>
        BY <1>6
      <4> QED BY <3>1, <4>2, <4>3
    <3>3. cmd.calm => Selected = Stored
      BY <1>2, <3>1, SelectedIs
    <3> QED BY <1>1, <1>3, <1>4, <2>3, <3>2, <3>3 DEF FactOrderIs
  <2>4. CASE i = 8
    <3>1. Statements[i] = <<"cosmos", "FactOrder">>
      BY <2>4, StatementsAre
    <3>2. PICK r : facts["FactOrder"] = <<LoadOf("sql", r)>> /\ (cmd.calm => r = Stored)
      BY <1>7, <2>4 DEF FactOrderIs
    <3>3. /\ "FactOrder" \in DOMAIN facts'
          /\ facts'["FactOrder"] = <<LoadOf("sql", r), LoadOf("cosmos", Selected)>>
      <4>1. Statements[i][1] = "cosmos" /\ Statements[i][2] = "FactOrder"
        BY <3>1
      <4>2. /\ "FactOrder" \in DOMAIN facts'
            /\ facts'["FactOrder"] = Append(facts["FactOrder"], LoadOf("cosmos", Selected))
        BY <1>2, <4>1
      <4>3. Append(<<LoadOf("sql", r)>>, LoadOf("cosmos", Selected)) = <<LoadOf("sql", r), LoadOf("cosmos", Selected)>>
        BY <1>6
      <4> QED BY <3>2, <4>2, <4>3
    <3>4. cmd.calm => Selected = Headers(items)
      BY <1>2, <3>1, SelectedIs
    <3> QED BY <1>1, <1>3, <1>4, <2>4, <3>2, <3>3, <3>4 DEF FactOrderIs
  <2> QED BY <2>1, <2>2, <2>3, <2>4
<1>8. ASSUME Statements[i][2] = "FactOrderCharge", FactOrderChargeIs(i), NoneFailed("FactOrderCharge"), 7 <= i + 1
      PROVE  FactOrderChargeIs(i + 1)'
  <2>1. i \in {6, 9}
    BY <1>5, <1>8, StatementsAre
  <2>2. CASE i = 6
    BY <1>2, <2>2, StatementsAre DEF FactOrderChargeIs
  <2>3. CASE i = 9
    <3>1. facts["FactOrderCharge"] = <<>> /\ Statements[i] = <<"sql", "FactOrderCharge">>
      BY <1>8, <2>3, StatementsAre DEF FactOrderChargeIs
    <3>2. "FactOrderCharge" \in DOMAIN facts' /\ facts'["FactOrderCharge"] = <<LoadOf("sql", Selected)>>
      <4>1. Statements[i][1] = "sql" /\ Statements[i][2] = "FactOrderCharge"
        BY <3>1
      <4>2. /\ "FactOrderCharge" \in DOMAIN facts'
            /\ facts'["FactOrderCharge"] = Append(facts["FactOrderCharge"], LoadOf("sql", Selected))
        BY <1>2, <4>1
      <4>3. Append(<<>>, LoadOf("sql", Selected)) = <<LoadOf("sql", Selected)>>
        BY <1>6
      <4> QED BY <3>1, <4>2, <4>3
    <3>3. cmd.calm => CurrentBlockRows(Selected)
      BY <1>2, <3>1, SelectedIs
    <3> QED BY <1>1, <1>3, <1>4, <2>3, <3>2, <3>3 DEF FactOrderChargeIs
  <2> QED BY <2>1, <2>2, <2>3
<1>9. ASSUME Statements[i][2] = "DimDate", DimDateIs(i), NoneFailed("DimDate"), 3 <= i + 1
      PROVE  DimDateIs(i + 1)'
  <2>1. i \in {2, 10} \/ i \in 11..PlanLength
    BY <1>5, <1>9, StatementsAre
  <2>2. CASE i \in {2, 10}
    <3>1. "DimDate" \in DOMAIN facts' /\ facts'["DimDate"] = <<>>
      BY <1>2, <2>2, StatementsAre
    <3>2. <<>> \in Seq({LoadOf("client", {})}) /\ Len(<<>>) = 0
      OBVIOUS
    <3> QED BY <1>3, <2>2, <3>1, <3>2 DEF DimDateIs
  <2>3. CASE i \in 11..PlanLength
    <3> DEFINE day == LoadOf("client", {})
    <3>1. Statements[i] = <<"client", "DimDate">>
      BY <2>3, StatementsAre
    <3>2. Selected = {}
      BY <1>2, <3>1, SelectedIs
    <3>3. facts["DimDate"] \in Seq({day}) /\ Len(facts["DimDate"]) = i - 11
      BY <1>5, <1>9, <2>3 DEF DimDateIs
    <3>4. "DimDate" \in DOMAIN facts' /\ facts'["DimDate"] = Append(facts["DimDate"], day)
      BY <1>2, <3>1, <3>2
    <3> HIDE DEF day
    <3>5. facts'["DimDate"] \in Seq({day}) /\ Len(facts'["DimDate"]) = i - 11 + 1
      BY <3>3, <3>4, AppendProperties
    <3>6. ~(i + 1 <= 11) /\ i - 11 + 1 = (i + 1) - 11
      BY <1>5, <2>3
    <3> QED BY <1>3, <3>4, <3>5, <3>6 DEF DimDateIs, day
  <2> QED BY <2>1, <2>2, <2>3
<1> QED BY <1>3, <1>7, <1>8, <1>9 DEF FactOrderIs, FactOrderChargeIs, DimDateIs

LEMMA StatementStep ==
  ASSUME MirrorInv, cmd.kind = "build", NEW i \in 1..PlanLength, cmd.todo = From(i), TablesAre(i),
         StatementRuns \/ StatementFails
  PROVE  /\ TablesAre(i + 1)'
         /\ cmd'.todo = From(i + 1) \/ (cmd'.todo = <<>> /\ 10 <= i /\ ~NoneFailed("DimDate")')
<1>1. StoresTyped /\ UNCHANGED <<stores, shrunk, commands>> /\ cmd'.calm = cmd.calm
  BY DEF MirrorInv, StoresTyped, CmdFields, StatementRuns, StatementFails, bounds
<1>2. /\ Head(cmd.todo) = Statements[i] /\ Tail(cmd.todo) = From(i + 1)
      /\ Len(cmd.todo) = PlanLength - i + 1
  BY StatementsLeft
<1>3. Statements[i][2] \in Targets /\ i \in Nat /\ DateBatches \in Nat
  <2>1. Statements[i] \in Verbs \X Targets
    BY StatementsAre
  <2> QED BY <2>1, StatementsAre
<1>4. CASE StatementRuns
  <2>1. /\ cmd'.todo = From(i + 1) /\ cmd'.failed = cmd.failed
        /\ \A t \in DOMAIN facts : t # Statements[i][2] => t \in DOMAIN facts' /\ facts'[t] = facts[t]
    BY <1>1, <1>4, StatementIs
  <2>2. \A t \in Targets : (t # Statements[i][2] \/ ~NoneFailed(t)') /\ t \in DOMAIN facts =>
                             ~NoneFailed(t)' \/ (t \in DOMAIN facts' /\ facts'[t] = facts[t])
    BY <2>1
  <2>3. /\ Statements[i][2] # "FactOrder" => FactOrderIs(i + 1)'
        /\ Statements[i][2] # "FactOrderCharge" => FactOrderChargeIs(i + 1)'
        /\ Statements[i][2] # "DimDate" => DimDateIs(i + 1)'
    BY <1>1, <2>1, <2>2, OtherStatement DEF TablesAre
  <2>4. /\ Statements[i][2] = "FactOrder" => FactOrderIs(i + 1)'
        /\ Statements[i][2] = "FactOrderCharge" => FactOrderChargeIs(i + 1)'
        /\ Statements[i][2] = "DimDate" => DimDateIs(i + 1)'
    BY <1>4, OwnStatement DEF TablesAre
  <2> QED BY <2>1, <2>3, <2>4 DEF TablesAre
<1>5. CASE StatementFails
  <2>1. /\ cmd'.todo = IF Len(cmd.todo) <= DateBatches + 1 THEN <<>> ELSE Tail(cmd.todo)
        /\ cmd'.failed = cmd.failed \cup {statement}
        /\ facts' = facts
    BY <1>1, <1>5 DEF StoresTyped, CmdFields, StatementFails
  <2>2. statement = Statements[i]
    BY <1>2 DEF statement
  <2>3. ~NoneFailed(Statements[i][2])'
    BY <2>1, <2>2 DEF NoneFailed
  <2>4. \A t \in Targets : (t # Statements[i][2] \/ ~NoneFailed(t)') /\ t \in DOMAIN facts =>
                             ~NoneFailed(t)' \/ (t \in DOMAIN facts' /\ facts'[t] = facts[t])
    BY <2>1
  <2>5. \A t \in Targets : t # Statements[i][2] \/ ~NoneFailed(t)'
    BY <2>3
  <2>6. FactOrderIs(i + 1)' /\ FactOrderChargeIs(i + 1)' /\ DimDateIs(i + 1)'
    BY <1>1, <2>1, <2>4, <2>5, OtherStatement DEF TablesAre, Targets
  <2>7. cmd'.todo = From(i + 1) \/ (cmd'.todo = <<>> /\ 10 <= i)
    <3>1. PlanLength - i + 1 <= DateBatches + 1 => 10 <= i
      BY <1>3 DEF PlanLength
    <3> QED BY <1>2, <2>1, <3>1
  <2>8. 10 <= i => ~NoneFailed("DimDate")'
    <3>1. 10 <= i => i = 10 \/ i \in 11..PlanLength
      BY <1>3 DEF PlanLength
    <3> QED BY <2>3, <3>1, StatementsAre
  <2> QED BY <2>6, <2>7, <2>8 DEF TablesAre
<1> QED BY <1>4, <1>5

LEMMA BuildWatched ==
  ASSUME Watched, NEW i, TablesAre(i)
  PROVE  TablesAre(i)'
<1>1. /\ cmd'.failed = cmd.failed /\ facts' = facts /\ commands' = commands
      /\ cmd'.calm => cmd.calm /\ UNCHANGED <<stores, shrunk>>
  BY DEF Watched
<1>2. /\ \A from, r : LoadOf(from, r)' = LoadOf(from, r)
      /\ \A t : NoneFailed(t)' = NoneFailed(t)
  BY <1>1 DEF LoadOf, NoneFailed
<1>3. cmd'.calm => /\ Stored' = Stored /\ Headers(items)' = Headers(items)
                   /\ \A r : CurrentBlockRows(r)' = CurrentBlockRows(r)
  BY <1>1, SameRows DEF stores, Stored, Headers, CurrentBlockRows, ChargeRows
<1>4. FactOrderIs(i)'
  BY <1>1, <1>2, <1>3 DEF TablesAre, FactOrderIs
<1>5. FactOrderChargeIs(i)'
  BY <1>1, <1>2, <1>3 DEF TablesAre, FactOrderChargeIs
<1>6. DimDateIs(i)'
  BY <1>1, <1>2 DEF TablesAre, DimDateIs
<1> QED BY <1>4, <1>5, <1>6 DEF TablesAre

LEMMA BuildStep == MirrorInv /\ BuildInv /\ [AnalyticsNext]_analyticsVars => BuildInv'
<1> SUFFICES ASSUME MirrorInv, BuildInv, [AnalyticsNext]_analyticsVars, cmd'.kind = "build" PROVE BuildInv'
  BY DEF BuildInv
<1>1. StoresTyped
  BY DEF MirrorInv
<1>2. \A i \in 1..PlanLength + 1 : i \in Nat
  BY StatementsAre DEF PlanLength
<1>3. CASE Started
  <2>1. cmd'.todo = From(1)
    BY <1>3, StatementsLeft DEF Started, Plan, Statements
  <2>2. TablesAre(1)'
    BY DEF TablesAre, FactOrderIs, FactOrderChargeIs, DimDateIs
  <2>3. 1 \in 1..PlanLength + 1
    BY StatementsAre DEF PlanLength
  <2> QED BY <2>1, <2>2, <2>3 DEF BuildInv
<1>4. CASE Watched
  <2>1. cmd.kind = "build" /\ cmd'.todo = cmd.todo /\ cmd'.failed = cmd.failed
    BY <1>4 DEF Watched
  <2>2. PICK i \in 1..PlanLength + 1 :
          TablesAre(i) /\ (cmd.todo = From(i) \/ (cmd.todo = <<>> /\ 10 <= i /\ ~NoneFailed("DimDate")))
    BY <2>1 DEF BuildInv
  <2>3. TablesAre(i)' /\ NoneFailed("DimDate")' = NoneFailed("DimDate")
    BY <1>4, <2>1, <2>2, BuildWatched DEF NoneFailed
  <2> QED BY <2>1, <2>2, <2>3 DEF BuildInv
<1>5. CASE CommandStep
  <2>1. cmd.kind = "build"
    BY <1>1, <1>5, CommandStays
  <2>2. (StatementRuns \/ StatementFails) /\ Running
    BY <1>5, <2>1, StepsOf DEF StatementRuns, StatementFails, Building
  <2>3. PICK i \in 1..PlanLength + 1 : TablesAre(i) /\ cmd.todo = From(i)
    BY <2>1, <2>2 DEF BuildInv, Running
  <2>4. i \in 1..PlanLength /\ i + 1 \in 1..PlanLength + 1
    <3>1. i # PlanLength + 1
      BY <2>2, <2>3, StatementsLeft DEF Running
    <3> QED BY <3>1, StatementsAre DEF PlanLength
  <2>5. /\ TablesAre(i + 1)'
        /\ cmd'.todo = From(i + 1) \/ (cmd'.todo = <<>> /\ 10 <= i /\ ~NoneFailed("DimDate")')
    BY <2>1, <2>2, <2>3, <2>4, StatementStep
  <2>6. 10 <= i => 10 <= i + 1
    BY <2>4, StatementsAre DEF PlanLength
  <2> QED BY <2>4, <2>5, <2>6 DEF BuildInv
<1> QED BY <1>3, <1>4, <1>5, Frames

\* What the property says of one table
LoadedOnce(t) ==
  /\ t \in DOMAIN facts
  /\ Len(facts[t]) = IF t = "DimDate" THEN DateBatches ELSE Cardinality(LoadsOf(t))
  /\ \A i \in DOMAIN facts[t] : facts[t][i].by = commands
  /\ {facts[t][i].from : i \in DOMAIN facts[t]} = LoadsOf(t)
  /\ cmd.calm =>
       CASE t = "FactOrder" -> RowsOfLoad(t, "sql") = Stored /\ RowsOfLoad(t, "cosmos") = Headers(items)
         [] t = "FactOrderCharge" ->
              /\ ChargeRows \subseteq RowsOfLoad(t, "sql")
              /\ \A k \in RowsOfLoad(t, "sql") : k[2] = Version[sql[k[1]].doc]
              /\ ~shrunk => RowsOfLoad(t, "sql") = ChargeRows
         [] OTHER -> TRUE

LEMMA OrdersLoadedOnce ==
  ASSUME NEW i \in Nat, 10 <= i, FactOrderIs(i), NoneFailed("FactOrder")
  PROVE  LoadedOnce("FactOrder")
<1>1. PICK r, q : /\ facts["FactOrder"] = <<LoadOf("sql", r), LoadOf("cosmos", q)>>
                  /\ cmd.calm => r = Stored /\ q = Headers(items)
  BY DEF FactOrderIs
<1>2. "FactOrder" \in DOMAIN facts
  BY DEF FactOrderIs
<1> DEFINE rows == facts["FactOrder"]
<1>3. /\ Len(rows) = 2 /\ DOMAIN rows = {1, 2}
      /\ rows[1] = LoadOf("sql", r) /\ rows[2] = LoadOf("cosmos", q)
  BY <1>1
<1> HIDE DEF rows
<1>4. /\ rows[1].by = commands /\ rows[1].from = "sql" /\ rows[1].rows = r
      /\ rows[2].by = commands /\ rows[2].from = "cosmos" /\ rows[2].rows = q
  BY <1>3 DEF LoadOf
<1>5. LoadsOf("FactOrder") = {"sql", "cosmos"} /\ Cardinality({"sql", "cosmos"}) = 2
  <2>1. IsFiniteSet({"sql"}) /\ Cardinality({"sql"}) = 1
    BY FS_Singleton
  <2>2. Cardinality({"sql"} \cup {"cosmos"}) = 2
    BY <2>1, FS_AddElement
  <2>3. {"sql"} \cup {"cosmos"} = {"sql", "cosmos"}
    OBVIOUS
  <2> QED BY <2>2, <2>3 DEF LoadsOf
<1>6. {rows[j].from : j \in DOMAIN rows} = {"sql", "cosmos"} /\ \A j \in DOMAIN rows : rows[j].by = commands
  BY <1>3, <1>4
<1>7. /\ {rows[k].rows : k \in {j \in DOMAIN rows : rows[j].from = "sql"}} = {r}
      /\ {rows[k].rows : k \in {j \in DOMAIN rows : rows[j].from = "cosmos"}} = {q}
  <2>1. {j \in DOMAIN rows : rows[j].from = "sql"} = {1} /\ {j \in DOMAIN rows : rows[j].from = "cosmos"} = {2}
    BY <1>3, <1>4
  <2> QED BY <1>4, <2>1
<1>8. RowsOfLoad("FactOrder", "sql") = r /\ RowsOfLoad("FactOrder", "cosmos") = q
  BY <1>7 DEF RowsOfLoad, rows
<1> QED BY <1>1, <1>2, <1>3, <1>5, <1>6, <1>8 DEF LoadedOnce, rows

LEMMA ChargesLoadedOnce ==
  ASSUME NEW i \in Nat, 10 <= i, FactOrderChargeIs(i), NoneFailed("FactOrderCharge")
  PROVE  LoadedOnce("FactOrderCharge")
<1>1. PICK r : facts["FactOrderCharge"] = <<LoadOf("sql", r)>> /\ (cmd.calm => CurrentBlockRows(r))
  BY DEF FactOrderChargeIs
<1>2. "FactOrderCharge" \in DOMAIN facts
  BY DEF FactOrderChargeIs
<1> DEFINE rows == facts["FactOrderCharge"]
<1>3. Len(rows) = 1 /\ DOMAIN rows = {1} /\ rows[1] = LoadOf("sql", r)
  BY <1>1
<1> HIDE DEF rows
<1>4. rows[1].by = commands /\ rows[1].from = "sql" /\ rows[1].rows = r
  BY <1>3 DEF LoadOf
<1>5. LoadsOf("FactOrderCharge") = {"sql"} /\ Cardinality({"sql"}) = 1
  BY FS_Singleton DEF LoadsOf
<1>6. {rows[j].from : j \in DOMAIN rows} = {"sql"} /\ \A j \in DOMAIN rows : rows[j].by = commands
  BY <1>3, <1>4
<1>7. {rows[k].rows : k \in {j \in DOMAIN rows : rows[j].from = "sql"}} = {r}
  <2>1. {j \in DOMAIN rows : rows[j].from = "sql"} = {1}
    BY <1>3, <1>4
  <2> QED BY <1>4, <2>1
<1>8. RowsOfLoad("FactOrderCharge", "sql") = r
  BY <1>7 DEF RowsOfLoad, rows
<1> QED BY <1>1, <1>2, <1>3, <1>5, <1>6, <1>8 DEF LoadedOnce, rows, CurrentBlockRows

LEMMA DaysLoadedOnce ==
  ASSUME DimDateIs(PlanLength + 1), NoneFailed("DimDate")
  PROVE  LoadedOnce("DimDate")
<1> DEFINE rows == facts["DimDate"]
           day == LoadOf("client", {})
<1>1. DateBatches \in Nat /\ 1 <= DateBatches
  BY StatementsAre
<1>2. 3 <= PlanLength + 1 /\ ~(PlanLength + 1 <= 11) /\ (PlanLength + 1) - 11 = DateBatches
  BY <1>1 DEF PlanLength
<1>3. "DimDate" \in DOMAIN facts /\ rows \in Seq({day}) /\ Len(rows) = DateBatches
  BY <1>2 DEF DimDateIs
<1> HIDE DEF rows
<1>4. \A j \in DOMAIN rows : rows[j] = day
  BY <1>3
<1>5. day.by = commands /\ day.from = "client"
  BY DEF LoadOf
<1> HIDE DEF day
<1>6. 1 \in DOMAIN rows
  BY <1>1, <1>3
<1>7. {rows[j].from : j \in DOMAIN rows} = {"client"}
  BY <1>4, <1>5, <1>6
<1>8. \A j \in DOMAIN rows : rows[j].by = commands
  BY <1>4, <1>5
<1>9. LoadsOf("DimDate") = {"client"}
  BY DEF LoadsOf
<1> QED BY <1>3, <1>7, <1>8, <1>9 DEF LoadedOnce, rows

\* A table of the warehouse none of whose statements failed was loaded once
\* from each of its sources, by this build; caught up and undisturbed, with the
\* orders, headers and charge blocks of the stores, up to blocks that a re-ingest
\* deleted (build_model, populate_dim_date).
THEOREM OkTableIsOneLoadHolds == AnalyticsSpec => []OkTableIsOneLoad
<1>1. AnalyticsInit => BuildInv
  BY DEF AnalyticsInit, BuildInv
<1>2. BuildInv => OkTableIsOneLoad
  <2> SUFFICES ASSUME BuildInv, cmd.kind = "build", ~Running,
                      NEW t \in {Warehouse[i] : i \in 1..3}, NoneFailed(t)
               PROVE  LoadedOnce(t)
    BY DEF OkTableIsOneLoad, NoneFailed, LoadedOnce
  <2>1. t \in Targets
    BY DEF Warehouse, Targets
  <2>2. PICK i \in 1..PlanLength + 1 :
          /\ TablesAre(i)
          /\ cmd.todo = From(i) \/ (cmd.todo = <<>> /\ 10 <= i /\ ~NoneFailed("DimDate"))
    BY DEF BuildInv
  <2>3. i = PlanLength + 1 \/ (10 <= i /\ ~NoneFailed("DimDate"))
    <3>1. i \in 1..PlanLength \/ i = PlanLength + 1
      BY StatementsAre DEF PlanLength
    <3> QED BY <2>2, <3>1, StatementsLeft DEF Running
  <2>4. i \in Nat /\ 10 <= i
    BY <2>3, StatementsAre DEF PlanLength
  <2>5. CASE t = "FactOrder"
    BY <2>2, <2>4, <2>5, OrdersLoadedOnce DEF TablesAre
  <2>6. CASE t = "FactOrderCharge"
    BY <2>2, <2>4, <2>6, ChargesLoadedOnce DEF TablesAre
  <2>7. CASE t = "DimDate"
    BY <2>2, <2>3, <2>7, DaysLoadedOnce DEF TablesAre
  <2> QED BY <2>1, <2>5, <2>6, <2>7 DEF Targets
<1> QED BY <1>1, <1>2, BuildStep, MirrorHolds, PTL DEF AnalyticsSpec

----------------------------------------------------------------------------
(* Analytics: types and bounds                                             *)

\* The key of an item that some document has
IsItemKey(k) == \E p \in Orders, d \in Docs : k = Header(p, Version[d]) \/ k \in BlockKeys(p, d)

AllAreItemKeys == \A k \in DOMAIN items : IsItemKey(k)

Typed ==
  /\ AllAreItemKeys
  /\ DOMAIN facts \subseteq Targets
  /\ cmd.kind \in Kinds \cup {"none"} /\ cmd.calm \in BOOLEAN /\ cmd.quiet \in BOOLEAN
  /\ shrunk \in BOOLEAN

FreshnessPlan == <<"write", "push", "poll">>

\* Only a freshness run commits beyond MaxCommits, and each of them once: one
\* that has not written yet has its commit left.
Bounded ==
  /\ commits \in Nat /\ pushes \in Nat /\ failures \in Nat
  /\ commits <= MaxCommits + commands /\ pushes <= MaxPushes
  /\ commands <= MaxCommands /\ failures <= MaxFailures
  /\ cmd.kind \in Backends =>
       cmd.todo \in {FreshnessPlan, <<"push", "poll">>, <<"poll">>, <<>>}
  /\ cmd.kind \in Backends /\ cmd.todo = FreshnessPlan =>
       0 < commands /\ commits < MaxCommits + commands

LEMMA TargetsAre == {Warehouse[i] : i \in 1..3} = Targets
<1>1. Warehouse[1] = "DimDate" /\ Warehouse[2] = "FactOrder" /\ Warehouse[3] = "FactOrderCharge"
  BY DEF Warehouse
<1>2. \A i \in 1..3 : i = 1 \/ i = 2 \/ i = 3
  OBVIOUS
<1>3. 1 \in 1..3 /\ 2 \in 1..3 /\ 3 \in 1..3
  OBVIOUS
<1> QED BY <1>1, <1>2, <1>3 DEF Targets

\* A statement makes no table but one of the warehouse.
LEMMA StatementTarget ==
  ASSUME BuildInv, DOMAIN facts \subseteq Targets, StatementRuns
  PROVE  DOMAIN facts' \subseteq Targets
<1>1. cmd.kind = "build" /\ cmd.todo # <<>>
  BY DEF StatementRuns, Building, Running
<1>2. PICK i \in 1..PlanLength + 1 : cmd.todo = From(i)
  BY <1>1 DEF BuildInv
<1>3. i \in 1..PlanLength
  <2>1. i # PlanLength + 1
    BY <1>1, <1>2, StatementsLeft
  <2> QED BY <2>1, StatementsAre DEF PlanLength
<1>4. target \in Targets
  <2>1. statement = Statements[i]
    BY <1>2, <1>3, StatementsLeft DEF statement
  <2>2. Statements[i] \in Verbs \X Targets
    BY <1>3, StatementsAre
  <2> QED BY <2>1, <2>2 DEF target
<1>5. facts' = Executed
  BY DEF StatementRuns
<1>6. DOMAIN Executed \subseteq DOMAIN facts \cup {target}
  <2>1. CASE statement[1] = "drop"
    BY <2>1 DEF Executed, Restrict
  <2>2. CASE statement[1] \in {"create", "delete"}
    BY <2>2 DEF Executed, Put
  <2>3. CASE statement[1] \notin {"drop", "create", "delete"}
    BY <2>3 DEF Executed, Put
  <2> QED BY <2>1, <2>2, <2>3
<1> QED BY <1>4, <1>5, <1>6

LEMMA WriterIs ==
  ASSUME StoresTyped, WriteMarker
  PROVE  /\ cmd.kind \in Backends /\ cmd.todo # <<>> /\ Head(cmd.todo) = "write"
         /\ cmd'.kind = cmd.kind /\ cmd'.todo = Tail(cmd.todo)
         /\ commits' = commits + 1 /\ UNCHANGED <<facts, shrunk, pushes, commands, failures>>
         /\ DOMAIN items' = DOMAIN items
<1>1. cmd.kind \in Backends /\ cmd.todo # <<>> /\ Head(cmd.todo) = "write"
  BY DEF WriteMarker, At, Running
<1>2. ASSUME NEW p, cmd' = [cmd EXCEPT !.order = p, !.todo = Tail(@)]
      PROVE  cmd'.kind = cmd.kind /\ cmd'.todo = Tail(cmd.todo)
  BY <1>2 DEF StoresTyped, CmdFields
<1>3. cmd'.kind = cmd.kind /\ cmd'.todo = Tail(cmd.todo)
  BY <1>2 DEF WriteMarker
<1>4. commits' = commits + 1 /\ UNCHANGED <<facts, shrunk, pushes, commands, failures>>
  BY DEF WriteMarker
<1>5. ASSUME NEW h, items' = [items EXCEPT ![h] = Marks(@)]
      PROVE  DOMAIN items' = DOMAIN items
  BY <1>5
<1>6. DOMAIN items' = DOMAIN items
  BY <1>5 DEF WriteMarker
<1> QED BY <1>1, <1>3, <1>4, <1>6

\* What a step of a command leaves alone.
LEMMA CommandLeaves ==
  ASSUME StoresTyped, CommandStep
  PROVE  /\ ~WriteMarker => UNCHANGED <<stores, commits>>
         /\ ~StatementRuns => facts' = facts
         /\ UNCHANGED <<shrunk, pushes, commands>>
         /\ failures' = failures \/ (failures < MaxFailures /\ failures' = failures + 1)
<1>1. ASSUME ~WriteMarker
      PROVE  /\ UNCHANGED <<stores, commits, shrunk, pushes, commands>>
             /\ failures' = failures \/ (failures < MaxFailures /\ failures' = failures + 1)
  BY <1>1 DEF CommandStep, ReadHead, ReadBlocks, ReadJoined, ReadRow, ReadChildren, ReadMatches,
     SqlList, CosmosList, Count, CountFails, SqlSummary, CosmosSummary, StatementFails, StatementRuns,
     NothingToWrite, PushReturns, PollFinds, PollGivesUp, Fails, ReadsOnly, Sees, Answers,
     Building, stores, replica, bounds, Breaks
<1>2. ASSUME ~WriteMarker, ~StatementRuns PROVE facts' = facts
  BY <1>2 DEF CommandStep, ReadHead, ReadBlocks, ReadJoined, ReadRow, ReadChildren, ReadMatches,
     SqlList, CosmosList, Count, CountFails, SqlSummary, CosmosSummary, StatementFails,
     NothingToWrite, PushReturns, PollFinds, PollGivesUp, Fails, ReadsOnly, Sees, Answers,
     Building, stores, replica, bounds
<1> QED BY <1>1, <1>2, WriterIs

LEMMA TypedStep ==
  ASSUME MirrorInv, BuildInv, Typed, [AnalyticsNext]_analyticsVars
  PROVE  Typed'
<1>1. StoresTyped
  BY DEF MirrorInv
<1>2. AllAreItemKeys' /\ shrunk' \in BOOLEAN
  <2>1. ASSUME NEW p \in Orders, NEW d \in Docs, SqlIngest(p, d) PROVE <1>2!:
    BY <2>1 DEF SqlIngest, Typed, AllAreItemKeys, IsItemKey
  <2>2. ASSUME NEW p \in Orders, NEW d \in Docs, NEW b \in Blocks[d] \cup {"HEADER"},
               CosmosUpsert(p, d, <<p, Version[d], b>>)
        PROVE  <1>2!:
    <3>1. IsItemKey(<<p, Version[d], b>>)
      <4>1. <<p, Version[d], b>> = Header(p, Version[d]) \/ <<p, Version[d], b>> \in BlockKeys(p, d)
        BY DEF Header, BlockKeys
      <4> QED BY <4>1 DEF IsItemKey
    <3>2. DOMAIN items' = DOMAIN items \cup {<<p, Version[d], b>>} /\ shrunk' = shrunk
      BY <2>2 DEF CosmosUpsert, Put
    <3> QED BY <3>1, <3>2 DEF Typed, AllAreItemKeys, IsItemKey
  <2>3. CASE WriteMarker
    <3>1. DOMAIN items' = DOMAIN items /\ shrunk' = shrunk
      BY <1>1, <2>3, WriterIs
    <3> QED BY <3>1 DEF Typed, AllAreItemKeys, IsItemKey
  <2>4. CASE UNCHANGED <<items, shrunk>>
    BY <2>4 DEF Typed, AllAreItemKeys, IsItemKey
  <2>5. CASE CommandStep /\ ~WriteMarker
    BY <1>1, <2>4, <2>5, CommandLeaves DEF stores
  <2>6. CASE UNCHANGED <<stores, shrunk>>
    BY <2>4, <2>6 DEF stores
  <2> QED BY <2>1, <2>2, <2>3, <2>5, <2>6 DEF AnalyticsNext, Environment, Push, Merge, Begins, analyticsVars
<1>3. DOMAIN facts' \subseteq Targets
  <2>1. CASE StatementRuns
    BY <2>1, StatementTarget DEF Typed
  <2>2. CASE Started \/ Watched
    <3>1. facts' = facts
      BY <2>2 DEF Started, Watched
    <3> QED BY <3>1 DEF Typed
  <2>3. CASE CommandStep /\ ~StatementRuns
    <3>1. facts' = facts
      BY <1>1, <2>3, CommandLeaves
    <3> QED BY <3>1 DEF Typed
  <2> QED BY <2>1, <2>2, <2>3, Frames
<1>4. cmd'.kind \in Kinds \cup {"none"} /\ cmd'.calm \in BOOLEAN /\ cmd'.quiet \in BOOLEAN
  <2>1. CASE CommandStep
    BY <1>1, <2>1, CommandStays DEF Typed
  <2>2. ASSUME NEW kind \in Kinds, NEW p \in Orders, Begins(kind, p) PROVE <1>4!:
    <3>1. cmd'.kind = kind /\ cmd'.calm = Settled /\ cmd'.quiet = TRUE
      BY <2>2 DEF Begins
    <3>2. Settled \in BOOLEAN
      BY DEF Settled
    <3> QED BY <3>1, <3>2
  <2>3. ASSUME NEW p \in Orders, NEW d \in Docs, SqlIngest(p, d) \/ \E k : CosmosUpsert(p, d, k) PROVE <1>4!:
    <3>1. cmd' = [cmd EXCEPT !.calm = FALSE, !.quiet = FALSE]
      BY <2>3 DEF SqlIngest, CosmosUpsert, Disturbs
    <3> QED BY <1>1, <3>1 DEF StoresTyped, CmdFields, Typed
  <2>4. CASE UNCHANGED cmd
    BY <2>4 DEF Typed
  <2> QED BY <2>1, <2>2, <2>3, <2>4 DEF AnalyticsNext, Environment, Push, Merge, analyticsVars
<1> QED BY <1>2, <1>3, <1>4 DEF Typed

LEMMA BoundedStep ==
  ASSUME StoresTyped, Bounded, [AnalyticsNext]_analyticsVars
  PROVE  Bounded'
<1>1. /\ commits \in Nat /\ pushes \in Nat /\ failures \in Nat /\ commands \in Nat
      /\ MaxCommits \in Nat /\ MaxPushes \in Nat /\ MaxCommands \in Nat /\ MaxFailures \in Nat
  BY AnalyticsAssumption DEF Bounded, StoresTyped
<1>2. /\ FreshnessPlan # <<"push", "poll">> /\ FreshnessPlan # <<"poll">> /\ FreshnessPlan # <<>>
      /\ Head(FreshnessPlan) = "write" /\ Tail(FreshnessPlan) = <<"push", "poll">>
      /\ Head(<<"push", "poll">>) = "push" /\ Tail(<<"push", "poll">>) = <<"poll">>
      /\ Head(<<"poll">>) = "poll" /\ Tail(<<"poll">>) = <<>>
  <2>1. Len(FreshnessPlan) = 3 /\ Len(<<"push", "poll">>) = 2 /\ Len(<<"poll">>) = 1 /\ Len(<<>>) = 0
    BY DEF FreshnessPlan
  <2> QED BY <2>1 DEF FreshnessPlan
<1>3. ASSUME Commits, Disturbs PROVE Bounded'
  <2>1. /\ commits < MaxCommits /\ commits' = commits + 1
        /\ UNCHANGED <<pushes, commands, failures>>
    BY <1>3 DEF Commits, Disturbs
  <2>2. cmd'.kind = cmd.kind /\ cmd'.todo = cmd.todo
    BY <1>3 DEF Disturbs, StoresTyped, CmdFields
  <2> QED BY <1>1, <2>1, <2>2 DEF Bounded
<1>4. ASSUME UNCHANGED <<cmd, commits, commands, failures>>,
             pushes' = pushes \/ (pushes < MaxPushes /\ pushes' = pushes + 1)
      PROVE  Bounded'
  BY <1>1, <1>4 DEF Bounded
<1>5. ASSUME NEW kind \in Kinds, NEW p, Begins(kind, p) PROVE Bounded'
  <2>1. /\ commands < MaxCommands /\ commands' = commands + 1
        /\ UNCHANGED <<commits, pushes, failures>>
        /\ cmd'.kind = kind /\ cmd'.todo = Plan(kind)
    BY <1>5 DEF Begins
  <2>2. kind \in Backends => cmd'.todo = FreshnessPlan
    BY <2>1 DEF Plan, Backends, FreshnessPlan
  <2> QED BY <1>1, <2>1, <2>2 DEF Bounded
<1>6. CASE CommandStep /\ ~WriteMarker
  <2>1. cmd'.kind = cmd.kind /\ UNCHANGED <<commits, pushes, commands>>
    BY <1>6, CommandStays, CommandLeaves
  <2>2. failures' = failures \/ (failures < MaxFailures /\ failures' = failures + 1)
    BY <1>6, CommandLeaves
  <2>3. cmd.kind \in Backends => cmd'.todo \in {<<"poll">>, <<>>}
    <3> SUFFICES ASSUME cmd.kind \in Backends PROVE cmd'.todo \in {<<"poll">>, <<>>}
      OBVIOUS
    <3>1. CASE NothingToWrite \/ Fails
      BY <3>1 DEF NothingToWrite, Fails, StoresTyped, CmdFields
    <3>2. CASE PushReturns
      <4>1. cmd.todo = <<"push", "poll">>
        BY <1>2, <3>2 DEF PushReturns, At, Running, Bounded
      <4> QED BY <1>2, <3>2, <4>1 DEF PushReturns, StoresTyped, CmdFields
    <3>3. CASE PollFinds \/ PollGivesUp
      <4>1. cmd.todo = <<"poll">>
        BY <1>2, <3>3 DEF PollFinds, PollGivesUp, At, Running, Bounded
      <4>2. cmd'.todo = Tail(cmd.todo)
        BY <3>3, SeesIs DEF PollFinds, PollGivesUp
      <4> QED BY <1>2, <4>1, <4>2
    <3> QED BY <1>6, <3>1, <3>2, <3>3, StepsOf
  <2> QED BY <1>1, <1>2, <2>1, <2>2, <2>3 DEF Bounded
<1>7. CASE WriteMarker
  <2>1. cmd.kind \in Backends /\ cmd.todo = FreshnessPlan
    BY <1>2, <1>7, WriterIs DEF Bounded
  <2>2. /\ cmd'.kind = cmd.kind /\ cmd'.todo = <<"push", "poll">>
        /\ commits' = commits + 1 /\ UNCHANGED <<pushes, commands, failures>>
    BY <1>2, <1>7, <2>1, WriterIs
  <2> QED BY <1>1, <1>2, <2>1, <2>2 DEF Bounded
<1>8. ASSUME NEW tables, Push(tables) PROVE Bounded'
  BY <1>4, <1>8 DEF Push
<1> QED BY <1>3, <1>4, <1>5, <1>6, <1>7, <1>8 DEF AnalyticsNext, Environment, SqlIngest, CosmosUpsert,
     Merge, bounds, analyticsVars

\* Whatever the stores, the mirrors and the commands do, a row is a row of an
\* order, an item one of a document, a table of the warehouse one that
\* analytics_model.sql makes; and nothing goes beyond its bound but by the one
\* write of each freshness run.
THEOREM AnalyticsTypeCorrect == AnalyticsSpec => []AnalyticsTypeOK
<1>1. AnalyticsInit => BuildInv
  BY DEF AnalyticsInit, BuildInv
<1>2. AnalyticsInit => Typed /\ Bounded
  <2> SUFFICES ASSUME AnalyticsInit PROVE Typed /\ Bounded
    OBVIOUS
  <2>1. DOMAIN Nothing = {} /\ DOMAIN Earlier = Targets
    BY TargetsAre DEF Nothing, Earlier
  <2>2. Typed
    BY <2>1 DEF AnalyticsInit, Typed, AllAreItemKeys
  <2>3. Bounded
    BY AnalyticsAssumption DEF AnalyticsInit, Bounded, Backends
  <2> QED BY <2>2, <2>3
<1>3. MirrorInv /\ BuildInv /\ Typed /\ Bounded /\ [AnalyticsNext]_analyticsVars => Typed' /\ Bounded'
  BY TypedStep, BoundedStep DEF MirrorInv
<1>4. MirrorInv /\ Typed /\ Bounded => AnalyticsTypeOK
  <2> SUFFICES ASSUME StoresTyped, Typed, Bounded PROVE AnalyticsTypeOK
    BY DEF MirrorInv
  <2>1. /\ sql \in [Orders -> [doc : Docs \cup {NoDoc}, mark : Nat]]
        /\ \A k \in DOMAIN items : items[k] \in [doc : Docs \cup {NoDoc}, mark : Nat]
        /\ DOMAIN landed = Tables /\ DOMAIN mirror = Tables
    BY DEF StoresTyped, RowType
  <2>2. \A k \in DOMAIN items : \E p \in Orders, d \in Docs : k = Header(p, Version[d]) \/ k \in BlockKeys(p, d)
    BY DEF Typed, AllAreItemKeys, IsItemKey
  <2>3. DOMAIN facts \subseteq {Warehouse[i] : i \in 1..3}
    BY TargetsAre DEF Typed
  <2>4. cmd.kind \in Kinds \cup {"none"} /\ cmd.calm \in BOOLEAN /\ cmd.quiet \in BOOLEAN /\ shrunk \in BOOLEAN
    BY DEF Typed
  <2>5. commits <= MaxCommits + commands /\ pushes <= MaxPushes
        /\ commands <= MaxCommands /\ failures <= MaxFailures
    BY DEF Bounded
  <2> QED BY <2>1, <2>2, <2>3, <2>4, <2>5, Zenon DEF AnalyticsTypeOK
<1> QED BY <1>1, <1>2, <1>3, <1>4, BuildStep, MirrorHolds, PTL DEF AnalyticsSpec

=============================================================================
