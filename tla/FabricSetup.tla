----------------------------- MODULE FabricSetup -----------------------------
(***************************************************************************)
(* The two scripts that make the analytics environment by the REST API of  *)
(* Fabric: fabric/provision_fabric.py makes the workspace, the lakehouse   *)
(* and the warehouse, fabric/setup_mirroring.py tries native mirroring and *)
(* makes the two open mirrors.  Both find or create every item by its      *)
(* name, follow the operation that Fabric answers with until it settles or *)
(* a deadline passes, and leave what they made in a state file that        *)
(* push_to_onelake.py and run_analytics.py read; setup_mirroring.py also   *)
(* keeps a file of findings.                                               *)
(*                                                                         *)
(* An operator runs one script at a time, again whenever they like.  A     *)
(* script can die between any two of its calls, and the operation it       *)
(* followed goes on without it.                                            *)
(***************************************************************************)
EXTENDS Integers, Sequences, FiniteSets, SequencesExt

CONSTANTS
  MaxRuns,      \* bound on the runs of the scripts
  MaxFaults     \* bound on the calls that fail and the scripts that die

ASSUME SetupAssumption == MaxRuns \in Nat /\ MaxFaults \in Nat

Natives == {"nativeSql", "nativeCosmos"}
Mirrors == {"mirSql", "mirCosmos"}
Items == {"workspace", "lakehouse", "warehouse"} \cup Natives \cup Mirrors

\* What each command line makes, in this order
Provision == <<"workspace", "lakehouse", "warehouse">>
TryNative == <<"nativeSql", "nativeCosmos">>
OpenMirroring == <<"mirSql", "mirCosmos">>

VARIABLES
  exists,       \* the items of Fabric
  pending,      \* the items whose creation is an operation that runs
  todo,         \* what the script has yet to make; its head is what it is at
  stage,        \* where the script is
  got,          \* the items whose id this run has
  blind,        \* the items that this run could not see: their list failed, or
                \* Fabric was making them (history)
  state,        \* artifacts/fabric-environment.json: {} or its content
  findings,     \* the entries of artifacts/fabric-integration-findings.json
  ended,        \* how the last run ended
  runs, faults

service == <<exists, pending>>
files == <<state, findings>>
vars == <<service, todo, stage, got, blind, files, ended, runs, faults>>

Key(entry) == entry[1]

Init ==
  /\ exists = {} /\ pending = {}
  /\ todo = <<>> /\ stage = "none" /\ got = {} /\ blind = {}
  /\ state = {} /\ findings = {}
  /\ ended = "no run" /\ runs = 0 /\ faults = 0

item == Head(todo)

Faulty ==
  /\ faults < MaxFaults
  /\ faults' = faults + 1

\* A script begins; setup_mirroring.py needs the state file.
Starts(plan) ==
  /\ stage = "none" /\ runs < MaxRuns
  /\ plan # Provision => state # {}
  /\ todo' = plan
  /\ stage' = IF Head(plan) \in Natives THEN "post" ELSE "list"
  /\ got' = {} /\ blind' = {}
  /\ ended' = "runs" /\ runs' = runs + 1
  /\ UNCHANGED <<service, files, faults>>

\* Mutant: the state is saved before the findings are.
StateFirst == "save"

FirstFile == "record"

\* What follows the last item of a command line
LastStage == IF item \in Mirrors THEN FirstFile ELSE IF item \in Natives THEN "end" ELSE "save"

NextStage ==
  IF Len(todo) = 1 THEN LastStage
  ELSE IF todo[2] \in Natives THEN "post" ELSE "list"

Moves == todo' = Tail(todo) /\ stage' = NextStage

Ends(how) == stage' = "none" /\ ended' = how /\ todo' = <<>>

\* findings[key] = value, in the dictionary that the run read from the file
Recorded(key, outcome) == {f \in findings : Key(f) # key} \cup {<<key, outcome>>}

\* The item is there: the run has its id, or the finding that it was made.
Have ==
  /\ Moves
  /\ IF item \in Natives
     THEN findings' = Recorded(item, "succeeded") /\ UNCHANGED got
     ELSE got' = got \cup {item} /\ UNCHANGED findings
  /\ UNCHANGED <<state, ended>>

\* An exception about the item: a native mirror's is a finding, the
\* warehouse's is printed, and of any other the script dies.
Raises(how) ==
  /\ UNCHANGED <<state, got>>
  /\ IF item \in Natives \cup {"warehouse"} THEN Moves /\ UNCHANGED ended ELSE Ends(how)
  /\ findings' = IF item \in Natives THEN Recorded(item, "failed") ELSE findings

\* Mutant: the open mirrors are looked for among items of another type.
ListedWrongType == item \in exists \ Mirrors

Listed == item \in exists

\* create_item, create_workspace and create_open_mirror look for the name ...
ListFinds ==
  /\ stage = "list" /\ Listed
  /\ Have
  /\ UNCHANGED <<service, blind, runs, faults>>

ListMisses ==
  /\ stage = "list" /\ ~Listed
  /\ stage' = "post" /\ blind' = blind \cup ({item} \cap pending)
  /\ UNCHANGED <<service, todo, got, files, ended, runs, faults>>

\* ... list_items takes a call that failed for an empty list, find_workspace
\* raises.
ListFails ==
  /\ stage = "list" /\ Faulty
  /\ IF item = "workspace"
     THEN Raises("failed") /\ UNCHANGED blind
     ELSE /\ stage' = "post" /\ blind' = blind \cup {item}
          /\ UNCHANGED <<todo, got, files, ended>>
  /\ UNCHANGED <<service, runs>>

\* The name of an item is unique in its workspace, also of one being made.
Taken == item \in exists \cup pending

PostConflicts ==
  /\ stage = "post" /\ Taken
  /\ Raises("conflict")
  /\ UNCHANGED <<service, blind, runs, faults>>

PostFails ==
  /\ stage = "post" /\ ~Taken /\ Faulty
  /\ Raises("failed")
  /\ UNCHANGED <<service, blind, runs>>

PostCreates ==
  /\ stage = "post" /\ ~Taken
  /\ exists' = exists \cup {item}
  /\ Have
  /\ UNCHANGED <<pending, blind, runs, faults>>

PostAccepted ==
  /\ stage = "post" /\ ~Taken
  /\ pending' = pending \cup {item}
  /\ stage' = "poll"
  /\ UNCHANGED <<exists, todo, got, blind, files, ended, runs, faults>>

\* Fabric settles an operation, whoever follows it.
OperationSucceeds(i) ==
  /\ i \in pending
  /\ exists' = exists \cup {i} /\ pending' = pending \ {i}
  /\ UNCHANGED <<todo, stage, got, blind, files, ended, runs, faults>>

OperationFails(i) ==
  /\ i \in pending /\ Faulty
  /\ pending' = pending \ {i}
  /\ UNCHANGED <<exists, todo, stage, got, blind, files, ended, runs>>

\* Mutant: what has not failed has succeeded.
NotFailed == Taken

Succeeded == item \in exists

\* wait_lro: the result has the id, or the name is looked up again ...
PollSucceeds ==
  /\ stage = "poll" /\ Succeeded
  /\ Have
  /\ UNCHANGED <<service, blind, runs, faults>>

PollWithoutId ==
  /\ stage = "poll" /\ item \in exists \ Natives
  /\ stage' = "relist"
  /\ UNCHANGED <<service, todo, got, blind, files, ended, runs, faults>>

RelistFinds ==
  /\ stage = "relist" /\ item \in exists
  /\ Have
  /\ UNCHANGED <<service, blind, runs, faults>>

\* ... in vain: there is no id in {}.
RelistFails ==
  /\ stage = "relist" /\ Faulty
  /\ Raises("failed")
  /\ UNCHANGED <<service, blind, runs>>

PollFails ==
  /\ stage = "poll" /\ ~Taken
  /\ Raises("failed")
  /\ UNCHANGED <<service, blind, runs, faults>>

DeadlinePasses == item \in pending

PollTimesOut ==
  /\ stage = "poll" /\ DeadlinePasses
  /\ Raises("timeout")
  /\ UNCHANGED <<service, blind, runs, faults>>

Record ==
  /\ stage = "record"
  /\ findings' = Recorded("openMirroring", "succeeded")
  /\ stage' = IF FirstFile = "record" THEN "save" ELSE "end"
  /\ UNCHANGED <<service, todo, got, blind, state, ended, runs, faults>>

\* provision_fabric.py writes the file whole, setup_mirroring.py adds the
\* mirrors to what it read.
Contents ==
  IF got \subseteq Mirrors
  THEN {[s EXCEPT !.mirrors = got] : s \in state}
  ELSE {[items |-> got, mirrors |-> {}]}

Save ==
  /\ stage = "save"
  /\ state' = Contents
  /\ stage' = IF got \subseteq Mirrors /\ FirstFile = "save" THEN "record" ELSE "end"
  /\ UNCHANGED <<service, todo, got, blind, findings, ended, runs, faults>>

Finishes ==
  /\ stage = "end" /\ Ends("done")
  /\ UNCHANGED <<service, got, blind, files, runs, faults>>

Dies ==
  /\ stage # "none" /\ Faulty /\ Ends("died")
  /\ UNCHANGED <<service, got, blind, files, runs>>

Step ==
  \/ ListFinds \/ ListMisses \/ PostConflicts \/ PostCreates \/ PostAccepted
  \/ PollSucceeds \/ PollWithoutId \/ RelistFinds \/ PollFails \/ PollTimesOut
  \/ Record \/ Save \/ Finishes

Next ==
  \/ \E plan \in {Provision, TryNative, OpenMirroring, TryNative \o OpenMirroring} : Starts(plan)
  \/ Step
  \/ ListFails \/ PostFails \/ RelistFails \/ Dies
  \/ \E i \in Items : OperationSucceeds(i) \/ OperationFails(i)

Spec == Init /\ [][Next]_vars

\* A script goes on.  Nothing makes an operation of Fabric settle.
FairSpec == Spec /\ WF_vars(Step)

-----------------------------------------------------------------------------
TypeOK ==
  /\ exists \subseteq Items /\ pending \subseteq Items /\ exists \cap pending = {}
  /\ \E plan \in {Provision, TryNative, OpenMirroring, TryNative \o OpenMirroring} :
       IsSuffix(todo, plan)
  /\ stage \in {"none", "list", "post", "poll", "relist", "record", "save", "end"}
  /\ stage \in {"list", "post", "poll", "relist"} => todo # <<>>
  /\ got \subseteq Items \ Natives /\ blind \subseteq Items
  /\ Cardinality(state) <= 1
  /\ \A s \in state : s.items \subseteq Range(Provision) /\ s.mirrors \subseteq Mirrors
  /\ findings \subseteq (Natives \cup {"openMirroring"}) \X {"succeeded", "failed"}
  /\ ended \in {"no run", "runs", "done", "died", "failed", "timeout", "conflict"}
  /\ runs \in 0..MaxRuns /\ faults \in 0..MaxFaults

\* The state file names only items that Fabric has, and never leaves out one
\* but the warehouse, whose failure is tolerated: an operation that was given
\* up, failed or answered without an id puts nothing there,
\* provision_fabric.py:90-108 and 239-257.
StateNamesWhatExists ==
  \A s \in state :
    /\ s.items \cup s.mirrors \subseteq exists
    /\ {"workspace", "lakehouse"} \subseteq s.items
    /\ s.mirrors \in {{}, Mirrors}

\* Mirrors that the state file hands to the pushes are in the findings: these
\* are written first, setup_mirroring.py:286-289.
MirrorsAreRecorded ==
  \A s \in state : s.mirrors # {} => \E f \in findings : Key(f) = "openMirroring"

\* No run loses what an earlier one found, whatever it tries and wherever it
\* dies: record writes the whole file, from what main read,
\* setup_mirroring.py:56-59 and 258.
FindingsAreKept == [][{Key(f) : f \in findings} \subseteq {Key(f) : f \in findings'}]_vars

\* "Creates (idempotently)", provision_fabric.py:3: a script fails on a name
\* that is taken only when it could not list the items, or when an operation
\* that an earlier run gave up was making the item right then.
ConflictsAreExplained ==
  [][ended' = "conflict" /\ ended # "conflict" => item \in blind]_vars

\* Every run ends, also when an operation of Fabric never settles:
\* wait_lro has a deadline, provision_fabric.py:95-108.
RunsEnd == (stage # "none") ~> (stage = "none")

\* What the pushes read from the state file is not taken away: "Creates
\* (idempotently)", provision_fabric.py:3.  It does not hold: a second run of
\* provision_fabric.py writes the file without the mirrors.
StateIsKept ==
  [][\A s \in state, t \in state' : s.items \subseteq t.items /\ s.mirrors \subseteq t.mirrors]_vars

\* "The exact failure is recorded rather than assumed", setup_mirroring.py:10:
\* a native mirror whose attempt is recorded as failed is not there.  It does
\* not hold: the attempt is not looked for by name, so a second one fails on
\* the mirror of the first and is recorded over it, and an operation that
\* outlives the deadline makes the mirror after all.
FailureIsRecorded ==
  \A f \in findings : Key(f) \in Natives /\ f[2] = "failed" => Key(f) \notin exists

=============================================================================
