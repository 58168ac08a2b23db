---------------------------- MODULE ExportWriter ----------------------------
(***************************************************************************)
(* The writer of the open-data export publishes a dataset as files: two      *)
(* archives named after their own bytes, two aliases that are replaced one    *)
(* after the other, and last the manifest that names the archives. A run may  *)
(* fail, or die, at every step, and two runs may overlap.                     *)
(*                                                                         *)
(* The bytes of an archive are a record of what they are a function of: the   *)
(* JSON carries the time of its run, the CSV has the data only. Temporary     *)
(* files have names of their own and nobody reads them.                       *)
(***************************************************************************)
EXTENDS Naturals, Sequences

CONSTANTS
  Runs,              \* runs of the exporter, on one day
  Datasets,          \* what a run may be handed
  Short,             \* and what of it is below EXPORT_MIN_COUNT
  Nowhere            \* nothing

Formats == {"json", "csv"}

(* The bytes of an archive. *)
Contents == [format : Formats, data : Datasets, stamp : Runs \cup {Nowhere}]

ASSUME ExportWriterAssumption ==
  /\ Short \subseteq Datasets
  /\ Runs \cap Contents = {}
  /\ Nowhere \notin Datasets \cup Runs \cup Contents

VARIABLES
  run,               \* a run's step and its dataset
  archives,          \* the archives on disk: from names to their bytes, or to the run that
                     \* truncated one last, as long as it is not whole
  latest,            \* latest.json and latest.csv
  manifest,          \* latest.manifest.json: the names it gives
  snapshots,         \* dataset_snapshots: the names recorded
  straddling,        \* history: a run stopped between the two renames, or two runs were there
  completed,         \* history: the bytes that a run has come to the end of writing
  halted             \* history: the runs that ended while writing an archive, with its bytes

histories == <<completed, halted>>
writerVars == <<run, archives, latest, manifest, snapshots, straddling, histories>>

Bytes(format, r) ==
  [format |-> format, data |-> run[r].data, stamp |-> IF format = "json" THEN r ELSE Nowhere]

(* A mistake: the day alone makes the name. *)
archiveNameByDay(bytes) == [format |-> bytes.format]

(* The digest tells apart what differs. *)
archiveName(bytes) == bytes

WriterInit ==
  /\ run = [r \in Runs |-> [at |-> 0, data |-> Nowhere]]
  /\ archives = <<>>
  /\ latest = [format \in Formats |-> Nowhere]
  /\ manifest = Nowhere
  /\ snapshots = {}
  /\ straddling = FALSE
  /\ completed = {}
  /\ halted = {}

(* A mistake: one alias is finished before the other is begun. *)
PlanInTurn ==
  <<"open json", "fill json", "open csv", "fill csv", "stage json", "rename json",
    "stage csv", "rename csv", "rename manifest", "record">>

(* Another: the archives are filled when the aliases are already there. *)
PlanFilledLate ==
  <<"open json", "open csv", "stage json", "stage csv", "rename json", "rename csv",
    "fill json", "fill csv", "rename manifest", "record">>

(* writeExport: the archives, then the aliases, both staged before either is renamed, *)
(* then the manifest; the database source records its snapshots after that.            *)
Plan ==
  <<"open json", "fill json", "open csv", "fill csv", "stage json", "stage csv",
    "rename json", "rename csv", "rename manifest", "record">>

Ended == Len(Plan) + 1
Running(r) == run[r].at \in DOMAIN Plan
IsAt(r, step) == Running(r) /\ Plan[run[r].at] = step
GoesOn(r) == run' = [run EXCEPT ![r].at = @ + 1]

(* Between the two renames. *)
Promoting(r) == IsAt(r, "rename csv")

(* The bytes of the archive that a run has opened and not finished. *)
Writing(r) ==
  {Bytes(f, r) : f \in {g \in Formats : IsAt(r, IF g = "json" THEN "fill json" ELSE "fill csv")}}

-----------------------------------------------------------------------------
(* The floor comes before anything is written. *)
BeginRun(r, d) ==
  /\ run[r].at = 0
  /\ run' = [run EXCEPT ![r] = [at |-> IF d \in Short THEN Ended ELSE 1, data |-> d]]
  /\ UNCHANGED <<archives, latest, manifest, snapshots, straddling, histories>>

(* writeFile truncates a file that is there, then writes the bytes, each run at its own  *)
(* offset: where another has truncated the file meanwhile, it may leave a hole there.    *)
Put(bytes, stored) ==
  LET name == archiveName(bytes)
  IN archives' = [n \in DOMAIN archives \cup {name} |-> IF n = name THEN stored ELSE archives[n]]

OpenArchive(r, format) ==
  /\ IsAt(r, IF format = "json" THEN "open json" ELSE "open csv")
  /\ Put(Bytes(format, r), r)
  /\ GoesOn(r)
  /\ UNCHANGED <<latest, manifest, snapshots, straddling, histories>>

FillArchive(r, format) ==
  /\ IsAt(r, IF format = "json" THEN "fill json" ELSE "fill csv")
  /\ LET bytes == Bytes(format, r)
     IN /\ \E stored \in {bytes} \cup ({archives[archiveName(bytes)]} \cap (Runs \ {r})) : Put(bytes, stored)
        /\ completed' = completed \cup {bytes}
  /\ GoesOn(r)
  /\ UNCHANGED <<latest, manifest, snapshots, straddling, halted>>

(* promoteAliases: a payload beside its destination, fsynced and the destination     *)
(* looked at; then a rename.                                                         *)
StageAlias(r) ==
  /\ IsAt(r, "stage json") \/ IsAt(r, "stage csv")
  /\ GoesOn(r)
  /\ UNCHANGED <<archives, latest, manifest, snapshots, straddling, histories>>

RenameJson(r) ==
  /\ IsAt(r, "rename json")
  /\ latest' = [latest EXCEPT !["json"] = Bytes("json", r)]
  /\ straddling' = (\E q \in Runs \ {r} : Promoting(q))
  /\ GoesOn(r)
  /\ UNCHANGED <<archives, manifest, snapshots, histories>>

RenameCsv(r) ==
  /\ IsAt(r, "rename csv")
  /\ latest' = [latest EXCEPT !["csv"] = Bytes("csv", r)]
  /\ GoesOn(r)
  /\ UNCHANGED <<archives, manifest, snapshots, straddling, histories>>

RenameManifest(r) ==
  /\ IsAt(r, "rename manifest")
  /\ manifest' = [format \in Formats |-> Bytes(format, r)]
  /\ GoesOn(r)
  /\ UNCHANGED <<archives, latest, snapshots, straddling, histories>>

(* The API source has no database, and records nothing. *)
RecordSnapshots(r) ==
  /\ IsAt(r, "record")
  /\ \/ snapshots' = snapshots \cup {Bytes(format, r) : format \in Formats}
     \/ UNCHANGED snapshots
  /\ GoesOn(r)
  /\ UNCHANGED <<archives, latest, manifest, straddling, histories>>

(* A call of the file system fails, or the process dies: what is there stays.      *)
RunFails(r) ==
  /\ Running(r)
  /\ straddling' = (straddling \/ Promoting(r))
  /\ halted' = halted \cup ({r} \X Writing(r))
  /\ run' = [run EXCEPT ![r].at = Ended]
  /\ UNCHANGED <<archives, latest, manifest, snapshots, completed>>

WriterNext ==
  \E r \in Runs :
    \/ \E d \in Datasets : BeginRun(r, d)
    \/ \E format \in Formats : OpenArchive(r, format) \/ FillArchive(r, format)
    \/ StageAlias(r) \/ RenameJson(r) \/ RenameCsv(r)
    \/ RenameManifest(r) \/ RecordSnapshots(r) \/ RunFails(r)

WriterSpec == WriterInit /\ [][WriterNext]_writerVars

-----------------------------------------------------------------------------
(* Properties *)

WriterTypeOK ==
  /\ run \in [Runs -> [at : 0..Ended, data : Datasets \cup {Nowhere}]]
  /\ DOMAIN latest = Formats
  /\ straddling \in BOOLEAN
  /\ completed \subseteq Contents
  /\ halted \subseteq Runs \X Contents

Pointed == {latest[f] : f \in Formats} \cup snapshots
             \cup (IF manifest = Nowhere THEN {} ELSE {manifest[f] : f \in Formats})

(* A run has written the archive of some bytes to the end, and it is whole, unless the    *)
(* run that truncated it last is at its own write of it, or ended there.                *)
Holds(bytes) ==
  LET name == archiveName(bytes)
  IN /\ bytes \in completed /\ name \in DOMAIN archives
     /\ \/ archives[name] = bytes
        \/ \E r \in Runs : archives[name] = r /\ (bytes \in Writing(r) \/ <<r, bytes>> \in halted)

(* Whatever a reader or a row of dataset_snapshots is pointed to is above the floor, *)
(* and its archive was written to the end before that and has these bytes, all of them *)
(* unless a run is writing them again or ended while it did; the manifest names one    *)
(* run's pair; and the aliases are of one dataset, unless a run is between its two      *)
(* renames, stopped there, or met another.                                             *)
PointersAgree ==
  /\ WriterTypeOK
  /\ \A bytes \in Pointed \ {Nowhere} : bytes.data \notin Short /\ Holds(bytes)
  /\ manifest # Nowhere => manifest["json"].data = manifest["csv"].data
  /\ \/ latest["json"] = latest["csv"]
     \/ latest["json"] # Nowhere /\ latest["csv"] # Nowhere
          /\ latest["json"].data = latest["csv"].data
     \/ straddling
     \/ \E r \in Runs : Promoting(r)

(* "A run that dies part-way leaves latest.* on the last COMPLETE dataset": once no  *)
(* run is at work, the archives that the manifest names have the bytes of its digests. *)
ManifestHolds ==
  (\A r \in Runs : ~Running(r)) /\ manifest # Nowhere =>
    \A f \in Formats : archives[archiveName(manifest[f])] = manifest[f]
=============================================================================
