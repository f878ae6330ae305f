--------------------------- MODULE TrainingVolume ---------------------------
(***************************************************************************)
(* Functions of the training application on their Modal volume             *)
(* (src/workers/specialist_training_modal.py): metadata, training, export, *)
(* audit clips, snapshots and validation sets.  The files are those of one *)
(* dataset, one base and one run.  Versions of the index, its receipt and  *)
(* what is made of it; numbers of trainings, in checkpoints and what is    *)
(* made of them.                                                           *)
(***************************************************************************)
EXTENDS ModalVolume

CONSTANTS
    MaxVersions,   \* bound: versions of the dataset's index
    MaxRuns        \* bound: trainings of the run

ASSUME TrainingAssumption == {MaxVersions, MaxRuns} \subseteq Nat

VARIABLES
    trainings,   \* the trainings of the run so far
    snapshots    \* those in the object store: pairs of rows and receipt

trainingVars == <<volumeVars, trainings, snapshots>>

\* What an export consists of: predictions, here two, and their receipt.
Predictions == {"prediction1", "prediction2"}
Exported == Predictions \cup {"export_receipt"}

\* The files that a function reads or writes.
TrainingTouched == [f \in {"prepare_training_metadata", "train_specialist", "export_specialist",
        "export_dataset_audit", "publish_snapshot", "build_validation", "install_validation_set"} |->
    CASE f = "prepare_training_metadata" -> {"csv", "cache"}
      [] f = "train_specialist" -> {"checkpoint", "run_receipt", "validation_set"}
      [] f = "export_specialist" -> {"checkpoint", "validation_set"} \cup Exported
      [] f = "export_dataset_audit" -> {"csv", "index", "clips", "manifest"}
      [] f = "publish_snapshot" -> {"csv", "index"}
      [] f = "build_validation" -> {"renders", "temporary_set", "validation_set"}
      [] f = "install_validation_set" -> {"archive", "validation_set"}]

\* What somebody has put on the volume.
TrainingFiles == {"csv", "index", "archive"}

-----------------------------------------------------------------------------

\* An operator puts a new index on the volume: the rows first, then their receipt.
PutIndex ==
    /\ volume["csv"] < MaxVersions \/ volume["index"] < volume["csv"]
    /\ volume' = IF volume["index"] < volume["csv"] THEN [volume EXCEPT !["index"] = volume["csv"]]
                 ELSE [volume EXCEPT !["csv"] = @ + 1]
    /\ UNCHANGED <<called, view, dirty, reached, trainings, snapshots, deaths>>

-----------------------------------------------------------------------------
(* prepare_training_metadata                                               *)

PrepareTrainingMetadata ==
    LET f == "prepare_training_metadata" IN
    /\ \/ Start(f, {"csv"}, "writing")
       \/ Statement(f, "writing", "committing", Put("cache", view[f]["csv"]))
       \/ CommitAndReturn(f)
    /\ UNCHANGED <<trainings, snapshots>>

(* train_specialist                                                        *)

\* The checkpoint is rewritten in place; the receipt follows once it is whole.
TrainSpecialist ==
    LET f == "train_specialist" IN
    \/ /\ trainings < MaxRuns
       /\ Start(f, {"csv", "index", "cache", "validation_set"}, "training")
       /\ trainings' = trainings + 1 /\ UNCHANGED snapshots
    \/ /\ \/ Statement(f, "training", "saving", Put("checkpoint", Broken))
          \/ Statement(f, "saving", "recording", Put("checkpoint", trainings))
          \/ Statement(f, "recording", "committing", Put("run_receipt", view[f]["checkpoint"]))
          \/ CommitAndReturn(f)
          \/ Raise(f, "training")
       /\ UNCHANGED <<trainings, snapshots>>

(* export_specialist                                                       *)

\* Mutant: the predictions of the earlier export go, its receipt is overwritten in the end.
ClearExport_PredictionsOnly(f) == Statement(f, "clearing", "predicting", Remove(Predictions))

\* rmtree of the export root, file by file in any order, errors ignored; mkdir raises if
\* something is left.
ClearExport(f) ==
    \/ \E p \in Exported : view[f][p] # Missing /\ Statement(f, "clearing", "clearing", Remove({p}))
    \/ (\A p \in Exported : view[f][p] = Missing) /\ Statement(f, "clearing", "predicting", Nothing)
    \/ Raise(f, "clearing")

\* The predictions of the checkpoint that was there, then their receipt, which is torn while
\* it is written; a torn checkpoint does not load, and an inference may fail.
ExportSpecialist ==
    LET f == "export_specialist" IN
    /\ \/ Start(f, {"checkpoint", "validation_set"}, "clearing")
       \/ ClearExport(f)
       \/ Statement(f, "predicting", "scoring", [p \in Predictions |-> Broken])
       \/ Raise(f, "scoring")
       \/ /\ view[f]["checkpoint"] # Broken
          /\ Statement(f, "scoring", "recording", [p \in Predictions |-> view[f]["checkpoint"]])
       \/ Statement(f, "recording", "writing", Put("export_receipt", Broken))
       \/ Statement(f, "writing", "committing", Put("export_receipt", view[f]["checkpoint"]))
       \/ CommitAndReturn(f)
    /\ UNCHANGED <<trainings, snapshots>>

(* export_dataset_audit                                                    *)

\* _verify_training_dataset: the rows are the receipt's.
Ready(f) == view[f]["csv"] = view[f]["index"]

\* A manifest that is there is returned; ffmpeg refuses to overwrite a clip that is.
ExportDatasetAudit ==
    LET f == "export_dataset_audit" IN
    /\ \/ Start(f, {"csv"}, "checking")
       \/ ~Ready(f) /\ Raise(f, "checking")
       \/ /\ Ready(f) /\ view[f]["manifest"] # Missing
          /\ Statement(f, "checking", "committing", Put("manifest", view[f]["manifest"]))
       \/ Ready(f) /\ view[f]["manifest"] = Missing /\ view[f]["clips"] # Missing /\ Raise(f, "checking")
       \/ /\ Ready(f) /\ view[f]["manifest"] = Missing /\ view[f]["clips"] = Missing
          /\ Statement(f, "checking", "rendering", Put("clips", Broken))
       \/ Statement(f, "rendering", "recording", Put("clips", view[f]["csv"]))
       \/ Statement(f, "recording", "committing", Put("manifest", view[f]["csv"]))
       \/ CommitAndReturn(f)
    /\ UNCHANGED <<trainings, snapshots>>

(* publish_training_dataset_snapshot                                       *)

\* A snapshot that is there is not uploaded again; its key is the digest of both files.
PublishSnapshot ==
    LET f == "publish_snapshot"
        snapshot == <<view[f]["csv"], view[f]["index"]>>
    IN
    /\ \/ /\ \/ Start(f, {"csv", "index"}, "checking")
             \/ ~Ready(f) /\ Raise(f, "checking")
             \/ Ready(f) /\ snapshot \in snapshots /\ Raise(f, "checking")
             \/ Raise(f, "verifying")
          /\ UNCHANGED snapshots
       \/ /\ Ready(f) /\ snapshot \notin snapshots /\ Statement(f, "checking", "verifying", Nothing)
          /\ snapshots' = snapshots \cup {snapshot}
    /\ UNCHANGED trainings

(* build_specialist_validation                                             *)

\* The set is built beside its place, of the renders that are there and new ones, and
\* renamed; a build that fails removes what it has built.
BuildValidation ==
    LET f == "build_validation" IN
    /\ \/ Start(f, {}, "building")
       \/ /\ view[f]["validation_set"] # Missing
          /\ Statement(f, "building", "committing", Nothing)
       \/ /\ view[f]["validation_set"] = Missing
          /\ Statement(f, "building", "linking", Remove({"temporary_set"}))
       \/ Statement(f, "linking", "describing", [p \in {"renders", "temporary_set"} |-> Broken])
       \/ Statement(f, "describing", "replacing", Put("temporary_set", 1))
       \/ Statement(f, "describing", "failed", Remove({"temporary_set"}))
       \/ Raise(f, "failed")
       \/ Statement(f, "replacing", "committing",
                    [p \in {"temporary_set", "validation_set"} |->
                        IF p = "validation_set" THEN view[f]["temporary_set"] ELSE Missing])
       \/ CommitAndReturn(f)
    /\ UNCHANGED <<trainings, snapshots>>

(* install_validation_set                                                  *)

\* Mutant: the archive is extracted where the set will be.
InstallSet_InPlace(f) ==
    \/ view[f]["validation_set"] # 1 /\ Statement(f, "extracting", "replacing", Put("validation_set", Broken))
    \/ Statement(f, "replacing", "unlinking", Put("validation_set", 1))

\* The set is extracted and verified beside its place, then renamed.
InstallSet(f) ==
    \/ view[f]["validation_set"] = Missing /\ Statement(f, "extracting", "replacing", Nothing)
    \/ Statement(f, "replacing", "unlinking", Put("validation_set", 1))

InstallValidationSet ==
    LET f == "install_validation_set" IN
    /\ \/ Start(f, {"archive"}, "extracting")
       \/ /\ view[f]["validation_set"] # Missing
          /\ Statement(f, "extracting", "committing", Nothing)
       \/ InstallSet(f)
       \/ Statement(f, "unlinking", "committing", Remove({"archive"}))
       \/ CommitAndReturn(f)
    /\ UNCHANGED <<trainings, snapshots>>

TrainingInit == trainings = 0 /\ snapshots = {}

TrainingStep ==
    \/ PrepareTrainingMetadata \/ TrainSpecialist \/ ExportSpecialist \/ ExportDatasetAudit
    \/ PutIndex \/ PublishSnapshot \/ BuildValidation \/ InstallValidationSet

-----------------------------------------------------------------------------

\* A receipt on the volume that can be read never stands beside predictions of another
\* checkpoint, or beside half-written ones, while a later export clears them away file by
\* file, writes its own, is committed half-way, or dies; some of its own may be gone
\* (export_specialist).
ExportDescribed ==
    volume["export_receipt"] \notin {Missing, Broken} =>
        \A p \in Predictions : volume[p] \in {Missing, volume["export_receipt"]}

\* A validation set that a training or an export can see is whole (install_validation_set).
ValidationSetWhole ==
    /\ volume["validation_set"] # Broken
    /\ \A f \in {"train_specialist", "export_specialist"} : view[f]["validation_set"] # Broken

=============================================================================
