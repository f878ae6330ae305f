--------------------------- MODULE MCTrainingData ---------------------------
(***************************************************************************)
(* The parts of the training-data pipeline for TLC.  They hand each other  *)
(* finished files and share no running state, so one of them moves in each *)
(* behaviour, from every state it may start in.                            *)
(***************************************************************************)
EXTENDS RangeDownload, SourceArchives, ZipSelection, TrainingCorpus, VolumeSystem

VARIABLE subject    \* the part that moves

allVars == <<subject, rangeVars, archiveVars, zipVars, corpusVars, trainingVars>>

MCOffset == <<1, 3, 4>>

\* Archive 1 has a target and a vocal of each composition, archive 2 an accompaniment.
MCComposition(s) == (s[2] + 1) \div 2
MCUsual == [s \in Archives \X FilePaths |->
              [sha256 |-> 8 * s[1] + s[2], composition_id |-> MCComposition(s), sound |-> TRUE]]
MCKindOf == [s \in Archives \X FilePaths |->
              IF s[1] = 2 THEN "negative" ELSE IF s[2] % 2 = 1 THEN "target" ELSE "vocal"]

\* The functions that share files; a validation set is built or installed, and one of the two
\* prefixes, which are alike, is audited.
Together == {{"prepare_training_metadata", "export_dataset_audit", "publish_snapshot"},
             {"prepare_training_metadata", "train_specialist", "export_specialist", "install_validation_set"},
             {"build_validation", "train_specialist"},
             {"acquire_prefix_1", "acquire_prefix_2", "audit_prefix_2"},
             {"curate_nsynth", "prune_nsynth_unselected"},
             {"curate_fsl10k"}, {"curate_idmt_smt_guitar"}, {"curate_onair_music"}, {"audit_rawstems_selection"}}

Init ==
    /\ subject \in {"range", "archive", "zip", "corpus", "volume"}
    /\ RangeInit /\ (subject = "range" \/ checksummed)
    /\ ArchiveInit /\ (subject = "archive" \/ (site = "volume" /\ pinned /\ transcode))
    /\ ZipInit /\ (subject = "zip" \/ (tool = "manifest" /\ wanted = Entries))
    /\ \E together \in Together :
         /\ VolumeStart(together)
         /\ subject = "volume" \/ together = {"curate_fsl10k"}
    /\ IF subject = "corpus" THEN CorpusInit
       ELSE files = Usual /\ corpusPhase = "refused" /\ items = {} /\ recipes = {} /\ budgeted = {}

Next ==
    /\ UNCHANGED subject
    /\ \/ subject = "range" /\ RangeNext /\ UNCHANGED <<archiveVars, zipVars, corpusVars, trainingVars>>
       \/ subject = "archive" /\ ArchiveNext /\ UNCHANGED <<rangeVars, zipVars, corpusVars, trainingVars>>
       \/ subject = "zip" /\ ZipNext /\ UNCHANGED <<rangeVars, archiveVars, corpusVars, trainingVars>>
       \/ subject = "corpus" /\ CorpusNext /\ UNCHANGED <<rangeVars, archiveVars, zipVars, trainingVars>>
       \/ subject = "volume" /\ VolumeStep /\ UNCHANGED <<rangeVars, archiveVars, zipVars, corpusVars>>

\* The steps of the functions and tools that TransfersEnd speaks of: somebody calls them
\* again in the end.
Progress ==
    /\ UNCHANGED subject
    /\ \/ subject = "range" /\ RangeStep /\ UNCHANGED <<archiveVars, zipVars, corpusVars, trainingVars>>
       \/ subject = "archive" /\ site = "volume" /\ Preparation /\ UNCHANGED <<rangeVars, zipVars, corpusVars, trainingVars>>
       \/ subject = "zip" /\ tool = "manifest" /\ ZipStep /\ UNCHANGED <<rangeVars, archiveVars, corpusVars, trainingVars>>

Spec == Init /\ [][Next]_allVars /\ WF_allVars(Progress)

-----------------------------------------------------------------------------

\* While somebody keeps calling them, and however often calls and containers were cut short:
\* acquire_source_file ends with the archive that _download_http_ranges fetched, in whatever
\* splits, prepare_source_archives with its bundle if nothing is transcoded or pinned and no
\* marker was torn, and acquire_remote_zip_manifest with all entries of a manifest that is
\* not revised any more.
TransfersEnd ==
    /\ subject = "range" => EventuallyAcquired
    /\ subject = "archive" => BundlePrepared
    /\ subject = "zip" => ManifestAcquired

=============================================================================
