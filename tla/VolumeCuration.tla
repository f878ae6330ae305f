--------------------------- MODULE VolumeCuration ---------------------------
(***************************************************************************)
(* Acquiring, curating, auditing and pruning of sources on the volume of   *)
(* the training application (src/workers/specialist_training_modal.py).    *)
(* A Hugging Face source has two prefixes of two files each, which share   *)
(* one receipt; a function that is called with either is two here.  Of the *)
(* NSynth notes that the labels select, the audit rejects some.            *)
(***************************************************************************)
EXTENDS ModalVolume

\* The prefixes: who acquires one and who audits it, its files, its rows and their report.
Prefixes == 1 .. 2
AcquirerOf == <<"acquire_prefix_1", "acquire_prefix_2">>
AuditorOf == <<"audit_prefix_1", "audit_prefix_2">>
FirstOf == <<"part_1a", "part_2a">>
PartsOf == <<{FirstOf[1], "part_1b"}, {FirstOf[2], "part_2b"}>>
ItemsOf == <<"items_1", "items_2">>
ReportOf == <<"report_1", "report_2">>

\* The files that a function reads or writes.
CurationTouched == [f \in {"acquire_prefix_1", "acquire_prefix_2", "audit_prefix_1", "audit_prefix_2",
        "curate_nsynth", "prune_nsynth_unselected", "curate_fsl10k", "curate_idmt_smt_guitar",
        "curate_onair_music", "audit_rawstems_selection"} |->
    CASE f = "acquire_prefix_1" -> PartsOf[1] \cup {"prefix_receipt"}
      [] f = "acquire_prefix_2" -> PartsOf[2] \cup {"prefix_receipt"}
      [] f = "audit_prefix_1" -> PartsOf[1] \cup {"prefix_receipt", "items_1", "report_1"}
      [] f = "audit_prefix_2" -> PartsOf[2] \cup {"prefix_receipt", "items_2", "report_2"}
      [] f = "curate_nsynth" -> {"notes", "notes_curation", "notes_items", "notes_report"}
      [] f = "prune_nsynth_unselected" -> {"notes", "notes_items"}
      [] f = "curate_fsl10k" -> {"loops", "loop_selection", "loop_curation", "loop_items", "loop_report"}
      [] f = "curate_idmt_smt_guitar" -> {"guitars", "guitar_curation", "guitar_items", "guitar_report"}
      [] f = "curate_onair_music" -> {"onair", "onair_curation", "onair_items", "onair_report"}
      [] f = "audit_rawstems_selection" -> {"rawstems", "rawstems_receipt", "rawstems_items", "rawstems_report"}]

\* What an extraction or a selection has put on the volume.
CurationFiles == {"notes", "loops", "guitars", "onair", "rawstems", "rawstems_receipt"}

AllNotes == 1
AcceptedNotes == 2   \* those that the audit accepts
SomeNotes == 3       \* those and some others; Broken: not all of those

-----------------------------------------------------------------------------

\* audit_training_tree: the rows, then their report; it raises when it finds no audio.
AuditTree(f, from, found, items, report, value) ==
    \/ ~found /\ Raise(f, from)
    \/ found /\ Statement(f, from, "writing_items", Put(items, Broken))
    \/ Statement(f, "writing_items", "writing_report", Put(items, value))
    \/ Statement(f, "writing_report", "committing", Put(report, value))

(* acquire_huggingface_prefix                                              *)

\* A file of the size that the provider gives is kept; one of another size is Broken.
WholeIn(f, x) == \A p \in PartsOf[x] : view[f][p] = 1

\* Mutant: the receipt is written when the files are listed.
WritePrefixReceipt_First(f, x) ==
    \/ Statement(f, "listing", "downloading", Put("prefix_receipt", x))
    \/ WholeIn(f, x) /\ Statement(f, "downloading", "committing", Nothing)

\* The receipt of this prefix is written over any other's when every file has been downloaded
\* or is there; it is torn until its text is out.
WritePrefixReceipt(f, x) ==
    \/ Statement(f, "listing", "downloading", Nothing)
    \/ WholeIn(f, x) /\ Statement(f, "downloading", "writing", Put("prefix_receipt", Broken))
    \/ Statement(f, "writing", "committing", Put("prefix_receipt", x))

\* The library renames a file into its place; one of the wrong size, or a failed download,
\* makes it raise.  What it has is committed from time to time.
AcquirePrefix(x) ==
    LET f == AcquirerOf[x] IN
    \/ Start(f, {}, "listing")
    \/ WritePrefixReceipt(f, x)
    \/ \E p \in PartsOf[x] :
         /\ view[f][p] # 1 /\ (p = FirstOf[x] \/ view[f][FirstOf[x]] = 1)
         /\ \/ Statement(f, "downloading", "downloading", Put(p, 1))
            \/ Statement(f, "downloading", "mismatched", Put(p, Broken))
    \/ Raise(f, "downloading") \/ Raise(f, "mismatched")
    \/ CommitAndReturn(f)

(* audit_registered_tree                                                   *)

AllRows == 1      \* rows under their prefix's receipt, of every file of it
SomeRows == 2     \* the same, but not of every file
OtherRows == 3    \* rows under the other prefix's receipt, or a torn one

\* The rows of the files that are there, with the checksum of the receipt.
RowsIn(f, x) ==
    IF view[f]["prefix_receipt"] # x THEN OtherRows ELSE IF WholeIn(f, x) THEN AllRows ELSE SomeRows

\* That there is a receipt is all that is asked of it.
AuditRegisteredTree(x) ==
    LET f == AuditorOf[x] IN
    \/ Start(f, {"prefix_receipt"}, "auditing")
    \/ AuditTree(f, "auditing", \E p \in PartsOf[x] : view[f][p] # Missing, ItemsOf[x], ReportOf[x], RowsIn(f, x))
    \/ CommitAndReturn(f)

(* curate_idmt_smt_guitar, curate_onair_music, curate_nsynth               *)

\* The audio that the labels select is written down and audited where it is.
Curate(f, audio, curation, items, report) ==
    \/ Start(f, {audio}, "selecting")
    \/ Statement(f, "selecting", "auditing", Put(curation, 1))
    \/ AuditTree(f, "auditing", TRUE, items, report, 1)
    \/ CommitAndReturn(f)

CurateIdmtSmtGuitar ==
    Curate("curate_idmt_smt_guitar", "guitars", "guitar_curation", "guitar_items", "guitar_report")

\* No name of a wind or brass stem makes it raise.
CurateOnairMusic ==
    \/ Raise("curate_onair_music", "selecting")
    \/ Curate("curate_onair_music", "onair", "onair_curation", "onair_items", "onair_report")

\* A note that the labels select and that is not there makes it raise.
CurateNsynth ==
    LET f == "curate_nsynth" IN
    \/ view[f]["notes"] # AllNotes /\ Raise(f, "selecting")
    \/ /\ reached[f] = "selecting" => view[f]["notes"] = AllNotes
       /\ Curate(f, "notes", "notes_curation", "notes_items", "notes_report")

(* audit_rawstems_selection                                                *)

AuditRawstems ==
    LET f == "audit_rawstems_selection" IN
    \/ Start(f, {"rawstems_receipt"}, "auditing")
    \/ AuditTree(f, "auditing", view[f]["rawstems"] # Missing, "rawstems_items", "rawstems_report", 1)
    \/ CommitAndReturn(f)

(* prune_nsynth_unselected                                                 *)

\* The notes that the rows accept stay, the others go one by one and only then are counted.
\* Rows cut off inside a line do not load; rows cut off between two are taken for all.
PruneNsynth ==
    LET f == "prune_nsynth_unselected" IN
    \/ Start(f, {"notes_items"}, "reading")
    \/ Broken \in {view[f]["notes_items"], view[f]["notes"]} /\ Raise(f, "reading")
    \/ /\ view[f]["notes_items"] # Broken /\ view[f]["notes"] # Broken
       /\ \/ Statement(f, "reading", "unlinking", Put("notes", SomeNotes))
          \/ Statement(f, "unlinking", "committing", Put("notes", AcceptedNotes))
    \/ view[f]["notes_items"] = Broken /\ Statement(f, "reading", "unlinking", Put("notes", Broken))
    \/ Broken \in {view[f]["notes_items"], view[f]["notes"]} /\ Raise(f, "unlinking")
    \/ CommitAndReturn(f)

(* curate_fsl10k                                                           *)

\* The loops that text and annotations select are copied beside the others, one by one, and
\* the copies audited; a copy that is there is kept, whatever it is.
CurateFsl10k ==
    LET f == "curate_fsl10k" IN
    \/ Start(f, {"loops"}, "copying")
    \/ /\ view[f]["loop_selection"] = Missing
       /\ Statement(f, "copying", "copying_on", Put("loop_selection", Broken))
    \/ Statement(f, "copying_on", "recording", Put("loop_selection", 1))
    \/ view[f]["loop_selection"] # Missing /\ Statement(f, "copying", "recording", Nothing)
    \/ Statement(f, "recording", "auditing", Put("loop_curation", 1))
    \/ AuditTree(f, "auditing", TRUE, "loop_items", "loop_report", view[f]["loop_selection"])
    \/ CommitAndReturn(f)

CurationStep ==
    \/ \E x \in Prefixes : AcquirePrefix(x) \/ AuditRegisteredTree(x)
    \/ CurateNsynth \/ PruneNsynth \/ CurateFsl10k
    \/ CurateIdmtSmtGuitar \/ CurateOnairMusic \/ AuditRawstems

-----------------------------------------------------------------------------

\* A receipt on the volume is that of a prefix whose files are all there, and rows under the
\* receipt of their own prefix are of every file of it, although an acquisition commits in
\* part, dies, or goes on while the other prefix is acquired, the receipt overwritten or
\* either audited.  That rows are under their own prefix's receipt is not asked
\* (acquire_huggingface_prefix, audit_registered_tree).
PrefixAudited ==
    \A x \in Prefixes :
        /\ volume["prefix_receipt"] = x => \A p \in PartsOf[x] : volume[p] = 1
        /\ volume[ItemsOf[x]] # SomeRows

=============================================================================
