--------------------------- MODULE SourceArchives ---------------------------
(***************************************************************************)
(* One archive of a training source, on its way to a tree of audio files.  *)
(* At a workstation it is acquired, uploaded, audited and removed again    *)
(* (src/splitter/training_data_acquisition.py, acquire_source_file;        *)
(* src/scripts/audit_training_archive.py).  On the training volume it is   *)
(* acquired, extracted, transcoded and marked                              *)
(* (src/workers/specialist_training_modal.py, prepare_source_archives).    *)
(* Either may be cut short at any statement and called again.              *)
(***************************************************************************)
EXTENDS Naturals, FiniteSets

CONSTANTS
    Contents,     \* what the provider may publish under the path
    Registered,   \* the content whose checksum the registry knows
    Members,      \* audio files of the archive
    MaxCrashes,   \* bound: containers and processes that die
    Absent        \* no file

Torn == "torn"     \* a file cut short
Whole == "whole"   \* a file written to its end

ASSUME ArchiveAssumption ==
    Registered \in Contents /\ Absent \notin Contents \cup Members \cup {Torn, Whole} /\ MaxCrashes \in Nat

VARIABLES
    site,         \* where the functions run: "workstation" or "volume"
    pinned,       \* whether the provider's listing carries a registered checksum
    transcode,    \* whether the bundle's wav files become flac files
    published,    \* what the provider serves now
    disk,         \* the files as the running process sees them
    committed,    \* the files that outlive it
    object,       \* the archive in the object store
    call,         \* the statement reached, and its arguments
    reported,     \* whether prepare_source_archives reported the bundle
    crashes

archiveVars == <<site, pinned, transcode, published, disk, committed, object, call, reported, crashes>>
setting == <<site, pinned, transcode>>

NoReceipt == [sha256 |-> Absent, stored |-> FALSE, remote_readback_verified |-> FALSE]

NoCall == [pc |-> "idle", upload |-> FALSE, delete_after_upload |-> FALSE, listed |-> Absent, sha256 |-> Absent,
           left |-> {}, open |-> Absent]

ArchiveInit ==
    /\ site \in {"workstation", "volume"}
    /\ pinned \in BOOLEAN
    /\ transcode \in BOOLEAN /\ (site = "workstation" => ~transcode)
    /\ published = Registered
    /\ disk = [archive |-> Absent, receipt |-> NoReceipt, wav |-> [m \in Members |-> Absent],
               flac |-> [m \in Members |-> Absent], marker |-> Absent]
    /\ committed = disk
    /\ object = Absent
    /\ call = NoCall
    /\ reported = FALSE /\ crashes = 0

At(pc) == call.pc = pc
GoTo(pc) == call' = [call EXCEPT !.pc = pc]
Return == call' = NoCall

\* The files change; a workstation's outlive the process at once.
Files(d) == disk' = d /\ committed' = IF site = "workstation" THEN d ELSE committed

-----------------------------------------------------------------------------

\* The provider replaces the file.
Replace ==
    /\ published = Registered
    /\ published' \in Contents \ {Registered}
    /\ UNCHANGED <<setting, disk, committed, object, call, reported, crashes>>

\* _verified_existing_receipt: the target is the receipt's file, or the store still has it.
VerifiedExistingReceipt(upload) ==
    /\ disk.receipt # NoReceipt
    /\ IF disk.archive # Absent THEN disk.archive = disk.receipt.sha256
       ELSE upload /\ disk.receipt.stored /\ disk.receipt.remote_readback_verified /\ object # Absent

\* What follows acquire_source_file: the workstation's tool ends; the volume's
\* function needs the file.
Acquired == IF site = "volume" /\ disk.archive # Absent THEN "extracting" ELSE "idle"

\* list_source_files and acquire_source_file up to the download.
Acquire(upload, delete) ==
    /\ At("idle") /\ ~reported
    /\ site = "volume" => disk.marker = Absent /\ ~upload
    /\ delete => upload
    /\ call' = [NoCall EXCEPT
                   !.pc = IF VerifiedExistingReceipt(upload) THEN Acquired ELSE "downloading",
                   !.left = Members, !.upload = upload, !.delete_after_upload = delete,
                   !.listed = IF pinned THEN Registered ELSE published]
    /\ UNCHANGED <<setting, published, disk, committed, object, reported, crashes>>

Download ==
    /\ At("downloading")
    /\ Files([disk EXCEPT !.archive = published])
    /\ GoTo("verifying")
    /\ UNCHANGED <<setting, published, object, reported, crashes>>

\* Mutant: the checksum is not compared.
VerifyProviderChecksum_Skipped ==
    /\ At("verifying")
    /\ call' = [call EXCEPT !.pc = IF call.upload THEN "uploading" ELSE "recording", !.sha256 = disk.archive]
    /\ UNCHANGED <<setting, published, disk, committed, object, reported, crashes>>

\* A file that fails stays where it is.
VerifyProviderChecksum ==
    /\ At("verifying")
    /\ IF disk.archive = call.listed
       THEN call' = [call EXCEPT !.pc = IF call.upload THEN "uploading" ELSE "recording", !.sha256 = disk.archive]
       ELSE Return
    /\ UNCHANGED <<setting, published, disk, committed, object, reported, crashes>>

\* _upload_training_file under the key of the path, whatever was there, and
\* _verify_remote_readback; either may raise.
Upload ==
    /\ At("uploading")
    /\ \/ object' = disk.archive /\ (GoTo(IF call.delete_after_upload THEN "unlinking" ELSE "recording") \/ Return)
       \/ UNCHANGED object /\ Return
    /\ UNCHANGED <<setting, published, disk, committed, reported, crashes>>

Unlink ==
    /\ At("unlinking")
    /\ Files([disk EXCEPT !.archive = Absent])
    /\ GoTo("recording")
    /\ UNCHANGED <<setting, published, object, reported, crashes>>

\* Without an upload the object of an earlier receipt is carried over.
RecordReceipt ==
    /\ At("recording")
    /\ LET verified == call.upload \/ disk.receipt.remote_readback_verified
           stored == call.upload \/ disk.receipt.stored
       IN  Files([disk EXCEPT !.receipt = [sha256 |-> call.sha256, stored |-> stored,
                                            remote_readback_verified |-> verified]])
    /\ call' = [call EXCEPT !.pc = Acquired, !.left = Members]
    /\ UNCHANGED <<setting, published, object, reported, crashes>>

-----------------------------------------------------------------------------
(* prepare_source_archives, one bundle.                                    *)

\* The member's file is open, and torn until it is closed.
OpenMember(m) ==
    /\ m \in call.left /\ call.open = Absent
    /\ call' = [call EXCEPT !.open = m, !.left = @ \ {m}]

CloseMember(m) == call.open = m /\ call' = [call EXCEPT !.open = Absent]

NoneLeft == call.left = {} /\ call.open = Absent

\* _extract_archive writes every member, over what was there.
ExtractMember(m) ==
    /\ At("extracting")
    /\ \/ OpenMember(m) /\ Files([disk EXCEPT !.wav[m] = Torn])
       \/ CloseMember(m) /\ Files([disk EXCEPT !.wav[m] = disk.archive])
    /\ UNCHANGED <<setting, published, object, reported, crashes>>

DropArchive ==
    /\ At("extracting") /\ NoneLeft
    /\ Files([disk EXCEPT !.archive = Absent])
    /\ call' = [call EXCEPT !.pc = IF transcode THEN "transcoding" ELSE "marking",
                            !.left = {m \in Members : disk.wav[m] # Absent}]
    /\ UNCHANGED <<setting, published, object, reported, crashes>>

\* ffmpeg refuses to overwrite, and then the function raises; the wav file goes last.
TranscodeMember(m) ==
    /\ At("transcoding")
    /\ \/ disk.flac[m] = Absent /\ OpenMember(m) /\ Files([disk EXCEPT !.flac[m] = Torn])
       \/ disk.flac[m] # Absent /\ m \in call.left /\ call.open = Absent /\ Return /\ UNCHANGED <<disk, committed>>
       \/ CloseMember(m) /\ Files([disk EXCEPT !.flac[m] = disk.wav[m], !.wav[m] = Absent])
    /\ UNCHANGED <<setting, published, object, reported, crashes>>

\* write_text opens the marker and fills it.
WriteMarker ==
    /\ \/ At("transcoding") /\ NoneLeft /\ Files([disk EXCEPT !.marker = Torn]) /\ GoTo("describing")
       \/ At("marking") /\ Files([disk EXCEPT !.marker = Torn]) /\ GoTo("describing")
       \/ At("describing") /\ Files([disk EXCEPT !.marker = Whole]) /\ GoTo("committing")
    /\ UNCHANGED <<setting, published, object, reported, crashes>>

\* training_volume.commit.
CommitVolume ==
    /\ At("committing")
    /\ committed' = disk
    /\ reported' = TRUE
    /\ Return
    /\ UNCHANGED <<setting, published, disk, object, crashes>>

\* Mutant: the directory is taken for the marker.
SkipMarked_AnyMember ==
    /\ At("idle") /\ site = "volume"
    /\ disk.marker = Whole \/ \E m \in Members : disk.wav[m] # Absent
    /\ reported' = TRUE
    /\ UNCHANGED <<setting, published, disk, committed, object, call, crashes>>

\* A bundle with its marker is reported as it was; a torn marker is read as well, and the
\* function raises.
SkipMarked ==
    /\ At("idle") /\ site = "volume"
    /\ disk.marker = Whole
    /\ reported' = TRUE
    /\ UNCHANGED <<setting, published, disk, committed, object, call, crashes>>

-----------------------------------------------------------------------------
(* audit_training_archive.py; its tree is rebuilt by every call.           *)

\* restore_archive_from_receipt, if the archive is gone; other bytes are removed again.
RestoreArchive(cleanup) ==
    /\ At("idle") /\ site = "workstation" /\ disk.receipt # NoReceipt
    /\ disk.archive = Absent => disk.receipt.stored /\ object # Absent
    /\ LET restored == IF disk.archive # Absent THEN disk.archive
                       ELSE IF object = disk.receipt.sha256 THEN object ELSE Absent
       IN  /\ Files([disk EXCEPT !.archive = restored])
           /\ call' = [call EXCEPT !.pc = IF restored # Absent /\ cleanup /\ disk.receipt.remote_readback_verified
                                          THEN "cleaning" ELSE "idle"]
    /\ UNCHANGED <<setting, published, object, reported, crashes>>

CleanUp ==
    /\ At("cleaning")
    /\ Files([disk EXCEPT !.archive = Absent])
    /\ Return
    /\ UNCHANGED <<setting, published, object, reported, crashes>>

-----------------------------------------------------------------------------

\* The container dies with what was not committed, or the workstation's process dies.
Crash ==
    /\ crashes < MaxCrashes /\ ~At("idle")
    /\ crashes' = crashes + 1
    /\ disk' = committed
    /\ Return
    /\ UNCHANGED <<setting, published, committed, object, reported>>

\* Modal commits a running container's volume by itself.
BackgroundCommit ==
    /\ site = "volume" /\ ~At("idle")
    /\ committed' = disk
    /\ UNCHANGED <<setting, published, disk, object, call, reported, crashes>>

Preparation ==
    \/ Acquire(FALSE, FALSE) \/ Download \/ VerifyProviderChecksum \/ RecordReceipt
    \/ DropArchive \/ WriteMarker \/ CommitVolume \/ SkipMarked
    \/ \E m \in Members : ExtractMember(m) \/ TranscodeMember(m)

ArchiveNext ==
    \/ Preparation
    \/ \E delete \in BOOLEAN : Acquire(TRUE, delete)
    \/ Upload \/ Unlink
    \/ \E cleanup \in BOOLEAN : RestoreArchive(cleanup)
    \/ CleanUp \/ Replace \/ Crash \/ BackgroundCommit

ArchiveSpec == ArchiveInit /\ [][ArchiveNext]_archiveVars /\ WF_archiveVars(site = "volume" /\ Preparation)

-----------------------------------------------------------------------------

\* Where the registry pins the checksum, a receipt that says the archive was read back
\* names bytes that the object store holds: after every upload, deletion, clean-up,
\* crash and replacement by the provider the archive can be restored
\* (acquire_source_file, audit_training_archive.py --cleanup).
VerifiedIsRestorable ==
    pinned /\ disk.receipt.remote_readback_verified => disk.receipt.stored /\ object = disk.receipt.sha256

\* A bundle that is reported, or carries a marker, even a torn one, where a later container
\* finds it, has all its files whole and of one archive (prepare_source_archives).
ReportedIsWhole ==
    reported \/ committed.marker # Absent =>
        \E c \in Contents : \A m \in Members : (IF transcode THEN committed.flac[m] ELSE committed.wav[m]) = c

\* A container died inside the write of the marker, and the half of it had been committed:
\* no later call gets past it.
MarkerLeftTorn == At("idle") /\ disk.marker = Torn

\* However often containers die elsewhere, a bundle that is not transcoded is prepared in the
\* end (prepare_source_archives); one that is may be stuck at ffmpeg's refusal.
BundlePrepared == site = "volume" /\ ~transcode /\ ~pinned => <>(reported \/ MarkerLeftTorn)

=============================================================================
