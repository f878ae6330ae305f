-------------------------- MODULE TrainingProofs --------------------------
(*************************************************************************)
(* The theorems of the training-data pipeline, for any files, entries,   *)
(* items, interruptions and order of the functions on the volume.  A     *)
(* section for each part: its inductive invariant, one lemma per action, *)
(* and what follows.                                                     *)
(*************************************************************************)
EXTENDS RangeDownload, SourceArchives, ZipSelection, TrainingCorpus, VolumeSystem,
        Counting, FiniteSetTheorems, TLAPS

-----------------------------------------------------------------------------
(*************************************************************************)
(* The acquisition of an archive: what is reported is whole, and what is *)
(* verified can be restored.                                             *)
(*************************************************************************)

ArchiveFiles == Contents \cup {Absent}
MemberFiles == ArchiveFiles \cup {Torn}
ArchivePcs == {"idle", "downloading", "verifying", "uploading", "unlinking", "recording", "extracting",
               "transcoding", "marking", "describing", "committing", "cleaning"}
DiskStates == [archive : ArchiveFiles,
               receipt : [sha256 : ArchiveFiles, stored : BOOLEAN, remote_readback_verified : BOOLEAN],
               wav : [Members -> MemberFiles], flac : [Members -> MemberFiles], marker : {Absent, Torn, Whole}]
ArchiveCalls == [pc : ArchivePcs, upload : BOOLEAN, delete_after_upload : BOOLEAN, listed : ArchiveFiles,
                 sha256 : ArchiveFiles, left : SUBSET Members, open : Members \cup {Absent}]

ArchiveTypeOK ==
    /\ site \in {"workstation", "volume"} /\ pinned \in BOOLEAN /\ transcode \in BOOLEAN
    /\ published \in Contents
    /\ disk \in DiskStates /\ committed \in DiskStates
    /\ object \in ArchiveFiles
    /\ call \in ArchiveCalls
    /\ reported \in BOOLEAN /\ crashes \in Nat

\* What a verified receipt on either copy of the files says.
ReceiptKept(d) ==
    /\ d.receipt.sha256 \in {Absent, Registered}
    /\ d.receipt.remote_readback_verified =>
         d.receipt.stored /\ d.receipt.sha256 = Registered /\ object = Registered

\* With a pinned checksum nothing but the registered bytes gets past the verification.
PinnedBytes ==
    pinned =>
        /\ ReceiptKept(disk) /\ ReceiptKept(committed)
        /\ call.pc \in {"downloading", "verifying"} => call.listed = Registered
        /\ call.pc = "uploading" => disk.archive = Registered
        /\ call.pc \in {"uploading", "unlinking", "recording"} => call.sha256 = Registered
        /\ call.pc \in {"unlinking", "recording"} /\ call.upload => object = Registered

\* The files of the bundle are whole and of one archive.
WholeBundle(d) == \E c \in Contents : \A m \in Members : (IF transcode THEN d.flac[m] ELSE d.wav[m]) = c

PreparedSoFar ==
    /\ call.pc = "extracting" =>
         /\ disk.archive \in Contents
         /\ \A m \in Members : m \notin call.left \cup {call.open} => disk.wav[m] = disk.archive
    /\ call.pc = "transcoding" =>
         /\ transcode /\ call.open \notin call.left
         /\ \E c \in Contents : \A m \in Members :
              IF m \in call.left \cup {call.open} THEN disk.wav[m] = c ELSE disk.flac[m] = c
    /\ call.pc = "marking" => ~transcode /\ WholeBundle(disk)
    /\ call.pc = "describing" => disk.marker = Torn
    /\ call.pc = "committing" => disk.marker = Whole

MarkerWhole ==
    /\ call.pc \in {"extracting", "transcoding", "marking", "describing", "committing"} => site = "volume"
    /\ disk.marker # Absent =>
         site = "volume" /\ call.pc \in {"idle", "describing", "committing"} /\ WholeBundle(disk)
    /\ disk.marker = Whole /\ call.pc = "idle" => committed.marker = Whole
    /\ committed.marker # Absent => disk.marker # Absent /\ WholeBundle(committed)
    /\ committed.marker = Whole => committed = disk
    /\ reported => committed.marker = Whole
    /\ site = "workstation" => committed = disk

ArchiveInv == ArchiveTypeOK /\ PinnedBytes /\ PreparedSoFar /\ MarkerWhole

\* The kinds of files, and a call that has not begun.
LEMMA ArchiveKinds ==
    /\ Contents \subseteq ArchiveFiles /\ Absent \in ArchiveFiles
    /\ ArchiveFiles \subseteq MemberFiles /\ Torn \in MemberFiles
    /\ NoCall \in ArchiveCalls /\ NoCall.pc = "idle"
    /\ \A x \in ArchiveFiles : x # Absent => x \in Contents
  BY DEF ArchiveFiles, MemberFiles, NoCall, ArchiveCalls, ArchivePcs

\* An acquired archive is extracted, or the call is over.
LEMMA AcquiredPlaces == Acquired \in {"extracting", "idle"}
  BY DEF Acquired

\* The files of a bundle have their types.
LEMMA DiskMembers ==
    ASSUME disk \in DiskStates, NEW m \in Members, NEW x \in MemberFiles, NEW y \in MemberFiles
    PROVE  [disk EXCEPT !.flac[m] = x, !.wav[m] = y] \in DiskStates
  BY DEF DiskStates

\* Opening and closing a member is all that its statement does to the call.
LEMMA MemberCalls ==
    ASSUME ArchiveTypeOK, NEW m \in Members, OpenMember(m) \/ CloseMember(m)
    PROVE  call' \in ArchiveCalls /\ call'.pc = call.pc
  BY DEF ArchiveTypeOK, ArchiveCalls, OpenMember, CloseMember

\* Every step of an acquisition keeps the types.
LEMMA ArchiveTypes ==
    ASSUME ArchiveTypeOK, [ArchiveNext]_archiveVars PROVE ArchiveTypeOK'
  <1> USE ArchiveAssumption, ArchiveKinds DEF ArchiveTypeOK, setting, At, GoTo, Return, Files
  <1>1. ASSUME Replace PROVE ArchiveTypeOK'
    BY <1>1 DEF Replace
  <1>2. ASSUME NEW upload \in BOOLEAN, NEW delete \in BOOLEAN, Acquire(upload, delete) PROVE ArchiveTypeOK'
    <2>1. call' \in ArchiveCalls
      <3>1. (IF pinned THEN Registered ELSE published) \in ArchiveFiles
        BY ArchiveAssumption
      <3>2. (IF VerifiedExistingReceipt(upload) THEN Acquired ELSE "downloading") \in ArchivePcs
        BY AcquiredPlaces DEF ArchivePcs
      <3>3. QED
        BY <1>2, <3>1, <3>2 DEF Acquire, ArchiveCalls
    <2>2. QED
      BY <1>2, <2>1 DEF Acquire
  <1>3. ASSUME Download PROVE ArchiveTypeOK'
    <2>1. call' \in ArchiveCalls
      BY <1>3 DEF Download, ArchiveCalls, ArchivePcs
    <2>2. disk' \in DiskStates /\ committed' \in DiskStates
      BY <1>3 DEF Download, DiskStates
    <2>3. QED
      BY <1>3, <2>1, <2>2 DEF Download
  <1>4. ASSUME VerifyProviderChecksum PROVE ArchiveTypeOK'
    <2>1. call' \in ArchiveCalls
      BY <1>4, ZenonT(30) DEF VerifyProviderChecksum, ArchiveCalls, ArchivePcs
    <2>2. disk' \in DiskStates /\ committed' \in DiskStates
      BY <1>4 DEF VerifyProviderChecksum, DiskStates
    <2>3. QED
      BY <1>4, <2>1, <2>2 DEF VerifyProviderChecksum
  <1>5. ASSUME Upload PROVE ArchiveTypeOK'
    <2>1. call' \in ArchiveCalls
      BY <1>5 DEF Upload, ArchiveCalls, ArchivePcs
    <2>2. object' \in ArchiveFiles
      BY <1>5 DEF Upload, DiskStates
    <2>3. QED
      BY <1>5, <2>1, <2>2 DEF Upload
  <1>6. ASSUME Unlink PROVE ArchiveTypeOK'
    <2>1. call' \in ArchiveCalls
      BY <1>6 DEF Unlink, ArchiveCalls, ArchivePcs
    <2>2. disk' \in DiskStates /\ committed' \in DiskStates
      BY <1>6 DEF Unlink, DiskStates
    <2>3. QED
      BY <1>6, <2>1, <2>2 DEF Unlink
  <1>7. ASSUME RecordReceipt PROVE ArchiveTypeOK'
    <2>1. call' \in ArchiveCalls
      BY <1>7, AcquiredPlaces DEF RecordReceipt, ArchiveCalls, ArchivePcs
    <2>2. disk' \in DiskStates
      <3> DEFINE receipt == [sha256 |-> call.sha256, stored |-> call.upload \/ disk.receipt.stored,
                             remote_readback_verified |-> call.upload \/ disk.receipt.remote_readback_verified]
      <3>1. disk' = [disk EXCEPT !.receipt = receipt]
        BY <1>7 DEF RecordReceipt
      <3>2. receipt \in [sha256 : ArchiveFiles, stored : BOOLEAN, remote_readback_verified : BOOLEAN]
        BY DEF ArchiveCalls, DiskStates
      <3>3. QED
        BY <3>1, <3>2 DEF DiskStates
    <2>3. committed' \in DiskStates
      BY <1>7, <2>2 DEF RecordReceipt
    <2>4. QED
      BY <1>7, <2>1, <2>2, <2>3 DEF RecordReceipt
  <1>8. ASSUME NEW m \in Members, ExtractMember(m) PROVE ArchiveTypeOK'
    <2>1. call' \in ArchiveCalls
      BY <1>8, MemberCalls DEF ExtractMember
    <2>2. disk' \in DiskStates /\ committed' \in DiskStates
      BY <1>8 DEF ExtractMember, DiskStates
    <2>3. QED
      BY <1>8, <2>1, <2>2 DEF ExtractMember
  <1>9. ASSUME DropArchive PROVE ArchiveTypeOK'
    <2>1. call' \in ArchiveCalls
      BY <1>9 DEF DropArchive, NoneLeft, ArchiveCalls, ArchivePcs
    <2>2. disk' \in DiskStates /\ committed' \in DiskStates
      BY <1>9 DEF DropArchive, NoneLeft, DiskStates
    <2>3. QED
      BY <1>9, <2>1, <2>2 DEF DropArchive, NoneLeft
  <1>10. ASSUME NEW m \in Members, TranscodeMember(m) PROVE ArchiveTypeOK'
    <2>1. call' \in ArchiveCalls
      BY <1>10, MemberCalls DEF TranscodeMember
    <2>2. PICK x \in MemberFiles, y \in MemberFiles :
            disk' \in {disk, [disk EXCEPT !.flac[m] = x, !.wav[m] = y]}
      <3>1. disk.wav[m] \in MemberFiles
        BY DEF DiskStates
      <3>2. [disk EXCEPT !.flac[m] = Torn] = [disk EXCEPT !.flac[m] = Torn, !.wav[m] = disk.wav[m]]
        BY DEF DiskStates
      <3>3. QED
        BY <1>10, <3>1, <3>2 DEF TranscodeMember
    <2>3. disk' \in DiskStates
      <3>1. disk \in DiskStates /\ m \in Members
        BY <1>10
      <3>2. [disk EXCEPT !.flac[m] = x, !.wav[m] = y] \in DiskStates
        BY <3>1, DiskMembers, Zenon
      <3>3. QED
        BY <3>1, <3>2, <2>2, Zenon
    <2>4. committed' \in DiskStates
      BY <1>10, <2>3 DEF TranscodeMember
    <2>5. QED
      BY <1>10, <2>1, <2>3, <2>4 DEF TranscodeMember
  <1>11. ASSUME WriteMarker PROVE ArchiveTypeOK'
    <2>1. call' \in ArchiveCalls
      BY <1>11 DEF WriteMarker, NoneLeft, ArchiveCalls, ArchivePcs
    <2>2. disk' \in DiskStates /\ committed' \in DiskStates
      BY <1>11 DEF WriteMarker, NoneLeft, DiskStates
    <2>3. QED
      BY <1>11, <2>1, <2>2 DEF WriteMarker, NoneLeft
  <1>12. ASSUME CommitVolume PROVE ArchiveTypeOK'
    <2>1. call' \in ArchiveCalls
      BY <1>12 DEF CommitVolume, ArchiveCalls, ArchivePcs
    <2>2. disk' \in DiskStates /\ committed' \in DiskStates
      BY <1>12 DEF CommitVolume, DiskStates
    <2>3. QED
      BY <1>12, <2>1, <2>2 DEF CommitVolume
  <1>13. ASSUME SkipMarked PROVE ArchiveTypeOK'
    BY <1>13 DEF SkipMarked
  <1>14. ASSUME NEW cleanup \in BOOLEAN, RestoreArchive(cleanup) PROVE ArchiveTypeOK'
    <2>1. call' \in ArchiveCalls
      BY <1>14 DEF RestoreArchive, ArchiveCalls, ArchivePcs
    <2>2. disk' \in DiskStates /\ committed' \in DiskStates
      BY <1>14 DEF RestoreArchive, DiskStates
    <2>3. QED
      BY <1>14, <2>1, <2>2 DEF RestoreArchive
  <1>15. ASSUME CleanUp PROVE ArchiveTypeOK'
    <2>1. call' \in ArchiveCalls
      BY <1>15 DEF CleanUp, ArchiveCalls, ArchivePcs
    <2>2. disk' \in DiskStates /\ committed' \in DiskStates
      BY <1>15 DEF CleanUp, DiskStates
    <2>3. QED
      BY <1>15, <2>1, <2>2 DEF CleanUp
  <1>16. ASSUME Crash PROVE ArchiveTypeOK'
    <2>1. call' \in ArchiveCalls
      BY <1>16 DEF Crash, ArchiveCalls, ArchivePcs
    <2>2. disk' \in DiskStates /\ committed' \in DiskStates
      BY <1>16 DEF Crash, DiskStates
    <2>3. QED
      BY <1>16, <2>1, <2>2 DEF Crash
  <1>17. ASSUME BackgroundCommit PROVE ArchiveTypeOK'
    BY <1>17 DEF BackgroundCommit
  <1>18. CASE UNCHANGED archiveVars
    BY <1>18 DEF archiveVars
  <1>19. QED
    BY <1>1, <1>2, <1>3, <1>4, <1>5, <1>6, <1>7, <1>8, <1>9, <1>10, <1>11, <1>12, <1>13, <1>14, <1>15,
       <1>16, <1>17, <1>18
    DEF ArchiveNext, Preparation

\* Nothing but the registered bytes gets past a pinned checksum.
LEMMA PinnedSteps ==
    ASSUME ArchiveTypeOK, PinnedBytes, [ArchiveNext]_archiveVars PROVE PinnedBytes'
  <1> USE ArchiveAssumption
      DEF ArchiveTypeOK, DiskStates, ArchiveCalls, PinnedBytes, ReceiptKept, setting, At, GoTo, Return,
          NoCall, NoReceipt, Files
  <1>1. ASSUME Replace PROVE PinnedBytes'
    BY <1>1 DEF Replace
  <1>2. ASSUME NEW upload \in BOOLEAN, NEW delete \in BOOLEAN, Acquire(upload, delete) PROVE PinnedBytes'
    BY <1>2 DEF Acquire, VerifiedExistingReceipt, Acquired, NoCall
  <1>3. ASSUME Download PROVE PinnedBytes'
    BY <1>3 DEF Download
  <1>4. ASSUME VerifyProviderChecksum PROVE PinnedBytes'
    <2>1. CASE disk.archive = call.listed
      BY <1>4, <2>1, ZenonT(30) DEF VerifyProviderChecksum
    <2>2. CASE disk.archive # call.listed
      BY <1>4, <2>2 DEF VerifyProviderChecksum
    <2>3. QED
      BY <2>1, <2>2
  <1>5. ASSUME Upload PROVE PinnedBytes'
    BY <1>5 DEF Upload
  <1>6. ASSUME Unlink PROVE PinnedBytes'
    BY <1>6 DEF Unlink
  <1>7. ASSUME RecordReceipt PROVE PinnedBytes'
    BY <1>7 DEF RecordReceipt, Acquired
  <1>8. ASSUME NEW m \in Members, ExtractMember(m) PROVE PinnedBytes'
    BY <1>8, ZenonT(30) DEF ExtractMember, OpenMember, CloseMember, Torn
  <1>9. ASSUME DropArchive PROVE PinnedBytes'
    BY <1>9 DEF DropArchive, NoneLeft
  <1>10. ASSUME NEW m \in Members, TranscodeMember(m) PROVE PinnedBytes'
    <2>1. disk'.receipt = disk.receipt /\ committed' \in {committed, disk'} /\ UNCHANGED <<pinned, object>>
      BY <1>10 DEF TranscodeMember
    <2>2. call'.pc \in {"transcoding", "idle"}
      BY <1>10, MemberCalls DEF TranscodeMember
    <2>3. QED
      BY <2>1, <2>2
  <1>11. ASSUME WriteMarker PROVE PinnedBytes'
    BY <1>11 DEF WriteMarker, NoneLeft
  <1>12. ASSUME CommitVolume PROVE PinnedBytes'
    BY <1>12 DEF CommitVolume
  <1>13. ASSUME SkipMarked PROVE PinnedBytes'
    BY <1>13 DEF SkipMarked
  <1>14. ASSUME NEW cleanup \in BOOLEAN, RestoreArchive(cleanup) PROVE PinnedBytes'
    BY <1>14 DEF RestoreArchive
  <1>15. ASSUME CleanUp PROVE PinnedBytes'
    BY <1>15 DEF CleanUp
  <1>16. ASSUME Crash PROVE PinnedBytes'
    BY <1>16 DEF Crash
  <1>17. ASSUME BackgroundCommit PROVE PinnedBytes'
    BY <1>17 DEF BackgroundCommit
  <1>18. CASE UNCHANGED archiveVars
    BY <1>18 DEF archiveVars
  <1>19. QED
    BY <1>1, <1>2, <1>3, <1>4, <1>5, <1>6, <1>7, <1>8, <1>9, <1>10, <1>11, <1>12, <1>13, <1>14, <1>15,
       <1>16, <1>17, <1>18
    DEF ArchiveNext, Preparation

\* What is extracted and transcoded is of one archive.
LEMMA PreparedSteps ==
    ASSUME ArchiveTypeOK, MarkerWhole, PreparedSoFar, [ArchiveNext]_archiveVars PROVE PreparedSoFar'
  <1> USE ArchiveAssumption
      DEF PreparedSoFar, WholeBundle, setting, At, GoTo, Return, Files, ArchiveTypeOK, DiskStates,
          ArchiveCalls
  <1>1. ASSUME Replace PROVE PreparedSoFar'
    BY <1>1 DEF Replace
  <1>2. ASSUME NEW upload \in BOOLEAN, NEW delete \in BOOLEAN, Acquire(upload, delete) PROVE PreparedSoFar'
    BY <1>2 DEF Acquire, Acquired, NoCall, ArchiveFiles
  <1>3. ASSUME Download PROVE PreparedSoFar'
    BY <1>3 DEF Download
  <1>4. ASSUME VerifyProviderChecksum PROVE PreparedSoFar'
    <2>1. CASE disk.archive = call.listed
      <3>1. /\ call.pc = "verifying" /\ call'.pc \in {"uploading", "recording"}
            /\ UNCHANGED <<disk, committed, site, transcode, reported>>
        BY <1>4, <2>1, ZenonT(30) DEF VerifyProviderChecksum
      <3>2. QED
        BY <3>1
    <2>2. CASE disk.archive # call.listed
      BY <1>4, <2>2 DEF VerifyProviderChecksum, NoCall
    <2>3. QED
      BY <2>1, <2>2
  <1>5. ASSUME Upload PROVE PreparedSoFar'
    BY <1>5 DEF Upload, NoCall
  <1>6. ASSUME Unlink PROVE PreparedSoFar'
    BY <1>6 DEF Unlink
  <1>7. ASSUME RecordReceipt PROVE PreparedSoFar'
    BY <1>7 DEF RecordReceipt, Acquired, ArchiveFiles
  <1>8. ASSUME NEW m \in Members, ExtractMember(m) PROVE PreparedSoFar'
    <2>1. m \in Members /\ call.pc = "extracting"
      BY <1>8 DEF ExtractMember
    <2>2. CASE OpenMember(m) /\ Files([disk EXCEPT !.wav[m] = Torn])
      <3>1. call'.open = m /\ call'.left = call.left \ {m} /\ call'.pc = call.pc /\ call.open = Absent
        BY <2>2 DEF OpenMember
      <3>2. disk'.archive = disk.archive /\ \A n \in Members \ {m} : disk'.wav[n] = disk.wav[n]
        BY <2>2
      <3>3. \A n \in Members : n \notin call'.left \cup {call'.open} => n # m /\ n \notin call.left \cup {call.open}
        BY <3>1, ArchiveAssumption
      <3>4. call'.pc = "extracting"
        BY <2>1, <3>1
      <3>5. QED
        BY <2>1, <3>2, <3>3, <3>4
    <2>3. CASE CloseMember(m) /\ Files([disk EXCEPT !.wav[m] = disk.archive])
      <3>1. call'.open = Absent /\ call'.left = call.left /\ call'.pc = call.pc /\ call.open = m
        BY <2>3 DEF CloseMember
      <3>2. /\ disk'.archive = disk.archive /\ disk'.wav[m] = disk.archive
            /\ \A n \in Members \ {m} : disk'.wav[n] = disk.wav[n]
        BY <2>1, <2>3
      <3>3. \A n \in Members : n \notin call'.left \cup {call'.open} => n = m \/ n \notin call.left \cup {call.open}
        BY <3>1
      <3>4. call'.pc = "extracting"
        BY <2>1, <3>1
      <3>5. QED
        BY <2>1, <3>2, <3>3, <3>4
    <2>4. QED
      BY <1>8, <2>2, <2>3 DEF ExtractMember
  <1>9. ASSUME DropArchive PROVE PreparedSoFar'
    BY <1>9 DEF DropArchive, NoneLeft
  <1>10. ASSUME NEW m \in Members, TranscodeMember(m) PROVE PreparedSoFar'
    <2>1. m \in Members /\ call.pc = "transcoding" /\ transcode /\ transcode' = transcode
      BY <1>10 DEF TranscodeMember
    <2>2. PICK c \in Contents :
            \A n \in Members : IF n \in call.left \cup {call.open} THEN disk.wav[n] = c ELSE disk.flac[n] = c
      BY <2>1
    <2>3. CASE OpenMember(m) /\ Files([disk EXCEPT !.flac[m] = Torn])
      <3>1. /\ call'.open = m /\ call'.left = call.left \ {m} /\ call'.pc = call.pc
            /\ call.open = Absent /\ m \in call.left
        BY <2>3 DEF OpenMember
      <3>2. disk'.wav = disk.wav /\ \A n \in Members \ {m} : disk'.flac[n] = disk.flac[n]
        BY <2>3
      <3>3. \A n \in Members : n \in call'.left \cup {call'.open} <=> n \in call.left \cup {call.open}
        BY <3>1, ArchiveAssumption
      <3>4. \A n \in Members : IF n \in call'.left \cup {call'.open} THEN disk'.wav[n] = c ELSE disk'.flac[n] = c
        BY <2>2, <3>1, <3>2, <3>3
      <3>5. call'.pc = "transcoding" /\ call'.open \notin call'.left
        BY <2>1, <3>1
      <3>6. QED
        BY <2>1, <3>4, <3>5
    <2>4. CASE CloseMember(m) /\ Files([disk EXCEPT !.flac[m] = disk.wav[m], !.wav[m] = Absent])
      <3>1. /\ call'.open = Absent /\ call'.left = call.left /\ call'.pc = call.pc /\ call.open = m
            /\ m \notin call.left
        BY <2>1, <2>4 DEF CloseMember
      <3>2. /\ disk'.flac[m] = disk.wav[m]
            /\ \A n \in Members \ {m} : disk'.flac[n] = disk.flac[n] /\ disk'.wav[n] = disk.wav[n]
        BY <2>1, <2>4
      <3>3. \A n \in Members : n \in call'.left \cup {call'.open} <=> n \in call.left
        BY <3>1, ArchiveAssumption
      <3>4. \A n \in Members : IF n \in call'.left \cup {call'.open} THEN disk'.wav[n] = c ELSE disk'.flac[n] = c
        BY <2>2, <3>1, <3>2, <3>3
      <3>5. call'.pc = "transcoding" /\ call'.open \notin call'.left
        BY <2>1, <3>1, ArchiveAssumption
      <3>6. QED
        BY <2>1, <3>4, <3>5
    <2>5. CASE Return /\ UNCHANGED <<disk, committed>>
      BY <2>5 DEF NoCall
    <2>6. QED
      BY <1>10, <2>3, <2>4, <2>5 DEF TranscodeMember
  <1>11. ASSUME WriteMarker PROVE PreparedSoFar'
    BY <1>11 DEF WriteMarker, NoneLeft
  <1>12. ASSUME CommitVolume PROVE PreparedSoFar'
    BY <1>12 DEF CommitVolume, NoCall
  <1>13. ASSUME SkipMarked PROVE PreparedSoFar'
    BY <1>13 DEF SkipMarked
  <1>14. ASSUME NEW cleanup \in BOOLEAN, RestoreArchive(cleanup) PROVE PreparedSoFar'
    BY <1>14 DEF RestoreArchive
  <1>15. ASSUME CleanUp PROVE PreparedSoFar'
    BY <1>15 DEF CleanUp, NoCall
  <1>16. ASSUME Crash PROVE PreparedSoFar'
    BY <1>16 DEF Crash, NoCall
  <1>17. ASSUME BackgroundCommit PROVE PreparedSoFar'
    BY <1>17 DEF BackgroundCommit
  <1>18. CASE UNCHANGED archiveVars
    BY <1>18 DEF archiveVars
  <1> HIDE DEF PreparedSoFar, ArchiveTypeOK
  <1>19. QED
    BY <1>1, <1>2, <1>3, <1>4, <1>5, <1>6, <1>7, <1>8, <1>9, <1>10, <1>11, <1>12, <1>13, <1>14, <1>15,
       <1>16, <1>17, <1>18
    DEF ArchiveNext, Preparation

\* The marker is written last and committed with all files.
LEMMA MarkerSteps ==
    ASSUME ArchiveTypeOK, PreparedSoFar, MarkerWhole, [ArchiveNext]_archiveVars PROVE MarkerWhole'
  <1> USE ArchiveAssumption
      DEF PreparedSoFar, MarkerWhole, WholeBundle, setting, At, GoTo, Return, Files, ArchiveTypeOK,
          DiskStates, ArchiveCalls
  <1>1. ASSUME Replace PROVE MarkerWhole'
    BY <1>1 DEF Replace
  <1>2. ASSUME NEW upload \in BOOLEAN, NEW delete \in BOOLEAN, Acquire(upload, delete) PROVE MarkerWhole'
    BY <1>2 DEF Acquire, Acquired, NoCall, ArchiveFiles
  <1>3. ASSUME Download PROVE MarkerWhole'
    BY <1>3 DEF Download
  <1>4. ASSUME VerifyProviderChecksum PROVE MarkerWhole'
    <2>1. CASE disk.archive = call.listed
      <3>1. /\ call.pc = "verifying" /\ call'.pc \in {"uploading", "recording"}
            /\ UNCHANGED <<disk, committed, site, transcode, reported>>
        BY <1>4, <2>1 DEF VerifyProviderChecksum
      <3>2. QED
        BY <3>1
    <2>2. CASE disk.archive # call.listed
      BY <1>4, <2>2 DEF VerifyProviderChecksum, NoCall
    <2>3. QED
      BY <2>1, <2>2
  <1>5. ASSUME Upload PROVE MarkerWhole'
    BY <1>5 DEF Upload, NoCall
  <1>6. ASSUME Unlink PROVE MarkerWhole'
    BY <1>6 DEF Unlink
  <1>7. ASSUME RecordReceipt PROVE MarkerWhole'
    BY <1>7 DEF RecordReceipt, Acquired, ArchiveFiles
  <1>8. ASSUME NEW m \in Members, ExtractMember(m) PROVE MarkerWhole'
    BY <1>8 DEF ExtractMember, OpenMember, CloseMember, Torn
  <1>9. ASSUME DropArchive PROVE MarkerWhole'
    BY <1>9 DEF DropArchive, NoneLeft
  <1>10. ASSUME NEW m \in Members, TranscodeMember(m) PROVE MarkerWhole'
    BY <1>10, ZenonT(30) DEF TranscodeMember, OpenMember, CloseMember, Torn
  <1>11. ASSUME WriteMarker PROVE MarkerWhole'
    BY <1>11 DEF WriteMarker, NoneLeft
  <1>12. ASSUME CommitVolume PROVE MarkerWhole'
    BY <1>12 DEF CommitVolume, NoCall
  <1>13. ASSUME SkipMarked PROVE MarkerWhole'
    BY <1>13 DEF SkipMarked
  <1>14. ASSUME NEW cleanup \in BOOLEAN, RestoreArchive(cleanup) PROVE MarkerWhole'
    BY <1>14 DEF RestoreArchive
  <1>15. ASSUME CleanUp PROVE MarkerWhole'
    BY <1>15 DEF CleanUp, NoCall
  <1>16. ASSUME Crash PROVE MarkerWhole'
    BY <1>16 DEF Crash, NoCall
  <1>17. ASSUME BackgroundCommit PROVE MarkerWhole'
    BY <1>17 DEF BackgroundCommit
  <1>18. CASE UNCHANGED archiveVars
    BY <1>18 DEF archiveVars
  <1> HIDE DEF PreparedSoFar, MarkerWhole, WholeBundle, setting, At, GoTo, Return, Files, ArchiveTypeOK,
             DiskStates, ArchiveCalls
  <1>19. QED
    BY <1>1, <1>2, <1>3, <1>4, <1>5, <1>6, <1>7, <1>8, <1>9, <1>10, <1>11, <1>12, <1>13, <1>14, <1>15,
       <1>16, <1>17, <1>18
    DEF ArchiveNext, Preparation

\* So the invariant of the acquisition always holds.
LEMMA ArchiveInvariant == ArchiveSpec => []ArchiveInv
  <1>1. ArchiveInit => ArchiveInv
    <2> SUFFICES ASSUME ArchiveInit PROVE ArchiveInv
      OBVIOUS
    <2>1. disk \in DiskStates
      BY DEF ArchiveInit, DiskStates, NoReceipt, ArchiveFiles, MemberFiles
    <2>2. ArchiveTypeOK
      BY <2>1, ArchiveAssumption, ArchiveKinds DEF ArchiveInit, ArchiveTypeOK
    <2>3. PinnedBytes /\ PreparedSoFar /\ MarkerWhole
      BY DEF ArchiveInit, PinnedBytes, ReceiptKept, PreparedSoFar, MarkerWhole, NoReceipt, NoCall
    <2>4. QED
      BY <2>2, <2>3 DEF ArchiveInv
  <1>2. ArchiveInv /\ [ArchiveNext]_archiveVars => ArchiveInv'
    BY ArchiveTypes, PinnedSteps, PreparedSteps, MarkerSteps DEF ArchiveInv
  <1>3. QED
    BY <1>1, <1>2, PTL DEF ArchiveSpec

\* Where the registry pins a checksum, a receipt that says read back stays restorable in every
\* behaviour of the archive's tools, for any contents, members and number of crashes
\* (acquire_source_file, audit_training_archive.py).
THEOREM VerifiedStaysRestorable == ArchiveSpec => []VerifiedIsRestorable
  <1>1. ArchiveInv => VerifiedIsRestorable
    BY DEF ArchiveInv, PinnedBytes, ReceiptKept, VerifiedIsRestorable
  <1>2. QED
    BY <1>1, ArchiveInvariant, PTL

\* A bundle that is reported, or carries a marker, even a torn one, where a later container
\* finds it, has all its files whole and of one archive, wherever containers die and whenever
\* Modal commits
\* (prepare_source_archives).
THEOREM ReportedStaysWhole == ArchiveSpec => []ReportedIsWhole
  <1>1. ArchiveInv => ReportedIsWhole
    BY ArchiveAssumption DEF ArchiveInv, MarkerWhole, WholeBundle, ReportedIsWhole
  <1>2. QED
    BY <1>1, ArchiveInvariant, PTL

-----------------------------------------------------------------------------
(*************************************************************************)
(* The selective download of a zip file: what is returned is whole.      *)
(*************************************************************************)

ZipTypeOK ==
    /\ tool \in {"selection", "manifest"}
    /\ wanted \in Selections
    /\ zipPhase \in {"idle", "downloading", "extracting", "pruned"}
    /\ planned \in SUBSET Entries /\ plan \in SUBSET Runs[planned]
    /\ tree \in [Entries -> {"absent", "right"}]
    /\ zipPhase = "extracting" => plan # {}

\* The runs that are done are whole, and all that a selection is for is planned.
RunsDone ==
    /\ zipPhase \in {"downloading", "extracting"} =>
         /\ tool = "selection" => planned = wanted
         /\ \A r \in Runs[planned] \ plan : \A e \in RunEntries[planned][r] : tree[e] = "right"
    /\ zipPhase = "pruned" =>
         \A e \in Entries : tree[e] = IF e \in wanted THEN "right" ELSE "absent"

ZipInv == ZipTypeOK /\ RunsDone

\* A set of numbers that is not empty has a least one.
\* A set of numbers up to n has a largest one.
LEMMA LargestBelow ==
    ASSUME NEW n \in Nat, NEW R \in SUBSET (0 .. n), R # {} PROVE \E r \in R : \A q \in R : q <= r
  <1> DEFINE rest == {k \in Nat : n - k \in R}
  <1>1. PICK q \in R : TRUE
    OBVIOUS
  <1>2. n - q \in rest
    OBVIOUS
  <1>3. PICK k \in rest : \A j \in rest : k <= j
    <2> HIDE DEF rest
    <2>1. rest \in SUBSET Nat
      BY DEF rest
    <2>2. QED
      BY <1>2, <2>1, LeastNumber
  <1>4. n - k \in R /\ k \in Nat
    OBVIOUS
  <1>5. ASSUME NEW p \in R PROVE p <= n - k
    <2>1. n - p \in rest
      OBVIOUS
    <2>2. k <= n - p
      BY <1>3, <2>1
    <2>3. QED
      BY <1>4, <2>2
  <1>6. QED
    BY <1>4, <1>5

\* Every entry of a selection is in one of its runs, the last that begins up to it.
LEMMA EveryEntryHasRun ==
    ASSUME NEW sel \in SUBSET Entries, NEW e \in sel
    PROVE  \E r \in Runs[sel] : e \in RunEntries[sel][r]
  <1>1. e \in Nat /\ sel \in SUBSET Nat
    BY ZipAssumption
  <1>2. PICK s \in sel : \A k \in sel : s <= k
    BY <1>1, LeastNumber
  <1>3. s \in Runs[sel]
    <2>1. \A p \in sel : ~(p < s)
      BY <1>1, <1>2
    <2>2. QED
      BY <2>1 DEF Runs, Begins
  <1> DEFINE R == {q \in Runs[sel] : q <= e}
  <1>4. Runs[sel] \in SUBSET Nat
    BY <1>1 DEF Runs
  <1>5. R \in SUBSET (0 .. e) /\ s \in R
    BY <1>1, <1>2, <1>3, <1>4
  <1> HIDE DEF R
  <1>6. PICK r \in R : \A q \in R : q <= r
    BY <1>1, <1>5, LargestBelow
  <1>7. r \in Runs[sel] /\ e >= r
    BY <1>1, <1>4, <1>6 DEF R
  <1>8. ASSUME NEW q \in Runs[sel] PROVE q <= r \/ q > e
    BY <1>1, <1>4, <1>6, <1>8 DEF R
  <1>9. RunEntries[sel][r] = {x \in sel : x >= r /\ \A q \in Runs[sel] : q <= r \/ q > x}
    BY <1>7 DEF RunEntries
  <1>10. QED
    BY <1>7, <1>8, <1>9

\* The next run of entries is one that is planned.
LEMMA FirstRun == ASSUME ZipTypeOK, plan # {} PROVE Current \in plan
  <1>1. plan \in SUBSET Nat
    BY ZipAssumption DEF ZipTypeOK, Runs
  <1>2. \E n \in plan : \A k \in plan : n <= k
    BY <1>1, LeastNumber
  <1>3. QED
    BY <1>2 DEF Current, Smallest

\* What a run adds is right, and what was right stays.
LEMMA TreeKept ==
    ASSUME ZipTypeOK, NEW es
    PROVE  /\ TreeWith(es) \in [Entries -> {"absent", "right"}]
           /\ \A e \in Entries : e \in es \/ tree[e] = "right" => TreeWith(es)[e] = "right"
  BY DEF ZipTypeOK, TreeWith

\* Every step of a selection keeps the types.
LEMMA ZipTypes ==
    ASSUME ZipTypeOK, [ZipNext]_zipVars PROVE ZipTypeOK'
  <1> USE DEF ZipTypeOK, Selections
  <1>1. ASSUME ReturnPrior PROVE ZipTypeOK'
    BY <1>1 DEF ReturnPrior, Unselected
  <1>2. ASSUME PlanRuns PROVE ZipTypeOK'
    BY <1>2 DEF PlanRuns, Unselected
  <1>3. ASSUME DownloadBlock PROVE ZipTypeOK'
    BY <1>3 DEF DownloadBlock, Unselected
  <1>4. ASSUME ExtractRun PROVE ZipTypeOK'
    <2> DEFINE good == GoodUpTo(Largest(RunEntries[planned][Current]))
    <2>1. tree' = TreeWith(good) /\ UNCHANGED <<tool, wanted>>
      BY <1>4 DEF ExtractRun, Unselected
    <2>2. tree' \in [Entries -> {"absent", "right"}]
      BY <2>1, TreeKept
    <2> HIDE DEF good
    <2>3. CASE EndCall
      BY <2>1, <2>2, <2>3 DEF EndCall
    <2>4. CASE plan' = plan \ {Current} /\ zipPhase' = "downloading" /\ UNCHANGED planned
      BY <2>1, <2>2, <2>4
    <2>5. QED
      BY <1>4, <2>3, <2>4 DEF ExtractRun
  <1>5. ASSUME PruneSelectionRoot PROVE ZipTypeOK'
    BY <1>5 DEF PruneSelectionRoot, Unselected
  <1>6. ASSUME WriteReceipt PROVE ZipTypeOK'
    BY <1>6 DEF WriteReceipt, EndCall, Unselected
  <1>7. ASSUME ReviseSelection PROVE ZipTypeOK'
    BY <1>7 DEF ReviseSelection
  <1>8. ASSUME CutDownload PROVE ZipTypeOK'
    BY <1>8 DEF CutDownload, EndCall, Unselected
  <1>9. ASSUME CutExtraction PROVE ZipTypeOK'
    <2>1. /\ UNCHANGED <<tool, wanted>> /\ EndCall
          /\ tree' = tree \/ \E last \in {0} \cup Entries : tree' = TreeWith(GoodUpTo(last))
      BY <1>9 DEF CutExtraction, Unselected
    <2>2. tree' \in [Entries -> {"absent", "right"}]
      BY <2>1, TreeKept
    <2>3. QED
      BY <2>1, <2>2 DEF EndCall
  <1>10. CASE UNCHANGED zipVars
    BY <1>10 DEF zipVars
  <1>11. QED
    BY <1>1, <1>2, <1>3, <1>4, <1>5, <1>6, <1>7, <1>8, <1>9, <1>10 DEF ZipNext, ZipStep

\* A run that is done is whole, and stays so.
LEMMA ZipSteps ==
    ASSUME ZipTypeOK, RunsDone, [ZipNext]_zipVars PROVE RunsDone'
  <1> USE DEF ZipTypeOK, RunsDone
  <1>1. ASSUME ReturnPrior PROVE RunsDone'
    BY <1>1 DEF ReturnPrior, Unselected
  <1>2. ASSUME PlanRuns PROVE RunsDone'
    BY <1>2 DEF PlanRuns, Unselected
  <1>3. ASSUME DownloadBlock PROVE RunsDone'
    BY <1>3 DEF DownloadBlock, Unselected
  <1>4. ASSUME ExtractRun PROVE RunsDone'
    <2> DEFINE run == RunEntries[planned][Current]
               good == GoodUpTo(Largest(run))
    <2>1. tree' = TreeWith(good) /\ UNCHANGED <<tool, wanted>> /\ zipPhase = "extracting"
      BY <1>4 DEF ExtractRun, Unselected
    <2>2. \A e \in Entries : e \in good \/ tree[e] = "right" => tree'[e] = "right"
      BY <2>1, TreeKept
    <2>3. CASE EndCall
      BY <2>3 DEF EndCall
    <2>4. CASE good = run /\ plan' = plan \ {Current} /\ zipPhase' = "downloading" /\ UNCHANGED planned
      <3>1. ASSUME NEW r \in Runs[planned] \ plan',
                   NEW e \in RunEntries[planned][r] PROVE tree'[e] = "right"
        <4>1. e \in Entries
          BY DEF RunEntries, Runs
        <4>2. CASE r = Current
          BY <2>2, <2>4, <4>1, <4>2
        <4>3. CASE r # Current
          <5>1. tree[e] = "right"
            BY <2>1, <2>4, <3>1, <4>3
          <5>2. QED
            BY <2>2, <4>1, <5>1
        <4>4. QED
          BY <4>2, <4>3
      <3>2. QED
        BY <2>1, <2>4, <3>1
    <2>5. QED
      BY <1>4, <2>3, <2>4 DEF ExtractRun
  <1>5. ASSUME PruneSelectionRoot PROVE RunsDone'
    BY <1>5 DEF PruneSelectionRoot, Unselected
  <1>6. ASSUME WriteReceipt PROVE RunsDone'
    BY <1>6 DEF WriteReceipt, EndCall, Unselected
  <1>7. ASSUME ReviseSelection PROVE RunsDone'
    BY <1>7 DEF ReviseSelection
  <1>8. ASSUME CutDownload PROVE RunsDone'
    BY <1>8 DEF CutDownload, EndCall, Unselected
  <1>9. ASSUME CutExtraction PROVE RunsDone'
    BY <1>9 DEF CutExtraction, EndCall, Unselected
  <1>10. CASE UNCHANGED zipVars
    BY <1>10 DEF zipVars
  <1>11. QED
    BY <1>1, <1>2, <1>3, <1>4, <1>5, <1>6, <1>7, <1>8, <1>9, <1>10 DEF ZipNext, ZipStep

\* So the invariant of the selection always holds.
LEMMA ZipInvariant == ZipSpec => []ZipInv
  <1>1. ZipInit => ZipInv
    BY DEF ZipInit, ZipInv, ZipTypeOK, RunsDone, Selections, Runs
  <1>2. ZipInv /\ [ZipNext]_zipVars => ZipInv'
    BY ZipTypes, ZipSteps DEF ZipInv
  <1>3. QED
    BY <1>1, <1>2, PTL DEF ZipSpec

\* For any entries, sizes, gaps, selections and revisions: a call that returns has every entry
\* it was asked for with the archive's bytes, whatever blocks and parts older calls and other
\* selections of the name left, and a manifest's tree has nothing else
\* (acquire_remote_zip_selection, acquire_remote_zip_manifest).
THEOREM ReturnedIsSelected == ZipSpec => SelectedWhole
  <1> DEFINE Kept == returned' # returned =>
                /\ \A e \in returned' : tree'[e] = "right"
                /\ tool = "manifest" => \A e \in Entries \ returned' : tree'[e] = "absent"
  <1>1. ASSUME ZipInv, [ZipNext]_zipVars PROVE Kept
    <2> USE DEF ZipInv
    <2>1. CASE ReturnPrior
      BY <1>1, <2>1 DEF ReturnPrior, ZipTypeOK, Selections
    <2>2. CASE WriteReceipt
      <3>1. CASE tool = "selection" /\ zipPhase = "downloading" /\ plan = {}
        <4>1. \A e \in wanted : tree[e] = "right"
          BY <1>1, <3>1, EveryEntryHasRun DEF RunsDone, ZipTypeOK, Selections
        <4>2. QED
          BY <2>2, <3>1, <4>1 DEF WriteReceipt
      <3>2. CASE zipPhase = "pruned"
        BY <1>1, <2>2, <3>2 DEF WriteReceipt, RunsDone, ZipTypeOK, Selections
      <3>3. QED
        BY <2>2, <3>1, <3>2 DEF WriteReceipt
    <2>3. CASE UNCHANGED returned
      BY <2>3
    <2>4. QED
      BY <1>1, <2>1, <2>2, <2>3
         DEF ZipNext, ZipStep, PlanRuns, DownloadBlock, ExtractRun, PruneSelectionRoot, ReviseSelection,
             CutDownload,
             CutExtraction, zipVars
  <1>2. QED
    BY <1>1, ZipInvariant, PTL DEF ZipSpec, SelectedWhole

-----------------------------------------------------------------------------
(*************************************************************************)
(* The training volume: what its receipts and manifests say is on it.    *)
(*************************************************************************)

\* The files that the properties are about, and those of them that a function writes.
PrefixFiles(x) == PartsOf[x] \cup {"prefix_receipt"}
Watched == Exported \cup {"validation_set", "items_1", "items_2"} \cup PrefixFiles(1) \cup PrefixFiles(2)
OwnWrites(f) ==
    CASE f = "export_specialist" -> Exported
      [] f \in {"build_validation", "install_validation_set"} -> {"validation_set"}
      [] f = "acquire_prefix_1" -> PrefixFiles(1)
      [] f = "acquire_prefix_2" -> PrefixFiles(2)
      [] f = "audit_prefix_1" -> {"items_1"}
      [] f = "audit_prefix_2" -> {"items_2"}
      [] OTHER -> {}

VolumeTypeOK ==
    /\ view = [f \in Functions |-> view[f]] /\ \A f \in Functions : view[f] = [p \in Touched[f] |-> view[f][p]]
    /\ dirty \in [Functions -> SUBSET VolumePaths]
    /\ reached = [f \in Functions |-> reached[f]]
    /\ volume = [p \in VolumePaths |-> volume[p]]

WritesOwn == \A f \in Functions : dirty[f] \cap Watched \subseteq OwnWrites(f)

\* A step of one function leaves the others' containers alone, and changes on the volume what
\* it has written.
MovesOnly(f) ==
    /\ f \in Functions
    /\ \A g \in Functions \ {f} : view'[g] = view[g] /\ dirty'[g] = dirty[g] /\ reached'[g] = reached[g]
    /\ dirty'[f] \cap Watched \subseteq dirty[f] \cup OwnWrites(f)
    /\ \A p \in VolumePaths \ dirty[f] : volume'[p] = volume[p]
    /\ VolumeTypeOK'

\* A function begins in a container of its own.
LEMMA StartMoves ==
    ASSUME VolumeTypeOK, NEW f \in Functions, NEW needs, NEW first, Start(f, needs, first)
    PROVE  MovesOnly(f)
  BY DEF VolumeTypeOK, Start, MovesOnly

\* A statement writes to its own view.
LEMMA StatementMoves ==
    ASSUME VolumeTypeOK, NEW f \in Functions, NEW from, NEW to, NEW written,
           Statement(f, from, to, written),
           DOMAIN written \subseteq Touched[f], DOMAIN written \cap Watched \subseteq OwnWrites(f)
    PROVE  MovesOnly(f)
  BY DEF VolumeTypeOK, Statement, MovesOnly, VolumePaths

\* A function that ends commits or drops what it wrote.
LEMMA OverMoves == ASSUME VolumeTypeOK, NEW f \in Functions, Over(f) PROVE MovesOnly(f)
  BY DEF VolumeTypeOK, Over, Merged, NoView, MovesOnly

\* So does Modal with a function it commits or ends.
LEMMA ModalMoves ==
    ASSUME VolumeTypeOK, NEW f \in Functions,
           BackgroundVolumeCommit(f) \/ ContainerDies(f) PROVE MovesOnly(f)
  <1>1. CASE BackgroundVolumeCommit(f)
    BY <1>1 DEF VolumeTypeOK, BackgroundVolumeCommit, Merged, MovesOnly
  <1>2. CASE ContainerDies(f)
    BY <1>2 DEF VolumeTypeOK, ContainerDies, NoView, MovesOnly
  <1>3. QED
    BY <1>1, <1>2

\* The files a call may write and the ways it moves.
OwnFiles(f) == Touched[f] \ (Watched \ OwnWrites(f))
Writing(f, ps) == \E from, to, written : DOMAIN written = ps /\ Statement(f, from, to, written)
CallMoves(f) ==
    \/ \E needs, first : Start(f, needs, first)
    \/ Over(f)
    \/ \E ps \in SUBSET OwnFiles(f) : Writing(f, ps)

\* A call of one function moves nothing of another.
LEMMA CallMovesOnly == ASSUME VolumeTypeOK, NEW f \in Functions, CallMoves(f) PROVE MovesOnly(f)
  BY StartMoves, StatementMoves, OverMoves DEF CallMoves, Writing, OwnFiles

\* A statement that writes one file.
LEMMA PutWrites == ASSUME NEW f, NEW from, NEW to, NEW p, NEW value, Statement(f, from, to, Put(p, value))
                   PROVE  Writing(f, {p})
  <1>1. DOMAIN Put(p, value) = {p}
    BY DEF Put
  <1>2. QED
    BY <1>1 DEF Writing

\* A statement that removes files.
LEMMA RemoveWrites == ASSUME NEW f, NEW from, NEW to, NEW ps, Statement(f, from, to, Remove(ps))
                      PROVE  Writing(f, ps)
  <1>1. DOMAIN Remove(ps) = ps
    BY DEF Remove
  <1>2. QED
    BY <1>1 DEF Writing

\* A statement that writes none.
LEMMA NothingWrites == ASSUME NEW f, NEW from, NEW to, Statement(f, from, to, Nothing) PROVE Writing(f, {})
  BY RemoveWrites DEF Nothing

\* The files that the functions of training touch.
LEMMA TrainingTouches ==
    ASSUME NEW f \in DOMAIN TrainingTouched PROVE f \in Functions /\ Touched[f] = TrainingTouched[f]
  BY TouchedAssumption DEF AllTouched, Functions

\* And those of curation.
LEMMA CurationTouches ==
    ASSUME NEW f \in DOMAIN CurationTouched PROVE f \in Functions /\ Touched[f] = CurationTouched[f]
  <1>1. f \notin DOMAIN TrainingTouched
    BY DEF TrainingTouched, CurationTouched
  <1>2. QED
    BY <1>1, TouchedAssumption DEF AllTouched, Functions

\* The files of a prefix, of its acquisition and of its audit.
LEMMA PrefixTouches ==
    \A x \in Prefixes :
        /\ AcquirerOf[x] \in Functions /\ Touched[AcquirerOf[x]] = PrefixFiles(x) /\ OwnWrites(AcquirerOf[x]) = PrefixFiles(x)
        /\ AuditorOf[x] \in Functions /\ Touched[AuditorOf[x]] = PrefixFiles(x) \cup {ItemsOf[x], ReportOf[x]}
        /\ OwnWrites(AuditorOf[x]) = {ItemsOf[x]}
        /\ PrefixFiles(x) \cup {ItemsOf[x]} \subseteq VolumePaths
  <1>1. \A x \in Prefixes :
          /\ AcquirerOf[x] \in DOMAIN CurationTouched /\ CurationTouched[AcquirerOf[x]] = PrefixFiles(x)
          /\ AuditorOf[x] \in DOMAIN CurationTouched
          /\ CurationTouched[AuditorOf[x]] = PrefixFiles(x) \cup {ItemsOf[x], ReportOf[x]}
    BY DEF CurationTouched, Prefixes, AcquirerOf, AuditorOf, ItemsOf, ReportOf, PrefixFiles
  <1>2. \A x \in Prefixes : OwnWrites(AcquirerOf[x]) = PrefixFiles(x) /\ OwnWrites(AuditorOf[x]) = {ItemsOf[x]}
    BY DEF OwnWrites, Prefixes, AcquirerOf, AuditorOf, ItemsOf
  <1>3. QED
    BY <1>1, <1>2, CurationTouches DEF VolumePaths

\* The files watched, by name.
LEMMA WatchedFiles ==
    Watched = {"prediction1", "prediction2", "export_receipt", "validation_set", "items_1", "items_2",
               "part_1a", "part_1b", "part_2a", "part_2b", "prefix_receipt"}
  BY DEF Watched, Exported, Predictions, PrefixFiles, PartsOf, FirstOf

\* Each function of the application moves nothing of another and writes what it is to write.
LEMMA PrepareTrainingMetadataMoves == ASSUME VolumeTypeOK, PrepareTrainingMetadata
                                      PROVE  MovesOnly("prepare_training_metadata")
  <1> DEFINE f == "prepare_training_metadata"
  <1>1. f \in DOMAIN TrainingTouched /\ TrainingTouched[f] = {"csv", "cache"}
    BY DEF TrainingTouched
  <1>2. f \in Functions /\ Touched[f] = {"csv", "cache"}
    BY <1>1, TrainingTouches
  <1>3. {"cache"} \in SUBSET OwnFiles(f)
    BY <1>2, WatchedFiles DEF OwnFiles, OwnWrites
  <1> HIDE DEF f
  <1>4. CallMoves(f)
    BY <1>3, PutWrites, RemoveWrites, NothingWrites
    DEF PrepareTrainingMetadata, Raise, CommitAndReturn, CallMoves, f
  <1>5. QED
    BY <1>2, <1>4, CallMovesOnly DEF f

LEMMA TrainSpecialistMoves == ASSUME VolumeTypeOK, TrainSpecialist PROVE MovesOnly("train_specialist")
  <1> DEFINE f == "train_specialist"
  <1>1. f \in DOMAIN TrainingTouched /\ TrainingTouched[f] = {"checkpoint", "run_receipt", "validation_set"}
    BY DEF TrainingTouched
  <1>2. f \in Functions /\ Touched[f] = {"checkpoint", "run_receipt", "validation_set"}
    BY <1>1, TrainingTouches
  <1>3. {"checkpoint"} \in SUBSET OwnFiles(f) /\ {"run_receipt"} \in SUBSET OwnFiles(f)
    BY <1>2, WatchedFiles DEF OwnFiles, OwnWrites
  <1> HIDE DEF f
  <1>4. CallMoves(f)
    BY <1>3, PutWrites, RemoveWrites, NothingWrites DEF TrainSpecialist, Raise, CommitAndReturn, CallMoves, f
  <1>5. QED
    BY <1>2, <1>4, CallMovesOnly DEF f

LEMMA ExportSpecialistMoves == ASSUME VolumeTypeOK, ExportSpecialist PROVE MovesOnly("export_specialist")
  <1> DEFINE f == "export_specialist"
             written(value) == [p \in Predictions |-> value]
  <1>1. /\ f \in DOMAIN TrainingTouched
        /\ TrainingTouched[f] = {"checkpoint", "validation_set"} \cup Exported
    BY DEF TrainingTouched
  <1>2. f \in Functions /\ Touched[f] = {"checkpoint", "validation_set"} \cup Exported
    BY <1>1, TrainingTouches
  <1>3. /\ {} \in SUBSET OwnFiles(f) /\ {"export_receipt"} \in SUBSET OwnFiles(f)
        /\ \A p \in Exported : {p} \in SUBSET OwnFiles(f)
        /\ Predictions \in SUBSET OwnFiles(f)
    BY <1>2 DEF OwnFiles, OwnWrites, Watched, Exported
  <1> HIDE DEF f
  <1>4. ASSUME NEW value, NEW from, NEW to, Statement(f, from, to, written(value)) PROVE Writing(f, Predictions)
    <2>1. DOMAIN written(value) = Predictions
      OBVIOUS
    <2> HIDE DEF written
    <2>2. QED
      BY <1>4, <2>1 DEF Writing
  <1>5. CallMoves(f)
    <2> HIDE DEF written
    <2>1. \/ Start(f, {"checkpoint", "validation_set"}, "clearing") \/ Over(f)
          \/ \E p \in Exported : Statement(f, "clearing", "clearing", Remove({p}))
          \/ Statement(f, "clearing", "predicting", Nothing)
          \/ Statement(f, "predicting", "scoring", written(Broken))
          \/ Statement(f, "scoring", "recording", written(view[f]["checkpoint"]))
          \/ Statement(f, "recording", "writing", Put("export_receipt", Broken))
          \/ Statement(f, "writing", "committing", Put("export_receipt", view[f]["checkpoint"]))
      BY DEF ExportSpecialist, ClearExport, Raise, CommitAndReturn, f, written
    <2>2. QED
      BY <1>3, <1>4, <2>1, PutWrites, RemoveWrites, NothingWrites DEF CallMoves
  <1>6. QED
    BY <1>2, <1>5, CallMovesOnly DEF f

LEMMA ExportDatasetAuditMoves == ASSUME VolumeTypeOK, ExportDatasetAudit
                                 PROVE  MovesOnly("export_dataset_audit")
  <1> DEFINE f == "export_dataset_audit"
  <1>1. f \in DOMAIN TrainingTouched /\ TrainingTouched[f] = {"csv", "index", "clips", "manifest"}
    BY DEF TrainingTouched
  <1>2. f \in Functions /\ Touched[f] = {"csv", "index", "clips", "manifest"}
    BY <1>1, TrainingTouches
  <1>3. {"clips"} \in SUBSET OwnFiles(f) /\ {"manifest"} \in SUBSET OwnFiles(f)
    BY <1>2, WatchedFiles DEF OwnFiles, OwnWrites
  <1> HIDE DEF f
  <1>4. CallMoves(f)
    BY <1>3, PutWrites, RemoveWrites, NothingWrites
    DEF ExportDatasetAudit, Raise, CommitAndReturn, CallMoves, f
  <1>5. QED
    BY <1>2, <1>4, CallMovesOnly DEF f

LEMMA PublishSnapshotMoves == ASSUME VolumeTypeOK, PublishSnapshot PROVE MovesOnly("publish_snapshot")
  <1> DEFINE f == "publish_snapshot"
  <1>1. f \in DOMAIN TrainingTouched /\ TrainingTouched[f] = {"csv", "index"}
    BY DEF TrainingTouched
  <1>2. f \in Functions /\ Touched[f] = {"csv", "index"}
    BY <1>1, TrainingTouches
  <1>3. {} \in SUBSET OwnFiles(f)
    BY <1>2, WatchedFiles DEF OwnFiles, OwnWrites
  <1> HIDE DEF f
  <1>4. CallMoves(f)
    BY <1>3, PutWrites, RemoveWrites, NothingWrites DEF PublishSnapshot, Raise, CommitAndReturn, CallMoves, f
  <1>5. QED
    BY <1>2, <1>4, CallMovesOnly DEF f

LEMMA BuildValidationMoves == ASSUME VolumeTypeOK, BuildValidation PROVE MovesOnly("build_validation")
  <1> DEFINE f == "build_validation"
  <1>1. f \in DOMAIN TrainingTouched /\ TrainingTouched[f] = {"renders", "temporary_set", "validation_set"}
    BY DEF TrainingTouched
  <1>2. f \in Functions /\ Touched[f] = {"renders", "temporary_set", "validation_set"}
    BY <1>1, TrainingTouches
  <1>3. /\ {} \in SUBSET OwnFiles(f) /\ {"temporary_set"} \in SUBSET OwnFiles(f)
        /\ {"renders", "temporary_set"} \in SUBSET OwnFiles(f)
        /\ {"temporary_set", "validation_set"} \in SUBSET OwnFiles(f)
    BY <1>2, WatchedFiles DEF OwnFiles, OwnWrites
  <1> HIDE DEF f
  <1> DEFINE torn == [p \in {"renders", "temporary_set"} |-> Broken]
             renamed == [p \in {"temporary_set", "validation_set"} |->
                            IF p = "validation_set" THEN view[f]["temporary_set"] ELSE Missing]
  <1>4. ASSUME Statement(f, "linking", "describing", torn) PROVE Writing(f, {"renders", "temporary_set"})
    <2>1. DOMAIN torn = {"renders", "temporary_set"}
      OBVIOUS
    <2> HIDE DEF torn
    <2>2. QED
      BY <1>4, <2>1 DEF Writing
  <1>5. ASSUME Statement(f, "replacing", "committing", renamed)
        PROVE  Writing(f, {"temporary_set", "validation_set"})
    <2>1. DOMAIN renamed = {"temporary_set", "validation_set"}
      OBVIOUS
    <2> HIDE DEF renamed
    <2>2. QED
      BY <1>5, <2>1 DEF Writing
  <1>6. CallMoves(f)
    <2> HIDE DEF torn, renamed
    <2>1. \/ Start(f, {}, "building") \/ Over(f)
          \/ Statement(f, "building", "committing", Nothing)
          \/ Statement(f, "building", "linking", Remove({"temporary_set"}))
          \/ Statement(f, "linking", "describing", torn)
          \/ Statement(f, "describing", "replacing", Put("temporary_set", 1))
          \/ Statement(f, "describing", "failed", Remove({"temporary_set"}))
          \/ Statement(f, "replacing", "committing", renamed)
      BY DEF BuildValidation, Raise, CommitAndReturn, f, torn, renamed
    <2>2. QED
      BY <1>3, <1>4, <1>5, <2>1, PutWrites, RemoveWrites, NothingWrites DEF CallMoves
  <1>7. QED
    BY <1>2, <1>6, CallMovesOnly DEF f

LEMMA InstallValidationSetMoves == ASSUME VolumeTypeOK, InstallValidationSet
                                   PROVE  MovesOnly("install_validation_set")
  <1> DEFINE f == "install_validation_set"
  <1>1. f \in DOMAIN TrainingTouched /\ TrainingTouched[f] = {"archive", "validation_set"}
    BY DEF TrainingTouched
  <1>2. f \in Functions /\ Touched[f] = {"archive", "validation_set"}
    BY <1>1, TrainingTouches
  <1>3. /\ {} \in SUBSET OwnFiles(f) /\ {"validation_set"} \in SUBSET OwnFiles(f)
        /\ {"archive"} \in SUBSET OwnFiles(f)
    BY <1>2, WatchedFiles DEF OwnFiles, OwnWrites
  <1> HIDE DEF f
  <1>4. CallMoves(f)
    BY <1>3, PutWrites, RemoveWrites, NothingWrites
    DEF InstallValidationSet, InstallSet, Raise, CommitAndReturn, CallMoves, f
  <1>5. QED
    BY <1>2, <1>4, CallMovesOnly DEF f

LEMMA AcquirePrefixMoves ==
    ASSUME VolumeTypeOK, NEW x \in Prefixes, AcquirePrefix(x) PROVE MovesOnly(AcquirerOf[x])
  <1> DEFINE f == AcquirerOf[x]
  <1>1. f \in Functions /\ Touched[f] = PrefixFiles(x) /\ OwnWrites(f) = PrefixFiles(x)
    BY PrefixTouches
  <1>2. {} \in SUBSET OwnFiles(f) /\ \A p \in PrefixFiles(x) : {p} \in SUBSET OwnFiles(f)
    BY <1>1 DEF OwnFiles
  <1>3. "prefix_receipt" \in PrefixFiles(x) /\ PartsOf[x] \subseteq PrefixFiles(x)
    BY DEF PrefixFiles
  <1> HIDE DEF f
  <1>4. CallMoves(f)
    BY <1>2, <1>3, PutWrites, RemoveWrites, NothingWrites
    DEF AcquirePrefix, WritePrefixReceipt, Raise, CommitAndReturn, CallMoves, f
  <1>5. QED
    BY <1>1, <1>4, CallMovesOnly DEF f

LEMMA AuditRegisteredTreeMoves ==
    ASSUME VolumeTypeOK, NEW x \in Prefixes, AuditRegisteredTree(x) PROVE MovesOnly(AuditorOf[x])
  <1> DEFINE f == AuditorOf[x]
  <1>1. f \in Functions /\ Touched[f] = PrefixFiles(x) \cup {ItemsOf[x], ReportOf[x]} /\ OwnWrites(f) = {ItemsOf[x]}
    BY PrefixTouches
  <1>2. ReportOf[x] \notin Watched
    BY DEF Watched, Exported, Predictions, PrefixFiles, PartsOf, FirstOf, ReportOf, Prefixes
  <1>3. {ItemsOf[x]} \in SUBSET OwnFiles(f) /\ {ReportOf[x]} \in SUBSET OwnFiles(f)
    BY <1>1, <1>2 DEF OwnFiles
  <1> HIDE DEF f
  <1>4. CallMoves(f)
    BY <1>3, PutWrites, RemoveWrites, NothingWrites
    DEF AuditRegisteredTree, AuditTree, Raise, CommitAndReturn, CallMoves, f
  <1>5. QED
    BY <1>1, <1>4, CallMovesOnly DEF f

LEMMA CurateNsynthMoves == ASSUME VolumeTypeOK, CurateNsynth PROVE MovesOnly("curate_nsynth")
  <1> DEFINE f == "curate_nsynth"
  <1>1. /\ f \in DOMAIN CurationTouched
        /\ CurationTouched[f] = {"notes", "notes_curation", "notes_items", "notes_report"}
    BY DEF CurationTouched
  <1>2. f \in Functions /\ Touched[f] = {"notes", "notes_curation", "notes_items", "notes_report"}
    BY <1>1, CurationTouches
  <1>3. /\ {"notes_curation"} \in SUBSET OwnFiles(f) /\ {"notes_items"} \in SUBSET OwnFiles(f)
        /\ {"notes_report"} \in SUBSET OwnFiles(f)
    BY <1>2, WatchedFiles DEF OwnFiles, OwnWrites
  <1> HIDE DEF f
  <1>4. CallMoves(f)
    BY <1>3, PutWrites, RemoveWrites, NothingWrites
    DEF CurateNsynth, Curate, AuditTree, Raise, CommitAndReturn, CallMoves, f
  <1>5. QED
    BY <1>2, <1>4, CallMovesOnly DEF f

LEMMA PruneNsynthMoves == ASSUME VolumeTypeOK, PruneNsynth PROVE MovesOnly("prune_nsynth_unselected")
  <1> DEFINE f == "prune_nsynth_unselected"
  <1>1. f \in DOMAIN CurationTouched /\ CurationTouched[f] = {"notes", "notes_items"}
    BY DEF CurationTouched
  <1>2. f \in Functions /\ Touched[f] = {"notes", "notes_items"}
    BY <1>1, CurationTouches
  <1>3. {"notes"} \in SUBSET OwnFiles(f)
    BY <1>2, WatchedFiles DEF OwnFiles, OwnWrites
  <1> HIDE DEF f
  <1>4. CallMoves(f)
    BY <1>3, PutWrites, RemoveWrites, NothingWrites DEF PruneNsynth, Raise, CommitAndReturn, CallMoves, f
  <1>5. QED
    BY <1>2, <1>4, CallMovesOnly DEF f

LEMMA CurateFsl10kMoves == ASSUME VolumeTypeOK, CurateFsl10k PROVE MovesOnly("curate_fsl10k")
  <1> DEFINE f == "curate_fsl10k"
  <1>1. /\ f \in DOMAIN CurationTouched
        /\ CurationTouched[f] = {"loops", "loop_selection", "loop_curation", "loop_items", "loop_report"}
    BY DEF CurationTouched
  <1>2. /\ f \in Functions
        /\ Touched[f] = {"loops", "loop_selection", "loop_curation", "loop_items", "loop_report"}
    BY <1>1, CurationTouches
  <1>3. /\ {} \in SUBSET OwnFiles(f) /\ {"loop_selection"} \in SUBSET OwnFiles(f)
        /\ {"loop_curation"} \in SUBSET OwnFiles(f) /\ {"loop_items"} \in SUBSET OwnFiles(f)
        /\ {"loop_report"} \in SUBSET OwnFiles(f)
    BY <1>2, WatchedFiles DEF OwnFiles, OwnWrites
  <1> HIDE DEF f
  <1>4. CallMoves(f)
    BY <1>3, PutWrites, RemoveWrites, NothingWrites
    DEF CurateFsl10k, AuditTree, Raise, CommitAndReturn, CallMoves, f
  <1>5. QED
    BY <1>2, <1>4, CallMovesOnly DEF f

LEMMA CurateIdmtSmtGuitarMoves == ASSUME VolumeTypeOK, CurateIdmtSmtGuitar
                                  PROVE  MovesOnly("curate_idmt_smt_guitar")
  <1> DEFINE f == "curate_idmt_smt_guitar"
  <1>1. /\ f \in DOMAIN CurationTouched
        /\ CurationTouched[f] = {"guitars", "guitar_curation", "guitar_items", "guitar_report"}
    BY DEF CurationTouched
  <1>2. f \in Functions /\ Touched[f] = {"guitars", "guitar_curation", "guitar_items", "guitar_report"}
    BY <1>1, CurationTouches
  <1>3. /\ {"guitar_curation"} \in SUBSET OwnFiles(f) /\ {"guitar_items"} \in SUBSET OwnFiles(f)
        /\ {"guitar_report"} \in SUBSET OwnFiles(f)
    BY <1>2, WatchedFiles DEF OwnFiles, OwnWrites
  <1> HIDE DEF f
  <1>4. CallMoves(f)
    BY <1>3, PutWrites, RemoveWrites, NothingWrites
    DEF CurateIdmtSmtGuitar, Curate, AuditTree, Raise, CommitAndReturn, CallMoves, f
  <1>5. QED
    BY <1>2, <1>4, CallMovesOnly DEF f

LEMMA CurateOnairMusicMoves == ASSUME VolumeTypeOK, CurateOnairMusic PROVE MovesOnly("curate_onair_music")
  <1> DEFINE f == "curate_onair_music"
  <1>1. /\ f \in DOMAIN CurationTouched
        /\ CurationTouched[f] = {"onair", "onair_curation", "onair_items", "onair_report"}
    BY DEF CurationTouched
  <1>2. f \in Functions /\ Touched[f] = {"onair", "onair_curation", "onair_items", "onair_report"}
    BY <1>1, CurationTouches
  <1>3. /\ {"onair_curation"} \in SUBSET OwnFiles(f) /\ {"onair_items"} \in SUBSET OwnFiles(f)
        /\ {"onair_report"} \in SUBSET OwnFiles(f)
    BY <1>2, WatchedFiles DEF OwnFiles, OwnWrites
  <1> HIDE DEF f
  <1>4. CallMoves(f)
    BY <1>3, PutWrites, RemoveWrites, NothingWrites
    DEF CurateOnairMusic, Curate, AuditTree, Raise, CommitAndReturn, CallMoves, f
  <1>5. QED
    BY <1>2, <1>4, CallMovesOnly DEF f

LEMMA AuditRawstemsMoves == ASSUME VolumeTypeOK, AuditRawstems PROVE MovesOnly("audit_rawstems_selection")
  <1> DEFINE f == "audit_rawstems_selection"
  <1>1. /\ f \in DOMAIN CurationTouched
        /\ CurationTouched[f] = {"rawstems", "rawstems_receipt", "rawstems_items", "rawstems_report"}
    BY DEF CurationTouched
  <1>2. /\ f \in Functions
        /\ Touched[f] = {"rawstems", "rawstems_receipt", "rawstems_items", "rawstems_report"}
    BY <1>1, CurationTouches
  <1>3. {"rawstems_items"} \in SUBSET OwnFiles(f) /\ {"rawstems_report"} \in SUBSET OwnFiles(f)
    BY <1>2, WatchedFiles DEF OwnFiles, OwnWrites
  <1> HIDE DEF f
  <1>4. CallMoves(f)
    BY <1>3, PutWrites, RemoveWrites, NothingWrites
    DEF AuditRawstems, AuditTree, Raise, CommitAndReturn, CallMoves, f
  <1>5. QED
    BY <1>2, <1>4, CallMovesOnly DEF f

-----------------------------------------------------------------------------

\* What the steps of a call do to its files and to the volume.
LEMMA StartReads ==
    ASSUME VolumeTypeOK, NEW f \in Functions, NEW needs, NEW first, Start(f, needs, first)
    PROVE  /\ reached[f] = "idle" /\ reached'[f] = first /\ volume' = volume /\ dirty' = dirty
           /\ \A p \in needs : volume[p] # Missing
           /\ \A p \in Touched[f] : view'[f][p] = volume[p]
  BY DEF VolumeTypeOK, Start

\* What a writing statement leaves in its view.
LEMMA PutStatement ==
    ASSUME VolumeTypeOK, NEW f \in Functions, NEW from, NEW to, NEW q, NEW value,
           Statement(f, from, to, Put(q, value))
    PROVE  /\ reached[f] = from /\ reached'[f] = to /\ volume' = volume /\ dirty'[f] = dirty[f] \cup {q}
           /\ \A p \in Touched[f] : view'[f][p] = IF p = q THEN value ELSE view[f][p]
  <1>1. DOMAIN Put(q, value) = {q} /\ Put(q, value)[q] = value
    BY DEF Put
  <1>2. QED
    BY <1>1 DEF VolumeTypeOK, Statement

\* What a removing one leaves.
LEMMA RemoveStatement ==
    ASSUME VolumeTypeOK, NEW f \in Functions, NEW from, NEW to, NEW ps, Statement(f, from, to, Remove(ps))
    PROVE  /\ reached[f] = from /\ reached'[f] = to /\ volume' = volume /\ dirty'[f] = dirty[f] \cup ps
           /\ \A p \in Touched[f] : view'[f][p] = IF p \in ps THEN Missing ELSE view[f][p]
  <1>1. DOMAIN Remove(ps) = ps /\ \A q \in ps : Remove(ps)[q] = Missing
    BY DEF Remove
  <1>2. QED
    BY <1>1 DEF VolumeTypeOK, Statement

\* What one without files leaves.
LEMMA NothingStatement ==
    ASSUME VolumeTypeOK, NEW f \in Functions, NEW from, NEW to, Statement(f, from, to, Nothing)
    PROVE  /\ reached[f] = from /\ reached'[f] = to /\ volume' = volume
           /\ \A p \in Touched[f] : view'[f][p] = view[f][p]
  <1>1. Statement(f, from, to, Remove({}))
    BY DEF Nothing
  <1>2. QED
    BY <1>1, RemoveStatement

\* What the end of a function leaves on the volume.
LEMMA OverCommits ==
    ASSUME VolumeTypeOK, NEW f \in Functions, Over(f)
    PROVE  /\ reached'[f] = "idle" /\ dirty'[f] = {}
           /\ \A p \in VolumePaths : volume'[p] = IF p \in dirty[f] THEN view[f][p] ELSE volume[p]
           /\ \A p \in Touched[f] : view'[f][p] = Missing
  BY DEF VolumeTypeOK, Over, Merged, NoView

\* A commit in the background shows what was written so far.
LEMMA CommitsView ==
    ASSUME VolumeTypeOK, NEW f \in Functions, BackgroundVolumeCommit(f)
    PROVE  /\ reached' = reached /\ view' = view /\ f \in Running /\ dirty'[f] = {}
           /\ \A p \in VolumePaths : volume'[p] = IF p \in dirty[f] THEN view[f][p] ELSE volume[p]
  BY DEF VolumeTypeOK, BackgroundVolumeCommit, Merged

\* A death loses what was not committed.
LEMMA DeathLoses ==
    ASSUME VolumeTypeOK, NEW f \in Functions, ContainerDies(f)
    PROVE  /\ reached'[f] = "idle" /\ dirty'[f] = {} /\ volume' = volume
           /\ \A p \in Touched[f] : view'[f][p] = Missing
  BY DEF VolumeTypeOK, ContainerDies, NoView

-----------------------------------------------------------------------------

\* The predictions that may stand beside a receipt, in the view of an export or on the volume.
Described(receipt, prediction) == receipt \notin {Missing, Broken} => prediction \in {Missing, receipt}

\* The view of an export describes what it holds, and is the volume's where it has not written;
\* there is no receipt, or a torn one, while it writes.
ExportSoFar ==
    LET f == "export_specialist" IN
    /\ ExportDescribed
    /\ reached[f] # "idle" =>
         /\ \A p \in Predictions : Described(view[f]["export_receipt"], view[f][p])
         /\ \A p \in Exported : p \in dirty[f] \/ view[f][p] = volume[p]
         /\ reached[f] \in {"predicting", "scoring", "recording", "writing"} =>
              view[f]["export_receipt"] \in {Missing, Broken}
         /\ reached[f] \in {"recording", "writing"} => \A p \in Predictions : view[f][p] = view[f]["checkpoint"]

\* The files of an export.
LEMMA ExportTouches ==
    /\ "export_specialist" \in Functions /\ Exported \subseteq VolumePaths
    /\ Touched["export_specialist"] = {"checkpoint", "validation_set"} \cup Exported
    /\ Predictions \subseteq Exported /\ "export_receipt" \in Exported \ Predictions
    /\ Exported \cap {"checkpoint", "validation_set"} = {}
  <1>1. /\ "export_specialist" \in DOMAIN TrainingTouched
        /\ TrainingTouched["export_specialist"] = {"checkpoint", "validation_set"} \cup Exported
    BY DEF TrainingTouched
  <1>2. /\ Predictions \subseteq Exported /\ "export_receipt" \in Exported \ Predictions
        /\ Exported \cap {"checkpoint", "validation_set"} = {}
    BY DEF Exported, Predictions
  <1>3. QED
    BY <1>1, <1>2, TrainingTouches DEF VolumePaths

\* Within an export a receipt that can be read describes the predictions beside it.
LEMMA ExportSteps ==
    ASSUME VolumeTypeOK, ExportSoFar, ExportSpecialist PROVE ExportSoFar'
  <1> DEFINE f == "export_specialist"
             written(value) == [p \in Predictions |-> value]
  <1>1. /\ f \in Functions /\ Exported \subseteq VolumePaths
        /\ Touched[f] = {"checkpoint", "validation_set"} \cup Exported
        /\ Predictions \subseteq Exported /\ "export_receipt" \in Exported \ Predictions
        /\ Exported \cap {"checkpoint", "validation_set"} = {}
    BY ExportTouches
  <1> HIDE DEF f
  <1> USE DEF ExportSoFar, ExportDescribed, Described
  <1>2. CASE Start(f, {"checkpoint", "validation_set"}, "clearing")
    BY <1>1, <1>2, StartReads DEF f
  <1>3. CASE ClearExport(f) /\ ~Over(f)
    <2>1. CASE \E p \in Exported : Statement(f, "clearing", "clearing", Remove({p}))
      BY <1>1, <2>1, RemoveStatement DEF f
    <2>2. CASE (\A p \in Exported : view[f][p] = Missing) /\ Statement(f, "clearing", "predicting", Nothing)
      <3>1. Statement(f, "clearing", "predicting", Remove({}))
        BY <2>2 DEF Nothing
      <3>2. QED
        BY <1>1, <2>2, <3>1, RemoveStatement DEF f
    <2>3. QED
      BY <1>3, <2>1, <2>2 DEF ClearExport, Raise
  <1>4. ASSUME NEW value, NEW from, NEW to, Statement(f, from, to, written(value))
        PROVE  /\ reached[f] = from /\ reached'[f] = to /\ volume' = volume /\ dirty'[f] = dirty[f] \cup Predictions
               /\ \A p \in Predictions : view'[f][p] = value
               /\ \A p \in Touched[f] \ Predictions : view'[f][p] = view[f][p]
    <2>1. DOMAIN written(value) = Predictions /\ \A p \in Predictions : written(value)[p] = value
      OBVIOUS
    <2> HIDE DEF written
    <2>2. QED
      BY <1>1, <1>4, <2>1 DEF VolumeTypeOK, Statement
  <1> HIDE DEF written
  <1>5. CASE Statement(f, "predicting", "scoring", written(Broken))
    BY <1>1, <1>4, <1>5 DEF f
  <1>6. CASE Statement(f, "scoring", "recording", written(view[f]["checkpoint"]))
    BY <1>1, <1>4, <1>6 DEF f
  <1>7. CASE Statement(f, "recording", "writing", Put("export_receipt", Broken))
    BY <1>1, <1>7, PutStatement DEF f
  <1>8. CASE Statement(f, "writing", "committing", Put("export_receipt", view[f]["checkpoint"]))
    BY <1>1, <1>8, PutStatement DEF f
  <1>9. CASE Over(f) /\ reached[f] # "idle"
    BY <1>1, <1>9, OverCommits DEF f
  <1>10. \/ Start(f, {"checkpoint", "validation_set"}, "clearing") \/ (ClearExport(f) /\ ~Over(f))
         \/ Statement(f, "predicting", "scoring", written(Broken))
         \/ Statement(f, "scoring", "recording", written(view[f]["checkpoint"]))
         \/ Statement(f, "recording", "writing", Put("export_receipt", Broken))
         \/ Statement(f, "writing", "committing", Put("export_receipt", view[f]["checkpoint"]))
         \/ (Over(f) /\ reached[f] # "idle")
    <2>1. ClearExport(f) => ~Over(f) \/ reached[f] # "idle"
      BY DEF ClearExport, Raise, Statement
    <2>2. QED
      BY <2>1 DEF f, written, ExportSpecialist, Raise, CommitAndReturn
  <1>11. QED
    BY <1>2, <1>3, <1>5, <1>6, <1>7, <1>8, <1>9, <1>10

-----------------------------------------------------------------------------

SetReaders == {"train_specialist", "export_specialist", "build_validation", "install_validation_set"}

\* No container has a set that is not whole, and the one that is built is whole when it is renamed.
SetSoFar ==
    /\ volume["validation_set"] # Broken
    /\ \A f \in SetReaders : view[f]["validation_set"] # Broken
    /\ reached["build_validation"] = "replacing" => view["build_validation"]["temporary_set"] # Broken

\* Who reads the validation set.
LEMMA ReadersTouch ==
    /\ "validation_set" \in VolumePaths /\ SetReaders \subseteq Functions
    /\ \A f \in SetReaders : "validation_set" \in Touched[f]
    /\ Touched["build_validation"] = {"renders", "temporary_set", "validation_set"}
  <1>1. ASSUME NEW f \in SetReaders
        PROVE  f \in DOMAIN TrainingTouched /\ "validation_set" \in TrainingTouched[f]
    BY DEF TrainingTouched, SetReaders
  <1>2. ASSUME NEW f \in SetReaders PROVE f \in Functions /\ "validation_set" \in Touched[f]
    BY <1>1, TrainingTouches
  <1>3. /\ "build_validation" \in DOMAIN TrainingTouched
        /\ TrainingTouched["build_validation"] = {"renders", "temporary_set", "validation_set"}
    BY DEF TrainingTouched
  <1>4. "train_specialist" \in SetReaders
    BY DEF SetReaders
  <1>5. QED
    BY <1>2, <1>3, <1>4, TrainingTouches DEF VolumePaths

\* A step of one reader that leaves its own copy and the volume's whole leaves all whole.
LEMMA SetKept ==
    ASSUME VolumeTypeOK, SetSoFar, NEW f \in SetReaders, MovesOnly(f),
           volume'["validation_set"] # Broken, view'[f]["validation_set"] # Broken,
           reached'["build_validation"] = "replacing" /\ f = "build_validation" =>
              view'["build_validation"]["temporary_set"] # Broken
    PROVE  SetSoFar'
  <1>1. SetReaders \subseteq Functions /\ "build_validation" \in SetReaders
    BY ReadersTouch DEF SetReaders
  <1>2. ASSUME NEW g \in SetReaders PROVE view'[g]["validation_set"] # Broken
    BY <1>1 DEF SetSoFar, MovesOnly
  <1>3. QED
    BY <1>1, <1>2 DEF SetSoFar, MovesOnly

\* A function whose statements leave no broken set in its view keeps the sets whole.
LEMMA SetSteps ==
    ASSUME VolumeTypeOK, SetSoFar, NEW f \in SetReaders, MovesOnly(f),
           \/ \E needs, first : Start(f, needs, first) /\ first # "replacing"
           \/ Over(f) \/ ContainerDies(f) \/ BackgroundVolumeCommit(f)
           \/ \E from, to, q, value : /\ q # "validation_set" \/ value # Broken
                                      /\ to = "replacing" => f # "build_validation" \/ (q = "temporary_set" /\ value # Broken)
                                      /\ Statement(f, from, to, Put(q, value))
           \/ \E from, to, ps : (to = "replacing" => f # "build_validation") /\ Statement(f, from, to, Remove(ps))
    PROVE  SetSoFar'
  <1>1. f \in Functions /\ "validation_set" \in VolumePaths /\ "validation_set" \in Touched[f]
    BY ReadersTouch
  <1>2. volume["validation_set"] # Broken /\ view[f]["validation_set"] # Broken /\ Missing # Broken
    BY DEF SetSoFar, Missing, Broken
  <1>3. CASE \E needs, first : Start(f, needs, first) /\ first # "replacing"
    <2>1. /\ volume'["validation_set"] # Broken /\ view'[f]["validation_set"] # Broken
          /\ reached'[f] # "replacing"
      BY <1>1, <1>2, <1>3, StartReads
    <2>2. QED
      BY <2>1, SetKept
  <1>4. CASE Over(f)
    <2>1. /\ volume'["validation_set"] # Broken /\ view'[f]["validation_set"] # Broken
          /\ reached'[f] # "replacing"
      BY <1>1, <1>2, <1>4, OverCommits
    <2>2. QED
      BY <2>1, SetKept
  <1>5. CASE ContainerDies(f)
    <2>1. /\ volume'["validation_set"] # Broken /\ view'[f]["validation_set"] # Broken
          /\ reached'[f] # "replacing"
      BY <1>1, <1>2, <1>5, DeathLoses
    <2>2. QED
      BY <2>1, SetKept
  <1>6. CASE BackgroundVolumeCommit(f)
    <2>1. volume'["validation_set"] # Broken /\ view' = view /\ reached' = reached
      BY <1>1, <1>2, <1>6, CommitsView
    <2>2. QED
      BY <2>1 DEF SetSoFar
  <1>7. CASE \E from, to, q, value : /\ q # "validation_set" \/ value # Broken
                                     /\ to = "replacing" => f # "build_validation" \/ (q = "temporary_set" /\ value # Broken)
                                     /\ Statement(f, from, to, Put(q, value))
    <2>1. PICK from, to, q, value : /\ q # "validation_set" \/ value # Broken
                                    /\ to = "replacing" => f # "build_validation" \/ (q = "temporary_set" /\ value # Broken)
                                    /\ Statement(f, from, to, Put(q, value))
      BY <1>7
    <2>2. /\ volume' = volume /\ reached'[f] = to
          /\ \A p \in Touched[f] : view'[f][p] = IF p = q THEN value ELSE view[f][p]
      BY <1>1, <2>1, PutStatement
    <2>3. f = "build_validation" => "temporary_set" \in Touched[f]
      BY ReadersTouch
    <2>4. QED
      BY <1>1, <1>2, <2>1, <2>2, <2>3, SetKept
  <1>8. CASE \E from, to, ps : (to = "replacing" => f # "build_validation") /\ Statement(f, from, to, Remove(ps))
    <2>1. PICK from, to, ps : (to = "replacing" => f # "build_validation") /\ Statement(f, from, to, Remove(ps))
      BY <1>8
    <2>2. /\ volume' = volume /\ reached'[f] = to
          /\ \A p \in Touched[f] : view'[f][p] = IF p \in ps THEN Missing ELSE view[f][p]
      BY <1>1, <2>1, RemoveStatement
    <2>3. QED
      BY <1>1, <1>2, <2>1, <2>2, SetKept
  <1>9. QED
    BY <1>3, <1>4, <1>5, <1>6, <1>7, <1>8

\* Training reads it.
LEMMA TrainSetSteps == ASSUME VolumeTypeOK, SetSoFar, TrainSpecialist PROVE SetSoFar'
  <1> DEFINE f == "train_specialist"
  <1>1. f \in SetReaders /\ MovesOnly(f)
    BY TrainSpecialistMoves DEF SetReaders
  <1> HIDE DEF f
  <1>2. QED
    BY <1>1, SetSteps DEF f, TrainSpecialist, Raise, CommitAndReturn

\* An export reads it.
LEMMA ExportSetSteps == ASSUME VolumeTypeOK, SetSoFar, ExportSpecialist PROVE SetSoFar'
  <1> DEFINE f == "export_specialist"
             written(value) == [p \in Predictions |-> value]
  <1>1. f \in SetReaders /\ f \in Functions /\ MovesOnly(f) /\ f # "build_validation"
    BY ExportSpecialistMoves, ReadersTouch DEF SetReaders
  <1>2. ASSUME NEW value, NEW from, NEW to, Statement(f, from, to, written(value)) PROVE SetSoFar'
    <2>1. "validation_set" \in Touched[f] /\ "validation_set" \notin Predictions
      BY ExportTouches
    <2>2. view'[f]["validation_set"] = view[f]["validation_set"] /\ volume' = volume
      BY <1>1, <1>2, <2>1 DEF VolumeTypeOK, Statement
    <2>3. QED
      BY <1>1, <2>2, SetKept DEF SetSoFar
  <1> HIDE DEF f, written
  <1>3. CASE Start(f, {"checkpoint", "validation_set"}, "clearing") \/ Over(f)
    BY <1>1, <1>3, SetSteps
  <1>4. ASSUME NEW ps, NEW to, Statement(f, "clearing", to, Remove(ps)) PROVE SetSoFar'
    BY <1>1, <1>4, SetSteps
  <1>5. ASSUME NEW from, NEW to, NEW value, Statement(f, from, to, Put("export_receipt", value)) PROVE SetSoFar'
    BY <1>1, <1>5, SetSteps
  <1>6. \/ Start(f, {"checkpoint", "validation_set"}, "clearing") \/ Over(f)
        \/ \E p \in Exported : Statement(f, "clearing", "clearing", Remove({p}))
        \/ Statement(f, "clearing", "predicting", Remove({}))
        \/ Statement(f, "predicting", "scoring", written(Broken))
        \/ Statement(f, "scoring", "recording", written(view[f]["checkpoint"]))
        \/ \E from, to, value : Statement(f, from, to, Put("export_receipt", value))
    BY DEF f, written, ExportSpecialist, ClearExport, Raise, CommitAndReturn, Nothing
  <1>7. QED
    BY <1>2, <1>3, <1>4, <1>5, <1>6

\* An installation writes it whole.
LEMMA InstallSetSteps == ASSUME VolumeTypeOK, SetSoFar, InstallValidationSet PROVE SetSoFar'
  <1> DEFINE f == "install_validation_set"
  <1>1. f \in SetReaders /\ MovesOnly(f) /\ f # "build_validation"
    BY InstallValidationSetMoves DEF SetReaders
  <1> HIDE DEF f
  <1>2. QED
    BY <1>1, SetSteps DEF f, InstallValidationSet, InstallSet, Raise, CommitAndReturn, Nothing, Broken

\* Building it breaks a temporary file only, and renames it when it is whole.
LEMMA BuildSetSteps == ASSUME VolumeTypeOK, SetSoFar, BuildValidation PROVE SetSoFar'
  <1> DEFINE f == "build_validation"
             torn == [p \in {"renders", "temporary_set"} |-> Broken]
             renamed == [p \in {"temporary_set", "validation_set"} |->
                            IF p = "validation_set" THEN view[f]["temporary_set"] ELSE Missing]
  <1>1. /\ f \in SetReaders /\ f \in Functions /\ MovesOnly(f)
        /\ Touched[f] = {"renders", "temporary_set", "validation_set"}
    BY BuildValidationMoves, ReadersTouch DEF SetReaders, MovesOnly
  <1>2. ASSUME Statement(f, "linking", "describing", torn) PROVE SetSoFar'
    <2>1. /\ view'[f]["validation_set"] = view[f]["validation_set"] /\ reached'[f] = "describing"
          /\ volume' = volume
      BY <1>1, <1>2 DEF VolumeTypeOK, Statement
    <2>2. QED
      BY <1>1, <2>1, SetKept DEF SetSoFar
  <1>3. ASSUME Statement(f, "replacing", "committing", renamed) PROVE SetSoFar'
    <2>1. /\ view'[f]["validation_set"] = view[f]["temporary_set"] /\ reached'[f] = "committing" /\ volume' = volume
          /\ reached[f] = "replacing"
      BY <1>1, <1>3 DEF VolumeTypeOK, Statement
    <2>2. QED
      BY <1>1, <2>1, SetKept DEF SetSoFar
  <1>4. CASE \/ Start(f, {}, "building") \/ Over(f)
             \/ Statement(f, "building", "committing", Nothing)
             \/ Statement(f, "building", "linking", Remove({"temporary_set"}))
             \/ Statement(f, "describing", "replacing", Put("temporary_set", 1))
             \/ Statement(f, "describing", "failed", Remove({"temporary_set"}))
    <2> HIDE DEF f
    <2>1. QED
      BY <1>1, <1>4, SetSteps DEF Nothing, Broken
  <1>5. QED
    BY <1>2, <1>3, <1>4 DEF BuildValidation, Raise, CommitAndReturn

-----------------------------------------------------------------------------

\* A receipt is of a prefix that is whole: on the volume, in what its acquisition is about to
\* commit, and where an audit has seen it.
AcquiredAt(x) ==
    LET a == AcquirerOf[x] IN
    /\ volume["prefix_receipt"] = x => \A p \in PartsOf[x] : volume[p] = 1
    /\ reached[a] = "idle" => dirty[a] = {}
    /\ reached[a] # "idle" =>
         /\ volume["prefix_receipt"] = x => WholeIn(a, x)
         /\ \A p \in PartsOf[x] : p \in dirty[a] \/ view[a][p] = volume[p]
    /\ reached[a] \in {"writing", "committing"} => WholeIn(a, x)
    /\ "prefix_receipt" \in dirty[a] =>
         view[a]["prefix_receipt"] = Broken \/ (view[a]["prefix_receipt"] = x /\ WholeIn(a, x))
AuditedAt(x) ==
    LET u == AuditorOf[x] IN
    /\ volume[ItemsOf[x]] # SomeRows
    /\ reached[u] # "idle" =>
         /\ view[u]["prefix_receipt"] = x => WholeIn(u, x)
         /\ view[u][ItemsOf[x]] # SomeRows
PrefixAt(x) == AcquiredAt(x) /\ AuditedAt(x)

PrefixSoFar == \A x \in Prefixes : PrefixAt(x)

\* The acquirers and auditors are apart, and so are their files.
LEMMA PrefixesApart ==
    ASSUME NEW x \in Prefixes
    PROVE  /\ x # Broken /\ x # Missing
           /\ "prefix_receipt" \notin PartsOf[x] \cup {ItemsOf[x], ReportOf[x]} /\ ItemsOf[x] \notin PartsOf[x]
           /\ ReportOf[x] \notin PartsOf[x] /\ ReportOf[x] # ItemsOf[x] /\ FirstOf[x] \in PartsOf[x]
           /\ AcquirerOf[x] # AuditorOf[x] /\ AuditorOf[x] \notin SetReaders /\ AcquirerOf[x] \notin SetReaders
           /\ \A y \in Prefixes \ {x} :
                /\ AcquirerOf[y] \notin {AcquirerOf[x], AuditorOf[x]} /\ AuditorOf[y] \notin {AcquirerOf[x], AuditorOf[x]}
  BY DEF Prefixes, AcquirerOf, AuditorOf, PartsOf, FirstOf, ItemsOf, ReportOf, SetReaders, Broken, Missing

\* What only one function writes.
LEMMA OwnersOfPrefix ==
    ASSUME NEW x \in Prefixes, NEW f, f \notin {AcquirerOf[x], AuditorOf[x]}
    PROVE  /\ OwnWrites(f) \cap (PartsOf[x] \cup {ItemsOf[x]}) = {}
           /\ PartsOf[x] \cup {ItemsOf[x]} \subseteq Watched
  BY DEF Prefixes, AcquirerOf, AuditorOf, PartsOf, FirstOf, ItemsOf, OwnWrites, Watched, PrefixFiles, Exported,
         Predictions

\* A function other than its own two leaves a prefix alone, if it puts no receipt of it there.
LEMMA PrefixOthers ==
    ASSUME WritesOwn, NEW x \in Prefixes, PrefixAt(x), NEW f, MovesOnly(f), f \notin {AcquirerOf[x], AuditorOf[x]},
           volume'["prefix_receipt"] = x => volume["prefix_receipt"] = x
    PROVE  PrefixAt(x)'
  <1>1. /\ AcquirerOf[x] \in Functions /\ AuditorOf[x] \in Functions
        /\ PartsOf[x] \subseteq VolumePaths /\ ItemsOf[x] \in VolumePaths
    BY PrefixTouches DEF PrefixFiles
  <1>2. dirty[f] \cap (PartsOf[x] \cup {ItemsOf[x]}) = {}
    BY OwnersOfPrefix DEF WritesOwn, MovesOnly
  <1>3. \A p \in PartsOf[x] \cup {ItemsOf[x]} : volume'[p] = volume[p]
    BY <1>1, <1>2 DEF MovesOnly
  <1>4. \A g \in {AcquirerOf[x], AuditorOf[x]} : view'[g] = view[g] /\ dirty'[g] = dirty[g] /\ reached'[g] = reached[g]
    BY <1>1 DEF MovesOnly
  <1>5. QED
    BY <1>3, <1>4 DEF PrefixAt, AcquiredAt, AuditedAt, WholeIn

\* What an acquisition puts on the volume: files of its prefix, and its own receipt or a torn one.
LEMMA AcquirerWrites ==
    ASSUME WritesOwn, NEW x \in Prefixes, PrefixAt(x), MovesOnly(AcquirerOf[x]),
           \A p \in VolumePaths : volume'[p] \in {volume[p], view[AcquirerOf[x]][p]}
    PROVE  \A y \in Prefixes \ {x} : volume'["prefix_receipt"] = y => volume["prefix_receipt"] = y
  <1> TAKE y \in Prefixes \ {x}
  <1>1. "prefix_receipt" \in VolumePaths /\ y # Broken /\ y # x
    BY PrefixTouches, PrefixesApart DEF PrefixFiles
  <1>2. "prefix_receipt" \notin dirty[AcquirerOf[x]] => volume'["prefix_receipt"] = volume["prefix_receipt"]
    BY <1>1 DEF MovesOnly
  <1>3. QED
    BY <1>1, <1>2 DEF PrefixAt, AcquiredAt

\* The receipt of a prefix follows its parts.
LEMMA AcquireSteps ==
    ASSUME VolumeTypeOK, WritesOwn, PrefixSoFar, NEW x \in Prefixes, AcquirePrefix(x) PROVE PrefixSoFar'
  <1> DEFINE a == AcquirerOf[x]
             u == AuditorOf[x]
  <1>1. /\ a \in Functions /\ Touched[a] = PartsOf[x] \cup {"prefix_receipt"} /\ MovesOnly(a)
        /\ PartsOf[x] \cup {"prefix_receipt", ItemsOf[x]} \subseteq VolumePaths
        /\ "prefix_receipt" \notin PartsOf[x] /\ ItemsOf[x] \notin PartsOf[x] /\ x # Broken /\ PrefixAt(x)
    BY AcquirePrefixMoves, PrefixTouches, PrefixesApart DEF PrefixFiles, PrefixSoFar
  <1>2. ItemsOf[x] \notin dirty[a] /\ u # a /\ u \in Functions
    <2>1. OwnWrites(a) = PartsOf[x] \cup {"prefix_receipt"} /\ ItemsOf[x] \in Watched /\ u # a /\ u \in Functions
          /\ "prefix_receipt" # ItemsOf[x]
      BY PrefixTouches, PrefixesApart, WatchedFiles DEF PrefixFiles, Prefixes, ItemsOf
    <2>2. QED
      BY <1>1, <2>1 DEF WritesOwn
  <1>3. view'[u] = view[u] /\ reached'[u] = reached[u] /\ volume'[ItemsOf[x]] = volume[ItemsOf[x]]
    BY <1>1, <1>2 DEF MovesOnly
  <1> HIDE DEF a, u
  <1>0. AuditedAt(x)'
    BY <1>1, <1>3 DEF PrefixAt, AuditedAt, WholeIn, u
  <1>4. ASSUME NEW from, NEW to, NEW q \in Touched[a], NEW value, Statement(a, from, to, Put(q, value)),
               q \in PartsOf[x] => view[a][q] # 1 /\ to \notin {"writing", "committing"} /\ from \notin {"idle", "writing"},
               q = "prefix_receipt" => WholeIn(a, x) /\ value \in {Broken, x} /\ from # "idle",
               to # "idle"
        PROVE  AcquiredAt(x)'
    BY <1>1, <1>4, PutStatement DEF PrefixAt, AcquiredAt, WholeIn, a
  <1>5. ASSUME Start(a, {}, "listing") PROVE AcquiredAt(x)'
    BY <1>1, <1>5, StartReads DEF PrefixAt, AcquiredAt, WholeIn, a
  <1>6. ASSUME Statement(a, "listing", "downloading", Nothing) PROVE AcquiredAt(x)'
    <2>1. Statement(a, "listing", "downloading", Remove({}))
      BY <1>6 DEF Nothing
    <2>2. QED
      BY <1>1, <2>1, RemoveStatement DEF PrefixAt, AcquiredAt, WholeIn, a
  <1>7. ASSUME WholeIn(a, x) /\ Statement(a, "downloading", "writing", Put("prefix_receipt", Broken)) PROVE AcquiredAt(x)'
    BY <1>1, <1>4, <1>7
  <1>8. ASSUME Statement(a, "writing", "committing", Put("prefix_receipt", x)) PROVE AcquiredAt(x)'
    <2>1. WholeIn(a, x)
      BY <1>1, <1>8, PutStatement DEF PrefixAt, AcquiredAt, a
    <2>2. QED
      BY <1>1, <1>4, <1>8, <2>1
  <1>9. ASSUME NEW p \in PartsOf[x], view[a][p] # 1,
               \/ Statement(a, "downloading", "downloading", Put(p, 1))
               \/ Statement(a, "downloading", "mismatched", Put(p, Broken))
        PROVE  AcquiredAt(x)'
    BY <1>1, <1>4, <1>9
  <1>10. ASSUME Over(a) /\ reached[a] # "idle" PROVE AcquiredAt(x)'
    BY <1>1, <1>10, OverCommits DEF PrefixAt, AcquiredAt, WholeIn, a
  <1>11. AcquiredAt(x)'
    BY <1>4, <1>5, <1>6, <1>7, <1>8, <1>9, <1>10 DEF a, AcquirePrefix, WritePrefixReceipt, Raise, CommitAndReturn
  <1>12. \A p \in VolumePaths : volume'[p] \in {volume[p], view[a][p]}
    BY <1>1 DEF a, AcquirePrefix, WritePrefixReceipt, Raise, CommitAndReturn, Start, Statement, Over, Merged
  <1>13. ASSUME NEW y \in Prefixes \ {x} PROVE PrefixAt(y)'
    <2>1. volume'["prefix_receipt"] = y => volume["prefix_receipt"] = y
      BY <1>1, <1>12, AcquirerWrites DEF a
    <2>2. a \notin {AcquirerOf[y], AuditorOf[y]}
      BY PrefixesApart DEF a
    <2>3. QED
      BY <1>1, <2>1, <2>2, PrefixOthers DEF PrefixSoFar
  <1>14. QED
    BY <1>0, <1>11, <1>13 DEF PrefixSoFar, PrefixAt

\* An audit under a prefix's receipt counts parts that are all there.
LEMMA AuditSteps ==
    ASSUME VolumeTypeOK, WritesOwn, PrefixSoFar, NEW x \in Prefixes, AuditRegisteredTree(x) PROVE PrefixSoFar'
  <1> DEFINE a == AcquirerOf[x]
             u == AuditorOf[x]
             found == \E p \in PartsOf[x] : view[u][p] # Missing
  <1>1. /\ u \in Functions /\ Touched[u] = PartsOf[x] \cup {"prefix_receipt", ItemsOf[x], ReportOf[x]} /\ MovesOnly(u)
        /\ PartsOf[x] \cup {"prefix_receipt", ItemsOf[x]} \subseteq VolumePaths
        /\ "prefix_receipt" \notin {ItemsOf[x], ReportOf[x]} /\ ItemsOf[x] \notin PartsOf[x]
        /\ ReportOf[x] \notin PartsOf[x] /\ ReportOf[x] # ItemsOf[x] /\ PrefixAt(x)
    BY AuditRegisteredTreeMoves, PrefixTouches, PrefixesApart DEF PrefixFiles, PrefixSoFar
  <1>2. /\ dirty[u] \cap (PartsOf[x] \cup {"prefix_receipt"}) = {} /\ u # a /\ a \in Functions
        /\ dirty[u] \cap Watched \subseteq {ItemsOf[x]}
    <2>1. dirty[u] \cap Watched \subseteq {ItemsOf[x]} /\ u # a /\ a \in Functions
      BY <1>1, PrefixTouches, PrefixesApart DEF WritesOwn
    <2>2. PartsOf[x] \cup {"prefix_receipt"} \subseteq Watched
      BY DEF Watched, PrefixFiles, Prefixes
    <2>3. QED
      BY <1>1, <2>1, <2>2
  <1>3. /\ view'[a] = view[a] /\ reached'[a] = reached[a] /\ dirty'[a] = dirty[a]
        /\ \A p \in PartsOf[x] \cup {"prefix_receipt"} : volume'[p] = volume[p]
    BY <1>1, <1>2 DEF MovesOnly
  <1> HIDE DEF a, u, found
  <1>0. AcquiredAt(x)'
    BY <1>1, <1>3 DEF PrefixAt, AcquiredAt, WholeIn, a
  <1>4. RowsIn(u, x) # SomeRows \/ reached[u] = "idle"
    BY <1>1 DEF RowsIn, PrefixAt, AuditedAt, u, OtherRows, SomeRows, AllRows
  <1>5. ASSUME Start(u, {"prefix_receipt"}, "auditing") PROVE AuditedAt(x)'
    BY <1>1, <1>5, StartReads DEF PrefixAt, AcquiredAt, AuditedAt, WholeIn, u
  <1>6. ASSUME Statement(u, "auditing", "writing_items", Put(ItemsOf[x], Broken)) PROVE AuditedAt(x)'
    BY <1>1, <1>6, PutStatement DEF PrefixAt, AuditedAt, WholeIn, u, Broken, SomeRows
  <1>7. ASSUME Statement(u, "writing_items", "writing_report", Put(ItemsOf[x], RowsIn(u, x))) PROVE AuditedAt(x)'
    <2>1. RowsIn(u, x) # SomeRows
      BY <1>1, <1>4, <1>7, PutStatement
    <2> DEFINE rows == RowsIn(u, x)
    <2>2. rows # SomeRows /\ Statement(u, "writing_items", "writing_report", Put(ItemsOf[x], rows))
      BY <1>7, <2>1
    <2> HIDE DEF rows
    <2>3. QED
      BY <1>1, <2>2, PutStatement DEF PrefixAt, AuditedAt, WholeIn, u
  <1>8. ASSUME Statement(u, "writing_report", "committing", Put(ReportOf[x], RowsIn(u, x))) PROVE AuditedAt(x)'
    <2> DEFINE rows == RowsIn(u, x)
    <2>1. Statement(u, "writing_report", "committing", Put(ReportOf[x], rows))
      BY <1>8
    <2> HIDE DEF rows
    <2>2. QED
      BY <1>1, <2>1, PutStatement DEF PrefixAt, AuditedAt, WholeIn, u
  <1>9. ASSUME Over(u) /\ reached[u] # "idle" PROVE AuditedAt(x)'
    BY <1>1, <1>9, OverCommits DEF PrefixAt, AuditedAt, WholeIn, u
  <1>10. AuditedAt(x)'
    BY <1>5, <1>6, <1>7, <1>8, <1>9 DEF u, found, AuditRegisteredTree, AuditTree, Raise, CommitAndReturn
  <1>11. ASSUME NEW y \in Prefixes \ {x} PROVE PrefixAt(y)'
    <2>1. u \notin {AcquirerOf[y], AuditorOf[y]}
      BY PrefixesApart DEF u
    <2>2. QED
      BY <1>1, <1>3, <2>1, PrefixOthers DEF PrefixSoFar
  <1>12. QED
    BY <1>0, <1>10, <1>11 DEF PrefixSoFar, PrefixAt

-----------------------------------------------------------------------------

VolumeInv == VolumeTypeOK /\ WritesOwn /\ ExportSoFar /\ SetSoFar /\ PrefixSoFar

\* The steps of the other functions, and the commits and deaths of these.
LEMMA OwnKept == ASSUME WritesOwn, NEW f, MovesOnly(f) PROVE WritesOwn'
  BY DEF WritesOwn, MovesOnly

\* A function without the files of an export leaves them alone.
LEMMA ExportElsewhere ==
    ASSUME WritesOwn, ExportSoFar, NEW f, MovesOnly(f), f # "export_specialist" PROVE ExportSoFar'
  <1>1. /\ Exported \subseteq VolumePaths /\ "export_specialist" \in Functions
        /\ Predictions \subseteq Exported /\ "export_receipt" \in Exported
    BY ExportTouches
  <1>2. OwnWrites(f) \cap Exported = {} /\ Exported \subseteq Watched
    BY DEF Watched, OwnWrites, Exported, Predictions, PrefixFiles, PartsOf, FirstOf
  <1>3. dirty[f] \cap Exported = {}
    BY <1>2 DEF WritesOwn, MovesOnly
  <1>4. QED
    BY <1>1, <1>3 DEF MovesOnly, ExportSoFar, ExportDescribed

\* Commits and deaths keep receipt and predictions together.
LEMMA ExportModal ==
    ASSUME VolumeTypeOK, ExportSoFar, NEW f, f = "export_specialist",
           BackgroundVolumeCommit(f) \/ ContainerDies(f)
    PROVE  ExportSoFar'
  <1>1. /\ f \in Functions /\ Exported \subseteq VolumePaths /\ Predictions \subseteq Exported
        /\ "export_receipt" \in Exported
    BY ExportTouches
  <1>2. CASE BackgroundVolumeCommit(f)
    <2>1. /\ reached' = reached /\ view' = view /\ reached[f] # "idle"
          /\ \A p \in Exported : volume'[p] = view[f][p]
      BY <1>1, <1>2, CommitsView DEF ExportSoFar, Running
    <2>2. QED
      BY <1>1, <2>1 DEF ExportSoFar, ExportDescribed, Described
  <1>3. CASE ContainerDies(f)
    BY <1>1, <1>3, DeathLoses DEF ExportSoFar, ExportDescribed
  <1>4. QED
    BY <1>2, <1>3

\* A function without the validation set leaves it alone.
LEMMA SetElsewhere ==
    ASSUME WritesOwn, SetSoFar, NEW f, MovesOnly(f), f \notin SetReaders PROVE SetSoFar'
  <1>1. "validation_set" \notin dirty[f]
    <2>1. "validation_set" \in Watched /\ "validation_set" \notin OwnWrites(f)
      BY WatchedFiles DEF OwnWrites, SetReaders, Exported, Predictions, PrefixFiles, PartsOf, FirstOf
    <2>2. QED
      BY <2>1 DEF WritesOwn, MovesOnly
  <1>2. /\ "validation_set" \in VolumePaths /\ SetReaders \subseteq Functions
        /\ "build_validation" \in SetReaders
    BY ReadersTouch DEF SetReaders
  <1>3. QED
    BY <1>1, <1>2 DEF MovesOnly, SetSoFar

\* A function without the files of a prefix leaves them alone.
LEMMA PrefixElsewhere ==
    ASSUME WritesOwn, PrefixSoFar, NEW f, MovesOnly(f), \A x \in Prefixes : f \notin {AcquirerOf[x], AuditorOf[x]}
    PROVE  PrefixSoFar'
  <1>1. "prefix_receipt" \in VolumePaths /\ "prefix_receipt" \in Watched
    BY PrefixTouches DEF PrefixFiles, Watched, Prefixes
  <1>2. "prefix_receipt" \notin OwnWrites(f)
    BY DEF OwnWrites, Prefixes, AcquirerOf, AuditorOf, Exported, Predictions
  <1>3. volume'["prefix_receipt"] = volume["prefix_receipt"]
    BY <1>1, <1>2 DEF MovesOnly, WritesOwn
  <1>4. QED
    BY <1>3, PrefixOthers DEF PrefixSoFar

\* Commits and deaths keep the prefixes and their receipt in order.
LEMMA PrefixModal ==
    ASSUME VolumeTypeOK, WritesOwn, PrefixSoFar, NEW x \in Prefixes, NEW f, f \in {AcquirerOf[x], AuditorOf[x]},
           MovesOnly(f), BackgroundVolumeCommit(f) \/ ContainerDies(f)
    PROVE  PrefixSoFar'
  <1> DEFINE a == AcquirerOf[x]
             u == AuditorOf[x]
  <1>1. /\ a \in Functions /\ u \in Functions /\ a # u /\ PrefixAt(x)
        /\ PartsOf[x] \cup {"prefix_receipt", ItemsOf[x]} \subseteq VolumePaths
        /\ PartsOf[x] \subseteq Touched[a]
    BY PrefixTouches, PrefixesApart DEF PrefixFiles, PrefixSoFar
  <1>2. /\ ItemsOf[x] \notin dirty[a] /\ ItemsOf[x] \notin PartsOf[x] /\ "prefix_receipt" \notin PartsOf[x]
        /\ dirty[u] \cap (PartsOf[x] \cup {"prefix_receipt"}) = {}
    <2>1. PartsOf[x] \cup {"prefix_receipt", ItemsOf[x]} \subseteq Watched
      BY DEF Watched, PrefixFiles, Prefixes, ItemsOf
    <2>2. OwnWrites(a) = PartsOf[x] \cup {"prefix_receipt"} /\ OwnWrites(u) = {ItemsOf[x]}
      BY PrefixTouches DEF PrefixFiles
    <2>3. ItemsOf[x] \notin PartsOf[x] \cup {"prefix_receipt"} /\ "prefix_receipt" \notin PartsOf[x]
      BY PrefixesApart
    <2>4. QED
      BY <1>1, <2>1, <2>2, <2>3 DEF WritesOwn
  <1>3. /\ f = a => view'[u] = view[u] /\ reached'[u] = reached[u] /\ volume'[ItemsOf[x]] = volume[ItemsOf[x]]
        /\ f = u => /\ view'[a] = view[a] /\ reached'[a] = reached[a] /\ dirty'[a] = dirty[a]
                    /\ \A p \in PartsOf[x] \cup {"prefix_receipt"} : volume'[p] = volume[p]
    BY <1>1, <1>2 DEF MovesOnly
  <1> HIDE DEF a, u
  <1>4. f \in {a, u}
    BY DEF a, u
  <1>5. ASSUME BackgroundVolumeCommit(f) PROVE PrefixAt(x)'
    <2>1. /\ reached' = reached /\ view' = view /\ reached[f] # "idle" /\ dirty'[f] = {}
          /\ \A p \in VolumePaths : volume'[p] = IF p \in dirty[f] THEN view[f][p] ELSE volume[p]
      BY <1>1, <1>4, <1>5, CommitsView DEF Running
    <2>2. CASE f = a
      BY <1>1, <1>2, <1>3, <2>1, <2>2, PrefixesApart DEF PrefixAt, AcquiredAt, AuditedAt, WholeIn, a, u
    <2>3. CASE f = u
      BY <1>1, <1>3, <2>1, <2>3 DEF PrefixAt, AcquiredAt, AuditedAt, WholeIn, a, u
    <2>4. QED
      BY <1>4, <2>2, <2>3
  <1>6. ASSUME ContainerDies(f) PROVE PrefixAt(x)' /\ volume' = volume
    <2>1. reached'[f] = "idle" /\ dirty'[f] = {} /\ volume' = volume
      BY <1>1, <1>4, <1>6, DeathLoses
    <2>2. QED
      BY <1>1, <1>3, <1>4, <2>1 DEF PrefixAt, AcquiredAt, AuditedAt, WholeIn, a, u
  <1>7. \A p \in VolumePaths : volume'[p] \in {volume[p], view[f][p]}
    <2>1. CASE BackgroundVolumeCommit(f)
      BY <1>1, <1>4, <2>1, CommitsView
    <2>2. CASE ContainerDies(f)
      BY <1>6, <2>2
    <2>3. QED
      BY <2>1, <2>2
  <1>8. ASSUME NEW y \in Prefixes \ {x} PROVE PrefixAt(y)'
    <2>1. volume'["prefix_receipt"] = y => volume["prefix_receipt"] = y
      <3>1. CASE f = a
        BY <1>1, <1>7, <3>1, AcquirerWrites DEF a
      <3>2. CASE f = u
        BY <1>3, <3>2
      <3>3. QED
        BY <1>4, <3>1, <3>2
    <2>2. f \notin {AcquirerOf[y], AuditorOf[y]}
      BY PrefixesApart
    <2>3. QED
      BY <2>1, <2>2, PrefixOthers DEF PrefixSoFar
  <1>9. QED
    BY <1>5, <1>6, <1>8 DEF PrefixSoFar

\* An index that is put on the volume is none of these files.
LEMMA PutIndexSteps == ASSUME VolumeInv, PutIndex PROVE VolumeInv'
  <1>1. UNCHANGED <<view, dirty, reached>> /\ VolumeTypeOK'
    BY DEF VolumeInv, VolumeTypeOK, PutIndex
  <1>2. \A p \in VolumePaths \ {"csv", "index"} : volume'[p] = volume[p]
    BY DEF VolumeInv, VolumeTypeOK, PutIndex
  <1>3. \A p \in Watched : p \in VolumePaths => volume'[p] = volume[p]
    BY <1>2 DEF Watched, Exported, Predictions, PrefixFiles, PartsOf, FirstOf
  <1>4. WritesOwn'
    BY <1>1 DEF VolumeInv, WritesOwn
  <1>5. ExportSoFar'
    <2>1. /\ Exported \subseteq Watched \cap VolumePaths /\ Predictions \subseteq Exported
          /\ "export_receipt" \in Exported
      BY ExportTouches DEF Watched
    <2>2. QED
      BY <1>1, <1>3, <2>1 DEF VolumeInv, ExportSoFar, ExportDescribed
  <1>6. SetSoFar'
    <2>1. "validation_set" \in Watched \cap VolumePaths
      BY ReadersTouch DEF Watched
    <2>2. QED
      BY <1>1, <1>3, <2>1 DEF VolumeInv, SetSoFar
  <1>7. PrefixSoFar'
    <2>1. ASSUME NEW x \in Prefixes
          PROVE  PartsOf[x] \cup {"prefix_receipt", ItemsOf[x]} \subseteq Watched \cap VolumePaths
      BY PrefixTouches DEF Watched, PrefixFiles, Prefixes, ItemsOf
    <2>2. QED
      BY <1>1, <1>3, <2>1 DEF VolumeInv, PrefixSoFar, PrefixAt, AcquiredAt, AuditedAt, WholeIn
  <1>8. QED
    BY <1>1, <1>4, <1>5, <1>6, <1>7 DEF VolumeInv

\* The functions that touch none of these files keep the invariant.
LEMMA ElsewhereSteps ==
    ASSUME VolumeInv, NEW f, MovesOnly(f),
           f \notin SetReaders, \A x \in Prefixes : f \notin {AcquirerOf[x], AuditorOf[x]}
    PROVE  VolumeInv'
  <1>1. f # "export_specialist" /\ VolumeTypeOK'
    BY DEF SetReaders, MovesOnly
  <1>2. QED
    BY <1>1, OwnKept, ExportElsewhere, SetElsewhere, PrefixElsewhere DEF VolumeInv

\* Commits in the background and deaths keep the invariant.
LEMMA ModalSteps == ASSUME VolumeInv, NEW f \in Functions, BackgroundVolumeCommit(f) \/ ContainerDies(f)
                    PROVE  VolumeInv'
  <1>1. MovesOnly(f) /\ VolumeTypeOK'
    BY ModalMoves DEF VolumeInv, MovesOnly
  <1>2. WritesOwn'
    BY <1>1, OwnKept DEF VolumeInv
  <1>3. ExportSoFar'
    BY <1>1, ExportElsewhere, ExportModal DEF VolumeInv
  <1>4. SetSoFar'
    BY <1>1, SetElsewhere, SetSteps DEF VolumeInv
  <1>5. PrefixSoFar'
    BY <1>1, PrefixElsewhere, PrefixModal DEF VolumeInv
  <1>6. QED
    BY <1>1, <1>2, <1>3, <1>4, <1>5 DEF VolumeInv

\* Every step on the volume keeps the invariant.
LEMMA VolumeSteps == ASSUME VolumeInv, [VolumeStep]_trainingVars PROVE VolumeInv'
  <1> USE DEF VolumeInv
  <1>1. ASSUME PrepareTrainingMetadata PROVE VolumeInv'
    BY <1>1, PrepareTrainingMetadataMoves, ElsewhereSteps DEF SetReaders, Prefixes, AcquirerOf, AuditorOf
  <1>2. ASSUME TrainSpecialist PROVE VolumeInv'
    <2>1. MovesOnly("train_specialist") /\ VolumeTypeOK'
      BY <1>2, TrainSpecialistMoves DEF MovesOnly
    <2>2. WritesOwn'
      BY <2>1, OwnKept
    <2>3. ExportSoFar'
      BY <2>1, ExportElsewhere
    <2>4. SetSoFar'
      BY <1>2, TrainSetSteps
    <2>5. PrefixSoFar'
      BY <2>1, PrefixElsewhere DEF Prefixes, AcquirerOf, AuditorOf
    <2>6. QED
      BY <2>1, <2>2, <2>3, <2>4, <2>5
  <1>3. ASSUME ExportSpecialist PROVE VolumeInv'
    <2>1. MovesOnly("export_specialist") /\ VolumeTypeOK'
      BY <1>3, ExportSpecialistMoves DEF MovesOnly
    <2>2. WritesOwn'
      BY <2>1, OwnKept
    <2>3. ExportSoFar'
      BY <1>3, ExportSteps
    <2>4. SetSoFar'
      BY <1>3, ExportSetSteps
    <2>5. PrefixSoFar'
      BY <2>1, PrefixElsewhere DEF Prefixes, AcquirerOf, AuditorOf
    <2>6. QED
      BY <2>1, <2>2, <2>3, <2>4, <2>5
  <1>4. ASSUME ExportDatasetAudit PROVE VolumeInv'
    BY <1>4, ExportDatasetAuditMoves, ElsewhereSteps DEF SetReaders, Prefixes, AcquirerOf, AuditorOf
  <1>5. ASSUME PublishSnapshot PROVE VolumeInv'
    BY <1>5, PublishSnapshotMoves, ElsewhereSteps DEF SetReaders, Prefixes, AcquirerOf, AuditorOf
  <1>6. ASSUME BuildValidation PROVE VolumeInv'
    <2>1. MovesOnly("build_validation") /\ VolumeTypeOK'
      BY <1>6, BuildValidationMoves DEF MovesOnly
    <2>2. WritesOwn'
      BY <2>1, OwnKept
    <2>3. ExportSoFar'
      BY <2>1, ExportElsewhere
    <2>4. SetSoFar'
      BY <1>6, BuildSetSteps
    <2>5. PrefixSoFar'
      BY <2>1, PrefixElsewhere DEF Prefixes, AcquirerOf, AuditorOf
    <2>6. QED
      BY <2>1, <2>2, <2>3, <2>4, <2>5
  <1>7. ASSUME InstallValidationSet PROVE VolumeInv'
    <2>1. MovesOnly("install_validation_set") /\ VolumeTypeOK'
      BY <1>7, InstallValidationSetMoves DEF MovesOnly
    <2>2. WritesOwn'
      BY <2>1, OwnKept
    <2>3. ExportSoFar'
      BY <2>1, ExportElsewhere
    <2>4. SetSoFar'
      BY <1>7, InstallSetSteps
    <2>5. PrefixSoFar'
      BY <2>1, PrefixElsewhere DEF Prefixes, AcquirerOf, AuditorOf
    <2>6. QED
      BY <2>1, <2>2, <2>3, <2>4, <2>5
  <1>8. ASSUME NEW x \in Prefixes, AcquirePrefix(x) PROVE VolumeInv'
    <2>1. MovesOnly(AcquirerOf[x]) /\ VolumeTypeOK' /\ AcquirerOf[x] \notin SetReaders
      BY <1>8, AcquirePrefixMoves, PrefixesApart DEF MovesOnly
    <2>2. WritesOwn'
      BY <2>1, OwnKept
    <2>3. ExportSoFar'
      BY <2>1, ExportElsewhere DEF SetReaders
    <2>4. SetSoFar'
      BY <2>1, SetElsewhere
    <2>5. PrefixSoFar'
      BY <1>8, AcquireSteps
    <2>6. QED
      BY <2>1, <2>2, <2>3, <2>4, <2>5
  <1>9. ASSUME NEW x \in Prefixes, AuditRegisteredTree(x) PROVE VolumeInv'
    <2>1. MovesOnly(AuditorOf[x]) /\ VolumeTypeOK' /\ AuditorOf[x] \notin SetReaders
      BY <1>9, AuditRegisteredTreeMoves, PrefixesApart DEF MovesOnly
    <2>2. WritesOwn'
      BY <2>1, OwnKept
    <2>3. ExportSoFar'
      BY <2>1, ExportElsewhere DEF SetReaders
    <2>4. SetSoFar'
      BY <2>1, SetElsewhere
    <2>5. PrefixSoFar'
      BY <1>9, AuditSteps
    <2>6. QED
      BY <2>1, <2>2, <2>3, <2>4, <2>5
  <1>10. ASSUME CurateNsynth PROVE VolumeInv'
    BY <1>10, CurateNsynthMoves, ElsewhereSteps DEF SetReaders, Prefixes, AcquirerOf, AuditorOf
  <1>11. ASSUME PruneNsynth PROVE VolumeInv'
    BY <1>11, PruneNsynthMoves, ElsewhereSteps DEF SetReaders, Prefixes, AcquirerOf, AuditorOf
  <1>12. ASSUME CurateFsl10k PROVE VolumeInv'
    BY <1>12, CurateFsl10kMoves, ElsewhereSteps DEF SetReaders, Prefixes, AcquirerOf, AuditorOf
  <1>13. ASSUME CurateIdmtSmtGuitar PROVE VolumeInv'
    BY <1>13, CurateIdmtSmtGuitarMoves, ElsewhereSteps DEF SetReaders, Prefixes, AcquirerOf, AuditorOf
  <1>14. ASSUME CurateOnairMusic PROVE VolumeInv'
    BY <1>14, CurateOnairMusicMoves, ElsewhereSteps DEF SetReaders, Prefixes, AcquirerOf, AuditorOf
  <1>15. ASSUME AuditRawstems PROVE VolumeInv'
    BY <1>15, AuditRawstemsMoves, ElsewhereSteps DEF SetReaders, Prefixes, AcquirerOf, AuditorOf
  <1>16. ASSUME PutIndex PROVE VolumeInv'
    BY <1>16, PutIndexSteps
  <1>17. ASSUME ModalStep PROVE VolumeInv'
    BY <1>17, ModalSteps DEF ModalStep
  <1>18. CASE UNCHANGED trainingVars
    <2>1. UNCHANGED <<volume, view, dirty, reached>>
      BY <1>18 DEF trainingVars, volumeVars
    <2>2. VolumeTypeOK' /\ WritesOwn'
      BY <2>1 DEF VolumeTypeOK, WritesOwn
    <2>3. ExportSoFar' /\ SetSoFar'
      BY <2>1 DEF ExportSoFar, ExportDescribed, SetSoFar
    <2>4. PrefixSoFar'
      BY <2>1 DEF PrefixSoFar, PrefixAt, AcquiredAt, AuditedAt, WholeIn
    <2>5. QED
      BY <2>2, <2>3, <2>4
  <1>19. QED
    BY <1>1, <1>2, <1>3, <1>4, <1>5, <1>6, <1>7, <1>8, <1>9, <1>10, <1>11, <1>12, <1>13, <1>14, <1>15, <1>16,
       <1>17, <1>18 DEF VolumeStep, TrainingStep, CurationStep

\* So it always holds.
LEMMA VolumeInvariant == VolumeSpec => []VolumeInv
  <1>1. ASSUME NEW functions \in SUBSET Functions, VolumeStart(functions) PROVE VolumeInv
    <2>1. VolumeTypeOK /\ WritesOwn
      BY <1>1 DEF VolumeStart, VolumeInit, NoView, VolumeTypeOK, WritesOwn
    <2>2. \A p \in Watched : p \in VolumePaths => volume[p] = Missing
      BY <1>1 DEF VolumeStart, VolumeInit, Watched, TrainingFiles, CurationFiles, Exported, Predictions,
                  PrefixFiles, PartsOf, FirstOf
    <2>3. \A f \in Functions : reached[f] = "idle" /\ \A p \in Touched[f] : view[f][p] = Missing
      BY <1>1 DEF VolumeStart, VolumeInit, NoView
    <2>4. ExportSoFar
      <3>1. Exported \subseteq Watched \cap VolumePaths /\ "export_receipt" \in Exported
        BY ExportTouches DEF Watched
      <3>2. QED
        BY <2>2, <2>3, <3>1, ExportTouches DEF ExportSoFar, ExportDescribed, Missing
    <2>5. SetSoFar
      <3>1. "validation_set" \in Watched \cap VolumePaths /\ "build_validation" \in SetReaders
        BY ReadersTouch DEF Watched, SetReaders
      <3>2. QED
        BY <2>2, <2>3, <3>1, ReadersTouch DEF SetSoFar, Missing, Broken
    <2>6. PrefixSoFar
      <3>1. ASSUME NEW x \in Prefixes
            PROVE  /\ "prefix_receipt" \in Watched \cap VolumePaths /\ ItemsOf[x] \in Watched \cap VolumePaths
                   /\ AcquirerOf[x] \in Functions /\ AuditorOf[x] \in Functions
        BY PrefixTouches DEF Watched, PrefixFiles, Prefixes, ItemsOf
      <3>2. \A f \in Functions : dirty[f] = {}
        BY <1>1 DEF VolumeStart, VolumeInit
      <3>3. QED
        BY <2>2, <2>3, <3>1, <3>2, PrefixesApart DEF PrefixSoFar, PrefixAt, AcquiredAt, AuditedAt, SomeRows, Missing
    <2>7. QED
      BY <2>1, <2>4, <2>5, <2>6 DEF VolumeInv
  <1>2. (\E functions \in SUBSET Functions : VolumeStart(functions)) => VolumeInv
    BY <1>1
  <1>3. VolumeInv /\ [VolumeStep]_trainingVars => VolumeInv'
    BY VolumeSteps
  <1>4. QED
    BY <1>2, <1>3, PTL DEF VolumeSpec

\* Whichever functions are called, however many at a time and however often they die: beside a
\* receipt that can be read are predictions of its own checkpoint, or of those what an
\* unfinished clearing has left (export_specialist).
THEOREM ReceiptDescribes == VolumeSpec => []ExportDescribed
  <1>1. VolumeInv => ExportDescribed
    BY DEF VolumeInv, ExportSoFar
  <1>2. QED
    BY <1>1, VolumeInvariant, PTL

\* Whichever functions are called, a build and an installation at a time included: a validation
\* set that a training or an export sees is whole (build_specialist_validation,
\* install_validation_set).
THEOREM SetsAreWhole == VolumeSpec => []ValidationSetWhole
  <1>1. VolumeInv => ValidationSetWhole
    BY DEF VolumeInv, SetSoFar, SetReaders, ValidationSetWhole
  <1>2. QED
    BY <1>1, VolumeInvariant, PTL

\* Whichever functions are called for two prefixes with one receipt, however often they are cut
\* short: a receipt is of a prefix that is whole, and rows under their own prefix's receipt are
\* of every file of it (acquire_huggingface_prefix, audit_registered_tree).
THEOREM PrefixesAreAudited == VolumeSpec => []PrefixAudited
  <1>1. VolumeInv => PrefixAudited
    BY DEF VolumeInv, PrefixSoFar, PrefixAt, AcquiredAt, AuditedAt, PrefixAudited
  <1>2. QED
    BY <1>1, VolumeInvariant, PTL

-----------------------------------------------------------------------------
(*************************************************************************)
(* The corpus: no composition is in two splits.                          *)
(*************************************************************************)

\* What is loaded are rows of the audited files, no two of a content or, of a composition, of
\* two splits.
ItemsLoaded ==
    /\ items \subseteq {Row(s) : s \in Slots}
    /\ \A r, q \in items : r.composition_id = q.composition_id => r.split = q.split
    /\ \A r, q \in items : r.sha256 = q.sha256 => r = q

\* What is built is made of what is loaded.
RecipesBuilt ==
    \A x \in recipes :
        /\ x.target \in items /\ x.sources \subseteq items
        /\ \A r \in x.sources \cup {x.target} : r.split = x.split

CorpusInv ==
    /\ corpusPhase = "audited" => items = {}
    /\ corpusPhase \in {"audited", "loaded"} => recipes = {}
    /\ ItemsLoaded /\ RecipesBuilt

\* Of the rows of one content the first stays, so that one is left.
LEMMA FirstIsOne ==
    ASSUME NEW rows, rows \subseteq {Row(s) : s \in Slots},
           NEW r \in FirstOfHash(rows), NEW q \in FirstOfHash(rows), r.sha256 = q.sha256
    PROVE  r = q
  <1>1. PICK s \in Slots : r = Row(s)
    BY DEF FirstOfHash
  <1>2. PICK t \in Slots : q = Row(t)
    BY DEF FirstOfHash
  <1>3. r.slot = s /\ q.slot = t
    BY <1>1, <1>2 DEF Row
  <1>4. \A x \in Slots : x = <<x[1], x[2]>> /\ x[1] \in Nat /\ x[2] \in Nat
    BY CorpusAssumption DEF Slots
  <1>5. /\ s[1] < t[1] \/ (s[1] = t[1] /\ s[2] <= t[2])
        /\ t[1] < s[1] \/ (t[1] = s[1] /\ t[2] <= s[2])
    BY <1>3 DEF FirstOfHash
  <1>6. s[1] = t[1] /\ s[2] = t[2]
    BY <1>4, <1>5
  <1>7. s = t
    BY <1>4, <1>6
  <1>8. QED
    BY <1>1, <1>2, <1>7

\* The rows depend on the audited files alone.
LEMMA RowsKept ==
    ASSUME UNCHANGED files PROVE {Row(s) : s \in Slots}' = {Row(s) : s \in Slots}
  BY DEF Row, SplitOf

\* Every step of the corpus keeps the invariant.
LEMMA CorpusSteps == ASSUME CorpusInv, [CorpusNext]_corpusVars PROVE CorpusInv'
  <1>1. ASSUME LoadAuditedItems PROVE CorpusInv'
    <2> DEFINE rows == {Row(s) : s \in {x \in Slots : Accepted(x)}}
    <2>1. recipes' = {} /\ corpusPhase' \in {"loaded", "refused"} /\ UNCHANGED files
      BY <1>1 DEF LoadAuditedItems, CorpusInv
    <2>2. rows \subseteq {Row(s) : s \in Slots} /\ {Row(s) : s \in Slots}' = {Row(s) : s \in Slots}
      BY <2>1 DEF Row, SplitOf
    <2>3. CASE Consistent(rows) /\ items' = FirstOfHash(rows)
      <3> HIDE DEF rows
      <3>1. items' \subseteq rows
        BY <2>3 DEF FirstOfHash
      <3>2. \A r, q \in items' : r.composition_id = q.composition_id => r.split = q.split
        BY <2>3, <3>1 DEF Consistent
      <3>3. \A r, q \in items' : r.sha256 = q.sha256 => r = q
        BY <2>2, <2>3, FirstIsOne
      <3>4. ItemsLoaded'
        BY <2>2, <3>1, <3>2, <3>3 DEF ItemsLoaded
      <3>5. QED
        BY <2>1, <3>4 DEF CorpusInv, RecipesBuilt
    <2>4. CASE items' = {}
      BY <2>1, <2>4 DEF CorpusInv, RecipesBuilt, ItemsLoaded
    <2>5. QED
      BY <1>1, <2>3, <2>4 DEF LoadAuditedItems
  <1>2. ASSUME BuildFamilyRecipes PROVE CorpusInv'
    <2>1. /\ UNCHANGED <<files, items>> /\ corpusPhase' \in {"built", "refused"}
          /\ recipes' \subseteq {Recipe(t) : t \in Targets}
      BY <1>2 DEF BuildFamilyRecipes
    <2>2. ItemsLoaded'
      BY <2>1, RowsKept DEF CorpusInv, ItemsLoaded
    <2>3. ASSUME NEW t \in Targets
          PROVE  LET x == Recipe(t) IN
                 /\ x.target \in items /\ x.sources \subseteq items
                 /\ \A r \in x.sources \cup {x.target} : r.split = x.split
      BY DEF Targets, Recipe, InstrumentalOf, VocalOf, CorpusInv, ItemsLoaded
    <2>4. RecipesBuilt'
      BY <2>1, <2>3 DEF RecipesBuilt
    <2>5. QED
      BY <2>1, <2>2, <2>4 DEF CorpusInv
  <1>3. ASSUME ApplyRecipeBudget PROVE CorpusInv'
    <2>1. UNCHANGED <<files, items, recipes>> /\ corpusPhase' \in {"written", "refused"}
      BY <1>3 DEF ApplyRecipeBudget
    <2>2. QED
      BY <2>1, RowsKept DEF CorpusInv, ItemsLoaded, RecipesBuilt
  <1>4. CASE UNCHANGED corpusVars
    BY <1>4, RowsKept DEF corpusVars, CorpusInv, ItemsLoaded, RecipesBuilt
  <1>5. QED
    BY <1>1, <1>2, <1>3, <1>4 DEF CorpusNext

\* So it always holds.
LEMMA CorpusInvariant == CorpusSpec => []CorpusInv
  <1>1. CorpusInit => CorpusInv
    BY DEF CorpusInit, CorpusInv, ItemsLoaded, RecipesBuilt
  <1>2. CorpusInv /\ [CorpusNext]_corpusVars => CorpusInv'
    BY CorpusSteps
  <1>3. QED
    BY <1>1, <1>2, PTL DEF CorpusSpec

\* For any archives, paths, contents and compositions: all that a recipe may be made of is of
\* its split, no content is loaded twice, and no composition is on two sides
\* (_deduplicate_and_validate, build_family_recipes).
THEOREM NothingLeaks == CorpusSpec => []SplitsApart
  <1>1. CorpusInv => SplitsApart
    <2> SUFFICES ASSUME CorpusInv PROVE SplitsApart
      OBVIOUS
    <2>1. \A x \in recipes : \A r \in x.sources : r.split = x.split
      BY DEF CorpusInv, RecipesBuilt
    <2>2. ASSUME NEW x \in recipes, NEW y \in recipes, NEW r \in x.sources \cup {x.target},
                 NEW q \in y.sources \cup {y.target}, r.composition_id = q.composition_id
          PROVE  x.split = y.split
      BY <2>2 DEF CorpusInv, RecipesBuilt, ItemsLoaded
    <2>3. \A r, q \in items : r.sha256 = q.sha256 => r = q
      BY DEF CorpusInv, ItemsLoaded
    <2>4. QED
      BY <2>1, <2>2, <2>3 DEF SplitsApart
  <1>2. QED
    BY <1>1, CorpusInvariant, PTL

-----------------------------------------------------------------------------
(*************************************************************************)
(* The two rules of the corpus that are arithmetic: the split gives each *)
(* part a composition and training no fewer than another, and a budget   *)
(* short of some recipes is shared out so that no family waits while     *)
(* another takes more.                                                   *)
(*************************************************************************)

\* Three compositions or more give every split one, and training no fewer than another.
LEMMA EverySplit ==
    ASSUME NEW count \in Nat, count >= 3
    PROVE  LET size(split) == Cardinality({i \in 0 .. count - 1 : SplitAt(i, count) = split})
           IN  size("test") >= 1 /\ size("validation") >= 1 /\ size("train") >= size("test")
  <1> DEFINE tenth == AtLeastOne(RoundTenth(count))
             part == IF 2 * tenth >= count THEN 1 ELSE tenth
             of(split) == {i \in 0 .. count - 1 : SplitAt(i, count) = split}
             q == count \div 10
  <1>1. q \in Nat /\ 10 * q <= count /\ count < 10 * q + 10
    OBVIOUS
  <1>2. RoundTenth(count) \in {q, q + 1}
    BY DEF RoundTenth
  <1>3. tenth \in Nat /\ tenth >= 1 /\ (tenth <= q + 1)
    <2> HIDE DEF q
    <2>1. QED
      BY <1>1, <1>2 DEF AtLeastOne
  <1>4. part \in Nat /\ part >= 1 /\ 3 * part <= count
    <2> HIDE DEF q, tenth
    <2>1. CASE q = 0
      BY <1>1, <1>3, <2>1
    <2>2. CASE q >= 1
      BY <1>1, <1>3, <2>2
    <2>3. QED
      BY <1>1, <2>1, <2>2
  <1>5. \A i \in 0 .. count - 1 :
          SplitAt(i, count) = IF i < part THEN "test" ELSE IF i < 2 * part THEN "validation" ELSE "train"
    BY DEF SplitAt
  <1> HIDE DEF part, tenth, q
  <1>6. /\ of("test") = 0 .. part - 1 /\ of("validation") = part .. 2 * part - 1
        /\ of("train") = 2 * part .. count - 1
    BY <1>4, <1>5
  <1>7. /\ Cardinality(0 .. part - 1) = part /\ Cardinality(part .. 2 * part - 1) = part
        /\ Cardinality(2 * part .. count - 1) = count - 2 * part
    <2>1. part - 1 \in Int /\ 2 * part - 1 \in Int /\ 2 * part \in Int /\ count - 1 \in Int
      BY <1>4
    <2>2. QED
      BY <1>4, <2>1, FS_Interval, SMTT(30)
  <1>8. /\ Cardinality(of("test")) = part /\ Cardinality(of("validation")) = part
        /\ Cardinality(of("train")) = count - 2 * part
    BY <1>6, <1>7
  <1>9. part >= 1 /\ count - 2 * part >= part
    BY <1>4
  <1> DEFINE tests == Cardinality(of("test"))
             validations == Cardinality(of("validation"))
             trains == Cardinality(of("train"))
  <1>10. tests >= 1 /\ validations >= 1 /\ trains >= tests
    BY <1>8, <1>9
  <1> HIDE DEF tests, validations, trains
  <1>11. QED
    BY <1>10 DEF tests, validations, trains

\* Rounds over any compositions with any numbers of candidates: all are chosen or as many as
\* asked for, and no composition has two more than one that has candidates left
\* (_select_with_composition_coverage).
LEMMA FairShares ==
    ASSUME NEW K \in SUBSET Nat, IsFiniteSet(K), NEW most \in Nat, NEW counts \in [K -> 0 .. most],
           NEW limit \in Nat
    PROVE  LET chosen == SelectWithCompositionCoverage(CandidatesOf(counts), limit)
               taken(c) == Cardinality({x \in chosen : x[1] = c})
           IN  /\ Cardinality(chosen) = Cardinality(CandidatesOf(counts)) \/ Cardinality(chosen) = limit
               /\ \A c, d \in K : taken(c) < counts[c] => taken(d) <= taken(c) + 1
  <1> DEFINE S == CandidatesOf(counts)
             chosen == SelectWithCompositionCoverage(S, limit)
             before == {p \in S \X S : p[1][2] < p[2][2] \/ (p[1][2] = p[2][2] /\ p[1][1] < p[2][1])}
             rank == [x \in S |-> Cardinality({y \in S : <<y, x>> \in before})]
             of(c) == {x \in chosen : x[1] = c}
  <1>1. \A c \in K : counts[c] \in Nat /\ counts[c] <= most
    OBVIOUS
  <1>2. \A c \in K : \A n \in 1 .. counts[c] : <<c, n>> \in S
    <2>1. DOMAIN counts = K
      OBVIOUS
    <2>2. QED
      BY <2>1 DEF CandidatesOf
  <1>3. \A x \in S : x = <<x[1], x[2]>> /\ x[1] \in K /\ x[1] \in Nat /\ x[2] \in 1 .. counts[x[1]] /\ x[2] \in Nat
    <2> TAKE x \in S
    <2>1. DOMAIN counts = K
      OBVIOUS
    <2>2. PICK c \in K : x \in {<<c, n>> : n \in 1 .. counts[c]}
      BY <2>1 DEF CandidatesOf
    <2>3. PICK n \in 1 .. counts[c] : x = <<c, n>>
      BY <2>2
    <2>4. QED
      BY <1>1, <2>3
  <1>4. IsFiniteSet(S)
    <2>1. S \subseteq K \X (1 .. most)
      BY <1>1, <1>3
    <2>2. IsFiniteSet(1 .. most)
      BY FS_Interval
    <2>3. IsFiniteSet(K \X (1 .. most))
      BY <2>2, FS_Product
    <2>4. QED
      BY <2>1, <2>3, FS_Subset
  <1> HIDE DEF S
  <1>5. \A x, y \in S : <<y, x>> \in before <=> (y[2] < x[2] \/ (y[2] = x[2] /\ y[1] < x[1]))
    OBVIOUS
  <1>6. chosen = {x \in S : rank[x] < limit}
    <2>1. \A x \in S : rank[x] = Cardinality({y \in S : y[2] < x[2] \/ (y[2] = x[2] /\ y[1] < x[1])})
      <3> TAKE x \in S
      <3>1. {y \in S : <<y, x>> \in before} = {y \in S : y[2] < x[2] \/ (y[2] = x[2] /\ y[1] < x[1])}
        BY <1>5
      <3>2. QED
        BY <3>1
    <2>2. QED
      BY <2>1 DEF SelectWithCompositionCoverage
  <1> HIDE DEF before, rank, chosen
  <1>7. /\ rank \in Bijection(S, 0 .. Cardinality(S) - 1)
        /\ \A x, y \in S : <<x, y>> \in before => rank[x] < rank[y]
    <2>1. \A x \in S : <<x, x>> \notin before
      BY <1>3, <1>5
    <2>2. \A x, y, z \in S : <<x, y>> \in before /\ <<y, z>> \in before => <<x, z>> \in before
      BY <1>3, <1>5
    <2>3. \A x, y \in S : x # y => <<x, y>> \in before \/ <<y, x>> \in before
      <3> TAKE x, y \in S
      <3>1. x # y => x[1] # y[1] \/ x[2] # y[2]
        BY <1>3
      <3>2. QED
        BY <1>3, <1>5, <3>1
    <2>4. rank = [x \in S |-> Cardinality({y \in S : <<y, x>> \in before})]
      BY DEF rank
    <2>5. QED
      BY <1>4, <2>1, <2>2, <2>3, <2>4, Ranks
  <1>8. /\ IsFiniteSet(chosen)
        /\ Cardinality(chosen) = Cardinality(S) \/ Cardinality(chosen) = limit
    BY <1>4, <1>6, <1>7, FirstOnes
  <1>9. \A x \in chosen, y \in S : <<y, x>> \in before => y \in chosen
    <2>1. \A x \in S : rank[x] \in Nat
      BY <1>4, <1>7, FS_CardinalityType DEF Bijection, Injection
    <2>2. QED
      BY <1>6, <1>7, <2>1
  <1>10. \A c : IsFiniteSet(of(c)) /\ Cardinality(of(c)) \in Nat
    <2> TAKE c
    <2>1. of(c) \subseteq chosen
      OBVIOUS
    <2>2. QED
      BY <1>8, <2>1, FS_Subset, FS_CardinalityType
  <1>11. ASSUME NEW c \in K, NEW d \in K, Cardinality(of(c)) < counts[c]
         PROVE  Cardinality(of(d)) <= Cardinality(of(c)) + 1
    <2> DEFINE missing == {n \in 1 .. counts[c] : <<c, n>> \notin chosen}
               up(k) == [n \in 1 .. k |-> <<c, n>>]
    <2>1. \A k \in Nat : (k <= counts[c] /\ \A n \in 1 .. k : <<c, n>> \in chosen) => k <= Cardinality(of(c))
      <3> SUFFICES ASSUME NEW k \in Nat, k <= counts[c], \A n \in 1 .. k : <<c, n>> \in chosen
                   PROVE  k <= Cardinality(of(c))
        OBVIOUS
      <3>1. up(k) \in [1 .. k -> of(c)]
        OBVIOUS
      <3>2. up(k) \in Injection(1 .. k, of(c))
        BY <3>1 DEF Injection, IsInjective
      <3> HIDE DEF up, of
      <3>3. QED
        BY <1>10, <3>2, Counted
    <2>2. missing # {} /\ missing \in SUBSET Nat
      <3> DEFINE taken == Cardinality(of(c))
      <3>1. taken \in Nat /\ counts[c] \in Nat /\ taken < counts[c]
        BY <1>1, <1>10, <1>11
      <3> HIDE DEF taken
      <3>2. ~(counts[c] <= taken)
        BY <3>1
      <3>3. ~(\A n \in 1 .. counts[c] : <<c, n>> \in chosen)
        BY <2>1, <3>1, <3>2 DEF taken
      <3>4. QED
        BY <3>1, <3>3
    <2>3. PICK n \in missing : \A k \in missing : n <= k
      <3> HIDE DEF missing
      <3>1. QED
        BY <2>2, LeastNumber
    <2>4. n \in Nat /\ n >= 1 /\ n <= counts[c] /\ <<c, n>> \in S /\ <<c, n>> \notin chosen
      BY <1>1, <1>2
    <2>5. n - 1 <= Cardinality(of(c))
      <3>1. \A k \in 1 .. n - 1 : k \notin missing /\ k \in 1 .. counts[c]
        BY <1>1, <2>3, <2>4
      <3>2. n - 1 \in Nat /\ n - 1 <= counts[c] /\ \A k \in 1 .. n - 1 : <<c, k>> \in chosen
        BY <1>1, <2>4, <3>1
      <3>3. QED
        BY <2>1, <3>2
    <2>6. \A x \in of(d) : x \in S /\ x[2] \in 1 .. n /\ x = <<d, x[2]>>
      <3> TAKE x \in of(d)
      <3>1. x \in S /\ x \in chosen /\ x[1] = d
        BY <1>6
      <3>2. ~(n < x[2])
        BY <1>5, <1>9, <2>4, <3>1
      <3>3. QED
        BY <1>3, <2>4, <3>1, <3>2
    <2> DEFINE place == [x \in of(d) |-> x[2]]
    <2>7. place \in Injection(of(d), 1 .. n)
      <3>1. place \in [of(d) -> 1 .. n]
        BY <2>6
      <3>2. QED
        BY <2>6, <3>1 DEF Injection, IsInjective
    <2>8. Cardinality(of(d)) <= n
      BY <2>4, <2>7, Counted
    <2> DEFINE taken == Cardinality(of(c))
               other == Cardinality(of(d))
    <2>9. taken \in Nat /\ other \in Nat /\ n - 1 <= taken /\ other <= n
      BY <1>10, <2>5, <2>8
    <2> HIDE DEF taken, other
    <2>10. other <= taken + 1
      BY <2>4, <2>9
    <2>11. QED
      BY <2>10 DEF taken, other
  <1>12. QED
    BY <1>8, <1>11 DEF S, chosen

\* The rules for splits and budgets cover what they are to cover, for any bounds of the check
\* (assign_grouped_splits, _select_with_composition_coverage).
THEOREM RulesHold == CorpusSpec => []RulesCover
  <1>1. RulesCover
    <2>1. \A count \in 3 .. MaxCount : count \in Nat /\ count >= 3
      OBVIOUS
    <2>2. IsFiniteSet(1 .. 3)
      <3> DEFINE last == 3
      <3>1. last \in Int
        OBVIOUS
      <3> HIDE DEF last
      <3>2. IsFiniteSet(1 .. last)
        BY <3>1, FS_Interval
      <3>3. QED
        BY <3>2 DEF last
    <2>3. 1 .. 3 \in SUBSET Nat /\ 3 \in Nat
      OBVIOUS
    <2>4. \A limit \in 1 .. 9 : limit \in Nat
      OBVIOUS
    <2>5. \A counts \in [1 .. 3 -> 0 .. 3], limit \in 1 .. 9 :
            LET chosen == SelectWithCompositionCoverage(CandidatesOf(counts), limit)
                taken(c) == Cardinality({x \in chosen : x[1] = c})
            IN  /\ Cardinality(chosen) = Cardinality(CandidatesOf(counts)) \/ Cardinality(chosen) = limit
                /\ \A c, d \in 1 .. 3 : taken(c) < counts[c] => taken(d) <= taken(c) + 1
      BY <2>2, <2>3, <2>4, FairShares
    <2>6. QED
      BY <2>1, <2>5, EverySplit DEF RulesCover
  <1>2. QED
    BY <1>1, PTL

=============================================================================
