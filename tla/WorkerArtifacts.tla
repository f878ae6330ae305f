-------------------------- MODULE WorkerArtifacts ---------------------------
(***************************************************************************)
(* How the execution of a GPU job brings the artifacts of the remote job   *)
(* into the job's folder: copy_worker_artifacts, called with each payload  *)
(* that the execution polls, by four modes of import.  A worker that has   *)
(* put them in the object store has them referenced instead.               *)
(***************************************************************************)
EXTENDS Naturals, FiniteSets

CONSTANTS
    Artifacts,
    Allowed,        \* those the profile's allowlist lets in
    ImportModes,    \* values of artifact_import_mode to check
    MaxExecutions   \* bound: executions of the job

VARIABLES
    importMode,
    input_reference, \* whether the job's input is in the object store
    bundled,        \* whether the worker puts a bundle_artifact in its last payload
    remote,         \* the worker's status, the artifacts it has published and whether as objects
    folder,         \* each artifact's file in the job's folder
    bundle,         \* whether package/worker_artifacts.zip is there
    execution       \* the execution's place and its local variables

artifactVars == <<importMode, input_reference, bundled, remote, folder, bundle, execution>>

Modes == {"parallel_direct", "volume", "bundle", "direct"}

ASSUME ArtifactsAssumption == Allowed \subseteq Artifacts /\ ImportModes \subseteq Modes

NoFutures == [a \in Artifacts |-> "none"]

\* A new execution knows nothing of what an earlier one imported.
NewExecution(n) ==
    [pc |-> "polling", number |-> n, status |-> "running", payload |-> {}, objects |-> FALSE, seen |-> {},
     referenced |-> {}, bundle_downloaded |-> FALSE, futures |-> NoFutures]

NewRemote == [status |-> "running", published |-> {}, objects |-> FALSE]

ArtifactsInit ==
    /\ importMode \in ImportModes
    /\ input_reference \in BOOLEAN
    /\ bundled \in BOOLEAN
    /\ remote = NewRemote
    /\ folder = [a \in Artifacts |-> "none"]
    /\ bundle = FALSE
    /\ execution = NewExecution(1)

-----------------------------------------------------------------------------
(* The worker. *)

\* _publish_worker_objects runs before the status is completed, if there is an object store.
PublishArtifacts ==
    /\ remote.status = "running"
    /\ \E more \in SUBSET Artifacts, status \in {"running", "completed", "error"}, objects \in BOOLEAN :
         /\ objects => status = "completed"
         /\ remote' = [status |-> status, published |-> remote.published \cup more, objects |-> objects]
    /\ UNCHANGED <<importMode, input_reference, bundled, folder, bundle, execution>>

-----------------------------------------------------------------------------
(* The execution. *)

\* The entries that a call imports: allowed and not seen.
Entries == (execution.payload \cap Allowed) \ execution.seen

Becomes(change) == execution' = [x \in DOMAIN execution |-> IF x \in DOMAIN change THEN change[x] ELSE execution[x]]

\* An exception that nothing in copy_worker_artifacts catches ends the execution.
ImportRaises == Becomes([pc |-> "failed"])

\* on_update is called with the payload of client.status.
PollWorker ==
    /\ execution.pc = "polling"
    /\ \/ Becomes([pc |-> "importing", payload |-> remote.published, status |-> remote.status,
                   objects |-> remote.objects, bundle_downloaded |-> FALSE, futures |-> NoFutures])
       \/ ImportRaises
    /\ UNCHANGED <<importMode, input_reference, bundled, remote, folder, bundle>>

\* A job with its input in the object store waits for the last payload; _reference_worker_artifacts
\* imports a payload of objects.
ChooseImport ==
    /\ execution.pc = "importing"
    /\ IF input_reference /\ execution.status # "completed" THEN Becomes([pc |-> "merging"])
       ELSE IF execution.objects
       THEN Becomes([pc |-> "merging", referenced |-> execution.payload \cap Allowed])
       ELSE CASE importMode = "parallel_direct" ->
                   Becomes([pc |-> "downloads",
                            futures |-> [a \in Artifacts |-> IF a \in Entries THEN "running" ELSE "none"]])
              [] importMode = "volume" /\ execution.status = "completed" ->
                   \E worked \in BOOLEAN : Becomes([pc |-> IF worked THEN "copying" ELSE "artifacts"])
              [] importMode = "bundle" -> Becomes([pc |-> "bundle"])
              [] OTHER -> Becomes([pc |-> "artifacts"])
    /\ UNCHANGED <<importMode, input_reference, bundled, remote, folder, bundle>>

\* download_artifact retries, writes beside the target and replaces it at the end.
DownloadOne(a) ==
    /\ execution.pc = "downloads" /\ execution.futures[a] = "running"
    /\ \/ /\ folder' = [folder EXCEPT ![a] = "whole"]
          /\ Becomes([futures |-> [execution.futures EXCEPT ![a] = "done"]])
       \/ /\ Becomes([futures |-> [execution.futures EXCEPT ![a] = "failed"]])
          /\ UNCHANGED folder
    /\ UNCHANGED <<importMode, input_reference, bundled, remote, bundle>>

\* Mutant: an entry counts as seen when its download has been submitted.
CollectFuture_SeenEarly(a) ==
    /\ execution.pc = "downloads"
    /\ \/ /\ execution.futures[a] = "done"
          /\ Becomes([futures |-> [execution.futures EXCEPT ![a] = "collected"], seen |-> execution.seen \cup {a}])
       \/ /\ execution.futures[a] = "failed"
          /\ \A x \in Artifacts : execution.futures[x] # "running"
          /\ Becomes([pc |-> "bundle", seen |-> execution.seen \cup Entries])
    /\ UNCHANGED <<importMode, input_reference, bundled, remote, folder, bundle>>

\* as_completed: a download that failed raises once the pool has waited for the others; the
\* entries collected by then stay seen.
CollectFuture(a) ==
    /\ execution.pc = "downloads"
    /\ \/ /\ execution.futures[a] = "done"
          /\ Becomes([futures |-> [execution.futures EXCEPT ![a] = "collected"], seen |-> execution.seen \cup {a}])
       \/ /\ execution.futures[a] = "failed"
          /\ \A x \in Artifacts : execution.futures[x] # "running"
          /\ Becomes([pc |-> "bundle"])
    /\ UNCHANGED <<importMode, input_reference, bundled, remote, folder, bundle>>

\* _merge_worker_groups; a terminal payload ends the polling, and only a completed one the job.
MergeWorkerGroups ==
    /\ \/ execution.pc = "downloads" /\ \A a \in Artifacts : execution.futures[a] \in {"none", "collected"}
       \/ execution.pc = "artifacts" /\ Entries = {}
       \/ execution.pc = "merging"
    /\ Becomes([pc |-> CASE execution.status = "running" -> "polling"
                         [] execution.status = "completed" -> "completed"
                         [] execution.status = "error" -> "failed"])
    /\ UNCHANGED <<importMode, input_reference, bundled, remote, folder, bundle>>

\* _download_worker_bundle: a bundle that is there is not downloaded again.
DownloadBundle ==
    /\ execution.pc = "bundle"
    /\ IF ~(bundled /\ execution.status = "completed")
       THEN Becomes([pc |-> "artifacts"]) /\ UNCHANGED bundle
       ELSE \/ Becomes([pc |-> "extracting"]) /\ bundle' = TRUE
            \/ ~bundle /\ ImportRaises /\ UNCHANGED bundle
    /\ UNCHANGED <<importMode, input_reference, bundled, remote, folder>>

\* _safe_extract_zip and _copy_recovered_worker_dirs write in place, file by file.
CopyFile ==
    /\ execution.pc \in {"extracting", "copying"}
    /\ \E a \in execution.payload : folder' = [folder EXCEPT ![a] = IF @ = "torn" THEN "whole" ELSE "torn"]
    /\ UNCHANGED <<importMode, input_reference, bundled, remote, bundle, execution>>

CopyEnds ==
    /\ execution.pc \in {"extracting", "copying"}
    /\ \/ /\ \A a \in execution.payload : folder[a] = "whole"
          /\ Becomes([pc |-> "artifacts", bundle_downloaded |-> TRUE])
       \/ ImportRaises
    /\ UNCHANGED <<importMode, input_reference, bundled, remote, folder, bundle>>

\* The loop: a file of the import is taken as it is, any other artifact is downloaded.
CopyArtifact ==
    /\ execution.pc = "artifacts"
    /\ \E a \in Entries :
         \/ /\ Becomes([seen |-> execution.seen \cup {a}])
            /\ folder' = IF execution.bundle_downloaded /\ folder[a] # "none" THEN folder
                         ELSE [folder EXCEPT ![a] = "whole"]
         \/ /\ ~(execution.bundle_downloaded /\ folder[a] # "none")
            /\ ImportRaises /\ UNCHANGED folder
    /\ UNCHANGED <<importMode, input_reference, bundled, remote, bundle>>

\* The process of the execution dies anywhere.
ExecutionDies ==
    /\ execution.pc \notin {"completed", "failed"}
    /\ ImportRaises
    /\ UNCHANGED <<importMode, input_reference, bundled, remote, folder, bundle>>

\* The job is executed again: it takes up the remote job, or submits one that failed anew.
ExecuteAgain ==
    /\ execution.pc = "failed" /\ execution.number < MaxExecutions
    /\ execution' = NewExecution(execution.number + 1)
    /\ remote' = IF remote.status = "error" THEN NewRemote ELSE remote
    /\ UNCHANGED <<importMode, input_reference, bundled, folder, bundle>>

ArtifactsNext ==
    \/ PublishArtifacts
    \/ PollWorker \/ ChooseImport
    \/ \E a \in Artifacts : DownloadOne(a) \/ CollectFuture(a)
    \/ MergeWorkerGroups
    \/ DownloadBundle \/ CopyFile \/ CopyEnds \/ CopyArtifact
    \/ ExecutionDies \/ ExecuteAgain

ArtifactsSpec == ArtifactsInit /\ [][ArtifactsNext]_artifactVars

-----------------------------------------------------------------------------

Wanted == remote.published \cap Allowed

\* A completed job has every artifact that it wants of its worker: in the object store, when the
\* worker put them there, otherwise whole in the folder that is packaged for the user, though
\* downloads failed, fell back to another way or were cut short before.
ImportedFiles ==
    execution.pc = "completed" =>
        \A a \in Wanted : IF remote.objects THEN a \in execution.referenced ELSE folder[a] = "whole"

=============================================================================
