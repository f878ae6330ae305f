# StemSplitter: a verification project

TLA+ models of the StemSplitter separation server, checked with TLC and, where
it matters most, proved with TLAPS: the job control plane and admission, the GPU
worker, the single-machine backend, the web page, the contract ledger, the
workers for research models, and the acquisition, curation and training of data.
Everything here is about the code in `src/`; line numbers are of that tree.

## The system

A client uploads audio or imports it and gets a *job*. The job is a row in
PostgreSQL; RQ (Redis) delivers it to workers that call `run_job`; `run_job`
separates locally or submits to a GPU worker and polls it; a maintenance worker
drains the dispatch outbox, recovers stale jobs and deletes expired ones.
Delivery is at least once, every process can die between two statements, and a
lease column in the row is what keeps two workers apart. Beside this stand the
GPU worker itself, the workers for research models with the tools that drive
them, and the pipeline that acquires, curates and trains on audio.

| Component | State | Operations | Interacts with |
|---|---|---|---|
| Job store, `infrastructure/job_store.py` | row: status, attempt, cancel flag, worker job id, lease; outbox row; events | `create`, `update`, `acquire/renew/release_lease`, `request_cancel`, `list_reconcilable`, `list_expired`, `delete`, `claim_dispatches`, `mark_dispatched`, `mark_dispatch_failed` | everything: the only shared authority |
| Dispatch, `infrastructure/dispatch.py`, `application/job_service.py` | RQ jobs (status, retries left, queue entries) | `enqueue`, `recover`, `cancel`; `submit_job`, `dispatch_pending_jobs`, `record_dispatch_failure` | Redis, job store |
| Execution, `jobs.py` `run_job` | heartbeat thread, `lease_lost`, `worker_job_id` | `_run_job_pipeline`, `_run_gpu_worker_job`, three nested handlers | job store, GPU worker |
| Control plane, `jobs.py` | none of its own | `cancel_job`, `reconcile_jobs`, `resume_remote_job`, `delete_job`, `cleanup_expired_jobs` | job store, GPU worker, RQ |
| Maintenance worker, `scripts/run_maintenance_worker.py` | none | dispatch, reconcile, clean up, every 60 s | control plane |
| Admission, `PostgresJobStore.create`, `_create_local_job` | counts of active jobs, idempotency keys, uploads | replay, reject, insert | job store; uploads |
| GPU worker, `workers/audio_separator_gpu_worker.py` | `status.json` and the job's directory on a Modal volume; cached separators | reserve, replay, run, spawn branches, cancel; the stem contract | `run_job`, `cancel_job` |
| GPU worker client, `gpu_worker_client.py` | the job's folder and manifest | submit, poll, import artifacts | GPU worker |
| Single-machine backend, `JsonJobStore`, `ThreadJobDispatcher` | JSON files, a pool of threads, futures | the same as above, in one process | |
| Web page, `apps/web` | the job shown, `busy`, `connectionIssue`, the address | submit, poll, cancel, reload | API |
| Contract ledger, `experiments/hatchet_proof` | eight SQLite tables | dispatch, start, callback, cancel, fault claims | Hatchet's tasks |
| Research workers and tools, `workers/*`, `external_runners/*`, `scripts/run_*` | run directories, status, objects, the tools' copies | separate, report, fetch, score | one another by fixed job ids |
| GPU bakeoff, `scripts/run_gpu_cost_bakeoff.py` | `report.json`, downloaded stems | run, resume, score | GPU workers |
| Synth calibration, `scripts/*synth*` | manifest, scores, thresholds | pick, split, score, choose | synth cleaners |
| Training data, `training_data_acquisition.py`, `training_corpus.py`, `training/manifests.py`, `workers/specialist_training_modal.py` | archives, part files, receipts, a shared Modal volume, audits, recipes, checkpoints, validation sets | acquire, upload, extract, audit, prune, train, export, install | provider, object store, volume |
| Rate limiter, sources, API routers, authentication | counters, blobs | | |
| Separation, analysis, packaging, scores, registries | none | pure or numeric | |

What is hard in it: several executions of one job at a time (duplicate
deliveries, RQ retries, recoveries, resumes); statuses read in one transaction
and acted on in another; a cancellation racing each of submit, record, poll and
publish; death of any process at any step; answers that are lost after they took
effect; terminal statuses that are not final, because the pipeline writes `error`
before `run_job` decides to retry; views of a Modal volume that lag behind its
commits; files that an interrupted call leaves and a later one believes.

What makes the components correct: one execution at a time; at most
`JOB_MAX_ATTEMPTS` executions; a result is published by the lease holder and only
over a finished remote job; a cancellation holds; every accepted job is
dispatched and ends; only terminal jobs are deleted. Admission never exceeds its
limits and replays an idempotency key with the same job. The GPU worker runs a job
id once, and completes it with its stems. The ledger gives each job one end, and
pays only for that. A file that a receipt, a report or a status vouches for is whole
and is what it says. No composition is on both sides of a split.

## Modules

Parts that share no state are models of their own. In *job control* one job is the
state: every statement, RQ id and remote id of the code is keyed by the job, and no
step reads another job. *Admission* does, and has many jobs and tenants with three
states each; its `End`, `Reopen` and `Delete` may happen to any job that ended or
that is there, so they cover what job control does to one job. The *GPU worker* is
seen by job control as the variable `remote`; its own model is of one job id.

| Module | Models |
|---|---|
| `JobStates` | the status classes, `JOB_TRANSITIONS`, `_validate_transition` |
| `JobStore` | the statements of `PostgresJobStore` as operators on a row. One statement is one transaction and one atomic step. A lease is `none`, `live` or `expired` |
| `JobSystem` | the variables, their types and initial values |
| `JobDispatch` | create, outbox, `submit_job` in its four steps, what follows when it fails, RQ's delivery and retry |
| `JobRuns` | one execution of `run_job`; an action per statement or remote call; exceptions, crashes, heartbeat and lease expiry |
| `JobControl` | cancel, reconcile, resume, delete; `Next`, `Spec`, `FairSpec` and the properties |
| `JobPromise` | the abstract specification: what a client is promised of one job |
| `JobClaims` | what documents and checks in the code say and the code does not keep |
| `AdmissionPromise` | the abstract admission: one step accepts a job, if its tenant and the service have room and its key is new |
| `Admission` | `create` and its upload: the advisory lock and every statement of the transaction, failures, and everything else that changes the table |
| `GpuWorker` | the API of the GPU worker, its runs and their parallel branches, `status.json` and the views of the volume |
| `ModelTasks` | `_execute_model_task` on the threads of one container, with the cache of separators |
| `StemContract` | `apply_product_11_contract` over the files of a job's attempts |
| `WorkerArtifacts` | `copy_worker_artifacts` in its four modes of import |
| `LocalBackend` | `JsonJobStore`, `ThreadJobDispatcher` and `run_job` on one machine |
| `WebSession` | the page's session with the API |
| `LedgerPromise`, `ContractLedger` | the abstract ledger; the ledger's tables with the tasks and callbacks that write them |
| `RunnerWorkers` | the BandIt, TUSS and Cocktail Fork workers with their tools |
| `SpecialistWorkers` | the open-specialist, Mega53, AudioSep and SAM-Audio workers |
| `GpuBakeoff`, `SynthCalibration` | the two tools that run in many steps and resume or split |
| `RangeDownload`, `SourceArchives`, `ZipSelection` | how training archives and entries of remote zips arrive |
| `TrainingCorpus` | audits, splits and recipes |
| `ModalVolume` | a volume, its containers' views, commits and deaths, used by the next two |
| `TrainingVolume`, `VolumeCuration` | the functions of the training application on that volume |
| `VolumeSystem` | all functions of the last two on one volume |
| `MC*` | instances for TLC: symmetry, small tables, and which parts move |
| `JobControlProofs`, `JobPromiseProofs`, `AdmissionProofs`, `GpuWorkerProofs`, `GpuReservationProofs`, `ServicesProofs`, `TrainingProofs`; `Counting` | the theorems; lemmas they share |

### Job control and admission

- `row` is the row of `jobs`, with the columns decisions are made on. `status`
  has two more values, `unborn` and `deleted`, for a row that is not there.
- `lease_owner` is the uuid `run_job` draws. An execution that ends without
  `release_lease` leaves the name `Departed` in the row, so that names can be
  reused by later executions.
- `rq[0]` is `stemsplitter-<job>`, `rq[n]` the recovery for attempt `n`. RQ is
  external: it puts an execution that raised or died back while retries are left.
- `pc[r]` is the statement an execution is about to perform. A statement that
  reads only is a step of its own when a later step acts on what it read.
  `Handlers` gives the `except` clause each statement is under.
- `remote` is the remote job. A submission is replayed by the GPU worker unless the
  job failed there (`_reserve_job`); a cancellation succeeds on an active job.
- `call[c]` is a control-plane call of a client's request or of the maintenance
  worker, at the same grain.
- `executed`, `reopened` and `faults` are history: the attempts that entered the
  pipeline, how often a write of `queued` reopened the job, and exceptions.
- In `Admission`, `req[p]` is a thread of an API process in `_create_local_job`:
  `pc` is the statement of the transaction it is about to perform, `found` the job
  it is answered with. `advisory` is `pg_advisory_xact_lock`, held until COMMIT
  or rollback. Transactions run at READ COMMITTED: a statement sees the table
  as it is, and the row inserted becomes visible with COMMIT, so `jobs`
  changes there. `Insert` stands for the INSERT, its `ON CONFLICT`, the event and
  the outbox row. `inputs` are the directories with an upload; `unanswered` is
  history.

Left out of the data of job control: input, artifacts, manifest, timings, stages, error texts,
events; `failed` is never written by the modelled code but keeps its place in the table.


### The GPU worker

- `GpuWorker`. `deployment` is chosen at the start: on Modal or local, sequential or
  with parallel branches, `early` (a run may end before its request recorded the
  call) and `faults` (dispatches that raise, containers that die). `view` is the
  job's directory as a container sees it, `volume` as last committed. `commit` publishes
  the files a view changed and the last writer wins; Modal commits in the background
  and before a `reload`; a container that is terminated may take its last writes with it. A
  local worker has one disk, and its event loop switches between requests only where
  one awaits its upload. `_update_status` is two steps, a read and a write of
  `status.json`. The write is `write_text`: a container that is terminated in it may leave
  `TornStatus`, which every later read of the id raises on; that another thread reads the file
  while it is being filled is not modelled. `actor` holds the requests and the runs
  they spawned, `branch` the model calls of a run. Specialist branches answer with
  objects, which are fetched; the others' files must be on the volume.
- `ModelTasks`. `outputDir` is the directory set on a separator object, which
  tasks share when it is cached; `runDir` and `collected` say *whose* outputs are there.
- `StemContract`. A file is the set of model outputs it is made of, its attempt, and whether it
  is whole. `groupDirs` and `candidateDir` outlive an attempt, so that a later one
  finds what an earlier left. The rules and aliases of `stem_contract.py` are constants.
- `WorkerArtifacts`. One `copy_worker_artifacts` per polled payload, in the four
  import modes; `remote` publishes artifacts while it runs, in the end as objects, which are
  `referenced` and not copied (`_reference_worker_artifacts`).

### The single machine, the page and the ledger

- `LocalBackend`. A write of `JsonJobStore` holds its lock and is one step; the reads of
  `jobs.py` do not and are steps of their own. `calls` is a bag of the API's calls under way
  (submission, cancellation, resumption, deletion), any of them for the same job, each at the
  statement it has reached: a deletion's read, its check, the removal of the artifacts and that
  of the job are four. `future` and `thread` are the dispatcher's pool; `ProcessEnds` ends the
  process, which loses both and keeps the files, the one that was being written torn.
- `WebSession`. Each request is answered by the API (`served`) and its answer rendered
  in steps of their own, so answers arrive late, in any order or never. A reload keeps
  only the address. A terminal status is not final: the API may queue the job again
  (`JobReopens`, for `run_job`'s retry, a resumption) or delete it; `left` remembers the
  statuses that jobs left so.
- `ContractLedger`. Each call is one SQLite transaction and one step; `invocation` is
  the statement each run of the task has reached. `LedgerPromise` decides a job once, with
  its effects.

### Research workers and tools

- `RunnerWorkers`, `SpecialistWorkers`. A file is the number of the excerpt it was
  made of; an array is a count of the stems summed in it. Both show what
  an interrupted or failed call leaves under a fixed job id. A program that exits with 0 has
  written any of its stems, and the runner counts by the files that are there; `omitted`
  remembers the ones it did not write.
- `GpuBakeoff`. `report` outlives a call and `bench` does not; a worker's job is the
  number of the run that it answers with.
- `SynthCalibration`. Rates are percentages of small integer scores; the choice, the
  split and the search for thresholds are operators, and the scores are chosen freely. A row
  is a window of a song's clip, folds are dealt by song, and of more than `MaxValues` values
  (201 in the code) `ThresholdValues` tries as many, evenly spaced, as `threshold_values` does.

### Training data

- `RangeDownload`. A file is the sequence of the archive's byte positions it holds, so
  that a mixture of two splits can be told from the archive. Each call splits the archive for
  as many workers as it is `configured` with, down to one, and meets the parts of other splits;
  the provider states a checksum or does not (`checksummed`).
- `SourceArchives`. `disk` is what a process sees and `committed` what outlives it; they are the
  same at a workstation and differ on the volume. The provider may replace the archive
  (`published`). A bundle's marker is opened and filled in two steps (`Torn`, `Whole`), and a
  torn one makes every later call raise. A receipt that is torn is read as none, and is not there.
- `ZipSelection`. Entries, runs of neighbouring ones, and block files named by index
  (a selection) or by byte range (a manifest).
- `TrainingCorpus`. The hash orders of the code are the order of numbers. The audits
  of archives know nothing of each other; duplicates and unsound files are spread over
  both.
- `ModalVolume`. `Statement` writes files of a function's view, `Merged` is a commit, and a
  death drops what was not committed. A file is `Missing` (0), `Broken` (99) or the
  version or training it was made of. `TrainingVolume` and `VolumeCuration` are lists of
  such statements, one per function of the Modal application. An export's predictions and
  receipt are removed one by one (`rmtree`). A Hugging Face source has two prefixes of two files
  each and the one receipt they share; items say whether they were collected under
  the receipt of their own prefix.

## Runs

All runs let the system stop (`CHECK_DEADLOCK FALSE`): a finished job has no
further steps.

| Run | Instance | Distinct states | Shows |
|---|---|---|---|
| `gpu_faults` | 2 executions, 2 clients, 2 attempts, GPU, 2 faults | 240,807 | `CompletedMeansRemoteDone`: resubmissions and lost answers never complete a job whose remote job did not |
| `local_faults` | 2 executions, client, maintenance, 2 attempts, 1 fault | 1,371,751 | `LeaseInv`, the inductive invariant of the exclusion, `SingleExecution`, `CompletedByOwner` and `CancelWins`, with crashes and lost heartbeats |
| `resumes` | 2 executions, client, maintenance, 1 attempt, GPU with fallback, 1 fault, 1 resume | 2,148,017 | `AttemptsBounded`, `KeepsPromise` (the refinement of `JobPromise`) |
| `gpu_settles` | 1 execution, GPU, 1 attempt, 1 fault, fair | 350,863 | `Settles`: a job nobody cancels ends |
| `local_settles` | 1 execution, local, 2 attempts, 1 fault, fair | 452,496 | `Settles`; `OutboxDrains`: every accepted job is handed to RQ |
| `admission` | 4 jobs, 3 tenants, 1 key, 2 requests, limits 2 and 1, 1 failure | 219,781 | `Promised` (the refinement of `AdmissionPromise`), `WithinCapacity`, `KeyIsUnique`, `InputKept` |
| `gpu_worker` | 1 container of the API, 2 submissions, 1 cancellation, 2 branches, 4 deployments | 1,251,464 | `ReservedOnce`, `CompletedHasStems`, `BranchesEndFirst`, `CancelledStays`, and `StatusSettles` under fairness |
| `services` | the ten parts from model tasks to calibration, one moving at a time | 1,684,095 | one or two properties of each, with `LedgerKept`, the refinement of `LedgerPromise` |
| `training_data` | the five parts of the training data, one moving at a time; the functions of the volume in groups that share files | 479,855 | seven invariants, `SelectedWhole`, and `TransfersEnd` under fairness |
| `orphaned_remote`, `delete_race`, `double_reservation` | small instances of the same specifications | | the three disagreements below |

What the properties of `services` and `training_data` say:

| Property | Module | In words |
|---|---|---|
| `OwnOutputs` | `ModelTasks` | a task collects its own outputs and nobody else's |
| `ContractDelivers` | `StemContract` | a delivered contract accounts for every target and every output; without leftovers each file is whole, one given under its own name is that output, and a made-up instrumental is the sum of its parts |
| `ImportedFiles` | `WorkerArtifacts` | a completed job has every artifact, whole in its folder or in the object store |
| `DeletedStays` | `LocalBackend` | no run, submission, cancellation or resumption that read a job before it was deleted brings its file back |
| `ShownIsServed` | `WebSession` | a page that stopped asking shows what the API has, or a terminal status that the job left again |
| `OneTerminalEffect`, `PaidForCompleted`, `LedgerKept` | `ContractLedger` | one end per job, and payment exactly for a completion |
| `CompletedIsOwn` | `RunnerWorkers` | completed serves, and scores, the stems of its own excerpt, but for one that its program left out though it exited with 0 |
| `ReportedOutputs` | `SpecialistWorkers` | each reported output is made as that target is to be made, of this call's input |
| `BakeoffCompletes` | `GpuBakeoff` | a call that returns has one valid result of each pair, scored with its own stems |
| `CalibrationSound` | `SynthCalibration` | songs are on one side, scores are of unseen songs, thresholds meet the targets and are the best of those tried, which are all unless values are left out |
| `VerifiedIsRestorable` | `SourceArchives` | a verified receipt names bytes the object store holds |
| `ReportedIsWhole` | `SourceArchives` | a prepared bundle is whole and of one archive |
| `SelectedWhole` | `ZipSelection` | a call that returns has every entry it was asked for, right |
| `SplitsApart`, `RulesCover` | `TrainingCorpus` | no composition or content on two sides; the rules for splits and budgets cover what they should, against a reference |
| `ExportDescribed`, `ValidationSetWhole` | `TrainingVolume` | a receipt never stands beside another checkpoint's predictions or half-written ones, though its own may be gone; nobody sees half a validation set |
| `PrefixAudited` | `VolumeCuration` | a receipt is of a prefix that is all there, and no audit under its own prefix's receipt is of a part |
| `TransfersEnd` | `MCTrainingData` | downloads in ranges, bundles whose marker was not torn, and manifests are acquired in the end |

Parts that share no running state share a run: `subject` is the part that moves, and the
rest stands still. This adds up their states and multiplies nothing; every part
starts from each of its initial states.

In job control `MaxCopies = 1`: RQ lists an id at most once at a time; different
ids and redeliveries still give concurrent executions. Executions are symmetric
in the runs without liveness, as are ledger runs, page requests, local jobs and songs in `services` and
requests, jobs and tenants in `admission`. `MCGpuWorker` and `MCTrainingData` have no
symmetry, since they check liveness. With symmetry the number of distinct states varies a little from
one run of TLC to the next.

### Bounds

Job control: every hazard needs at most two executions (an overtaken one and its
successor), one client beside the maintenance worker (two where a creation overlaps a
cancellation) and one or two faults; two attempts distinguish the first from the last.
Everything but liveness is also proved for any bounds.

`admission`: three tenants with a limit of one and a service limit of two
make each limit bind alone; with one key two requests meet on the same key or
not at all; four uuids let a request follow two jobs in progress and one replay; one
failure falls in every statement of a transaction. The theorems hold for any bounds.

`gpu_worker`: two submissions are a job and its repetition, in every overlap; one
cancellation meets each of their steps; two branches are one that writes files and one that
answers with objects. With one container of the API, since `LOCK` is a lock of one
process; with two it does not hold (`double_reservation`, below), and `ReservedOnce` says so. Its invariants
are also proved for any number of submissions, cancellations and branches.

`services`: two jobs or attempts of each kind, so that a successor meets what its
predecessor left, and one failure or exit, which falls on every step; three calls of a
tool (one that dies, one that resumes, one that finds everything done); two calls of the
single machine's API at a time (`MaxApiCalls`), which is each pair of them beside the run; one fault
of the page's network and one status that a job leaves (`MaxPageFaults`, `MaxLeft`); four songs and
three labels, so that a label runs out, with at most four windows (`MaxRows`) of three pairs of
score and margin (`Readings`), so that of three values two are tried (`MaxValues`) and the one left
out may be the best; of the three groups of stems the two that models write to. All
properties of `services` are also proved for any bounds.

`training_data`: an archive of seven bytes and one to three workers in each call, split twice, so
that parts of two splits differ in number and in size; two interruptions
leave parts of two splits; three entries, so that a selection is one run or two; two archives of eight
files with six compositions give all splits a composition and let duplicates cross
archives; two functions run at a time on the volume, in the groups of `Together`, and one
container dies. `RulesCover` compares the rules with their reference for up to 40
compositions. All invariants of `training_data` and `SelectedWhole` are also proved for any bounds.

Each property has a mutant of the code in the modules (operators named
`<definition>_<bug>`), under which TLC finds it violated in its run.

### Assumptions

`LeaseOutlivesRun` says `JOB_LEASE_SECONDS >= JOB_EXECUTION_TIMEOUT`, which the
defaults satisfy (3900 and 3900, `config.py:84,97`): RQ ends an execution before a
lease taken at its start runs out. Nothing in the code enforces it, so it is a
constant, TRUE in the runs, and the theorems that need it name it. RQ counts the timeout from
slightly before `acquire_lease`, and its signal interrupts the pipeline, not the
`finally`: hence `LeaseExpires` allows the handlers to outlive the lease.

Fairness of job control (`FairSpec`): workers take steps and RQ delivers what is queued (weak);
a begun call goes on (weak); the outbox lock and an unrenewed lease expire, and the
GPU worker ends a job within its deadline (weak); each maintenance cycle drains
the outbox and then reconciles, `run_maintenance_worker.py:30-45`, so a claim or
a reconciliation that is possible again and again happens (strong: the worker is
busy with the other in between). Nobody has to create, cancel, resume or delete.

Fairness of the GPU worker (`GpuWorkerFairness`): requests that were sent, runs and
branches go on, and Modal commits a volume in the background (all weak). Nobody has to
call the API. `StatusSettles` is about deployments in which no container dies, no
dispatch raises and no run ends early, because without these it does not hold.

Fairness of the training data: somebody calls the functions again in the end (weak
fairness of `Progress`), as a person who wants the archive does; interruptions are
bounded. Nothing forces an interruption, a new version at the provider or a revision.

`CancelWins` excepts a job that was *reopened*, by a write of `queued`: by
`resume_remote_job` (intended), by `record_dispatch_failure`, or by the retry in
`run_job`'s handler. The last two write `queued` over whatever the row says. A job may have been given
up by `reconcile_jobs`, and cancelled, while the execution is on its way; the write then
takes the cancellation back, and another execution may complete the job.

`WithinCapacity` leaves reopened jobs out of the count: `resume_remote_job`, a
retry or `record_dispatch_failure` makes a job active again without the lock or
the limits, so the table may hold more active jobs than `JOB_MAX_ACTIVE`.
`InputKept` excepts the jobs whose COMMIT took effect and was reported as
failed: `_create_local_job` takes any exception to mean that nothing was created
and removes the upload (`jobs.py:208`), while the job and its outbox row remain.

## Disagreements

Three runs show what the code does against what it, or its documents, say:

- `orphaned_remote`: a cancellation between `submit` and the record of the worker
  job id leaves the remote job running.
- `delete_race`: `delete_job` checks for a terminal status in one transaction and
  deletes by key in another; the job may have been requeued.
- `double_reservation`: `_reserve_job` says that it reserves an id atomically
  (`audio_separator_gpu_worker.py:254`), under a lock of one process; the API is deployed with two
  containers, each with its own view of the volume. Both find no job, both dispatch, and two
  calls execute one id.

Writing the models also brought these up. A property that one of them would break says
so in its statement, or is about the cases without it.

Job control
- A lease shorter than an execution (`JOB_LEASE_SECONDS < JOB_EXECUTION_TIMEOUT`,
  accepted by `runtime.py:80`) lets an execution whose heartbeat gave up continue beside
  its successor (`jobs.py:1358-1390`); `PRODUCTION_PLATFORM.md:71-72` says "single-owner
  execution".
- `list_reconcilable` ignores the lease of `queued` jobs (`job_store.py:635`), and a GPU
  job is `queued` until its submission is recorded, so a live execution may be given up
  (`PRODUCTION_PLATFORM.md:68`).
- A cancellation that finds the remote job completed leaves the job `cancelling` for ever
  (`jobs.py:990`); every reconciliation repeats the same answer (`DISASTER_RECOVERY.md:53`).
- `cancel_job` (`jobs.py:1869-1883`) does not wait for the execution to acknowledge
  (`docs/research/OPEN_SOURCE_REPO_DUE_DILIGENCE_2026.md:193-194`).
- The handler of `run_job` reads the cancel flag and writes `queued` in two transactions
  (`jobs.py:1402-1410`); the job may have been given up and cancelled in between, and
  another execution completes it.

GPU worker
- A run that ends before its request recorded the call has its end overwritten by
  `queued`; a dispatch that raises after the reservation, or a container that dies,
  leaves a job `queued` or `running` that is replayed for ever.
- A container terminated while it writes `status.json` leaves a file that every later submission,
  poll and cancellation of the id raises on.
- An upload that is too large writes `error` without a commit. A run that is cancelled while it
  collects its branches, or dies, leaves them running; so does one whose cancellation of a branch
  raises. `BranchesEndFirst` is about runs that go on or write their own end.
- With more than one worker thread a cached separator is shared, and tasks that run at a time
  collect each other's outputs; `OwnOutputs` is about one thread, the default, or no cache.
- A torn output of an earlier attempt with the plain name wins over a new one with a
  suffix (`:521-537`). The contract moves files that a running status lists. Loose aliases
  match too much: `_vocals` matches `no_vocals`, and `guitar` matches `electric_guitar`.
- The default import, `parallel_direct`, is not the one the contract's document puts first
  (`docs/architecture/GPU_WORKER_CONTRACT.md:19-20`). When one of its downloads fails, the manifest
  may lose the entries collected before it: the fallback skips their artifacts as seen, and their
  groups are dropped (`gpu_worker_client.py:207-219,385-389`). The files are there.

Single machine, page and ledger
- A resumption while the old future is in its `finally` enqueues nothing: the job stays
  queued until somebody runs `scripts/reconcile_jobs.py`.
- `dump_json` (`util.py:40`) is not atomic: a torn `status.json` makes every later creation
  raise. Two processes lose each other's updates. A crash between the status and the
  index of idempotency keys loses the key. A running job that is cancelled may end in
  `error`.
- The page: it does not ask about a job that has ended, so that one which saw the `error` of an
  attempt, before `run_job` queues the job again (`jobs.py:1404`), shows it for good; an answer `cancelled` leaves `busy` set and polling stopped; a failed
  reconnection after a reload leaves the page busy; a late answer about an old job
  replaces a new one; a retry after a lost answer draws a fresh idempotency key.
- The ledger: `record_execution_start` sets an attempt `running` after its terminal effect
  (`contract_ledger.py:347-356`).

Research workers and tools
- What an earlier run left under a fixed job id is served when a program exits with 0
  and without a stem (`bandit_runner.py:113-122` asks only whether the file is there); a container that ends leaves `running` for ever; `--reuse-existing`
  takes torn downloads; after an error answer the tool scores what it had.
- An interrupted second run of a specialist worker leaves its files beside the first
  run's report.
- The bakeoff writes a result before its score; a crash in between leaves it without,
  and `--resume` skips it. Results of another `--song-id` count. With a candidate named twice
  the report stays `in_progress` although `main` returns 0. A completed job with an
  incomplete contract is replayed for ever; a changed diagnostic duration replays the old
  job.
- A `passed` calibration may propose a reject threshold above its accept threshold. With more than
  201 values of a score or a margin better thresholds may lie among those left out.

Training data
- `RangeDownload`: resume parts of an older split are taken for a prefix; only the
  provider's checksum tells, and without one a mixture of the right size is accepted. A call with
  one worker that finds the partial file whole is refused (416), and so is every later one.
- `SourceArchives`: an interrupted transcoding never finishes, and a torn marker of a bundle stops
  every later call (`specialist_training_modal.py:357`); without a registered
  checksum a carried-over object and `--cleanup` can lose the archive.
- `ZipSelection`: stale blocks named by index make later calls fail; the shortcut by
  receipt checks only that files exist.
- `TrainingCorpus`: a duplicate is rejected although the first copy was itself rejected;
  splits count compositions of which nothing was accepted.
- `TrainingVolume`, `VolumeCuration`: pruning with a half-written `items.jsonl` deletes
  accepted audio before the count is checked, and a curation after it raises; a second
  acquisition reuses files by size though the revision changed; one
  `prefix-acquisition.json` serves all prefixes of a source and version, so that the audit of a
  prefix that is still being downloaded passes on another's receipt, and on one that was written
  half; an export that dies while it clears the one before leaves its receipt beside some of its
  predictions; a snapshot's fingerprint ignores source
  receipts; training reuses the metadata of an earlier dataset; the export of an audit
  returns an old manifest. Building and installing one validation set at once is not in
  the groups of `Together`; warm containers may see older views than the model's. One export runs
  at a time, and exports under other evaluation ids, which have directories of their own, are not
  told apart.

## Proofs

Every invariant and every action property that a run checks is a theorem of its
specification. Each section of a proof module has the same shape: types, the inductive
invariant as a conjunction of named parts, a lemma per action or kind of action, and the
theorem. `Counting` holds what several of them need of numbers and finite sets: a least
number, places in an order, the first few of a set, counts of a split.

`JobControlProofs` proves, for any executions, clients, maintenance workers,
attempts, faults and reopenings:

- `Typing`: `Spec => []TypeOK`.
- `LeaseExclusion`: assuming `LeaseOutlivesRun`, `Spec => []LeaseInv`.
  Exclusion alone is not inductive: that two executions are not in the pipeline
  together says nothing about one that is about to acquire. `LeaseInv` adds that a
  covered execution (from `acquire_lease` until it leaves the pipeline) is named
  by the row with a live lease (`LeaseCovers`), so an acquisition finds no covered
  execution; that an idle or acquiring execution is named by no row
  (`OwnerIsHere`), so that `lease_owner = owner` never lets it in by accident; and
  that a row that is not there names nobody and, before its INSERT, has no
  execution (`MissingIsFree`, `UnbornIsIdle`).
- `OneExecution`: hence `Spec => []SingleExecution`.
- `CompletionIsOwned`: hence `Spec => CompletedByOwner`; the only writers of
  `completed` are the two publishing statements (`WhoCompletes`).
- `AttemptsAreBounded`: `Spec => []AttemptsBounded`, without the lease assumption.
  The invariant: no attempt that was used or is remembered is beyond the
  row's count, until the row is deleted, and executions about to enter the
  pipeline hold distinct, unused attempts.

The proofs follow the disjuncts of `Next`: frame lemmas (`StepLease`,
`WriteLease`, `LeaseFrame`; `StepAttempts`, `WriteAttempts`, `AttemptsFrame`) cover
the actions that leave the lease or the count alone, and the rest
(`AcquireLease`, `StartPipeline`, the end of an execution, `DeleteJob`,
`LeaseExpires`) have arguments of their own. The assumptions on constants are
`OwnersAssumption` and `SystemAssumption`.

It also proves, from typing alone and so without the lease assumption:

- `CancellationHolds`: `Spec => CancelWins`. The invariant `CancelInv` says that a job
  that is cancelled and was not reopened is not queued, running or finalizing, that a row
  that is not there carries no flag, and that a resumption about to write has counted its
  reopening. From such a state `completed` cannot be written, because
  `_validate_transition` refuses it, whichever execution asks.
- `CompletionIsRemote`: `Spec => []CompletedMeansRemoteDone`. The invariant `RemoteInv` says that
  an execution that has seen the remote job completed, or is past the poll that saw it, and a
  completed row imply a completed remote job; and a completed remote job stays so,
  because a submission replays it and a cancellation refuses it.

`JobPromiseProofs` proves `PromiseIsKept`: assuming `LeaseOutlivesRun`, `Spec => KeepsPromise`, the
refinement of `JobPromise`. Every step makes one of a few moves on the row (`RowMove`): it keeps
status and flag, writes a status that the table of transitions allows, creates, cancels or deletes
the job. What a written status is written over comes from the table. That `cancelling` and
`cancelled` are written to a cancelled job only comes from `FlagInv`: whoever is about to write
them has seen the flag, and nothing takes it back. That an execution starts on a job that is not
completed comes from `LeaseInv`: between `acquire_lease` and the pipeline nobody else
completes the job (`LeasedOpen`). `AttemptsBounded` bounds what it adds to `executed`.

`AdmissionProofs` proves, for any finite set of jobs, any tenants, keys, requests,
limits and failures (`AdmissionAssumption`, `RequestsAssumption`):

- `ChecksHold`: `Spec => []AdmissionInv`. One transaction is past the lock
  (`OneAtATime`); its job has a uuid of its own, is not in the table and has its
  upload (`OwnJob`); and what its statements found out, that the key is new and
  that there is room, still holds (`Checked`). The last part is what the lock is
  for, and why counting at READ COMMITTED suffices: without the lock's holder jobs
  only end, leave the table or become reopened ones, which are not counted
  (`KeepsChecks`); the code counts these too, so it errs to the safe side (`Fewer`).
- `ServesOneByOne`: hence `Spec => Promised`. A transaction maps to one `Accept`
  at its COMMIT, and every other step of it to a stutter.
- `LimitsAreKept` and `KeysAreUnique` follow from the promise alone
  (`ServeKeeps`), `UploadsAreKept` from `OwnJob`.

`GpuWorkerProofs` proves, for any submissions, cancellations, API containers, branches and kinds
of deployment (`DeploymentsAssumption`: branches are spawned on Modal only;
`CallsAssumption`: a call has one kind, and the runner is no API container):

- `WorkerTyping`: types, and who is where (`Placed`): a local call and every run see the
  runner's view, a Modal request the view of its container; a run begins with the dispatch
  of its submission (`Unstarted`).
- `NoBranchIsLeft`: `BranchesEndFirst`. It is an invariant with `OneActive`: runs are one at a
  time, so that whoever leaves `collecting` is the run whose branches compute. It leaves with all
  of them collected or cancelled, or is stopped; the next run starts with branches of its own.
- `CompletedIsWhole`: `CompletedHasStems`. Neither directories nor copies in hand list stems
  that the directory they are in or will be written to lacks (`DirsSound`, `HeldSound`); a commit
  merges stems and replaces the status, so both stay so in every interleaving. For the
  run under way, `StemsSound` carries what its branches produced to the status it writes.

`GpuReservationProofs` proves `OneRunPerReservation`, that is `ReservedOnce`, for one API container
(`ContainersAssumption`: containers are finitely many). That a submission reserves only an id without a job is not enough: the
status it looks at is one of several copies, and an older one may be written or committed over a
newer, or left torn by a runner that is lost (`TornKept`). `ReservationInv` says which copies stand for a job, and when: all of
them while a run is under way (`LiveFresh`), those the API can see from the reservation to
the dispatch (`ReservedFresh`), what is about to be recorded of a dispatch (`RecordFresh`),
and, while the runner still has its end to commit, the rest (`DirtyFresh`); `Exclusive` is what one container, or
one event loop, serves at a time. Steps are commits and fetches (`SettledKept`), writes of a status
that stands for a job (`FreshWritten`), steps that change no status (`QuietKept`), and the
few that need an argument of their own: a reservation, an upload, a dispatch and the end of a failed run. It also
proves `CancelledIsFinal`, that is `CancelledStays`: again with one API container, whose view is then never
behind a cancellation (`CancelSeen`), so that no submission under way is of a cancelled job
(`ReservesNone`), what a lost runner leaves torn is not one (`RunnerTorn`), and what the runner still commits is the end of its own run (`EndWritten`). With two
containers the uncommitted `error` of a failed upload in one may be committed over `cancelled`,
and `double_reservation` is the counterexample to `ReservedAtomically`, which is `ReservedOnce`
without its precondition.

`ServicesProofs` has a section for each part beside the control plane.

- *Model tasks*, for any finite set of tasks and any pools (`TasksAssumption`,
  `PoolsAssumption`): `OutputsAreOwn`, that is `OwnOutputs`. While a task separates, its
  separator is directed at its own run directory (`Directed`): because it is alone (`Alone`,
  with one worker thread) or because nobody else holds the separator (`Holds`, without a
  cache). Hence nothing else is ever written there (`OwnRunDir`).
- *Contract ledger*, for any jobs, attempts, external runs and retries (`LedgerAssumption`):
  `LedgerTyping`, `OneEnd` and `CompletionsArePaid`. Every step leaves the
  effects and what they pay for alone, withdraws a job, or decides one that is
  undecided; `LedgerInv` is what these kinds keep. `CancelsStand`, which has no run of its
  own: a completion that arrives after the cancellation is not taken. `LedgerKeepsPromise`,
  the refinement: a deciding callback is the abstract decision with all its
  effects, the rest are withdrawals or stutters.
- *Single machine* (`LocalAssumption`), for any number of calls of any kind under way:
  `DeletedStaysDeleted`. `JsonJobStore.update` reads the file again under the lock and
  raises if it is gone (`UpdatesKeep`), so neither a run (`RunKeeps`) nor a call (`CallKeeps`) that
  read the job before its deletion finds anything to write over; only `create_job` makes a file, of
  a new id.
- *Runner workers*: `CompletedServesItsOwn`. That the status, the stems and the
  tool's copies agree says nothing about a call under way; the invariant follows the excerpt
  from the program's files to the worker's answer (`RunSoFar`), to the tool that waits for it
  (`AnswerOfTool`) and to the copies it scores (`FetchedSoFar`), and beside it the stems that a
  program left out: they are the only ones that may be another run's.
- *Artifacts*, in all four modes (`ArtifactsAssumption`): `CompletedImportIsWhole`. A terminal
  payload is the last one (`LastPayload`); what counts as imported is whole except while a
  bundle or a copy is written over it (`ImportedSoFar`); and nothing allowed is left
  without an import, a download or a reference (`NothingLeftOut`).
- *Web page*, for any jobs and requests (`WebAssumption`): `PageShowsTheEnd`. An answer may arrive
  about an old job or late; but an end, on the page or in an answer, is one that the job it names
  has, or had and left (`EndsAreTrue`, `EndsStay`).
- *Specialist workers* (`SpecialistAssumption`): `OutputsAreRight`. Targets share cached stages and
  arrays that are summed in place; each target, made or failed, leaves them as it found them
  (`LeftForNext`), so that each is made as if it were the first.
- *Calibration* (`CalibrationAssumption`): `ThresholdsAreSound`. A song is picked once
  (`CandidatesFit`) and a row names what its head was trained with (`RowsFit`); the search
  over accept thresholds and margins is compared with every pair tried that meets the targets, and,
  where no value is left out, with every pair at all (`OccurringThresholds`).
- *Bakeoff* (`PairsAssumption`: no candidate and no song twice; a candidate named twice
  would leave the report `in_progress` for ever although `main` returns 0):
  `ReportIsComplete`. Results of earlier calls count, so each must still be true of the worker
  (`Backed`); a result without a score must be known as one (`Accounted`); the pairs a call
  has passed have valid results (`Passed`), and one result per pair makes their number
  the number of pairs.
- *Stem contract*, for any outputs, groups, rules, aliases and runs (`ContractAssumption`: two
  models' outputs have different names, and a target's first rule has its own name first, as
  in `TARGET_RULES`): `ContractIsDelivered`. What a phase produced is kept until the
  next has it: in the group's directory, then among the candidates (`ProducedKept`,
  `CandidatesKept`), then as the audio of what was published (`PublishedKept`). A free name is always left for
  a copy, since a run adds at most one file to a name (`NamesLeft`). In a run that found nothing, a file's
  name is what it is made of (`CleanKept`), so what a rule matches by name is right by content.

`TrainingProofs` is about the training data.

- `VerifiedStaysRestorable` and `ReportedStaysWhole` (`ArchiveAssumption`). With a pinned
  checksum nothing but the registered bytes is past the verification, uploaded or recorded,
  in what a process sees and in what is committed (`PinnedBytes`); a bundle is of one archive
  in each phase (`PreparedSoFar`), and its marker, even a torn one, is there only with all of it
  (`MarkerWhole`).
- `ReturnedIsSelected` (`ZipAssumption`). Runs of entries that are done are whole and what is left is planned
  (`RunsDone`), whichever entries share a run.
- `ReceiptDescribes`, `SetsAreWhole` and `PrefixesAreAudited`, for all functions of the
  application at a time (`VolumeSystem`, `VolumeAssumption`, `TouchedAssumption`), not only the groups TLC
  runs together. A function's steps change its own view, and the volume only in what it wrote
  (`MovesOnly`), and no two write the same of the watched files but the two that write
  validation sets and the acquisitions, which share a receipt (`WritesOwn`): so each property is an
  invariant of its own writers (`ExportSoFar`, `SetSoFar`, `PrefixSoFar`), and the others' steps
  leave it alone. An export has no readable receipt while it writes predictions; an acquisition
  has all its files before it writes a receipt, so that one commit publishes both.
- `NothingLeaks` (`CorpusAssumption`): what is loaded are audited rows, no two of one content, and of a
  composition all in one split (`ItemsLoaded`); recipes are made of these (`RecipesBuilt`).
- `RulesHold`: `RulesCover`. The lemmas behind it are for any number of compositions
  (`EverySplit`) and for any composition numbers, candidates and budget (`FairShares`):
  the candidates' places in order are counted, and the first of them taken.

Only model-checked is liveness: `Settles`, `OutboxDrains`, `StatusSettles` and `TransfersEnd`
need fairness and ENABLED, which are out of the prover's reach. `UNION S \ T` and
`SUBSET S \ T` are written with parentheses, because TLC and the proof system group them
differently.

## Not modelled, and the plan

- Job control: the event log and `list_events`; `run_job`'s handler under the thread backend in
  `JobRuns` (`LocalBackend` has it), a GPU profile without a configured worker; several
  jobs in one maintenance cycle, where an exception for one ends the cycle for all.
- `JsonJobStore`'s index of idempotency keys.
- The branches of the local pipeline: independent runs on a thread pool whose results are
  collected in order, without shared state.
- API routers, authentication and the rate limiter: stateless checks, and one Redis script.
  Grants and presigned addresses of object storage, the audio sources.
- Separation, analysis, specialists, packaging and scores: numeric, without a protocol.
- Benchmarks, the model registry, qualification, unit economics: functions of files.
- The generated API client; operations scripts, tools and infrastructure.
- Of the GPU worker: estimates, runtime metrics, garbage collection of jobs. Of the research
  workers: several containers of one. Of the training application: what training
  and inference compute.

What is left of the plan: a maintenance cycle over several jobs;
the event log with its cursor; and the composition of `GpuWorker` with job control in place of
`remote`.
