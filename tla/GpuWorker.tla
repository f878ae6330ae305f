------------------------------ MODULE GpuWorker ------------------------------
(***************************************************************************)
(* The GPU worker (src/workers/audio_separator_gpu_worker.py) for one job  *)
(* id: its HTTP API, the runs it dispatches and the branches of a parallel *)
(* run.  All of them keep the job in one status.json.  Deployed on Modal,  *)
(* every container has its own view of the volume that file is on: commit  *)
(* publishes the files a view changed, file by file, and the last one      *)
(* wins; reload fetches what is committed.  Deployed locally, the API and  *)
(* the executor thread share one disk.                                     *)
(***************************************************************************)
EXTENDS Naturals, Sequences, FiniteSets

CONSTANTS
    ApiContainers,      \* containers of fastapi_app
    Submissions,        \* calls of separate and separate_reference
    Cancels,            \* calls of cancel_job
    PARALLEL_BRANCHES,  \* the roles of a run's models, in order
    Specialists,        \* the roles that answer with objects, not files
    Deployments         \* the kinds of deployment to check

\* Branches are spawned on Modal only.
ASSUME DeploymentsAssumption ==
    /\ Deployments \subseteq [modal : BOOLEAN, parallel : BOOLEAN, early : BOOLEAN, faults : BOOLEAN]
    /\ \A d \in Deployments : d.parallel => d.modal

VARIABLES
    deployment,  \* how the worker is deployed, and what may go wrong there
    volume,      \* the job's directory as last committed
    view,        \* the job's directory as a container sees it
    actor,       \* the requests, and the runs they spawned
    branch       \* the model calls of the run under way

workerVars == <<deployment, volume, view, actor, branch>>

Roles == {PARALLEL_BRANCHES[k] : k \in DOMAIN PARALLEL_BRANCHES}
RunOf(s) == <<s, "run">>
Runs == {RunOf(s) : s \in Submissions}
Requests == Submissions \cup Cancels
NoCall == <<>>

\* A call is a submission or a cancellation, and no run; the runner is no API container.
ASSUME CallsAssumption ==
    /\ Submissions \cap Cancels = {}
    /\ Runs \cap Requests = {}
    /\ "runner" \notin ApiContainers

ASSUME ContainersAssumption == IsFiniteSet(ApiContainers)

\* Mutants: a resubmission does not find a job that runs, or one that was cancelled.
REPLAYABLE_JOB_STATES_NotRunning == {"queued", "completed", "cancelled"}
REPLAYABLE_JOB_STATES_NotCancelled == {"queued", "running", "completed"}

REPLAYABLE_JOB_STATES == {"queued", "running", "completed", "cancelled"}

WorkerTerminal == {"completed", "error", "cancelled"}

\* status.json: the status, the call that executes the job and the stems it lists.
NoStatus == [status |-> "none", call |-> NoCall, stems |-> {}]

StatusFiles == [status : REPLAYABLE_JOB_STATES \cup {"none", "error", "torn"},
                call : Runs \cup {NoCall}, stems : SUBSET Roles]

NewStatus == [status |-> "queued", call |-> NoCall, stems |-> {}]

\* A file that was cut short, which nobody can read.
TornStatus == [status |-> "torn", call |-> NoCall, stems |-> {}]

RequestPcs == {"new", "entered", "upload", "send", "record", "confirm", "publish", "answered", "failed"}
RunPcs == {"none", "pending", "input", "marking", "executing", "merging", "spawning", "collecting", "overbudget",
           "finalizing", "publishing", "completing", "failing", "committing", "ended", "stopped"}
Resting == {"new", "answered", "failed", "none", "pending", "ended", "stopped"}

Outcomes == {"idle", "running", "succeeded", "raised", "completed", "failed", "cancelled", "escaped"}

GpuWorkerTypeOK ==
    /\ deployment \in Deployments
    /\ volume \in [file : StatusFiles, stems : SUBSET Roles]
    /\ view \in [ApiContainers \cup {"runner"} ->
                    [file : StatusFiles, stems : SUBSET Roles, dirty : BOOLEAN]]
    /\ actor \in [Requests \cup Runs ->
                    [pc : RequestPcs \cup RunPcs, at : ApiContainers \cup {"runner"},
                     read : BOOLEAN, held : StatusFiles]]
    /\ branch \in [Roles -> Outcomes]

GpuWorkerInit ==
    /\ deployment \in Deployments
    /\ volume = [file |-> NoStatus, stems |-> {}]
    /\ view = [c \in ApiContainers \cup {"runner"} |->
                    [file |-> NoStatus, stems |-> {}, dirty |-> FALSE]]
    /\ actor = [a \in Requests \cup Runs |->
                    [pc |-> IF a \in Requests THEN "new" ELSE "none", at |-> "runner",
                     read |-> FALSE, held |-> NoStatus]]
    /\ branch = [role \in Roles |-> "idle"]

-----------------------------------------------------------------------------
(* The jobs volume.  A local worker has one disk and no volume: its commit *)
(* and reload do nothing.                                                  *)

File(a) == view[actor[a].at].file

Committed(v) ==
    [file |-> IF view[v].dirty THEN view[v].file ELSE volume.file,
     stems |-> volume.stems \cup view[v].stems]

Commit(v) ==
    /\ volume' = IF deployment.modal THEN Committed(v) ELSE volume
    /\ view' = [view EXCEPT ![v].dirty = FALSE]

Show(v, dir) == view' = [view EXCEPT ![v] = [file |-> dir.file, stems |-> dir.stems, dirty |-> FALSE]]

\* A reload commits what the view has changed before it fetches.
Reload(v) ==
    IF deployment.modal
      THEN volume' = Committed(v) /\ Show(v, Committed(v))
      ELSE UNCHANGED <<volume, view>>

\* A container that is terminated may take its last writes with it, or leave the status
\* it was writing cut short.
Left(v, writing) ==
    {volume, Committed(v)} \cup (IF writing THEN {[Committed(v) EXCEPT !.file = TornStatus]} ELSE {})

Terminate(v, writing) ==
    IF deployment.modal
      THEN \E left \in Left(v, writing) : volume' = left /\ Show(v, left)
      ELSE UNCHANGED <<volume, view>>

BackgroundCommit(v) ==
    /\ deployment.modal /\ view[v].dirty
    /\ Commit(v)
    /\ UNCHANGED <<deployment, actor, branch>>

\* write_text empties the file and fills it; only the end of its container comes between.
WriteStatus(v, file) ==
    /\ view' = [view EXCEPT ![v].file = file, ![v].dirty = TRUE]
    /\ UNCHANGED volume

Goto(a, pc) == actor' = [actor EXCEPT ![a].pc = pc, ![a].read = FALSE, ![a].held = NoStatus]

\* The first half of _update_status: nothing keeps others from writing before the second.
LoadStatus(a) ==
    /\ ~actor[a].read
    /\ actor' = [actor EXCEPT ![a].read = TRUE, ![a].held = File(a)]
    /\ UNCHANGED <<deployment, volume, view, branch>>

\* The second half: the status that was read, with these fields set.
UpdateStatus(a, file, next) ==
    /\ actor[a].read
    /\ WriteStatus(actor[a].at, file)
    /\ Goto(a, next)

-----------------------------------------------------------------------------
(* The API.  A Modal container serves one request at a time; the event     *)
(* loop of a local worker switches only where a request awaits its upload. *)

InLoop(r) == actor[r].pc \notin Resting \cup {"upload"} \/ actor[r].read

MayStep(r) == deployment.modal \/ \A other \in Requests \ {r} : ~InLoop(other)

EnterContainer(r, c) ==
    /\ actor[r].pc = "new" /\ MayStep(r)
    /\ IF deployment.modal
         THEN c # "runner" /\ \A other \in Requests : actor[other].at = c => actor[other].pc \in Resting
         ELSE c = "runner"
    /\ Reload(c)
    /\ actor' = [actor EXCEPT ![r].pc = "entered", ![r].at = c]
    /\ UNCHANGED <<deployment, branch>>

\* Under LOCK: answer with the job that is there, or write a new one over it; a torn
\* status raises.
ReserveJob(s) ==
    /\ actor[s].pc = "entered"
    /\ \/ /\ File(s).status \in REPLAYABLE_JOB_STATES
          /\ Goto(s, "answered") /\ UNCHANGED <<volume, view>>
       \/ /\ File(s).status = "torn"
          /\ Goto(s, "failed") /\ UNCHANGED <<volume, view>>
       \/ /\ File(s).status \notin REPLAYABLE_JOB_STATES \cup {"torn"}
          /\ WriteStatus(actor[s].at, NewStatus)
          /\ \E next \in {"upload", "send"} : Goto(s, next)
    /\ UNCHANGED <<deployment, branch>>

ReceiveUpload(s) ==
    /\ actor[s].pc = "upload"
    /\ \/ UpdateStatus(s, actor[s].held, "send")
       \/ UpdateStatus(s, [actor[s].held EXCEPT !.status = "error"], "failed")
    /\ UNCHANGED <<deployment, branch>>

DispatchJob(s) ==
    /\ actor[s].pc = "send"
    /\ Commit(actor[s].at)
    /\ \/ actor' = [actor EXCEPT ![s].pc = "record", ![RunOf(s)].pc = "pending"]
       \/ deployment.faults /\ Goto(s, "failed")
    /\ UNCHANGED <<deployment, branch>>

RecordDispatch(s) ==
    /\ actor[s].pc = "record"
    /\ UpdateStatus(s, [actor[s].held EXCEPT !.call = IF deployment.modal THEN RunOf(s) ELSE NoCall], "publish")
    /\ UNCHANGED <<deployment, branch>>

Publish(r) ==
    /\ actor[r].pc = "publish"
    /\ Commit(actor[r].at)
    /\ Goto(r, "answered")
    /\ UNCHANGED <<deployment, branch>>

\* Between a read of the status and its write, or before a plain write, lies the write.
Writing(run) == actor[run].read \/ actor[run].pc = "publishing"

\* What ends a run: Modal terminates its container, whose last writes may be lost;
\* a local future is cancelled only while it has not started.
StopRun(c, run) ==
    IF actor[run].pc \in Resting
      THEN /\ actor' = [actor EXCEPT ![run].pc = IF @ = "pending" THEN "stopped" ELSE @, ![c].pc = "confirm"]
           /\ UNCHANGED <<volume, view>>
      ELSE /\ actor' = [actor EXCEPT ![run].pc = "stopped", ![run].read = FALSE, ![c].pc = "confirm"]
           /\ Terminate("runner", Writing(run))

StopFuture(c) ==
    /\ actor' = [a \in DOMAIN actor |->
                    CASE a = c -> [actor[a] EXCEPT !.pc = "confirm"]
                      [] a \in Runs /\ actor[a].pc = "pending" /\ ~deployment.modal -> [actor[a] EXCEPT !.pc = "stopped"]
                      [] OTHER -> actor[a]]
    /\ UNCHANGED <<volume, view>>

CancelJob(c) ==
    /\ actor[c].pc = "entered"
    /\ \/ /\ File(c).status \in WorkerTerminal \cup {"none"}
          /\ Goto(c, "answered") /\ UNCHANGED <<volume, view>>
       \/ /\ File(c).status = "torn"
          /\ Goto(c, "failed") /\ UNCHANGED <<volume, view>>
       \/ /\ File(c).status \in {"queued", "running"}
          /\ IF File(c).call = NoCall THEN StopFuture(c)
               ELSE \/ StopRun(c, File(c).call)
                    \/ Goto(c, "failed") /\ UNCHANGED <<volume, view>>
    /\ UNCHANGED <<deployment, branch>>

ConfirmCancel(c) ==
    /\ actor[c].pc = "confirm"
    /\ UpdateStatus(c, [actor[c].held EXCEPT !.status = "cancelled"], "publish")
    /\ UNCHANGED <<deployment, branch>>

\* A read of the status or of an artifact.
JobStatus(c) ==
    /\ deployment.modal /\ \A r \in Requests : actor[r].at = c => actor[r].pc \in Resting
    /\ Reload(c)
    /\ UNCHANGED <<deployment, actor, branch>>

RequestStep(r) ==
    /\ MayStep(r)
    /\ \/ actor[r].pc \in {"upload", "record", "confirm"} /\ LoadStatus(r)
       \/ ReserveJob(r) /\ r \in Submissions
       \/ ReceiveUpload(r) \/ DispatchJob(r) \/ RecordDispatch(r) \/ Publish(r)
       \/ CancelJob(r) /\ r \in Cancels
       \/ ConfirmCancel(r)

-----------------------------------------------------------------------------
(* A run.  Its container takes one call at a time, and so does the pool of *)
(* a local worker.  A parallel run calls a container per branch; any other *)
(* runs its models one after the other.                                    *)

OthersRest(run) == \A other \in Runs \ {run} : actor[other].pc \in Resting

\* Mutant: what goes wrong before the first model is outside the try block.
StartRun_Unhandled(run) ==
    /\ actor[run].pc = "pending" /\ OthersRest(run)
    /\ Reload("runner")
    /\ \E next \in {"committing", IF deployment.parallel THEN "input" ELSE "executing"} : Goto(run, next)
    /\ branch' = [role \in Roles |-> "idle"]
    /\ UNCHANGED deployment

\* What the first read and the fetching of the input lead to: a status that nobody can
\* read raises once more where the failure would be recorded.
Begun(status) ==
    IF status = "torn" THEN {"committing"}
    ELSE {"failing", IF deployment.parallel THEN "input" ELSE "executing"}

StartRun(run) ==
    /\ actor[run].pc = "pending" /\ OthersRest(run)
    /\ Reload("runner")
    /\ \E next \in Begun(view'["runner"].file.status) : Goto(run, next)
    /\ branch' = [role \in Roles |-> "idle"]
    /\ UNCHANGED deployment

\* The first of these roles in the order of the plan.
FirstOf(role, roles) ==
    /\ role \in roles
    /\ \E k \in DOMAIN PARALLEL_BRANCHES :
          PARALLEL_BRANCHES[k] = role /\ \A i \in 1 .. k - 1 : PARALLEL_BRANCHES[i] \notin roles

\* The roles of the plan that have no outcome yet.
IdleRoles == {role \in Roles : branch[role] = "idle"}

\* Marks the job running, then runs one model: what it writes is there at once.
ExecuteModelTask(run) ==
    /\ actor[run].pc = "executing" /\ actor[run].read
    /\ LET running == [actor[run].held EXCEPT !.status = "running"]
       IN  \E role \in Roles, succeeds \in BOOLEAN :
              /\ FirstOf(role, IdleRoles)
              /\ branch' = [branch EXCEPT ![role] = IF succeeds THEN "completed" ELSE "failed"]
              /\ view' = [view EXCEPT !["runner"] =
                            [file |-> running, dirty |-> TRUE,
                             stems |-> IF succeeds THEN @.stems \cup {role} ELSE @.stems]]
    /\ Goto(run, "merging")
    /\ UNCHANGED <<deployment, volume>>

OutcomeStems == {role \in Roles : branch[role] = "completed"}

MergeArtifacts(run) ==
    /\ actor[run].pc = "merging"
    /\ UpdateStatus(run, [actor[run].held EXCEPT !.status = "running", !.stems = @ \cup OutcomeStems], "executing")
    /\ UNCHANGED <<deployment, branch>>

AllTasksRun(run) ==
    /\ actor[run].pc = "executing" /\ IdleRoles = {} /\ ~actor[run].read
    /\ Goto(run, "finalizing")
    /\ UNCHANGED <<deployment, volume, view, branch>>

\* _product_specialist_input_object: a parallel run uploads its input and notes where.
RecordInput(run) ==
    /\ actor[run].pc = "input"
    /\ UpdateStatus(run, actor[run].held, "marking")
    /\ UNCHANGED <<deployment, branch>>

\* An input that is an object already is taken as it is; an upload may raise.
SkipInput(run) ==
    /\ actor[run].pc = "input" /\ ~actor[run].read
    /\ \E next \in {"marking", "failing"} : Goto(run, next)
    /\ UNCHANGED <<deployment, volume, view, branch>>

MarkRunning(run) ==
    /\ actor[run].pc = "marking"
    /\ UpdateStatus(run, [actor[run].held EXCEPT !.status = "running"], "spawning")
    /\ UNCHANGED <<deployment, branch>>

SpawnBranches(run) ==
    /\ actor[run].pc = "spawning"
    /\ Commit("runner")
    /\ branch' \in [Roles -> {"running", "failed"}]
    /\ Goto(run, "collecting")
    /\ UNCHANGED deployment

\* A branch container separates and collects its role's stems, or raises.
BranchResult(succeeds) == IF succeeds THEN "succeeded" ELSE "raised"

\* It commits whatever it wrote; a specialist's stems are objects instead.
BranchEnds(role) ==
    /\ branch[role] \in {"running", "escaped"}
    /\ \E succeeds \in BOOLEAN :
          /\ volume' = [volume EXCEPT !.stems = IF succeeds /\ role \notin Specialists THEN @ \cup {role} ELSE @]
          /\ branch' = [branch EXCEPT ![role] = IF @ = "escaped" THEN "cancelled" ELSE BranchResult(succeeds)]
    /\ UNCHANGED <<deployment, view, actor>>

Uncollected == {role \in Roles : branch[role] \in {"running", "succeeded", "raised"}}

\* The stems of a specialist are fetched from object storage into the job's directory.
MaterializeBranchObjects(role) ==
    /\ view' = [view EXCEPT !["runner"].stems = @ \cup {role}]
    /\ branch' = [branch EXCEPT ![role] = "completed"]
    /\ UNCHANGED volume

\* Those of any other branch must be there once the volume is reloaded.
ValidateBranchArtifacts(role) ==
    /\ Reload("runner")
    /\ branch' = [branch EXCEPT ![role] = IF role \in view'["runner"].stems THEN "completed" ELSE "failed"]

\* The next call, in the order they were spawned; whatever raises on the way, or a
\* report that lacks an output, makes the branch a failed one.
CollectBranch(run) ==
    /\ actor[run].pc = "collecting"
    /\ \E role \in Roles :
           /\ FirstOf(role, Uncollected) /\ branch[role] # "running"
           /\ \/ branch[role] = "succeeded" /\ role \in Specialists /\ MaterializeBranchObjects(role)
              \/ branch[role] = "succeeded" /\ role \notin Specialists /\ ValidateBranchArtifacts(role)
              \/ branch' = [branch EXCEPT ![role] = "failed"] /\ UNCHANGED <<volume, view>>
    /\ UNCHANGED <<deployment, actor>>

CollectedAll(run) ==
    /\ actor[run].pc = "collecting"
    /\ Uncollected = {}
    /\ Reload("runner")
    /\ Goto(run, "finalizing")
    /\ UNCHANGED <<deployment, branch>>

\* Mutant: a budget that is spent cancels nothing.
ExceedBudget_NoCancel(run) ==
    /\ actor[run].pc = "collecting" /\ Uncollected # {}
    /\ Goto(run, "overbudget")
    /\ UNCHANGED <<deployment, volume, view, branch>>

\* The budget of the submission is spent: every call is cancelled, which may raise.
ExceedBudget(run) ==
    /\ actor[run].pc = "collecting" /\ Uncollected # {}
    /\ \E raises \in SUBSET Roles :
          branch' = [role \in Roles |->
                        CASE branch[role] = "running" /\ role \in raises -> "escaped"
                          [] branch[role] = "running" -> "cancelled"
                          [] OTHER -> branch[role]]
    /\ Goto(run, "overbudget")
    /\ UNCHANGED <<deployment, volume, view>>

FailedRoles == Roles \ OutcomeStems

\* The merged status is written; the contract and the waveforms write it again from
\* the copy in hand.  A parallel run without all its stems fails, and so does a run
\* that raises here.
FinalizeJob(run) ==
    /\ actor[run].pc = "finalizing" /\ actor[run].read
    /\ LET merged == [actor[run].held EXCEPT !.stems = @ \cup OutcomeStems]
       IN  /\ WriteStatus("runner", merged)
           /\ actor' = [actor EXCEPT ![run].pc = "publishing", ![run].held = merged]
    /\ UNCHANGED <<deployment, branch>>

\* Mutant: a failed branch does not fail the run.
PublishObjects_AnyOutcome(run) ==
    /\ actor[run].pc = "publishing"
    /\ WriteStatus("runner", actor[run].held)
    /\ \E next \in {"failing", "completing"} : Goto(run, next)
    /\ UNCHANGED <<deployment, branch>>

PublishObjects(run) ==
    /\ actor[run].pc = "publishing"
    /\ WriteStatus("runner", actor[run].held)
    /\ \/ Goto(run, "failing")
       \/ (deployment.parallel => FailedRoles = {}) /\ Goto(run, "completing")
    /\ UNCHANGED <<deployment, branch>>

\* The request that dispatched a run has answered before the run ends, unless early.
Dispatched(run) == deployment.early \/ \E s \in Submissions : run = RunOf(s) /\ actor[s].pc = "answered"

CompleteJob(run) ==
    /\ actor[run].pc = "completing" /\ Dispatched(run)
    /\ UpdateStatus(run, [actor[run].held EXCEPT !.status = "completed"], "committing")
    /\ UNCHANGED <<deployment, branch>>

FailWorkerJob(run) ==
    /\ actor[run].pc \in {"failing", "overbudget"} /\ Dispatched(run)
    /\ UpdateStatus(run, [actor[run].held EXCEPT !.status = "error"], "committing")
    /\ UNCHANGED <<deployment, branch>>

EndRun(run) ==
    /\ actor[run].pc = "committing"
    /\ Commit("runner")
    /\ Goto(run, "ended")
    /\ UNCHANGED <<deployment, branch>>

\* The container dies.
RunDies(run) ==
    /\ deployment.faults /\ actor[run].pc \notin Resting
    /\ Terminate("runner", Writing(run))
    /\ Goto(run, "stopped")
    /\ UNCHANGED <<deployment, branch>>

LoadsStatus(run) ==
    \/ actor[run].pc \in {"input", "marking", "merging", "finalizing", "completing", "failing", "overbudget"}
    \/ actor[run].pc = "executing" /\ IdleRoles # {}

RunWorks(run) ==
    \/ StartRun(run)
    \/ LoadsStatus(run) /\ LoadStatus(run)
    \/ ExecuteModelTask(run) \/ MergeArtifacts(run) \/ AllTasksRun(run)
    \/ RecordInput(run) \/ SkipInput(run) \/ MarkRunning(run) \/ SpawnBranches(run) \/ CollectBranch(run) \/ CollectedAll(run) \/ ExceedBudget(run)
    \/ FinalizeJob(run) \/ PublishObjects(run) \/ CompleteJob(run) \/ FailWorkerJob(run) \/ EndRun(run)

-----------------------------------------------------------------------------

GpuWorkerNext ==
    \/ \E r \in Requests : RequestStep(r) \/ \E c \in ApiContainers \cup {"runner"} : EnterContainer(r, c)
    \/ \E run \in Runs : RunWorks(run) \/ RunDies(run)
    \/ \E role \in Roles : BranchEnds(role)
    \/ \E c \in ApiContainers : JobStatus(c)
    \/ \E v \in ApiContainers \cup {"runner"} : BackgroundCommit(v)

\* Requests, runs and branches go on, and Modal commits every few seconds; nobody has
\* to call the API.
GpuWorkerFairness ==
    /\ \A r \in Requests : WF_workerVars(RequestStep(r))
    /\ \A run \in Runs : WF_workerVars(RunWorks(run))
    /\ \A role \in Roles : WF_workerVars(BranchEnds(role))
    /\ \A v \in ApiContainers \cup {"runner"} : WF_workerVars(BackgroundCommit(v))

GpuWorkerSpec == GpuWorkerInit /\ [][GpuWorkerNext]_workerVars /\ GpuWorkerFairness

-----------------------------------------------------------------------------

Durable == IF deployment.modal THEN volume.file ELSE view["runner"].file

Live(run) == actor[run].pc \notin {"none", "committing", "ended", "stopped"}

\* A job id is executed by one call at a time, however many API containers serve it: what
\* _reserve_job says of itself.  It does not hold: its LOCK is one of a container.
ReservedAtomically == \A x, y \in Runs : Live(x) /\ Live(y) => x = y

\* With one API container it does: however submissions, cancellations and failed runs follow
\* each other, a second call is dispatched only after the first wrote its end (_reserve_job).
ReservedOnce == Cardinality(ApiContainers) = 1 => ReservedAtomically

\* A status that says completed never lists a stem that a reader of the same view does
\* not find, and that of a parallel run lists the stems of all branches
\* (_validate_parallel_branch_volume_artifacts, _finalize_parallel_job).
CompletedHasStems ==
    \A dir \in {volume} \cup {view[v] : v \in DOMAIN view} :
        dir.file.status = "completed" =>
            /\ dir.file.stems \subseteq dir.stems
            /\ deployment.parallel => dir.file.stems = Roles

\* A branch of the latest run computes only while that run collects its branches, or after
\* it was stopped by a cancellation or died; a run that went on, or wrote its own end, has
\* left none computing, but for one whose cancellation itself was refused
\* (_run_parallel_job, budget_exceeded).
BranchesEndFirst ==
    (\E role \in Roles : branch[role] = "running") =>
        \E run \in Runs :
            /\ actor[run].pc \in {"collecting", "stopped"}
            /\ \A other \in Runs \ {run} : actor[other].pc \in Resting

\* Once a job is cancelled and nothing of it is left to run or to dispatch, it stays
\* cancelled: no resubmission of the id starts it again (_reserve_job).
CancelledStays ==
    [][Durable.status = "cancelled" /\ (\A a \in Requests \cup Runs : actor[a].pc \in Resting \ {"pending"})
        => Durable'.status = "cancelled"]_workerVars

\* A job that is queued or running reaches an end, if no container dies, no dispatch
\* fails and no run ends before its request was answered (_run_job, _run_parallel_job:
\* every path out of them writes one).
StatusSettles ==
    ~deployment.early /\ ~deployment.faults /\ Cardinality(ApiContainers) = 1 =>
        (Durable.status \in {"queued", "running"} ~> Durable.status \in WorkerTerminal)

=============================================================================
