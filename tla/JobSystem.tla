----------------------------- MODULE JobSystem -----------------------------
(***************************************************************************)
(* The state one job lives in: its row and its outbox row in PostgreSQL,   *)
(* its RQ jobs in Redis, its remote job on the GPU worker, the executions  *)
(* of run_job in the RQ workers and the control-plane calls in the API and *)
(* maintenance processes.  Every statement, key and remote identifier of   *)
(* the code is per job, so one job is the whole state (admission, which    *)
(* counts jobs, is not part of it).                                        *)
(*                                                                         *)
(* JobDispatch, JobRuns and JobControl give the actions.                   *)
(***************************************************************************)
EXTENDS JobStore

CONSTANTS
  Clients,             \* requests the API serves at a time
  Maintainers,         \* maintenance workers
  JOB_MAX_ATTEMPTS,
  UseGpuWorker,        \* the profile's use_gpu_worker
  AllowLocalFallback,  \* the profile's allow_local_fallback
  LeaseOutlivesRun,    \* JOB_LEASE_SECONDS >= JOB_EXECUTION_TIMEOUT: RQ ends an
                       \* execution before a lease acquired at its start ends
  MaxCopies,           \* bound: entries of one RQ id in the Redis list
  MaxFaults,           \* bound: exceptions, lost heartbeats and crashes
  MaxReopens           \* bound: resume_remote_job is called on a job reopened less often

ASSUME SystemAssumption ==
  /\ JOB_MAX_ATTEMPTS \in Nat \ {0}
  /\ UseGpuWorker \in BOOLEAN /\ AllowLocalFallback \in BOOLEAN
  /\ LeaseOutlivesRun \in BOOLEAN
  /\ MaxCopies \in Nat \ {0} /\ MaxFaults \in Nat /\ MaxReopens \in Nat
  /\ Clients \intersect Maintainers = {}

VARIABLES
  row,       \* the row of "jobs"
  outbox,    \* its row of "job_dispatch_outbox"
  rq,        \* the RQ jobs of this job
  remote,    \* the status of its remote job, as its GPU worker reports it
  pc,        \* where each execution of run_job is
  ctx,       \* what each execution of run_job remembers
  call,      \* what each control-plane process is doing for this job
  executed,  \* history: the attempts that entered the pipeline
  faults,    \* how many faults there were
  reopened   \* history: how often a call made the job queued that was not, or a
             \* retry one that had been cancelled

vars == <<row, outbox, rq, remote, pc, ctx, call, executed, faults, reopened>>

Callers == Clients \union Maintainers

\* RQ ids: 0 is stemsplitter-<job>, n > 0 is stemsplitter-<job>-recovery-<n>.
RqIds == 0 .. JOB_MAX_ATTEMPTS

\* Deferred and scheduled RQ jobs count as queued: a delay is any delay.
RqJob == [ state : {"absent", "queued", "started", "done"},
           copies : Nat, retries : Nat ]

NoRqJob == [state |-> "absent", copies |-> 0, retries |-> 0]

RemoteStatuses == {"none", "active", "completed", "error", "cancelled"}

\* Inside the try blocks of _run_job_pipeline and _run_gpu_worker_job.
PipelinePcs ==
  {"pipeline", "check", "ackBefore", "submit", "record", "poll", "sync",
   "apply", "publish", "gpuExcept", "gpuCancel", "markCancelled",
   "markCancelling", "gpuFailed", "localStart", "local"}

HandlerPcs == {"pipeExcept", "returned", "jobExcept", "requeue", "fail",
               "release", "reraise"}

RunPcs == {"idle", "acquire", "leased", "ack", "exhaust"}
            \union PipelinePcs \union HandlerPcs

\* id: the RQ job that was delivered; hb: the heartbeat thread, "lost" once it
\* has set lease_lost; bound: worker_job_id has a value; seen: the remote status
\* last received; attempt: the attempt its acquire_lease counted.
Context == [ id : RqIds, hb : {"off", "beating", "lost"}, bound : BOOLEAN,
             seen : RemoteStatuses, attempt : Nat ]

NoContext == [id |-> 0, hb |-> "off", bound |-> FALSE, seen |-> "none",
              attempt |-> 0]

CallPcs == {"idle", "fetch", "push", "mark", "stamp", "undo", "requeue",
            "revive", "cancel", "remoteCancel", "confirm", "dequeue",
            "exhaust", "delete"}

Call == [ pc : CallPcs, id : RqIds,
          kind : {"none", "create", "outbox", "recover", "resume"} ]

NoCall == [pc |-> "idle", id |-> 0, kind |-> "none"]

TypeOK ==
  /\ row \in Row
  /\ outbox \in {"none", "pending", "locked", "dispatched"}
  /\ rq \in [RqIds -> RqJob]
  /\ remote \in RemoteStatuses
  /\ pc \in [Runs -> RunPcs]
  /\ ctx \in [Runs -> Context]
  /\ call \in [Callers -> Call]
  /\ executed \subseteq Nat
  /\ faults \in Nat /\ reopened \in Nat

Init ==
  /\ row = UnbornRow
  /\ outbox = "none"
  /\ rq = [id \in RqIds |-> NoRqJob]
  /\ remote = "none"
  /\ pc = [r \in Runs |-> "idle"]
  /\ ctx = [r \in Runs |-> NoContext]
  /\ call = [c \in Callers |-> NoCall]
  /\ executed = {}
  /\ faults = 0 /\ reopened = 0

Executing(r) == pc[r] \in PipelinePcs

Fault == faults < MaxFaults /\ faults' = faults + 1

=============================================================================
