------------------------------ MODULE JobRuns ------------------------------
(***************************************************************************)
(* One execution of run_job in an RQ worker (src/splitter/jobs.py): the    *)
(* lease and its heartbeat thread, _run_job_pipeline, _run_gpu_worker_job  *)
(* and the three nested exception handlers.  Every action is one database  *)
(* transaction or one call of the GPU worker: what an execution read in    *)
(* one of them may be out of date in the next.                             *)
(*                                                                         *)
(* The GPU worker is seen through gpu_worker_client.py: it gives the       *)
(* remote job the id of the job, replays a submission it still has and     *)
(* starts again one that failed.                                           *)
(***************************************************************************)
EXTENDS JobDispatch

Step(r, from, to) == pc[r] = from /\ pc' = [pc EXCEPT ![r] = to]

\* _update_status with a status: ok when the row takes it, else JobStoreError.
Write(r, from, status, ok, rejected) ==
  LET legal == CanUpdate(row, status) IN
  /\ Step(r, from, IF legal THEN ok ELSE rejected)
  /\ row' = IF legal THEN Updated(row, status) ELSE row

CancelSeen == InTable(row) /\ row.cancel_requested

LeavesAll == UNCHANGED <<row, outbox, rq, remote, ctx, call, executed, faults, reopened>>

LeavesOthers == UNCHANGED <<outbox, rq, remote, ctx, call, executed, faults, reopened>>

----------------------------------------------------------------------------
(* run_job: the lease, the checks before the pipeline.                      *)

\* A job whose lease somebody holds is not executed, and the delivery is used up.
AcquireLease(r) ==
  /\ pc[r] = "acquire"
  /\ IF CanAcquire(row, r)
     THEN /\ row' = Acquired(row, r)
          /\ pc' = [pc EXCEPT ![r] = "leased"]
          /\ ctx' = [ctx EXCEPT ![r].hb = "beating", ![r].attempt = row'.attempt]
          /\ UNCHANGED rq
     ELSE /\ pc' = [pc EXCEPT ![r] = "idle"]
          /\ ctx' = [ctx EXCEPT ![r] = NoContext]
          /\ RqReturned(ctx[r].id)
          /\ UNCHANGED row
  /\ UNCHANGED <<outbox, remote, call, executed, faults, reopened>>

SkipJob(r) ==
  /\ LeavesAll
  /\ \/ ~InTable(row) /\ Step(r, "leased", "release")
     \/ CancelSeen /\ Step(r, "leased", "ack")
     \/ /\ InTable(row) /\ ~row.cancel_requested
        /\ row.attempt > JOB_MAX_ATTEMPTS /\ Step(r, "leased", "exhaust")

\* Mutant: one attempt too many.
StartPipeline_OffByOne(r) ==
  /\ InTable(row) /\ ~row.cancel_requested /\ row.attempt <= JOB_MAX_ATTEMPTS + 1
  /\ Step(r, "leased", "pipeline")
  /\ executed' = executed \union {ctx[r].attempt}
  /\ UNCHANGED <<row, outbox, rq, remote, ctx, call, faults, reopened>>

StartPipeline(r) ==
  /\ InTable(row) /\ ~row.cancel_requested /\ row.attempt <= JOB_MAX_ATTEMPTS
  /\ Step(r, "leased", "pipeline")
  /\ executed' = executed \union {ctx[r].attempt}
  /\ UNCHANGED <<row, outbox, rq, remote, ctx, call, faults, reopened>>

AckCancel(r) ==
  Write(r, "ack", "cancelled", "release", "jobExcept") /\ LeavesOthers

ExhaustAttempts(r) ==
  Write(r, "exhaust", "error", "release", "jobExcept") /\ LeavesOthers

----------------------------------------------------------------------------
(* _run_job_pipeline and _run_gpu_worker_job.                               *)

EnterPipeline(r) ==
  /\ Step(r, "pipeline", IF ~InTable(row) THEN "returned"
                         ELSE IF UseGpuWorker THEN "check" ELSE "localStart")
  /\ LeavesAll

CheckCancel(r) ==
  Step(r, "check", IF CancelSeen THEN "ackBefore" ELSE "submit") /\ LeavesAll

AckBeforeSubmit(r) ==
  Write(r, "ackBefore", "cancelled", "returned", "gpuExcept") /\ LeavesOthers

\* What the GPU worker has for the job once it accepted the submission: an
\* active, completed or cancelled remote job is replayed.
Reserved(status) == IF status \in {"none", "error"} THEN "active" ELSE status

Submit(r) ==
  /\ Step(r, "submit", "record")
  /\ remote' = Reserved(remote)
  /\ ctx' = [ctx EXCEPT ![r].seen = Reserved(remote), ![r].bound = TRUE]
  /\ UNCHANGED <<row, outbox, rq, call, executed, faults, reopened>>

\* The worker accepts and the answer is lost: worker_job_id stays unbound.
SubmitAnswerLost(r) ==
  /\ Step(r, "submit", "gpuExcept") /\ Fault
  /\ remote' = Reserved(remote)
  /\ UNCHANGED <<row, outbox, rq, ctx, call, executed, reopened>>

RecordSubmission(r) ==
  LET legal == CanUpdate(row, "running") IN
  /\ Step(r, "record", IF ~legal THEN "gpuExcept"
                       ELSE IF ctx[r].seen \in {"completed", "error"} THEN "sync"
                       ELSE "poll")
  /\ row' = IF legal THEN [Updated(row, "running") EXCEPT !.gpu_worker_job_id = TRUE]
            ELSE row
  /\ LeavesOthers

Poll(r) ==
  /\ Step(r, "poll", "sync")
  /\ ctx' = [ctx EXCEPT ![r].seen = remote]
  /\ UNCHANGED <<row, outbox, rq, remote, call, executed, faults, reopened>>

\* on_update looks at the cancel flag, then copies artifacts, then writes.
SyncUpdate(r) ==
  Step(r, "sync", IF CancelSeen THEN "gpuCancel" ELSE "apply") /\ LeavesAll

\* Mutant: every remote job that ended is published.
ApplyUpdate_EndedIsDone(r) ==
  LET seen == ctx[r].seen IN
  /\ Write(r, "apply", IF seen = "active" THEN "running" ELSE "finalizing",
           IF seen = "active" THEN "poll" ELSE "publish", "gpuExcept")
  /\ LeavesOthers

ApplyUpdate(r) ==
  LET seen == ctx[r].seen IN
  /\ Write(r, "apply", IF seen = "completed" THEN "finalizing" ELSE "running",
           CASE seen = "completed" -> "publish"
             [] seen = "active"    -> "poll"
             [] OTHER              -> "gpuExcept",
           "gpuExcept")
  /\ LeavesOthers

PublishRemote(r) ==
  Write(r, "publish", "completed", "returned", "gpuExcept") /\ LeavesOthers

HandleGpuException(r) ==
  Step(r, "gpuExcept", IF CancelSeen THEN "gpuCancel" ELSE "gpuFailed") /\ LeavesAll

\* An active remote job is cancelled, any other answers with what it is; without
\* worker_job_id the handler itself raises (UnboundLocalError).
CancelledRemote == IF remote = "active" THEN "cancelled" ELSE remote

CancelOwnRemote(r) ==
  /\ Step(r, "gpuCancel", IF ~ctx[r].bound THEN "pipeExcept"
                          ELSE IF CancelledRemote = "cancelled" THEN "markCancelled"
                          ELSE "markCancelling")
  /\ remote' = IF ctx[r].bound THEN CancelledRemote ELSE remote
  /\ UNCHANGED <<row, outbox, rq, ctx, call, executed, faults, reopened>>

OwnCancelFails(r) ==
  /\ ctx[r].bound /\ Step(r, "gpuCancel", "markCancelling") /\ Fault
  /\ UNCHANGED <<row, outbox, rq, remote, ctx, call, executed, reopened>>

MarkCancelled(r) ==
  Write(r, "markCancelled", "cancelled", "returned", "pipeExcept") /\ LeavesOthers

MarkCancelling(r) ==
  Write(r, "markCancelling", "cancelling", "returned", "pipeExcept") /\ LeavesOthers

RecordGpuFailure(r) ==
  /\ Step(r, "gpuFailed", IF CanTouch(row) /\ AllowLocalFallback THEN "localStart"
                          ELSE "pipeExcept")
  /\ LeavesAll

\* The local pipeline never looks at the cancel flag.
StartLocal(r) ==
  Write(r, "localStart", "running", "local", "pipeExcept") /\ LeavesOthers

PublishLocal(r) ==
  Write(r, "local", "completed", "returned", "pipeExcept") /\ LeavesOthers

----------------------------------------------------------------------------
(* The way out: the pipeline's handler, run_job's handler and its finally.  *)

HandlePipelineException(r) ==
  Write(r, "pipeExcept", "error", "jobExcept", "jobExcept") /\ LeavesOthers

CheckLeaseLost(r) ==
  /\ Step(r, "returned",
          IF ctx[r].hb = "lost" /\ row.status \in ACTIVE_JOB_STATES
          THEN "jobExcept" ELSE "release")
  /\ LeavesAll

HandleJobException(r) ==
  /\ Step(r, "jobExcept",
          IF InTable(row) /\ ~row.cancel_requested /\ row.attempt < JOB_MAX_ATTEMPTS
          THEN "requeue" ELSE "fail")
  /\ LeavesAll

\* The retry was decided before: it may be written over a cancellation.
RequeueJob(r) ==
  /\ Write(r, "requeue", "queued", "reraise", "reraise")
  /\ reopened' = IF CanUpdate(row, "queued") /\ row.cancel_requested
                 THEN reopened + 1 ELSE reopened
  /\ UNCHANGED <<outbox, rq, remote, ctx, call, executed, faults>>

FailJob(r) ==
  Write(r, "fail", "error", "reraise", "reraise") /\ LeavesOthers

ReleaseLease(r) ==
  /\ pc[r] \in {"release", "reraise"}
  /\ row' = Released(row, r)
  /\ pc' = [pc EXCEPT ![r] = "idle"]
  /\ ctx' = [ctx EXCEPT ![r] = NoContext]
  /\ IF pc[r] = "release" THEN RqReturned(ctx[r].id) ELSE RqRaised(ctx[r].id)
  /\ UNCHANGED <<outbox, remote, call, executed, faults, reopened>>

RunStep(r) ==
  \/ AcquireLease(r) \/ SkipJob(r) \/ StartPipeline(r) \/ AckCancel(r)
  \/ ExhaustAttempts(r) \/ EnterPipeline(r) \/ CheckCancel(r)
  \/ AckBeforeSubmit(r) \/ Submit(r) \/ RecordSubmission(r) \/ Poll(r)
  \/ SyncUpdate(r) \/ ApplyUpdate(r) \/ PublishRemote(r)
  \/ HandleGpuException(r) \/ CancelOwnRemote(r) \/ MarkCancelled(r)
  \/ MarkCancelling(r) \/ RecordGpuFailure(r) \/ StartLocal(r)
  \/ PublishLocal(r) \/ HandlePipelineException(r) \/ CheckLeaseLost(r)
  \/ HandleJobException(r) \/ RequeueJob(r) \/ FailJob(r) \/ ReleaseLease(r)

----------------------------------------------------------------------------
(* What goes wrong around an execution.                                     *)

\* The except clauses an exception of a step may meet.  What _run_gpu_worker_job
\* does before its try is part of "check".
Handlers(p) ==
  CASE p = "check" -> {"gpuExcept", "pipeExcept"}
    [] p \in {"ackBefore", "submit", "record", "poll", "sync", "apply",
              "publish"} -> {"gpuExcept"}
    [] p \in {"gpuExcept", "gpuCancel", "markCancelled", "markCancelling",
              "gpuFailed", "localStart", "local"} -> {"pipeExcept"}
    [] p \in {"jobExcept", "requeue", "fail"} -> {"reraise"}
    [] OTHER -> {"jobExcept"}

\* PostgreSQL, the GPU worker, the file system or the execution timeout of RQ.
Raise(r) ==
  /\ pc[r] \notin {"idle", "acquire", "release", "reraise"}
  /\ \E handler \in Handlers(pc[r]) : Step(r, pc[r], handler)
  /\ Fault
  /\ UNCHANGED <<row, outbox, rq, remote, ctx, call, executed, reopened>>

\* The process dies, or the statement of acquire_lease or release_lease fails:
\* the lease is not released and the delivery counts as failed.
Crash(r) ==
  /\ pc[r] # "idle" /\ Fault
  /\ row' = Abandoned(row, r)
  /\ pc' = [pc EXCEPT ![r] = "idle"]
  /\ ctx' = [ctx EXCEPT ![r] = NoContext]
  /\ RqRaised(ctx[r].id)
  /\ UNCHANGED <<outbox, remote, call, executed, reopened>>

\* The heartbeat thread gives up on the first renewal that fails or finds that
\* the lease is another's.
HeartbeatStops(r) ==
  /\ ctx[r].hb = "beating"
  /\ IF HoldsLease(row, r) THEN Fault ELSE UNCHANGED faults
  /\ ctx' = [ctx EXCEPT ![r].hb = "lost"]
  /\ UNCHANGED <<row, outbox, rq, remote, pc, call, executed, reopened>>

\* Time passes.  JOB_LEASE_RENEW_INTERVAL < JOB_LEASE_SECONDS, so a heartbeat
\* renews the lease before it expires; without one it lasts JOB_LEASE_SECONDS
\* from the time it was acquired.
LeaseExpires ==
  /\ row.lease = "live"
  /\ \A r \in Runs : row.lease_owner = r =>
       ctx[r].hb # "beating" /\ (LeaseOutlivesRun => pc[r] \in HandlerPcs)
  /\ row' = [row EXCEPT !.lease = "expired"]
  /\ UNCHANGED <<outbox, rq, remote, pc, ctx, call, executed, faults, reopened>>

RunFault(r) ==
  \/ SubmitAnswerLost(r) \/ OwnCancelFails(r) \/ Raise(r) \/ Crash(r)
  \/ HeartbeatStops(r)

=============================================================================
