----------------------------- MODULE JobControl -----------------------------
(***************************************************************************)
(* The control plane of a job, src/splitter/jobs.py: cancel_job,           *)
(* reconcile_jobs, resume_remote_job, delete_job and the expiry sweep,     *)
(* interleaved with its dispatch (JobDispatch) and its executions          *)
(* (JobRuns).  Spec is the whole system; FairSpec adds the fairness its    *)
(* processes and its clock justify.                                        *)
(***************************************************************************)
EXTENDS JobRuns, FiniteSets

CallOnly == UNCHANGED <<row, outbox, rq, remote, pc, ctx, executed, faults, reopened>>

----------------------------------------------------------------------------
(* cancel_job: the flag, then the GPU worker, then the row, then RQ.        *)

SetCancelFlag(c) ==
  /\ InTable(row)
  /\ row' = CancelRequested(row)
  /\ IF row'.status = "cancelled" THEN GoTo(c, "dequeue")
     ELSE IF row'.status \notin TERMINAL_JOB_STATES /\ row.gpu_worker_job_id
     THEN GoTo(c, "remoteCancel")
     ELSE Return(c)
  /\ UNCHANGED <<outbox, rq, remote, pc, ctx, executed, faults, reopened>>

RequestCancel(c) == c \in Clients /\ At(c, "idle") /\ SetCancelFlag(c)

\* reconcile_jobs asks again for a job it finds with the flag set.
CancelAgain(c) == At(c, "cancel") /\ SetCancelFlag(c)

CancelMissingJob(c) == At(c, "cancel") /\ ~InTable(row) /\ Return(c) /\ CallOnly

\* An answer other than "cancelled" leaves the job to its execution.
CancelRemote(c) ==
  /\ At(c, "remoteCancel")
  /\ remote' = CancelledRemote
  /\ IF remote' = "cancelled" THEN GoTo(c, "confirm") ELSE Return(c)
  /\ UNCHANGED <<row, outbox, rq, pc, ctx, executed, faults, reopened>>

ConfirmCancelled(c) ==
  /\ At(c, "confirm")
  /\ IF CanUpdate(row, "cancelled")
     THEN row' = Updated(row, "cancelled") /\ GoTo(c, "dequeue")
     ELSE UNCHANGED row /\ Return(c)
  /\ UNCHANGED <<outbox, rq, remote, pc, ctx, executed, faults, reopened>>

\* RQJobDispatcher.cancel knows the first RQ id only: it stops the execution that
\* one is in, or takes it off the queue.
StopStarted(c) ==
  /\ At(c, "dequeue") /\ rq[0].state = "started"
  /\ \E r \in Runs :
       /\ pc[r] # "idle" /\ ctx[r].id = 0
       /\ row' = Abandoned(row, r)
       /\ pc' = [pc EXCEPT ![r] = "idle"]
       /\ ctx' = [ctx EXCEPT ![r] = NoContext]
  /\ RqReturned(0) /\ Return(c)
  /\ UNCHANGED <<outbox, remote, executed, faults, reopened>>

CancelQueued(c) ==
  /\ At(c, "dequeue") /\ rq[0].state # "started"
  /\ rq' = [rq EXCEPT ![0].copies = IF @ > 0 THEN @ - 1 ELSE 0,
                      ![0].state = IF @ = "absent" THEN @ ELSE "done"]
  /\ Return(c)
  /\ UNCHANGED <<row, outbox, remote, pc, ctx, executed, faults, reopened>>

CancelStep(c) ==
  \/ CancelRemote(c) \/ ConfirmCancelled(c) \/ StopStarted(c) \/ CancelQueued(c)
  \/ CancelAgain(c) \/ CancelMissingJob(c)

----------------------------------------------------------------------------
(* reconcile_jobs acts on the payload list_reconcilable returned.           *)

Reconcile(c) ==
  /\ c \in Maintainers /\ At(c, "idle") /\ Reconcilable(row)
  /\ IF row.cancel_requested THEN GoTo(c, "cancel")
     ELSE IF row.attempt >= JOB_MAX_ATTEMPTS THEN GoTo(c, "exhaust")
     ELSE BeginSubmit(c, "recover", row.attempt + 1)
  /\ CallOnly

Exhaust(c) ==
  /\ At(c, "exhaust") /\ Return(c)
  /\ row' = IF CanUpdate(row, "error") THEN Updated(row, "error") ELSE row
  /\ UNCHANGED <<outbox, rq, remote, pc, ctx, executed, faults, reopened>>

----------------------------------------------------------------------------
(* resume_remote_job, for a client: read, write "queued", submit again.     *)

Resume(c) ==
  /\ c \in Clients /\ At(c, "idle") /\ reopened < MaxReopens
  /\ row.status = "error" /\ row.gpu_worker_job_id
  /\ GoTo(c, "revive") /\ reopened' = reopened + 1
  /\ UNCHANGED <<row, outbox, rq, remote, pc, ctx, executed, faults>>

Revive(c) ==
  /\ At(c, "revive")
  /\ IF CanUpdate(row, "queued")
     THEN row' = Updated(row, "queued") /\ BeginSubmit(c, "resume", 0)
     ELSE UNCHANGED row /\ Return(c)
  /\ UNCHANGED <<outbox, rq, remote, pc, ctx, executed, faults, reopened>>

----------------------------------------------------------------------------
(* delete_job, for a client or the expiry sweep: read, then delete.         *)

BeginDelete(c) ==
  /\ At(c, "idle") /\ row.status \in TERMINAL_JOB_STATES
  /\ GoTo(c, "delete") /\ CallOnly

\* The foreign key of the outbox cascades.
DeleteJob(c) ==
  /\ At(c, "delete") /\ Return(c)
  /\ row' = IF InTable(row) THEN DeletedRow ELSE row
  /\ outbox' = "none"
  /\ UNCHANGED <<rq, remote, pc, ctx, executed, faults, reopened>>

----------------------------------------------------------------------------

\* The API or maintenance process dies between two steps of a call, or the next of
\* them raises (cancel_job returns when the GPU worker does not answer).
CallerCrashes(c) ==
  /\ ~At(c, "idle") /\ Fault /\ Return(c)
  /\ UNCHANGED <<row, outbox, rq, remote, pc, ctx, executed, reopened>>

\* External: the GPU worker finishes the remote job.
RemoteFinishes ==
  /\ remote = "active" /\ remote' \in {"completed", "error"}
  /\ UNCHANGED <<row, outbox, rq, pc, ctx, call, executed, faults, reopened>>

CallStep(c) ==
  \/ FetchRqJob(c) \/ PushRqJob(c) \/ MarkDispatched(c) \/ StampDispatchId(c)
  \/ UndoDispatch(c) \/ RequeueUndispatched(c) \/ CancelStep(c) \/ Exhaust(c)
  \/ Revive(c) \/ DeleteJob(c)

CallBegins(c) ==
  \/ Create(c) \/ ClaimDispatch(c) \/ RequestCancel(c) \/ Reconcile(c)
  \/ Resume(c) \/ BeginDelete(c)

Environment ==
  \/ OutboxLockExpires \/ LeaseExpires \/ RemoteFinishes
  \/ \E r \in Runs : RunFault(r)
  \/ \E c \in Callers : SubmitFails(c) \/ CallerCrashes(c)

Next ==
  \/ \E r \in Runs : RunStep(r) \/ (\E id \in RqIds : Deliver(r, id))
  \/ \E c \in Callers : CallBegins(c) \/ CallStep(c)
  \/ Environment

Spec == Init /\ [][Next]_vars

\* RQ workers and API processes run, every cycle of the maintenance worker drains
\* the outbox and then reconciles (so strong fairness: it is busy in between), the
\* GPU worker bounds a job's time, locks and leases are timestamps.  Nobody has to
\* create, cancel, resume or delete a job.
FairSpec ==
  /\ Spec
  /\ \A r \in Runs : WF_vars(RunStep(r))
  /\ \A id \in RqIds : WF_vars(\E r \in Runs : Deliver(r, id))
  /\ \A c \in Callers : WF_vars(CallStep(c))
  /\ \A c \in Maintainers : SF_vars(ClaimDispatch(c)) /\ SF_vars(Reconcile(c))
  /\ WF_vars(OutboxLockExpires) /\ WF_vars(LeaseExpires) /\ WF_vars(RemoteFinishes)

----------------------------------------------------------------------------
(* Properties.                                                              *)

\* No two workers execute the pipeline of a job at a time, however deliveries are
\* duplicated, retried and recovered: run_job's lease excludes them, as long as a
\* lease outlives an execution (acquire_lease, release_lease, run_job).
SingleExecution ==
  \A r, s \in Runs : Executing(r) /\ Executing(s) => r = s

\* Why: from acquire_lease until the pipeline is left the row names this execution
\* and no other, and its lease has not run out; an execution that has not acquired
\* or has let go is named by no row.
CoveredPcs == {"leased", "ack", "exhaust"} \union PipelinePcs

Covered(r) == pc[r] \in CoveredPcs

LeaseCovers ==
  \A r \in Runs : Covered(r) /\ InTable(row) => row.lease_owner = r /\ row.lease = "live"

SingleHolder == \A r, s \in Runs : Covered(r) /\ Covered(s) => r = s

OwnerIsHere == \A r \in Runs : row.lease_owner = r => pc[r] \notin {"idle", "acquire"}

MissingIsFree == ~InTable(row) => row.lease_owner = NoOwner

UnbornIsIdle == row.status = "unborn" => \A r \in Runs : ~Covered(r)

LeaseInv == LeaseCovers /\ SingleHolder /\ OwnerIsHere /\ MissingIsFree /\ UnbornIsIdle

\* A job enters the pipeline at most JOB_MAX_ATTEMPTS times, over all the retries of
\* RQ, recoveries, resumptions and duplicate deliveries there are: every execution
\* has an attempt of its own, and none is beyond the limit (run_job).
AttemptsBounded ==
  /\ executed \subseteq 1 .. JOB_MAX_ATTEMPTS
  /\ \A r \in Runs : pc[r] = "leased" => ctx[r].attempt \notin executed

\* Where the remote job is the only way to the stems, a job is completed only over
\* a remote job that completed and stays so: a resubmission by another attempt
\* never restarts it (_run_gpu_worker_job, _reserve_job).
CompletedMeansRemoteDone ==
  UseGpuWorker /\ ~AllowLocalFallback /\ row.status = "completed"
    => remote = "completed"

\* Once cancel_job has set the flag, no execution, retry or recovery completes the
\* job, however late it reads the flag; only what reopens the job does away with the
\* cancellation: resume_remote_job, and a first dispatch that fails late or a retry
\* decided before the flag was set (request_cancel, the transition table, run_job).
CancelWins ==
  [][reopened = 0 /\ row.cancel_requested /\ row.status # "completed"
       => row'.status # "completed"]_vars

\* A job is completed by the execution that holds its lease: a worker that was
\* overtaken cannot publish over its successor (the final _update_status).
CompletedByOwner ==
  [][row.status # "completed" /\ row'.status = "completed"
       => \E r \in Runs : Executing(r) /\ HoldsLease(row, r)]_vars

\* What a client sees of the job, and how often the service executed it, is what
\* JobPromise allows.
Outcome ==
  CASE row.status = "unborn"                              -> "none"
    [] row.status \in {"queued", "running", "finalizing"} -> "open"
    [] row.status \in {"error", "failed"}                 -> "failed"
    [] row.status = "deleted"                             -> "gone"
    [] OTHER                                              -> row.status

Promise == INSTANCE JobPromise WITH outcome <- Outcome,
                                    executions <- Cardinality(executed)

KeepsPromise == Promise!Spec

\* A job nobody cancels ends: exceptions, crashed workers, crashed API processes,
\* dropped deliveries and lost remote answers are all recovered from, by RQ's
\* retries, the outbox or reconcile_jobs.
Settles ==
  row.status \in {"queued", "running", "finalizing"} ~>
    row.status \in TERMINAL_JOB_STATES \union {"deleted"} \/ row.cancel_requested

\* A job whose first dispatch failed, or whose API process died before it, is handed
\* to RQ (claim_dispatches, mark_dispatch_failed).
OutboxDrains == outbox = "pending" ~> outbox \in {"dispatched", "none"}

=============================================================================
