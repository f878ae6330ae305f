---------------------------- MODULE JobDispatch ----------------------------
(***************************************************************************)
(* How a job reaches a worker: create and submit_job (src/splitter/jobs.py *)
(* and application/job_service.py), the transactional outbox and its drain *)
(* by the maintenance worker, RQJobDispatcher (infrastructure/dispatch.py) *)
(* and, external, the RQ queue itself.                                     *)
(***************************************************************************)
EXTENDS JobSystem

RqAlive(id) == rq[id].state \in {"queued", "started"}

At(c, p) == call[c].pc = p

GoTo(c, p) == call' = [call EXCEPT ![c].pc = p]

Return(c) == call' = [call EXCEPT ![c] = NoCall]

BeginSubmit(c, kind, id) ==
  call' = [call EXCEPT ![c] = [pc |-> "fetch", id |-> id, kind |-> kind]]

----------------------------------------------------------------------------
(* submit_job, step by step: RQ fetch, RQ enqueue, mark_dispatched, and the *)
(* update that records the dispatch id.                                     *)

\* POST /jobs: the row and its outbox row are inserted in one transaction.
Create(c) ==
  /\ c \in Clients /\ At(c, "idle") /\ row.status = "unborn"
  /\ row' = Created(row) /\ outbox' = "pending"
  /\ BeginSubmit(c, "create", 0)
  /\ UNCHANGED <<rq, remote, pc, ctx, executed, faults, reopened>>

\* Mutant: the outbox of a job that is no longer queued is left behind.
ClaimDispatch_QueuedOnly(c) ==
  /\ c \in Maintainers /\ At(c, "idle") /\ outbox = "pending" /\ row.status = "queued"
  /\ outbox' = "locked"
  /\ BeginSubmit(c, "outbox", 0)
  /\ UNCHANGED <<row, rq, remote, pc, ctx, executed, faults, reopened>>

\* dispatch_pending_jobs: claim_dispatches locks the outbox row, whatever has
\* become of the job.
ClaimDispatch(c) ==
  /\ c \in Maintainers /\ At(c, "idle") /\ outbox = "pending"
  /\ outbox' = "locked"
  /\ BeginSubmit(c, "outbox", 0)
  /\ UNCHANGED <<row, rq, remote, pc, ctx, executed, faults, reopened>>

\* The first half of _enqueue: an RQ job that is still alive is reused.
FetchRqJob(c) ==
  /\ At(c, "fetch")
  /\ GoTo(c, IF RqAlive(call[c].id) THEN "mark" ELSE "push")
  /\ UNCHANGED <<row, outbox, rq, remote, pc, ctx, executed, faults, reopened>>

\* The second half, with nothing between them to keep another caller out: the
\* RQ job is replaced and its id pushed once more.
PushRqJob(c) ==
  /\ At(c, "push") /\ rq[call[c].id].copies < MaxCopies
  /\ rq' = [rq EXCEPT ![call[c].id] = [state |-> "queued", copies |-> @.copies + 1,
                                       retries |-> JOB_MAX_ATTEMPTS - 1]]
  /\ GoTo(c, "mark")
  /\ UNCHANGED <<row, outbox, remote, pc, ctx, executed, faults, reopened>>

MarkDispatched(c) ==
  /\ At(c, "mark")
  /\ outbox' = IF outbox = "none" THEN outbox ELSE "dispatched"
  /\ GoTo(c, "stamp")
  /\ UNCHANGED <<row, rq, remote, pc, ctx, executed, faults, reopened>>

\* What the caller of submit_job does with its exception.
AfterSubmitFailed(c) ==
  IF call[c].kind \in {"create", "outbox"} THEN GoTo(c, "undo") ELSE Return(c)

\* The update writes dispatch_id and no status: on a job that finished meanwhile
\* it raises.
StampDispatchId(c) ==
  /\ At(c, "stamp")
  /\ IF CanTouch(row) THEN Return(c) ELSE AfterSubmitFailed(c)
  /\ UNCHANGED <<row, outbox, rq, remote, pc, ctx, executed, faults, reopened>>

\* Redis or PostgreSQL fails under submit_job.
SubmitFails(c) ==
  /\ call[c].pc \in {"fetch", "push", "mark", "stamp"}
  /\ Fault /\ AfterSubmitFailed(c)
  /\ UNCHANGED <<row, outbox, rq, remote, pc, ctx, executed, reopened>>

\* mark_dispatch_failed; only JobService goes on with record_dispatch_failure.
UndoDispatch(c) ==
  /\ At(c, "undo")
  /\ outbox' = IF outbox = "locked" THEN "pending" ELSE outbox
  /\ IF call[c].kind = "create" THEN GoTo(c, "requeue") ELSE Return(c)
  /\ UNCHANGED <<row, rq, remote, pc, ctx, executed, faults, reopened>>

\* record_dispatch_failure writes status "queued", over whatever the row says by
\* then: it reopens a job that a worker has taken, or that has failed.
RequeueUndispatched(c) ==
  LET legal == CanUpdate(row, "queued") IN
  /\ At(c, "requeue") /\ Return(c)
  /\ row' = IF legal THEN Updated(row, "queued") ELSE row
  /\ reopened' = IF legal /\ row.status # "queued" THEN reopened + 1 ELSE reopened
  /\ UNCHANGED <<outbox, rq, remote, pc, ctx, executed, faults>>

\* An outbox row locked for more than a minute can be claimed again.
OutboxLockExpires ==
  /\ outbox = "locked" /\ outbox' = "pending"
  /\ UNCHANGED <<row, rq, remote, pc, ctx, call, executed, faults, reopened>>

DispatchStep(c) ==
  \/ Create(c) \/ ClaimDispatch(c) \/ FetchRqJob(c) \/ PushRqJob(c)
  \/ MarkDispatched(c) \/ StampDispatchId(c) \/ SubmitFails(c)
  \/ UndoDispatch(c) \/ RequeueUndispatched(c)

----------------------------------------------------------------------------
(* RQ, external: a worker takes an entry of the list; an execution that     *)
(* raised or died is retried while retries are left; one that was stopped   *)
(* is not.                                                                  *)

Deliver(r, id) ==
  /\ pc[r] = "idle" /\ rq[id].copies > 0
  /\ rq' = [rq EXCEPT ![id].state = "started", ![id].copies = @ - 1]
  /\ pc' = [pc EXCEPT ![r] = "acquire"]
  /\ ctx' = [ctx EXCEPT ![r].id = id]
  /\ UNCHANGED <<row, outbox, remote, call, executed, faults, reopened>>

RqReturned(id) == rq' = [rq EXCEPT ![id].state = "done"]

RqRaised(id) ==
  IF rq[id].retries > 0 /\ rq[id].copies < MaxCopies
  THEN rq' = [rq EXCEPT ![id] = [state |-> "queued", copies |-> @.copies + 1,
                                 retries |-> @.retries - 1]]
  ELSE RqReturned(id)

=============================================================================
