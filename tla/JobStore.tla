------------------------------ MODULE JobStore ------------------------------
(***************************************************************************)
(* The statements of PostgresJobStore on one row of the table "jobs"       *)
(* (src/splitter/infrastructure/job_store.py), as operators on the value   *)
(* of the row.  Every statement names the row by its key and runs in a     *)
(* transaction of its own, so each is one atomic step wherever it is used. *)
(*                                                                         *)
(* A row keeps what the control plane decides on.  The lease columns       *)
(* lease_owner and lease_expires_at are the pair (lease_owner, lease):     *)
(* "none" is a NULL expiry, "live" one in the future, "expired" one in the *)
(* past.  A row that is not in the table has the status "unborn" before    *)
(* its INSERT and "deleted" after its DELETE.                              *)
(***************************************************************************)
EXTENDS JobStates, Naturals

CONSTANTS
  Runs,      \* the executions of run_job that can be under way at a time
  Departed,  \* the owner left behind by an execution that never released
  NoOwner    \* lease_owner IS NULL

ASSUME OwnersAssumption ==
  /\ Departed \notin Runs
  /\ NoOwner \notin Runs \union {Departed}

\* run_job draws a fresh uuid for every execution.  A name of Runs is reused only
\* after the row has forgotten it: an execution that ends without releasing its
\* lease leaves Departed behind.
Owners == Runs \union {Departed}

Row ==
  [ status           : JobStatuses \union {"unborn", "deleted"},
    attempt          : Nat,
    cancel_requested : BOOLEAN,
    gpu_worker_job_id: BOOLEAN,           \* recorded or not; its value is the job id
    lease_owner      : Owners \union {NoOwner},
    lease            : {"none", "live", "expired"} ]

UnbornRow ==
  [ status |-> "unborn", attempt |-> 0, cancel_requested |-> FALSE,
    gpu_worker_job_id |-> FALSE, lease_owner |-> NoOwner, lease |-> "none" ]

InTable(row) == row.status \in JobStatuses

\* create: the INSERT of a new job.
Created(row) == [row EXCEPT !.status = "queued"]

\* delete: the DELETE, whatever the status of the row.
DeletedRow == [UnbornRow EXCEPT !.status = "deleted"]

\* update without a status in the fields: refused only on a row that is missing,
\* completed or cancelled.
CanTouch(row) == InTable(row) /\ row.status \notin {"completed", "cancelled"}

\* update with a status: SELECT ... FOR UPDATE, _validate_transition, then an
\* UPDATE that skips completed and cancelled rows.
CanUpdate(row, status) == CanTouch(row) /\ ValidTransition(row.status, status)

Updated(row, status) == [row EXCEPT !.status = status]

\* Mutant: the WHERE clause without its lease condition.
CanAcquire_IgnoresLease(row, owner) ==
  InTable(row) /\ row.status \notin TERMINAL_JOB_STATES

\* acquire_lease: no status is written, so the job keeps the status it had
\* while the new owner executes it.
CanAcquire(row, owner) ==
  /\ InTable(row) /\ row.status \notin TERMINAL_JOB_STATES
  /\ row.lease \in {"none", "expired"} \/ row.lease_owner = owner

\* Mutant: the owner is written without an expiry.
Acquired_NoExpiry(row, owner) ==
  [row EXCEPT !.lease_owner = owner, !.attempt = @ + 1]

Acquired(row, owner) ==
  [row EXCEPT !.lease_owner = owner, !.lease = "live", !.attempt = @ + 1]

\* renew_lease and release_lease ask only that the owner be the recorded one.
HoldsLease(row, owner) == InTable(row) /\ row.lease_owner = owner

\* Mutant: release_lease clears whoever's lease it finds.
Released_AnyOwner(row, owner) ==
  IF InTable(row) THEN [row EXCEPT !.lease_owner = NoOwner, !.lease = "none"]
  ELSE row

Released(row, owner) ==
  IF HoldsLease(row, owner)
  THEN [row EXCEPT !.lease_owner = NoOwner, !.lease = "none"]
  ELSE row

\* The owner's process is gone and nothing has told the row.
Abandoned(row, owner) ==
  IF HoldsLease(row, owner) THEN [row EXCEPT !.lease_owner = Departed] ELSE row

\* Mutant: the flag alone is to stop a job that is being executed.
CancelTarget_QueuedOnly(status) == IF status = "queued" THEN "cancelled" ELSE status

\* request_cancel: the flag is set on every row, the status moves only from
\* queued, running and finalizing.
CancelTarget(status) ==
  IF status = "queued" THEN "cancelled"
  ELSE IF status \in {"running", "finalizing"} THEN "cancelling"
  ELSE status

CancelRequested(row) ==
  [row EXCEPT !.cancel_requested = TRUE, !.status = CancelTarget(@)]

\* Mutant: the status list forgets a job that was publishing.
Reconcilable_NoFinalizing(row) ==
  /\ row.status \in ACTIVE_JOB_STATES \ {"finalizing"}
  /\ row.status = "queued" \/ row.lease \in {"none", "expired"}

\* Mutant: only released leases count, not those that ran out.
Reconcilable_ReleasedOnly(row) ==
  /\ row.status \in ACTIVE_JOB_STATES
  /\ row.status = "queued" \/ row.lease = "none"

\* list_reconcilable without its test on updated_at: any row goes stale when
\* nothing writes it for JOB_RECONCILE_STALE_SECONDS.
Reconcilable(row) ==
  /\ row.status \in ACTIVE_JOB_STATES
  /\ row.status = "queued" \/ row.lease \in {"none", "expired"}

=============================================================================
