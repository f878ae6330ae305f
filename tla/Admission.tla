----------------------------- MODULE Admission -----------------------------
(***************************************************************************)
(* How a job is admitted: create_job writes the upload, PostgresJobStore's *)
(* create runs one transaction of several statements under an advisory     *)
(* lock, and the upload is removed when nothing was created.  Transactions *)
(* run at READ COMMITTED: each statement sees what has been committed by   *)
(* then, and nobody else takes the lock, so jobs end, are reopened and are *)
(* deleted between the statements.                                         *)
(***************************************************************************)
EXTENDS AdmissionPromise

CONSTANTS
  Requests,   \* threads of the API processes that serve POST /jobs
  MaxFaults   \* bound: how many transactions and processes fail

ASSUME RequestsAssumption == MaxFaults \in Nat /\ None \notin Requests

VARIABLES
  req,         \* what each request knows, and the statement it is about to perform
  advisory,    \* who holds pg_advisory_xact_lock
  fresh,       \* uuids not drawn yet
  inputs,      \* jobs whose upload is on disk
  unanswered,  \* history: jobs whose COMMIT took effect and was reported as failed
  faults       \* history

avars == <<jobs, req, advisory, fresh, inputs, unanswered, faults>>

InTransaction == {"lookUp", "countActive", "countOwner", "insert", "commit"}

Request == [pc : {"idle", "lock", "discard"} \union InTransaction,
            job : Jobs \union {None}, owner : Owners \union {None},
            key : Keys \union {None}, found : Jobs \union {None}]

NoRequest == [pc |-> "idle", job |-> None, owner |-> None, key |-> None, found |-> None]

TypeOK ==
  /\ jobs \in [Jobs -> JobRow] /\ req \in [Requests -> Request]
  /\ advisory \in Requests \union {None} /\ fresh \subseteq Jobs
  /\ inputs \subseteq Jobs /\ unanswered \subseteq Jobs /\ faults \in Nat

Init ==
  /\ Empty
  /\ req = [p \in Requests |-> NoRequest] /\ advisory = None
  /\ fresh = Jobs /\ inputs = {} /\ unanswered = {} /\ faults = 0

Moves(p, from, to) == req[p].pc = from /\ req' = [req EXCEPT ![p].pc = to]

ReadsOnly == UNCHANGED <<jobs, fresh, inputs, unanswered, faults>>

\* create_job: a uuid, and the upload written under it.
Begin(p) ==
  \E j \in fresh, o \in Owners, k \in Keys \union {None} :
    /\ req[p].pc = "idle"
    /\ req' = [req EXCEPT ![p] = [pc |-> "lock", job |-> j, owner |-> o, key |-> k,
                                  found |-> None]]
    /\ fresh' = fresh \ {j} /\ inputs' = inputs \union {j}
    /\ UNCHANGED <<jobs, advisory, unanswered, faults>>

\* Mutant: the lock is shared, as in pg_advisory_xact_lock_shared.
Lock_Shared(p) ==
  /\ Moves(p, "lock", IF req[p].key = None THEN "countActive" ELSE "lookUp")
  /\ advisory' = p /\ ReadsOnly

Lock(p) ==
  /\ advisory = None
  /\ Moves(p, "lock", IF req[p].key = None THEN "countActive" ELSE "lookUp")
  /\ advisory' = p /\ ReadsOnly

\* The job a request is answered with: one that has its key, or its own.
Found(p) ==
  LET there == Existing(req[p].owner, req[p].key)
  IN  IF there = {} THEN req[p].job ELSE CHOOSE j \in there : TRUE

LookUp(p) ==
  /\ req[p].pc = "lookUp"
  /\ req' = IF Found(p) = req[p].job THEN [req EXCEPT ![p].pc = "countActive"]
            ELSE [req EXCEPT ![p].pc = "commit", ![p].found = Found(p)]
  /\ UNCHANGED advisory /\ ReadsOnly

\* An exception ends the transaction, and with it the lock.
Abandon(p) ==
  /\ req' = [req EXCEPT ![p].pc = "discard"]
  /\ advisory' = IF advisory = p THEN None ELSE advisory

Full(limit, set) == limit > 0 /\ Cardinality(set) >= limit

CountActive(p) ==
  /\ req[p].pc = "countActive"
  /\ IF Full(JOB_MAX_ACTIVE, Active) THEN Abandon(p)
     ELSE Moves(p, "countActive", "countOwner") /\ UNCHANGED advisory
  /\ ReadsOnly

\* Mutant: the tenant's limit is compared with >.
CountOwner_OffByOne(p) ==
  /\ req[p].pc = "countOwner"
  /\ IF Full(JOB_MAX_ACTIVE_PER_OWNER + 1, OwnerActive(req[p].owner)) THEN Abandon(p)
     ELSE Moves(p, "countOwner", "insert") /\ UNCHANGED advisory
  /\ ReadsOnly

CountOwner(p) ==
  /\ req[p].pc = "countOwner"
  /\ IF Full(JOB_MAX_ACTIVE_PER_OWNER, OwnerActive(req[p].owner)) THEN Abandon(p)
     ELSE Moves(p, "countOwner", "insert") /\ UNCHANGED advisory
  /\ ReadsOnly

\* INSERT ... ON CONFLICT DO NOTHING, the job that is in the way read again, the
\* event and the outbox row.
Insert(p) ==
  /\ req[p].pc = "insert"
  /\ req' = [req EXCEPT ![p].pc = "commit", ![p].found = Found(p)]
  /\ UNCHANGED advisory /\ ReadsOnly

\* COMMIT, and the end of the lock.
Committed(p) ==
  /\ req[p].pc = "commit" /\ advisory' = IF advisory = p THEN None ELSE advisory
  /\ jobs' = IF req[p].found = req[p].job
             THEN [jobs EXCEPT ![req[p].job] = NewJob(req[p].owner, req[p].key)]
             ELSE jobs

Commit(p) ==
  /\ Committed(p)
  /\ req' = IF req[p].found = req[p].job THEN [req EXCEPT ![p] = NoRequest]
            ELSE [req EXCEPT ![p].pc = "discard"]
  /\ UNCHANGED <<fresh, inputs, unanswered, faults>>

\* Mutant: the directory of the job that was found goes, not that of the own uuid.
Discard_Found(p) ==
  /\ req[p].pc = "discard"
  /\ inputs' = inputs \ {req[p].found}
  /\ req' = [req EXCEPT ![p] = NoRequest]
  /\ UNCHANGED <<jobs, advisory, fresh, unanswered, faults>>

\* create_job, after an exception or for a replay: shutil.rmtree(job_root).
Discard(p) ==
  /\ req[p].pc = "discard"
  /\ inputs' = inputs \ {req[p].job}
  /\ req' = [req EXCEPT ![p] = NoRequest]
  /\ UNCHANGED <<jobs, advisory, fresh, unanswered, faults>>

Fault == faults < MaxFaults /\ faults' = faults + 1

\* PostgreSQL fails before COMMIT.
TransactionFails(p) ==
  /\ req[p].pc \in {"lock"} \union InTransaction
  /\ Fault /\ Abandon(p)
  /\ UNCHANGED <<jobs, fresh, inputs, unanswered>>

\* The connection is lost after COMMIT took effect and before it was answered.
CommitUnanswered(p) ==
  /\ Committed(p) /\ Fault
  /\ req' = [req EXCEPT ![p].pc = "discard"]
  /\ unanswered' = IF req[p].found = req[p].job THEN unanswered \union {req[p].job}
                   ELSE unanswered
  /\ UNCHANGED <<fresh, inputs>>

\* The API process dies, and PostgreSQL rolls back.
RequestCrashes(p) ==
  /\ req[p].pc # "idle" /\ Fault
  /\ req' = [req EXCEPT ![p] = NoRequest]
  /\ advisory' = IF advisory = p THEN None ELSE advisory
  /\ UNCHANGED <<jobs, fresh, inputs, unanswered>>

\* The rest of the service, none of which takes the lock: an execution, a cancellation
\* or a reconciliation ends a job; a resumption or a retry makes it active again;
\* delete_job removes the row and the directory.
EndJob(j) == End(j) /\ UNCHANGED <<req, advisory, fresh, inputs, unanswered, faults>>

ReopenJob(j) == Reopen(j) /\ UNCHANGED <<req, advisory, fresh, inputs, unanswered, faults>>

DeleteRow(j) ==
  /\ Delete(j) /\ inputs' = inputs \ {j}
  /\ UNCHANGED <<req, advisory, fresh, unanswered, faults>>

RequestStep(p) ==
  \/ Begin(p) \/ Lock(p) \/ LookUp(p) \/ CountActive(p) \/ CountOwner(p) \/ Insert(p)
  \/ Commit(p) \/ Discard(p) \/ TransactionFails(p) \/ CommitUnanswered(p)
  \/ RequestCrashes(p)

Next ==
  \/ \E p \in Requests : RequestStep(p)
  \/ \E j \in Jobs : EndJob(j) \/ ReopenJob(j) \/ DeleteRow(j)

Spec == Init /\ [][Next]_avars

----------------------------------------------------------------------------
(* Properties, beside WithinCapacity, KeyIsUnique and Promised.             *)

\* Why: one transaction at a time is past the lock, on a uuid of its own, and what it
\* has found out about keys and room still holds when it commits, whatever ended or
\* was reopened or deleted in between (PostgresJobStore.create).
OneAtATime == \A p \in Requests : req[p].pc \in InTransaction => advisory = p

Inserting(p) == req[p].pc = "commit" /\ req[p].found = req[p].job

OwnJob ==
  /\ \A j \in fresh : ~InJobs(j)
  /\ \A p \in Requests :
       /\ req[p].pc # "idle" => req[p].job \in Jobs \ fresh /\ req[p].owner \in Owners
       /\ req[p].pc \in {"lock"} \union InTransaction =>
            ~InJobs(req[p].job) /\ req[p].job \in inputs
       /\ req[p].pc = "discard" /\ InJobs(req[p].job) => req[p].job \in unanswered
  /\ \A p, q \in Requests :
       req[p].pc # "idle" /\ req[q].pc # "idle" /\ req[p].job = req[q].job => p = q

Checked ==
  \A p \in Requests :
    /\ req[p].pc \in {"countActive", "countOwner", "insert"} \/ Inserting(p) =>
         Existing(req[p].owner, req[p].key) = {}
    /\ req[p].pc \in {"countOwner", "insert"} \/ Inserting(p) => ServiceRoom
    /\ req[p].pc = "insert" \/ Inserting(p) => Room(req[p].owner)

AdmissionInv == OneAtATime /\ OwnJob /\ Checked

\* A job that was accepted has its upload, for the executions to come; only a COMMIT
\* that is reported as failed and was not leaves a job without (create_job).
InputKept == \A j \in Jobs : InJobs(j) => j \in inputs \union unanswered

=============================================================================
