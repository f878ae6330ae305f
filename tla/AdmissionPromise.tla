-------------------------- MODULE AdmissionPromise --------------------------
(***************************************************************************)
(* What admission promises, over the rows of the table jobs: a job is      *)
(* accepted in one step, when its tenant and the service have room for it, *)
(* and an idempotency key names one job of a tenant at a time.  Jobs that  *)
(* ended may be reopened, without asking for room.                         *)
(***************************************************************************)
EXTENDS Integers, FiniteSets

CONSTANTS
  Jobs,      \* job ids
  Owners,    \* tenants
  Keys,      \* idempotency keys
  None,      \* no owner, no key, no request
  JOB_MAX_ACTIVE, JOB_MAX_ACTIVE_PER_OWNER   \* 0: no limit

ASSUME AdmissionAssumption ==
  /\ IsFiniteSet(Jobs)
  /\ JOB_MAX_ACTIVE \in Nat /\ JOB_MAX_ACTIVE_PER_OWNER \in Nat
  /\ None \notin Jobs \union Owners \union Keys

VARIABLE jobs  \* the table, by job id

JobRow == [state : {"absent", "active", "ended"}, owner : Owners \union {None},
           key : Keys \union {None}, reopened : BOOLEAN]

NoJob == [state |-> "absent", owner |-> None, key |-> None, reopened |-> FALSE]

NewJob(o, k) == [state |-> "active", owner |-> o, key |-> k, reopened |-> FALSE]

InJobs(j) == jobs[j].state # "absent"

Active == {j \in Jobs : jobs[j].state = "active"}

OwnerActive(o) == {j \in Active : jobs[j].owner = o}

\* Mutant: the key of a job that ended can be used again.
Existing_Active(o, k) == {j \in Active : jobs[j].owner = o /\ jobs[j].key = k /\ k # None}

Existing(o, k) == {j \in Jobs : InJobs(j) /\ jobs[j].owner = o /\ jobs[j].key = k /\ k # None}

\* Jobs in progress since they were accepted.
Admitted == {j \in Active : ~jobs[j].reopened}

OwnerAdmitted(o) == {j \in Admitted : jobs[j].owner = o}

ServiceRoom == JOB_MAX_ACTIVE > 0 => Cardinality(Admitted) < JOB_MAX_ACTIVE

Room(o) ==
  /\ ServiceRoom
  /\ JOB_MAX_ACTIVE_PER_OWNER > 0 => Cardinality(OwnerAdmitted(o)) < JOB_MAX_ACTIVE_PER_OWNER

Accept(j, o, k) ==
  /\ ~InJobs(j) /\ Existing(o, k) = {} /\ Room(o)
  /\ jobs' = [jobs EXCEPT ![j] = NewJob(o, k)]

End(j) == jobs[j].state = "active" /\ jobs' = [jobs EXCEPT ![j].state = "ended"]

Reopen(j) ==
  /\ jobs[j].state = "ended"
  /\ jobs' = [jobs EXCEPT ![j].state = "active", ![j].reopened = TRUE]

Delete(j) == InJobs(j) /\ jobs' = [jobs EXCEPT ![j] = NoJob]

Empty == jobs = [j \in Jobs |-> NoJob]

Serve ==
  \E j \in Jobs :
    \/ \E o \in Owners, k \in Keys \union {None} : Accept(j, o, k)
    \/ End(j) \/ Reopen(j) \/ Delete(j)

\* Admission promises what these steps do, one at a time.
Promised == Empty /\ [][Serve]_jobs

----------------------------------------------------------------------------

\* Neither the service nor a tenant has more jobs in progress than its limit, the
\* reopened ones aside (JOB_MAX_ACTIVE, JOB_MAX_ACTIVE_PER_OWNER).
WithinCapacity ==
  /\ JOB_MAX_ACTIVE > 0 => Cardinality(Admitted) <= JOB_MAX_ACTIVE
  /\ JOB_MAX_ACTIVE_PER_OWNER > 0 =>
       \A o \in Owners : Cardinality(OwnerAdmitted(o)) <= JOB_MAX_ACTIVE_PER_OWNER

\* An idempotency key of a tenant names at most one job, whatever has become of it
\* (jobs_owner_idempotency_key_idx, PostgresJobStore.create).
KeyIsUnique ==
  \A i, j \in Jobs :
    /\ InJobs(i) /\ InJobs(j) /\ jobs[i].key # None
    /\ jobs[i].owner = jobs[j].owner /\ jobs[i].key = jobs[j].key
    => i = j

=============================================================================
