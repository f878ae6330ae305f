---------------------------- MODULE LocalBackend ----------------------------
(***************************************************************************)
(* The backend of a single machine: the JSON files of JsonJobStore         *)
(* (src/splitter/infrastructure/job_store.py), the thread pool of          *)
(* ThreadJobDispatcher (src/splitter/infrastructure/dispatch.py) and       *)
(* run_job in one of its threads (src/splitter/jobs.py), with any calls of *)
(* the API beside it.  A write holds the store's lock and is one step; a   *)
(* read of jobs.py does not hold it.                                       *)
(***************************************************************************)
EXTENDS JobStates, Naturals, FiniteSets, Bags

CONSTANTS
    LocalJobs,
    THREADS,       \* max_workers of the pool
    MaxApiCalls,   \* bound: calls of the API under way at a time
    MaxResumptions, \* bound: resumptions of a job
    MaxExits       \* bound: ends of the process

ASSUME LocalAssumption == THREADS \in Nat \ {0} /\ {MaxApiCalls, MaxResumptions, MaxExits} \subseteq Nat

VARIABLES
    file,         \* file[j]: status.json: "none", a status, or "torn"
    cancelAsked,  \* the jobs whose file has cancel_requested
    future,       \* future[j]: "none", "pending", "running"
    thread,       \* thread[j]: the statement of run_job
    calls,        \* the calls under way: a bag of <<job, the statement it is at>>
    created,      \* the jobs that were ever created
    resumed,      \* resumed[j]: how many times
    exits

localVars == <<file, cancelAsked, future, thread, calls, created, resumed, exits>>

LocalInit ==
    /\ file = [j \in LocalJobs |-> "none"] /\ cancelAsked = {}
    /\ future = [j \in LocalJobs |-> "none"]
    /\ thread = [j \in LocalJobs |-> "none"]
    /\ calls = EmptyBag
    /\ created = {} /\ exits = 0
    /\ resumed = [j \in LocalJobs |-> 0]

-----------------------------------------------------------------------------
(* ThreadJobDispatcher                                                     *)

\* enqueue: nothing when a future of the job is pending or running.
Enqueued(j) == IF future[j] = "none" THEN [future EXCEPT ![j] = "pending"] ELSE future

\* Future.cancel: only of one that has not begun.
FutureCancelled(j) == IF future[j] = "pending" THEN [future EXCEPT ![j] = "none"] ELSE future

PickUp(j) ==
    /\ future[j] = "pending"
    /\ Cardinality({i \in LocalJobs : future[i] = "running"}) < THREADS
    /\ future' = [future EXCEPT ![j] = "running"]
    /\ thread' = [thread EXCEPT ![j] = "acquire"]
    /\ UNCHANGED <<file, cancelAsked, calls, created, resumed, exits>>

-----------------------------------------------------------------------------
(* run_job                                                                 *)

\* update, under the lock: the file must be there and readable, and the status may follow.
\* Mutant: a file that is not there is begun anew.
Accepts_Anew(j, status) == file[j] = "none" \/ (file[j] # "torn" /\ ValidTransition(file[j], status))

Accepts(j, status) == file[j] \in JobStatuses /\ ValidTransition(file[j], status)

Updates(j, status) == file' = IF Accepts(j, status) THEN [file EXCEPT ![j] = status] ELSE file

At(j, from, to) ==
    /\ thread[j] = from
    /\ thread' = [thread EXCEPT ![j] = to]
    /\ UNCHANGED <<cancelAsked, calls, created, resumed, exits>>

\* _update_status of run_job: the file takes the status, or the call raises.
Saves(j, from, status, ok, raised) ==
    /\ At(j, from, IF Accepts(j, status) THEN ok ELSE raised)
    /\ Updates(j, status)
    /\ UNCHANGED future

\* The future is over, and with it its entry.
Done(j) == future' = [future EXCEPT ![j] = "none"]

\* acquire_lease, refused for a job that has ended, or by the lease of a process that has.
Acquire(j) ==
    \/ /\ file[j] \in ACTIVE_JOB_STATES
       /\ At(j, "acquire", "read") /\ UNCHANGED <<file, future>>
    \/ /\ file[j] \notin ACTIVE_JOB_STATES \/ exits > 0
       /\ At(j, "acquire", "none") /\ Done(j) /\ UNCHANGED file

\* The checks before the pipeline.  The read may meet a write half-way, or a torn file: it
\* raises (the heartbeat writes the lease into the file at any time).
ReadJob(j) ==
    /\ \/ At(j, "read", "handler")
       \/ file[j] = "none" /\ At(j, "read", "release")
       \/ file[j] \in JobStatuses /\ At(j, "read", IF j \in cancelAsked THEN "ack" ELSE "start")
    /\ UNCHANGED <<file, future>>

\* run_job's handler without RQ: it reads the job, and gives one that had not ended the status
\* error.
ReadLatest(j) ==
    /\ At(j, "handler", "release") \/ (file[j] \in ACTIVE_JOB_STATES /\ At(j, "handler", "saveError"))
    /\ UNCHANGED <<file, future>>

SaveFailure(j) == Saves(j, "saveError", "error", "release", "release")

\* A job whose attempts are used up ends in error.  The pipeline may raise at any of its
\* statements; its handler writes the error first.
RunLocally(j) ==
    \/ Acquire(j) \/ ReadJob(j)
    \/ Saves(j, "ack", "cancelled", "release", "handler")
    \/ Saves(j, "start", "error", "release", "handler")
    \/ Saves(j, "start", "running", "separating", "failed")
    \/ At(j, "separating", "publishing") /\ UNCHANGED <<file, future>>
    \/ At(j, "separating", "failed") /\ UNCHANGED <<file, future>>
    \/ Saves(j, "publishing", "completed", "release", "failed")
    \/ Saves(j, "failed", "error", "handler", "handler")
    \/ ReadLatest(j) \/ SaveFailure(j)
    \/ At(j, "release", "none") /\ Done(j) /\ UNCHANGED file

-----------------------------------------------------------------------------
(* Calls of the API process, as many at a time and on as many jobs as there are requests.  *)

CallOnly == UNCHANGED <<thread, created, resumed, exits>>

Call(j, statement) == SetToBag({<<j, statement>>})
Begins(j, to) == BagCardinality(calls) < MaxApiCalls /\ calls' = calls (+) Call(j, to)
Goes(j, from, to) == BagIn(<<j, from>>, calls) /\ calls' = (calls (-) Call(j, from)) (+) Call(j, to)
Ends(j, from) == BagIn(<<j, from>>, calls) /\ calls' = calls (-) Call(j, from)

\* A submission: the file of the job, the index of the key, the dispatch, its id.  Every file
\* is read under the lock first, and one that is torn raises.
CreateJob(j) ==
    /\ j \notin created /\ \A i \in LocalJobs : file[i] # "torn"
    /\ Begins(j, "dispatch")
    /\ file' = [file EXCEPT ![j] = "queued"]
    /\ created' = created \cup {j}
    /\ UNCHANGED <<cancelAsked, future, thread, resumed, exits>>

Dispatch(j) ==
    /\ Goes(j, "dispatch", "record")
    /\ future' = Enqueued(j)
    /\ UNCHANGED <<file, cancelAsked>> /\ CallOnly

\* The update raises for a job that is gone, and so does then that of record_dispatch_failure.
RecordDispatchId(j) ==
    /\ Ends(j, "record")
    /\ UNCHANGED <<file, cancelAsked, future>> /\ CallOnly

\* cancel_job: request_cancel, under the lock.
RequestCancel(j) ==
    \/ /\ file[j] \in ACTIVE_JOB_STATES
       /\ Begins(j, IF file[j] = "queued" THEN "cancelFuture" ELSE "cancelRemote")
       /\ cancelAsked' = cancelAsked \cup {j}
       /\ file' = [file EXCEPT ![j] = IF @ = "queued" THEN "cancelled" ELSE "cancelling"]
       /\ UNCHANGED future /\ CallOnly
    \/ /\ file[j] = "cancelled"
       /\ Begins(j, "cancelFuture")
       /\ UNCHANGED <<file, cancelAsked, future>> /\ CallOnly

\* The remote job is cancelled, or the execution has yet to acknowledge (a write of the
\* cancellation_status, which leaves the status).
CancelRemote(j) ==
    /\ \/ /\ IF Accepts(j, "cancelled") THEN Goes(j, "cancelRemote", "cancelFuture") ELSE Ends(j, "cancelRemote")
          /\ Updates(j, "cancelled")
       \/ Ends(j, "cancelRemote") /\ UNCHANGED file
    /\ UNCHANGED <<cancelAsked, future>> /\ CallOnly

CancelFuture(j) ==
    /\ Ends(j, "cancelFuture")
    /\ future' = FutureCancelled(j)
    /\ UNCHANGED <<file, cancelAsked>> /\ CallOnly

\* resume_remote_job: the status is read before it is written.
ReadFailed(j) ==
    /\ file[j] = "error" /\ resumed[j] < MaxResumptions
    /\ Begins(j, "requeue")
    /\ resumed' = [resumed EXCEPT ![j] = @ + 1]
    /\ UNCHANGED <<file, cancelAsked, future, thread, created, exits>>

Requeue(j) ==
    /\ IF Accepts(j, "queued") THEN Goes(j, "requeue", "dispatch") ELSE Ends(j, "requeue")
    /\ Updates(j, "queued")
    /\ UNCHANGED <<cancelAsked, future>> /\ CallOnly

\* delete_job: the status is read and checked without the lock, the objects are removed, and
\* then the folder, whatever its file says by now.
ReadEnded(j) ==
    /\ file[j] \in TERMINAL_JOB_STATES
    /\ Begins(j, "delete")
    /\ UNCHANGED <<file, cancelAsked, future>> /\ CallOnly

\* The object store may raise, and so does the store's read of a torn file.
DeleteJob(j) ==
    /\ Ends(j, "delete")
    /\ UNCHANGED file \/ (file[j] # "torn" /\ file' = [file EXCEPT ![j] = "none"])
    /\ UNCHANGED <<cancelAsked, future>> /\ CallOnly

\* The process ends: its threads, futures and calls are gone, and a file that one of them was
\* writing is torn.
ProcessEnds ==
    /\ exits < MaxExits /\ exits' = exits + 1
    /\ \/ UNCHANGED file
       \/ \E j \in LocalJobs :
            /\ file[j] # "none" /\ (thread[j] # "none" \/ \E at \in BagToSet(calls) : at[1] = j)
            /\ file' = [file EXCEPT ![j] = "torn"]
    /\ future' = [j \in LocalJobs |-> "none"]
    /\ thread' = [j \in LocalJobs |-> "none"]
    /\ calls' = EmptyBag
    /\ UNCHANGED <<cancelAsked, created, resumed>>

-----------------------------------------------------------------------------

LocalThread(j) == PickUp(j) \/ RunLocally(j)
LocalCall(j) ==
    \/ CreateJob(j) \/ Dispatch(j) \/ RecordDispatchId(j)
    \/ RequestCancel(j) \/ CancelRemote(j) \/ CancelFuture(j)
    \/ ReadFailed(j) \/ Requeue(j) \/ ReadEnded(j) \/ DeleteJob(j)

LocalNext == ProcessEnds \/ \E j \in LocalJobs : LocalThread(j) \/ LocalCall(j)

LocalSpec == LocalInit /\ [][LocalNext]_localVars

-----------------------------------------------------------------------------

\* A job that was deleted stays deleted: neither the run that was still in its pipeline or its
\* handlers, nor a submission, cancellation or resumption that had read the job and writes it
\* later, brings its file back, in whatever order they and the deletion go on (update, delete).
DeletedStays ==
    [][\A j \in LocalJobs : (j \in created /\ file[j] = "none") => file'[j] = "none"]_file

=============================================================================
