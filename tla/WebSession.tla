----------------------------- MODULE WebSession -----------------------------
(***************************************************************************)
(* The session of the web application: App of src/apps/web/src/App.tsx,    *)
(* the submissions of src/apps/web/src/features/separation/api.ts and the  *)
(* buttons of JobProgress.tsx.  Requests are answered and their answers    *)
(* arrive in any order; each one that arrives is rendered before the next. *)
(***************************************************************************)
EXTENDS Naturals, FiniteSets

CONSTANTS
    WebJobs,       \* the jobs that the API may create
    Requests,      \* bound: the requests to the API that are under way at a time
    NoJob,
    MaxPageFaults, \* bound: answers that are lost or say that the call failed, and reloads
    MaxLeft        \* bound: terminal statuses that are left again

ASSUME WebAssumption == {MaxPageFaults, MaxLeft} \subseteq Nat /\ NoJob \notin WebJobs

VARIABLES
    served,      \* served[j]: the status that the API has for job j; "none" before it is created,
                 \* "gone" when it was deleted
    left,        \* history: the terminal statuses that jobs had and left again, as <<job, status>>
    job,         \* the job of the page: its id and the status last set
    busy, connectionIssue,
    submitting,  \* start waits for submitUploadJob or submitAudiusJob
    url,         \* the job in the address
    requests,    \* requests[r]: what is under way
    pageFaults

pageVars == <<job, busy, connectionIssue, submitting, url, requests, pageFaults>>
webVars == <<served, left, pageVars>>

TERMINAL_STATES == {"completed", "error", "failed", "cancelled"}

NoPayload == [job_id |-> NoJob, status |-> "none"]
Idle == [kind |-> "none", job_id |-> NoJob, answer |-> "none"]

WebInit ==
    /\ served = [j \in WebJobs |-> "none"] /\ left = {}
    /\ job = NoPayload /\ url = NoJob /\ submitting = FALSE
    /\ busy = FALSE /\ connectionIssue = FALSE
    /\ requests = [r \in Requests |-> Idle]
    /\ pageFaults = 0

\* A request goes out; it waits for one under way to end when there are too many.
Sent(kind, j) ==
    \E r \in Requests :
        /\ requests[r] = Idle
        /\ requests' = [requests EXCEPT ![r] = [kind |-> kind, job_id |-> j, answer |-> "sent"]]

PageFault == pageFaults < MaxPageFaults /\ pageFaults' = pageFaults + 1

-----------------------------------------------------------------------------
(* The API, as the page sees it                                            *)

\* A job that is being cancelled does not complete (JOB_TRANSITIONS); nothing writes failed.
JobEnds ==
    \E j \in WebJobs, status \in {"completed", "error", "cancelled"} :
        /\ \/ served[j] = "active" /\ status # "cancelled"
           \/ served[j] = "cancelling" /\ status # "completed"
        /\ served' = [served EXCEPT ![j] = status]
        /\ UNCHANGED left /\ UNCHANGED pageVars

\* A terminal status is not the last: run_job queues a job again after it has written the error
\* of its attempt, resume_remote_job does later, and any job that has ended may be deleted.
JobLeaves(j, status) ==
    /\ served' = [served EXCEPT ![j] = status]
    /\ left' = left \cup {<<j, served[j]>>}
    /\ Cardinality(left') <= MaxLeft
    /\ UNCHANGED pageVars

JobReopens == \E j \in WebJobs : served[j] = "error" /\ JobLeaves(j, "active")
JobDeleted == \E j \in WebJobs : served[j] \in TERMINAL_STATES /\ JobLeaves(j, "gone")

\* What a cancellation makes of a job: one that is queued is cancelled at once.
CancelledFrom(status) == IF status = "active" THEN {"cancelling", "cancelled"} ELSE {status}

\* A refresh is answered with the status of now, a cancellation with what it left, and both
\* with 404 when the job is gone.
Answer ==
    \E r \in Requests :
        LET j == requests[r].job_id IN
        /\ requests[r].answer = "sent"
        /\ \E status \in IF requests[r].kind = "cancel" THEN CancelledFrom(served[j]) ELSE {served[j]} :
             /\ served' = [served EXCEPT ![j] = status]
             /\ \/ /\ requests' = [requests EXCEPT ![r].answer = IF status = "gone" THEN "raised" ELSE status]
                   /\ UNCHANGED pageFaults
                \/ requests' = [requests EXCEPT ![r].answer = "raised"] /\ PageFault
        /\ UNCHANGED <<left, job, busy, connectionIssue, submitting, url>>

-----------------------------------------------------------------------------
(* refreshJob, cancel: their answers                                       *)

Deliver ==
    \E r \in Requests :
        LET reply == requests[r] IN
        /\ reply.answer \notin {"sent", "none"}
        /\ requests' = [requests EXCEPT ![r] = Idle]
        /\ IF reply.answer = "raised"
           THEN /\ connectionIssue' = (connectionIssue \/ reply.kind = "refresh")
                /\ UNCHANGED <<job, busy>>
           ELSE /\ job' = [job_id |-> reply.job_id, status |-> reply.answer]
                /\ connectionIssue' = (connectionIssue /\ reply.kind # "refresh")
                /\ busy' = (busy /\ ~(reply.kind = "refresh" /\ reply.answer \in TERMINAL_STATES))
        /\ UNCHANGED <<served, left, submitting, url, pageFaults>>

\* Mutant: the page waits for the user once a refresh has failed.
Polling_WhileConnected == job.job_id # NoJob /\ job.status \notin TERMINAL_STATES /\ ~connectionIssue

\* The interval runs while the page shows a job that has not ended.
Polling == job.job_id # NoJob /\ job.status \notin TERMINAL_STATES

Poll ==
    /\ Polling /\ Sent("refresh", job.job_id)
    /\ UNCHANGED <<served, left, job, busy, connectionIssue, submitting, url, pageFaults>>

\* The buttons of JobProgress.
Retry ==
    /\ connectionIssue /\ job.job_id # NoJob /\ Sent("refresh", job.job_id)
    /\ UNCHANGED <<served, left, job, busy, connectionIssue, submitting, url, pageFaults>>

Cancel ==
    /\ busy /\ ~connectionIssue /\ job.job_id # NoJob /\ Sent("cancel", job.job_id)
    /\ UNCHANGED <<served, left, job, busy, connectionIssue, submitting, url, pageFaults>>

-----------------------------------------------------------------------------
(* start                                                                   *)

StartSession ==
    /\ ~busy /\ ~submitting
    /\ busy' = TRUE /\ job' = NoPayload /\ connectionIssue' = FALSE
    /\ submitting' = TRUE
    /\ UNCHANGED <<served, left, url, requests, pageFaults>>

\* A submission carries a key of its own: a job is created for each.  What api.ts asks before
\* (the grant, the upload) leaves the page as it is.
Submitted ==
    \E j \in WebJobs :
        /\ submitting /\ served[j] = "none"
        /\ served' = [served EXCEPT ![j] = "active"]
        /\ \/ /\ job' = [job_id |-> j, status |-> "active"]
              /\ url' = j /\ submitting' = FALSE
              /\ Sent("refresh", j) /\ UNCHANGED <<busy, pageFaults>>
           \/ /\ PageFault /\ busy' = FALSE /\ submitting' = FALSE
              /\ UNCHANGED <<job, url, requests>>
        /\ UNCHANGED <<left, connectionIssue>>

SubmissionFails ==
    /\ submitting /\ PageFault
    /\ submitting' = FALSE /\ busy' = FALSE
    /\ UNCHANGED <<served, left, job, connectionIssue, url, requests>>

\* The page loads again: with a job in its address it is busy and asks for it once.
Reload ==
    /\ PageFault
    /\ job' = NoPayload /\ submitting' = FALSE
    /\ busy' = (url # NoJob) /\ connectionIssue' = FALSE
    /\ \E first \in Requests :
       requests' = [r \in Requests |-> IF r = first /\ url # NoJob
                                       THEN [kind |-> "refresh", job_id |-> url, answer |-> "sent"] ELSE Idle]
    /\ UNCHANGED <<served, left, url>>

WebNext ==
    \/ Answer \/ Deliver \/ Poll \/ JobEnds \/ JobReopens \/ JobDeleted \/ Retry \/ Cancel \/ StartSession \/ Submitted
    \/ SubmissionFails \/ Reload

WebSpec == WebInit /\ [][WebNext]_webVars

-----------------------------------------------------------------------------

\* Once the page has stopped asking and nothing is under way, it shows what the API has of the
\* job, though answers are lost and old ones arrive late; the one exception is a terminal status
\* that the job left again, when the API queued it anew or deleted it and the page, which does
\* not ask about a job that has ended, had seen it (refreshJob, cancel, the interval).
ShownIsServed ==
    (~Polling /\ \A r \in Requests : requests[r] = Idle) =>
        \/ job.job_id = NoJob
        \/ job.status = served[job.job_id]
        \/ <<job.job_id, job.status>> \in left

=============================================================================
