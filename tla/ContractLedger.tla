--------------------------- MODULE ContractLedger ---------------------------
(***************************************************************************)
(* The product ledger of the Hatchet experiment                            *)
(* (src/experiments/hatchet_proof/contract_ledger.py) and the tasks that   *)
(* write to it (hatchet_worker.py): dispatches, executions that are        *)
(* retried, crash or overlap, cancellations, and terminal callbacks that   *)
(* are replayed or compete.  Each call is one SQLite transaction.          *)
(***************************************************************************)
EXTENDS Naturals, FiniteSets

CONSTANTS
    Jobs,
    AttemptNumbers,  \* attempt_number of a DispatchIntent
    ExternalRuns,    \* run ids that a dispatcher may propose
    RETRIES,         \* retries of the task
    MaxStarts,       \* bound: invocations that start at all
    None             \* NULL

VARIABLES
    jobs,         \* table jobs
    attempts,     \* tables attempts and dispatches
    callbacks,    \* table callback_events
    effects,      \* table terminal_effects
    usage,        \* table usage_effects: the attempts paid for
    artifacts,    \* table artifacts: the attempt whose stems a job has
    faults,       \* table fault_claims
    invocation    \* the statement each invocation of a task has reached

ledgerVars == <<jobs, attempts, callbacks, effects, usage, artifacts, faults, invocation>>

TERMINAL_STATUSES == {"completed", "failed", "cancelled"}

Attempts == Jobs \X AttemptNumbers
JobOf(a) == a[1]

Invocations == Attempts \X (0 .. RETRIES)
AttemptOf(i) == i[1]

\* The id of a callback names its attempt and the status it asks for.
Callbacks == Attempts \X TERMINAL_STATUSES

ASSUME LedgerAssumption == RETRIES \in Nat /\ None \notin ExternalRuns \cup Callbacks

JobRows == [known : BOOLEAN, status : TERMINAL_STATUSES \cup {"queued", "cancelling"},
            cancel_requested : BOOLEAN, terminal_event_id : Callbacks \cup {None}]

AttemptRows == [known : BOOLEAN, external_run_id : ExternalRuns \cup {None}, dispatched : ExternalRuns \cup {None},
                state : TERMINAL_STATUSES \cup {"queued", "running"}, retry_count : 0 .. RETRIES]

Effects == [job : Jobs, attempt : Attempts, callback : Callbacks, status : TERMINAL_STATUSES]

InvocationPcs == {"unstarted", "faulting", "working", "replaying", "raised", "crashed", "returned"}

LedgerTypeOK ==
    /\ jobs \in [Jobs -> JobRows]
    /\ attempts \in [Attempts -> AttemptRows]
    /\ callbacks \subseteq Callbacks
    /\ effects \subseteq Effects
    /\ usage \subseteq Attempts
    /\ artifacts \subseteq Attempts
    /\ faults \subseteq Attempts
    /\ invocation \in [Invocations -> InvocationPcs]

LedgerInit ==
    /\ jobs = [j \in Jobs |-> [known |-> FALSE, status |-> "queued",
                               cancel_requested |-> FALSE, terminal_event_id |-> None]]
    /\ attempts = [a \in Attempts |-> [known |-> FALSE, external_run_id |-> None, dispatched |-> None,
                                       state |-> "queued", retry_count |-> 0]]
    /\ callbacks = {} /\ effects = {} /\ usage = {} /\ artifacts = {} /\ faults = {}
    /\ invocation = [i \in Invocations |-> "unstarted"]

-----------------------------------------------------------------------------

\* The first dispatcher of an attempt settles its run; the others are told that one.
ReserveDispatch(a, proposed) ==
    /\ \A other \in Attempts : attempts[other].dispatched = proposed => other = a
    /\ jobs' = [jobs EXCEPT ![JobOf(a)].known = TRUE]
    /\ LET settled == IF attempts[a].dispatched = None THEN proposed ELSE attempts[a].dispatched
       IN  attempts' = [attempts EXCEPT ![a].known = TRUE, ![a].dispatched = settled, ![a].external_run_id = settled]
    /\ UNCHANGED <<callbacks, effects, usage, artifacts, faults, invocation>>

\* Mutant: a cancellation reopens a decided job.
RequestLedgerCancel_Always(j) ==
    /\ jobs[j].known
    /\ jobs' = [jobs EXCEPT ![j].cancel_requested = TRUE, ![j].status = "cancelling"]
    /\ UNCHANGED <<attempts, callbacks, effects, usage, artifacts, faults, invocation>>

RequestLedgerCancel(j) ==
    /\ jobs[j].known
    /\ jobs' = [jobs EXCEPT ![j].cancel_requested = TRUE,
                            ![j].status = IF @ \in TERMINAL_STATUSES THEN @ ELSE "cancelling"]
    /\ UNCHANGED <<attempts, callbacks, effects, usage, artifacts, faults, invocation>>

\* A completion that comes after a cancellation is one no more.
EffectiveStatus(c) ==
    IF jobs[JobOf(c[1])].cancel_requested /\ c[2] = "completed" THEN "cancelled" ELSE c[2]

\* Mutant: what was asked for is paid, not what was decided.
Settle_PaysAsked(c) ==
    LET a == c[1]
        j == JobOf(a)
        status == EffectiveStatus(c)
    IN  /\ jobs' = [jobs EXCEPT ![j].status = status, ![j].terminal_event_id = c]
        /\ attempts' = [attempts EXCEPT ![a].state = status]
        /\ effects' = effects \cup {[job |-> j, attempt |-> a, callback |-> c, status |-> status]}
        /\ usage' = IF c[2] = "completed" THEN usage \cup {a} ELSE usage
        /\ artifacts' = IF status = "completed" THEN artifacts \cup {a} ELSE artifacts

\* The one transaction that decides a job.
Settle(c) ==
    LET a == c[1]
        j == JobOf(a)
        status == EffectiveStatus(c)
    IN  /\ jobs' = [jobs EXCEPT ![j].status = status, ![j].terminal_event_id = c]
        /\ attempts' = [attempts EXCEPT ![a].state = status]
        /\ effects' = effects \cup {[job |-> j, attempt |-> a, callback |-> c, status |-> status]}
        /\ usage' = IF status = "completed" THEN usage \cup {a} ELSE usage
        /\ artifacts' = IF status = "completed" /\ (\A other \in artifacts : JobOf(other) # j)
                          THEN artifacts \cup {a} ELSE artifacts

\* Mutant: only a repetition is refused.
ApplyCallback_SeenOnly(c) ==
    IF c \in callbacks THEN UNCHANGED <<jobs, attempts, callbacks, effects, usage, artifacts>>
    ELSE callbacks' = callbacks \cup {c} /\ Settle(c)

\* A callback that was seen changes nothing; one of a decided job is only recorded.
ApplyCallback(c) ==
    IF c \in callbacks THEN UNCHANGED <<jobs, attempts, callbacks, effects, usage, artifacts>>
    ELSE /\ callbacks' = callbacks \cup {c}
         /\ IF jobs[JobOf(c[1])].terminal_event_id = None THEN Settle(c)
            ELSE UNCHANGED <<jobs, attempts, effects, usage, artifacts>>

\* Callbacks also reach the ledger by themselves: late, repeated, of any attempt.
DeliverCallback(c) ==
    /\ jobs[JobOf(c[1])].known
    /\ ApplyCallback(c)
    /\ UNCHANGED <<faults, invocation>>

Max2(m, n) == IF m > n THEN m ELSE n

-----------------------------------------------------------------------------
(* separation_task, and run_with_bounded_retries, which runs the same      *)
(* retries in a loop of its own.                                           *)

Reach(i, from, to) == invocation[i] = from /\ invocation' = [invocation EXCEPT ![i] = to]

\* Hatchet starts an attempt, or starts it again once it takes the last try for lost;
\* that one may be running still.
RecordExecutionStart(i) ==
    /\ Reach(i, "unstarted", "faulting")
    /\ attempts[AttemptOf(i)].dispatched # None
    /\ Cardinality({k \in Invocations : invocation[k] # "unstarted"}) < MaxStarts
    /\ i[2] > 0 => invocation[<<i[1], i[2] - 1>>] \notin {"unstarted", "returned"}
    /\ attempts' = [attempts EXCEPT ![AttemptOf(i)].state = "running",
                                    ![AttemptOf(i)].retry_count = Max2(@, i[2])]
    /\ UNCHANGED <<jobs, callbacks, effects, usage, artifacts, faults>>

\* claim_fault is won once per attempt: the winner fails or dies, later tries work.
ClaimFault(i) ==
    /\ \/ /\ AttemptOf(i) \notin faults
          /\ faults' = faults \cup {AttemptOf(i)}
          /\ Reach(i, "faulting", "raised") \/ Reach(i, "faulting", "crashed")
       \/ Reach(i, "faulting", "working") /\ UNCHANGED faults
    /\ UNCHANGED <<jobs, attempts, callbacks, effects, usage, artifacts>>

\* The task is cancelled or its operation raises.
Raise(i) ==
    /\ Reach(i, "working", "raised")
    /\ UNCHANGED <<jobs, attempts, callbacks, effects, usage, artifacts, faults>>

\* The loop that counts its retries reports the last failure.
RetriesExhausted(i) ==
    /\ i[2] = RETRIES /\ Reach(i, "raised", "returned")
    /\ ApplyCallback(<<AttemptOf(i), "failed">>)
    /\ UNCHANGED faults

\* Work is done: the callback, and the same one again.
ReportCompleted(i) ==
    /\ \/ Reach(i, "working", "replaying")
       \/ Reach(i, "replaying", "returned")
    /\ ApplyCallback(<<AttemptOf(i), "completed">>)
    /\ UNCHANGED faults

\* The worker's process dies and has reported nothing, or only once.
WorkerDies(i) ==
    /\ \E from \in {"faulting", "working", "replaying"} : Reach(i, from, "crashed")
    /\ UNCHANGED <<jobs, attempts, callbacks, effects, usage, artifacts, faults>>

Invocation(i) ==
    \/ RecordExecutionStart(i) \/ ClaimFault(i) \/ Raise(i) \/ RetriesExhausted(i)
    \/ ReportCompleted(i) \/ WorkerDies(i)

LedgerNext ==
    \/ \E a \in Attempts, proposed \in ExternalRuns : ReserveDispatch(a, proposed)
    \/ \E j \in Jobs : RequestLedgerCancel(j)
    \/ \E c \in Callbacks : DeliverCallback(c)
    \/ \E i \in Invocations : Invocation(i)

LedgerSpec == LedgerInit /\ [][LedgerNext]_ledgerVars

-----------------------------------------------------------------------------

EffectsOf(j) == {e \in effects : e.job = j}

\* However callbacks repeat, overlap or come late, a job has at most one terminal
\* effect, and its row shows that one: its status and the callback that decided it
\* (apply_callback).
OneTerminalEffect ==
    \A j \in Jobs :
        /\ \A e \in EffectsOf(j) : /\ jobs[j].terminal_event_id = e.callback
                                   /\ jobs[j].status = e.status
                                   /\ e.attempt = e.callback[1]
        /\ \A d, e \in EffectsOf(j) : d = e
        /\ jobs[j].terminal_event_id # None => EffectsOf(j) # {}
        /\ jobs[j].terminal_event_id = None => jobs[j].status \notin TERMINAL_STATUSES

\* A job is paid for, and has stems, exactly when it completed, and for the attempt
\* that completed it: a failed, a cancelled or a second attempt costs nothing
\* (apply_callback, test_retry_exhaustion_has_no_economic_effect).
PaidForCompleted ==
    /\ usage = {e.attempt : e \in {x \in effects : x.status = "completed"}}
    /\ artifacts = usage

\* A job whose cancellation came before its end never completes afterwards
\* (apply_callback, request_cancel).
CancelBeatsCompletion ==
    [][\A j \in Jobs : jobs[j].cancel_requested /\ jobs[j].terminal_event_id = None
        => jobs'[j].status # "completed"]_ledgerVars

\* The ledger keeps the promise: one decision per job with all its effects at once.
Kept == INSTANCE LedgerPromise WITH
    outcome <- [j \in Jobs |-> IF jobs[j].terminal_event_id = None THEN "undecided" ELSE jobs[j].status],
    withdrawn <- {j \in Jobs : jobs[j].cancel_requested},
    paid <- {JobOf(a) : a \in usage}

LedgerKept == Kept!PromiseSpec

=============================================================================
