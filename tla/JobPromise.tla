----------------------------- MODULE JobPromise -----------------------------
(***************************************************************************)
(* What the service promises the owner of one job, without a word on how:  *)
(* it is executed at most JOB_MAX_ATTEMPTS times and never after it ended; *)
(* one that failed may be tried again; one that completed or was cancelled *)
(* never changes until it is deleted; nothing completes a job after the    *)
(* service has said it is cancelling it.                                   *)
(***************************************************************************)
EXTENDS Naturals

CONSTANT JOB_MAX_ATTEMPTS

VARIABLES
  outcome,    \* what a client reads of the job
  executions  \* how many times it has been executed

promise == <<outcome, executions>>

Outcomes == {"none", "open", "cancelling", "failed", "completed", "cancelled", "gone"}

TypeOK == outcome \in Outcomes /\ executions \in 0 .. JOB_MAX_ATTEMPTS

Init == outcome = "none" /\ executions = 0

Becomes(from, to) == outcome \in from /\ outcome' = to /\ UNCHANGED executions

Accept == Becomes({"none"}, "open")
Complete == Becomes({"open"}, "completed")
Fail == Becomes({"open", "cancelling"}, "failed")
Retry == Becomes({"failed"}, "open")
BeginCancel == Becomes({"open"}, "cancelling")
Cancel == Becomes({"open", "cancelling", "failed"}, "cancelled")
Forget == Becomes(Outcomes \ {"none", "gone"}, "gone")

Execute ==
  /\ outcome \in {"open", "failed"} /\ executions < JOB_MAX_ATTEMPTS
  /\ executions' = executions + 1
  /\ UNCHANGED outcome

Next ==
  \/ Accept \/ Complete \/ Fail \/ Retry \/ BeginCancel \/ Cancel \/ Forget
  \/ Execute

Spec == Init /\ [][Next]_promise

=============================================================================
