----------------------------- MODULE JobClaims -----------------------------
(***************************************************************************)
(* What the repository's documents and checks say of a job and the code    *)
(* does not keep.  Each is checked against the same Spec as the properties *)
(* of JobControl, and TLC shows an execution that breaks it.               *)
(***************************************************************************)
EXTENDS MCJobControl

\* docs/architecture/PRODUCTION_ARCHITECTURE.md:158, "Truthful queued and Modal
\* cancellation": a job that reads cancelled, with nobody working on it any more,
\* has no remote job running.
CancelledStopsRemote ==
  /\ row.status = "cancelled"
  /\ \A r \in Runs : pc[r] = "idle"
  /\ \A c \in Callers : call[c].pc = "idle"
  => remote # "active"

\* jobs.py:418, delete_job raises "job_not_terminal" for any other job: only
\* a terminal job is deleted.
DeletesTerminalOnly ==
  [][InTable(row) /\ ~InTable(row)' => row.status \in TERMINAL_JOB_STATES]_vars

=============================================================================
