----------------------------- MODULE JobStates -----------------------------
(***************************************************************************)
(* The status machine of a job, src/splitter/infrastructure/job_store.py:  *)
(* the two status classes, the table of legal transitions and the check    *)
(* both job stores run before they write a status.                         *)
(***************************************************************************)

TERMINAL_JOB_STATES == {"completed", "error", "failed", "cancelled"}

ACTIVE_JOB_STATES == {"queued", "running", "finalizing", "cancelling"}

JobStatuses == TERMINAL_JOB_STATES \union ACTIVE_JOB_STATES

\* Mutant: the table lets a job that is being cancelled complete after all.
JOB_TRANSITIONS_LateCompletion ==
  [ queued     |-> {"running", "error", "failed", "cancelled"},
    running    |-> {"queued", "finalizing", "cancelling", "completed",
                    "error", "failed", "cancelled"},
    finalizing |-> {"queued", "cancelling", "completed", "error", "failed",
                    "cancelled"},
    cancelling |-> {"completed", "cancelled", "error", "failed"},
    error      |-> {"queued", "cancelled"},
    failed     |-> {"queued", "cancelled"},
    completed  |-> {},
    cancelled  |-> {} ]

JOB_TRANSITIONS ==
  [ queued     |-> {"running", "error", "failed", "cancelled"},
    running    |-> {"queued", "finalizing", "cancelling", "completed",
                    "error", "failed", "cancelled"},
    finalizing |-> {"queued", "cancelling", "completed", "error", "failed",
                    "cancelled"},
    cancelling |-> {"cancelled", "error", "failed"},
    error      |-> {"queued", "cancelled"},
    failed     |-> {"queued", "cancelled"},
    completed  |-> {},
    cancelled  |-> {} ]

\* _validate_transition: a status may be written over itself, or over one that
\* the table lets it follow.
ValidTransition(current, requested) ==
  requested = current \/ requested \in JOB_TRANSITIONS[current]

=============================================================================
