---------------------------- MODULE LedgerPromise ----------------------------
(***************************************************************************)
(* What the product ledger of the Hatchet experiment promises: each job is *)
(* decided once, with all its effects in one step, and only a completed    *)
(* job nobody had cancelled is paid for.                                   *)
(***************************************************************************)
CONSTANTS Jobs

VARIABLES
    outcome,   \* what a job came to
    withdrawn, \* the jobs somebody cancelled
    paid       \* the jobs with a usage effect

promiseVars == <<outcome, withdrawn, paid>>

TERMINAL_STATUSES == {"completed", "failed", "cancelled"}

PromiseInit ==
    /\ outcome = [j \in Jobs |-> "undecided"]
    /\ withdrawn = {}
    /\ paid = {}

Withdraw(j) ==
    /\ withdrawn' = withdrawn \cup {j}
    /\ UNCHANGED <<outcome, paid>>

Decide(j, status) ==
    /\ outcome[j] = "undecided"
    /\ status = "completed" => j \notin withdrawn
    /\ outcome' = [outcome EXCEPT ![j] = status]
    /\ paid' = IF status = "completed" THEN paid \cup {j} ELSE paid
    /\ UNCHANGED withdrawn

PromiseNext == \E j \in Jobs : Withdraw(j) \/ \E status \in TERMINAL_STATUSES : Decide(j, status)

PromiseSpec == PromiseInit /\ [][PromiseNext]_promiseVars

=============================================================================
