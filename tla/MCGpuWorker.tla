----------------------------- MODULE MCGpuWorker -----------------------------
(* Small instances of the GPU worker for TLC. *)
EXTENDS GpuWorker

CONSTANTS c1, c2, s1, s2, k1

MCBranches == <<"vocals", "specialists">>

Deployed(modal, parallel, early, faults) ==
    [modal |-> modal, parallel |-> parallel, early |-> early, faults |-> faults]

\* Local and on Modal, with one model after the other and with branches; the parallel
\* one both without and with what may go wrong.
MCDeployments ==
    {Deployed(FALSE, FALSE, FALSE, FALSE), Deployed(TRUE, FALSE, TRUE, FALSE),
     Deployed(TRUE, TRUE, FALSE, FALSE), Deployed(TRUE, TRUE, TRUE, TRUE)}

\* Those where nothing goes wrong.
MCFaultless == {d \in MCDeployments : ~d.faults}

=============================================================================
