---------------------------- MODULE MCJobControl ----------------------------
(***************************************************************************)
(* JobControl on small instances: executions are interchangeable.          *)
(***************************************************************************)
EXTENDS JobControl, TLC

Symmetry == Permutations(Runs)

=============================================================================
