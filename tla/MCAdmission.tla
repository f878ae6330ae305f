---------------------------- MODULE MCAdmission ----------------------------
(***************************************************************************)
(* Admission on small instances: ids, tenants and requests are             *)
(* interchangeable.                                                        *)
(***************************************************************************)
EXTENDS Admission, TLC

Symmetry == Permutations(Jobs) \union Permutations(Owners) \union Permutations(Requests)

=============================================================================
