------------------------------ MODULE MCAdmission ------------------------------
(***************************************************************************)
(* Instances of Admission for TLC.                                         *)
(***************************************************************************)
EXTENDS Admission, TLC

Symmetric == Permutations(Requests)
===============================================================================
