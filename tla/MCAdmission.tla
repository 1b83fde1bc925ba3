----------------------------- MODULE MCAdmission -----------------------------
(* The instance of Admission that TLC checks: handlers are interchangeable. *)
EXTENDS Admission, TLC

Symmetry == Permutations(Handlers)
==============================================================================
