----------------------------- MODULE MCFaultPool -----------------------------
(* Instances of FaultPool for TLC. *)
EXTENDS FaultPool, TLC

Symmetry == Permutations(Workers)
=============================================================================
