------------------------- MODULE MCContributionLocks -------------------------
(* Instances of ContributionLocks for TLC.  A total of 10 is paid as 3, 3,  *)
(* 4 with rewards 1, 1, 1; 11 as 4, 4, 3.                                   *)
EXTENDS ContributionLocks, TLC

ExactSums == {0}
DoubleSums == -1..1
Symmetry == Permutations(Locks) \cup Permutations(Workers)
=============================================================================
