----------------------------- MODULE MCCreditPools -----------------------------
EXTENDS CreditPools, TLC
CONSTANTS t1, t2, c1, v1, v2, k1, f1, f2

\* Estimates above and below the grant: both tiers, and races of two askers.
MCAmount == t1 :> 4 @@ t2 :> 3 @@ c1 :> 2 @@ v1 :> 3 @@ v2 :> 5 @@ k1 :> 3
===============================================================================
