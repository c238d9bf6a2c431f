------------------------------ MODULE FaultPool ------------------------------
(***************************************************************************)
(* The fault pool ledger (billing/fault_pool.py, billing/pool_store.py):   *)
(* the platform's account that takes penalties, forfeitures and the        *)
(* platform's share, and pays the rewards of locked contributions.         *)
(*                                                                         *)
(* The balance is the sum of the ledger.  A disbursement reads it in one   *)
(* transaction, reads it again in a second and inserts its debit in a      *)
(* third, so requests served by other threads come in between.             *)
(*                                                                         *)
(* Amounts are integers, one for each 0.0001 credit, the precision to      *)
(* which the code rounds.  The balance_after column and the routing        *)
(* settings that _maybe_handle_depletion tunes are left out: no operation  *)
(* of the ledger reads them.                                               *)
(***************************************************************************)
EXTENDS Integers, FiniteSets

CONSTANTS
    Workers,    \* threads that serve requests or maintenance
    Rewards,    \* sizes of rewards asked for
    Receipts,   \* sizes of the credits other parts book
    MaxFault    \* bound: nothing is asked or booked beyond this balance

ASSUME RewardsAssumption == Rewards \subseteq Nat /\ Receipts \subseteq Nat
ASSUME WorkersAssumption == IsFiniteSet(Workers) /\ Workers # {}

VARIABLES
    fault,      \* SUM(credit) - SUM(debit) of fault_pool_ledger
    draw        \* draw[w]: where w stands inside disburse_for_lock_reward

poolVars == <<fault, draw>>

-----------------------------------------------------------------------------
NoDraw == [at |-> "idle", take |-> 0, short |-> 0]

(* at: "quoted"    share and shortfall computed from the first read         *)
(*     "debiting"  fault_pool_debit has read the balance, insert follows    *)
(*     "short"     the shortfall is still to be booked                      *)
Draw == [at : {"idle", "quoted", "debiting", "short"}, take : Int, short : Nat]

PoolInit ==
    /\ fault = 0
    /\ draw = [w \in Workers |-> NoDraw]

Lesser(x, y) == IF x < y THEN x ELSE y

(* What is left to do once the share has been debited, or could not be.    *)
Remainder(d) == IF d.short > 0 THEN [at |-> "short", take |-> 0, short |-> d.short] ELSE NoDraw

\* Mutant: the shortfall with its sign turned.
ShortfallTurned(reward, share) == share - reward
Shortfall(reward, share) == reward - share

(* disburse_for_lock_reward reads the balance and splits the reward.        *)
Quote(w, reward) ==
    /\ draw[w] = NoDraw
    /\ reward > 0
    /\ LET share == Lesser(reward, fault)
       IN  draw' = [draw EXCEPT ![w] =
                      [at |-> IF share > 0 THEN "quoted" ELSE "short",
                       take |-> IF share > 0 THEN share ELSE 0,
                       short |-> Shortfall(reward, share)]]
    /\ UNCHANGED fault

(* fault_pool_debit reads the balance for itself and caps the share.        *)
ReadForDebit(w) ==
    /\ draw[w].at = "quoted"
    /\ LET disbursed == Lesser(draw[w].take, fault)
       IN  draw' = [draw EXCEPT ![w] =
                      IF disbursed > 0 THEN [@ EXCEPT !.at = "debiting", !.take = disbursed]
                                       ELSE Remainder(@)]
    /\ UNCHANGED fault

\* Mutant: the debit is the whole reward.
DebitWhole(d) == d.take + d.short
Debit(d) == d.take

(* ... and inserts the debit in a transaction of its own.                   *)
PostDebit(w) ==
    /\ draw[w].at = "debiting"
    /\ fault' = fault - Debit(draw[w])
    /\ draw' = [draw EXCEPT ![w] = Remainder(@)]

(* The platform's share of the reward is booked as a credit.                *)
PostShortfall(w) ==
    /\ draw[w].at = "short"
    /\ fault' = fault + draw[w].short
    /\ draw' = [draw EXCEPT ![w] = NoDraw]

(* fault_pool_credit: one insert.                                           *)
Receive(amount) == fault' = fault + amount

DrawStep(w) == ReadForDebit(w) \/ PostDebit(w) \/ PostShortfall(w)

PoolNext ==
    \/ \E w \in Workers : DrawStep(w) \/ \E r \in Rewards : fault <= MaxFault /\ Quote(w, r)
    \/ \E c \in Receipts : fault + c <= MaxFault /\ Receive(c) /\ UNCHANGED draw

PoolSpec == PoolInit /\ [][PoolNext]_poolVars

-----------------------------------------------------------------------------
PoolTypeOK ==
    /\ fault \in Int
    /\ draw \in [Workers -> Draw]

(* "Rewards are paid from the fault pool first; the platform makes up the  *)
(* difference" (docs/architecture/credit-pools-lifecycle.md, line 124):    *)
(* a disbursement never takes more than the pool holds.                    *)
NeverOverdrawn == fault >= 0

(* Threads that race overdraw the pool by no more than one reward for each  *)
(* thread but the first, for as long as the service runs: the second read   *)
(* and the shortfalls of later rewards keep the debt from growing.          *)
OverdraftBounded ==
    \A most \in Rewards : (\A r \in Rewards : r <= most) =>
        fault >= -((Cardinality(Workers) - 1) * most)
=============================================================================
