----------------------- MODULE ContributionLocksProofs -----------------------
(***************************************************************************)
(* Proofs about ContributionLocks, for all sets of accounts, keys, plans,  *)
(* appeals, threads and amounts.                                           *)
(*                                                                         *)
(* LockedBacksPlans adds up the claims that running plans and half-done    *)
(* locks have on a balance.  Its proof follows each claim from LockCredit  *)
(* to the last payment; PeriodsExhaustPrincipal is the arithmetic it rests *)
(* on and SumTheorems says how the sum moves when one claim does.          *)
(***************************************************************************)
EXTENDS ContributionLocks, SumTheorems

-----------------------------------------------------------------------------
(* Arithmetic                                                              *)

LEMMA RoundedThird ==
    ASSUME NEW n \in Nat
    PROVE  /\ Rounded(n, 3) \in Nat
           /\ 2 * Rounded(n, 3) <= n
  BY DEF Rounded

LEMMA RoundedHundredth ==
    ASSUME NEW n \in Nat
    PROVE  Rounded(n, 100) \in Nat
  BY DEF Rounded

(* A fifth of a balance is no more than the balance. *)
LEMMA RoundedFifth ==
    ASSUME NEW n \in Nat
    PROVE  n - Rounded(n, 5) \in Nat
  BY DEF Rounded

LEMMA ProductNat ==
    ASSUME NEW x \in Nat, NEW y \in Nat
    PROVE  x * y \in Nat
  OBVIOUS

LEMMA NonNegativeType ==
    ASSUME NEW n \in Int
    PROVE  NonNegative(n) \in Nat /\ (n >= 0 => NonNegative(n) = n)
  BY DEF NonNegative

(* The amounts that plans are settled with are natural numbers. *)
LEMMA PlanAmounts ==
    ASSUME NEW p \in Plan
    PROVE  /\ UnpaidPrincipal(p) \in Nat
           /\ UnpaidReward(p) \in Nat
           /\ Rounded(p.total * 5, 100) \in Nat
  <1>1. p.total \in Nat /\ p.bonus \in Nat /\ p.paid \in Nat
    BY DEF Plan
  <1>2. Instalment(p) \in Nat
    BY <1>1, RoundedThird DEF Instalment
  <1>3. Instalment(p) * p.paid \in Nat
    BY <1>1, <1>2, ProductNat
  <1>4. UnpaidPrincipal(p) \in Nat
    <2>1. p.total - Instalment(p) * p.paid \in Int
      BY <1>1, <1>3
    <2> QED
      BY <2>1, NonNegativeType DEF UnpaidPrincipal
  <1>5. RewardTotal(p) \in Nat
    <2>1. p.total * p.bonus \in Nat
      BY <1>1, ProductNat
    <2> QED
      BY <2>1, RoundedHundredth DEF RewardTotal
  <1>6. RewardPaid(p) \in Nat
    <2>1. RewardTotal(p) * p.paid \in Nat
      BY <1>1, <1>5, ProductNat
    <2> QED
      BY <2>1, RoundedThird DEF RewardPaid
  <1>7. UnpaidReward(p) \in Nat
    BY <1>5, <1>6, NonNegativeType DEF UnpaidReward
  <1>8. Rounded(p.total * 5, 100) \in Nat
    <2>1. p.total * 5 \in Nat
      BY <1>1
    <2> QED
      BY <2>1, RoundedHundredth
  <1> QED
    BY <1>4, <1>7, <1>8

(* Paying one of the first two periods takes from the locked balance       *)
(* exactly what the plan then claims less, and the last takes all that is   *)
(* left: its principal makes good the rounding of the first two.  This is   *)
(* why LockedBacksPlans survives a payment (_pay_installment_period).       *)
THEOREM PeriodsExhaustPrincipal ==
    ASSUME NEW p \in Plan, p.paid < 3
    PROVE  /\ PeriodPrincipal(p) \in Nat
           /\ p.paid < 2 => UnpaidPrincipal(PaidPeriod(p)) =
                              UnpaidPrincipal(p) - PeriodPrincipal(p)
           /\ p.paid = 2 => PeriodPrincipal(p) = UnpaidPrincipal(p)
  <1> DEFINE third == Instalment(p)
  <1>1. p.total \in Nat /\ p.paid \in {0, 1, 2}
    BY DEF Plan
  <1>2. third \in Nat /\ 2 * third <= p.total
    BY <1>1, RoundedThird DEF Instalment
  <1>3. /\ PaidPeriod(p).total = p.total
        /\ PaidPeriod(p).paid = p.paid + 1
    BY DEF PaidPeriod, Plan
  <1>4. Instalment(PaidPeriod(p)) = third
    BY <1>3 DEF Instalment
  <1>5. UnpaidPrincipal(PaidPeriod(p)) = NonNegative(p.total - third * (p.paid + 1))
    BY <1>3, <1>4 DEF UnpaidPrincipal
  <1>6. UnpaidPrincipal(p) = NonNegative(p.total - third * p.paid)
    BY DEF UnpaidPrincipal
  <1>7. PeriodPrincipal(p) = IF p.paid < 2 THEN third ELSE p.total - third * p.paid
    BY DEF PeriodPrincipal
  <1> HIDE DEF third
  <1>8. CASE p.paid = 0
    <2>1. third * p.paid = 0 /\ third * (p.paid + 1) = third
      BY <1>2, <1>8
    <2> QED
      BY <1>1, <1>2, <1>5, <1>6, <1>7, <1>8, <2>1 DEF NonNegative
  <1>9. CASE p.paid = 1
    <2>1. third * p.paid = third /\ third * (p.paid + 1) = 2 * third
      BY <1>2, <1>9
    <2>2. p.total - third \in Nat /\ p.total - 2 * third \in Nat
      BY <1>1, <1>2
    <2>3. UnpaidPrincipal(p) = p.total - third
      BY <1>6, <2>1, <2>2, NonNegativeType
    <2>4. UnpaidPrincipal(PaidPeriod(p)) = p.total - 2 * third
      BY <1>5, <2>1, <2>2, NonNegativeType
    <2> QED
      BY <1>1, <1>2, <1>7, <1>9, <2>3, <2>4
  <1>10. CASE p.paid = 2
    <2>1. third * p.paid = 2 * third
      BY <1>2, <1>10
    <2> QED
      BY <1>1, <1>2, <1>6, <1>7, <1>10, <2>1 DEF NonNegative
  <1> QED
    BY <1>1, <1>8, <1>9, <1>10

-----------------------------------------------------------------------------
(* The inductive invariant: types, and what links the tables               *)

(* A plan that exists has an owner. *)
PlansOwned == \A i \in Locks : plan[i].status # "none" => plan[i].owner \in Accounts

(* An amount on its way back to an account belongs to a forfeited plan. *)
RestoresForfeited ==
    \A w \in Workers : job[w].op = "restore" => plan[job[w].plan].status = "forfeited_key_failure"

AppealsKnown == \A q \in Appeals : appeal[q].status # "none" => appeal[q].plan \in Locks

IInv == TypeOK /\ PlansOwned /\ RestoresForfeited /\ AppealsKnown /\ AppealsMatchForfeiture

LEMMA NoPlanType == NoPlan \in Plan
  BY DEF NoPlan, Plan

LEMMA InitIInv == Init => IInv
  <1> SUFFICES ASSUME Init PROVE IInv
    OBVIOUS
  <1>2. NoAppeal \in Appeal
    BY DEF NoAppeal, Appeal
  <1>3. Idle \in Job /\ Idle.op = "idle"
    BY DEF Idle, Job
  <1>4. TypeOK
    BY <1>2, <1>3, NoPlanType, ResiduesAssumption, BoundsAssumption DEF Init, TypeOK
  <1>5. PlansOwned /\ RestoresForfeited /\ AppealsKnown /\ AppealsMatchForfeiture
    BY <1>3 DEF Init, NoPlan, NoAppeal, PlansOwned, RestoresForfeited, AppealsKnown,
                AppealsMatchForfeiture
  <1> QED
    BY <1>4, <1>5 DEF IInv

-----------------------------------------------------------------------------
(* Every step keeps the types                                              *)

(* What the operation of a thread says of the record that holds it. *)
LEMMA JobShape ==
    ASSUME TypeOK, NEW w \in Workers
    PROVE  /\ job[w].op \in {"debit", "credit", "install"} => job[w] \in LockJob
           /\ job[w].op = "forfeit" => job[w] \in ForfeitJob
           /\ job[w].op = "restore" => job[w] \in RestoreJob
  <1>1. job[w] \in Job
    BY DEF TypeOK
  <1> QED
    BY <1>1 DEF Job, Idle, LockJob, ForfeitJob, RestoreJob

(* A thread that goes to a job of the type leaves all jobs typed. *)
LEMMA GotoType ==
    ASSUME TypeOK, NEW w \in Workers, NEW j \in Job, Goto(w, j)
    PROVE  job' \in [Workers -> Job]
  BY DEF TypeOK, Goto

LEMMA IdleType == Idle \in Job
  BY DEF Job

(* The three transactions of lock_contribution. *)
LEMMA LockStepType ==
    ASSUME TypeOK, NEW w \in Workers, LockDebit(w) \/ LockCredit(w) \/ LockInstall(w)
    PROVE  TypeOK'
  <1>1. CASE LockDebit(w)
    <2>1. job[w] \in LockJob
      BY <1>1, JobShape DEF LockDebit, At
    <2>2. [job[w] EXCEPT !.op = "credit"] \in Job
      BY <2>1 DEF LockJob, Job
    <2>3. job' \in [Workers -> Job]
      BY <1>1, <2>2, GotoType, IdleType DEF LockDebit
    <2>4. unlocked' \in [Accounts -> Nat]
      BY <1>1, <2>1 DEF LockDebit, TypeOK, LockJob
    <2> QED
      BY <1>1, <2>3, <2>4 DEF LockDebit, TypeOK
  <1>2. CASE LockCredit(w)
    <2>1. job[w] \in LockJob
      BY <1>2, JobShape DEF LockCredit, At
    <2>2. [job[w] EXCEPT !.op = "install"] \in Job
      BY <2>1 DEF LockJob, Job
    <2>3. job' \in [Workers -> Job]
      BY <1>2, <2>2, GotoType DEF LockCredit
    <2>4. locked' \in [Accounts -> Nat]
      BY <1>2, <2>1 DEF LockCredit, TypeOK, LockJob
    <2>5. residue' \in [Accounts -> Residues]
      BY <1>2, <2>1, ResiduesAssumption DEF LockCredit, TypeOK, LockJob, ResidueOfCredit
    <2> QED
      BY <1>2, <2>3, <2>4, <2>5 DEF LockCredit, TypeOK
  <1>3. CASE LockInstall(w)
    <2>1. job[w] \in LockJob
      BY <1>3, JobShape DEF LockInstall, At
    <2>2. job' \in [Workers -> Job]
      BY <1>3, GotoType, IdleType DEF LockInstall
    <2>3. PICK i \in Locks, k \in Keys \cup {None} :
            plan' = [plan EXCEPT ![i] =
              [NoPlan EXCEPT !.status = "active", !.owner = job[w].acct, !.total = job[w].amount,
                             !.bonus = job[w].bonus, !.key = k]]
      BY <1>3 DEF LockInstall
    <2>4. job[w].acct \in Accounts /\ job[w].amount \in Nat /\ job[w].bonus \in Nat
      BY <2>1 DEF LockJob
    <2>5. [NoPlan EXCEPT !.status = "active", !.owner = job[w].acct, !.total = job[w].amount,
                         !.bonus = job[w].bonus, !.key = k] \in Plan
      BY <2>4, NoPlanType DEF Plan
    <2>6. plan' \in [Locks -> Plan]
      BY <2>3, <2>5 DEF TypeOK
    <2> QED
      BY <1>3, <2>2, <2>6 DEF LockInstall, TypeOK
  <1> QED
    BY <1>1, <1>2, <1>3

(* Balances that a transaction takes from stay natural numbers, because it  *)
(* takes what Covers says is there.                                         *)
LEMMA CoversLeaves ==
    ASSUME NEW balance \in Nat, NEW amount \in Nat, NEW sign, Covers(balance, sign, amount)
    PROVE  balance - amount \in Nat
  BY DEF Covers

LEMMA PaidPeriodType ==
    ASSUME NEW p \in Plan, p.paid < 3
    PROVE  PaidPeriod(p) \in Plan
  <1>1. p.paid + 1 \in 0..3
    BY DEF Plan
  <1>2. (IF p.paid = 2 THEN "completed" ELSE "active") \in {"none", "active"} \cup Ended
    BY DEF Ended
  <1> QED
    BY <1>1, <1>2 DEF PaidPeriod, Plan

(* process_lock_installments: the guard leaves no balance below zero. *)
LEMMA PayType ==
    ASSUME TypeOK, NEW payees, NEW force, PayPeriods(payees, force)
    PROVE  TypeOK'
  <1>1. PICK S \in SUBSET Payable(payees, force) \ {{}}, signs \in [Accounts -> Residues] :
           /\ \A a \in Accounts : locked[a] - PeriodsOf(OwnedBy(a, S)) \in Nat
           /\ locked' = [a \in Accounts |-> locked[a] - PeriodsOf(OwnedBy(a, S))]
           /\ residue' = signs
           /\ plan' = [i \in Locks |-> IF i \in S THEN PaidPeriod(plan[i]) ELSE plan[i]]
    BY DEF PayPeriods
  <1>2. \A i \in S : i \in Locks /\ plan[i].paid < 3
    BY DEF Payable
  <1>3. \A i \in S : PaidPeriod(plan[i]) \in Plan
    BY <1>2, PaidPeriodType DEF TypeOK
  <1>4. plan' \in [Locks -> Plan]
    BY <1>1, <1>3 DEF TypeOK
  <1>5. locked' \in [Accounts -> Nat] /\ residue' \in [Accounts -> Residues]
    BY <1>1
  <1> QED
    BY <1>4, <1>5 DEF PayPeriods, TypeOK

(* early_unlock_installment *)
LEMMA EarlyUnlockType ==
    ASSUME TypeOK, PlansOwned, NEW i \in Locks, EarlyUnlock(i)
    PROVE  TypeOK'
  <1> DEFINE p       == plan[i]
             unpaid  == UnpaidPrincipal(p)
             penalty == Rounded(p.total * 5, 100)
             forfeit == UnpaidReward(p) + penalty
  <1>1. p \in Plan /\ p.owner \in Accounts
    BY DEF TypeOK, PlansOwned, EarlyUnlock, Active
  <1>2. unpaid \in Nat /\ penalty \in Nat /\ forfeit \in Nat
    BY <1>1, PlanAmounts
  <1>3. NonNegative(unpaid - penalty) \in Nat
    BY <1>2, NonNegativeType
  <1>4. /\ unpaid > 0 => Covers(locked[p.owner], residue[p.owner], unpaid)
        /\ locked' = [locked EXCEPT ![p.owner] = @ - unpaid]
        /\ \E s \in ResidueOfDebit(p.owner, unpaid) : residue' = [residue EXCEPT ![p.owner] = s]
        /\ unlocked' = [unlocked EXCEPT ![p.owner] = @ + NonNegative(unpaid - penalty)]
        /\ plan' = [plan EXCEPT ![i].status = "early_unlocked", ![i].due = FALSE,
                                ![i].forfeited = forfeit]
    BY DEF EarlyUnlock, DebitLocked
  <1> HIDE DEF unpaid, penalty, forfeit
  <1>5. locked' \in [Accounts -> Nat]
    BY <1>1, <1>2, <1>4, CoversLeaves DEF TypeOK
  <1>6. residue' \in [Accounts -> Residues]
    BY <1>1, <1>4 DEF TypeOK, ResidueOfDebit
  <1>7. unlocked' \in [Accounts -> Nat]
    BY <1>1, <1>3, <1>4 DEF TypeOK
  <1>8. plan' \in [Locks -> Plan]
    BY <1>1, <1>2, <1>4 DEF TypeOK, Plan, Ended
  <1> QED
    BY <1>5, <1>6, <1>7, <1>8 DEF EarlyUnlock, TypeOK

(* forfeit_installment_key_failure *)
LEMMA ForfeitType ==
    ASSUME TypeOK, PlansOwned, NEW w \in Workers, NEW i \in Locks, Forfeit(w, i)
    PROVE  TypeOK'
  <1> DEFINE p      == plan[i]
             a      == p.owner
             unpaid == UnpaidPrincipal(p)
             full   == unpaid = 0 \/ Covers(locked[a], residue[a], unpaid)
             taken  == Taken(locked[a], unpaid, full)
             empty  == locked[a] = 0 /\ residue[a] = 0
             lost   == UnpaidReward(p) + IF empty THEN unpaid ELSE taken
  <1>1. p \in Plan /\ a \in Accounts
    BY DEF TypeOK, PlansOwned, Forfeit, Forfeitable, Active
  <1>2. unpaid \in Nat /\ UnpaidReward(p) \in Nat
    BY <1>1, PlanAmounts
  <1>3. locked[a] \in Nat
    BY <1>1 DEF TypeOK
  <1>4. job[w] \in ForfeitJob
    BY JobShape DEF Forfeit, At
  <1>5. /\ locked' = [locked EXCEPT ![a] = @ - taken]
        /\ \E s \in IF full THEN ResidueOfDebit(a, taken) ELSE {0} :
             residue' = [residue EXCEPT ![a] = s]
        /\ plan' = [plan EXCEPT ![i].status = "forfeited_key_failure", ![i].due = FALSE,
                                ![i].forfeited = lost, ![i].window = TRUE]
        /\ Goto(w, IF job[w].todo = {i} THEN Idle ELSE [job[w] EXCEPT !.todo = @ \ {i}])
    BY DEF Forfeit
  <1> HIDE DEF unpaid
  <1>6. taken \in Nat /\ locked[a] - taken \in Nat
    BY <1>2, <1>3, CoversLeaves DEF Taken
  <1>7. lost \in Nat
    BY <1>2, <1>6
  <1> HIDE DEF taken, lost, full
  <1>8. locked' \in [Accounts -> Nat]
    BY <1>1, <1>5, <1>6 DEF TypeOK
  <1>9. residue' \in [Accounts -> Residues]
    BY <1>1, <1>5, ResiduesAssumption DEF TypeOK, ResidueOfDebit
  <1>10. plan' \in [Locks -> Plan]
    BY <1>1, <1>5, <1>7 DEF TypeOK, Plan, Ended
  <1>11. [job[w] EXCEPT !.todo = @ \ {i}] \in Job
    BY <1>4 DEF ForfeitJob, Job
  <1>12. job' \in [Workers -> Job]
    BY <1>5, <1>11, IdleType, GotoType
  <1> QED
    BY <1>8, <1>9, <1>10, <1>12 DEF Forfeit, TypeOK

(* All steps of a thread that serves a request already begun. *)
LEMMA JobStepType ==
    ASSUME TypeOK, PlansOwned, RestoresForfeited, NEW w \in Workers, JobStep(w)
    PROVE  TypeOK'
  <1>1. CASE LockDebit(w) \/ LockCredit(w) \/ LockInstall(w)
    BY <1>1, LockStepType
  <1>2. CASE ForfeitRaises(w)
    <2>1. job' \in [Workers -> Job]
      BY <1>2, GotoType, IdleType DEF ForfeitRaises
    <2> QED
      BY <1>2, <2>1 DEF ForfeitRaises, TypeOK
  <1>3. CASE Restore(w)
    <2>1. job[w] \in RestoreJob
      BY <1>3, JobShape DEF Restore, At
    <2>2. job[w].plan \in Locks /\ job[w].amount \in Nat
      BY <2>1 DEF RestoreJob
    <2>3. job' \in [Workers -> Job]
      BY <1>3, GotoType, IdleType DEF Restore
    <2>4. plan[job[w].plan].owner \in Accounts
      BY <1>3, <2>2 DEF Restore, At, RestoresForfeited, PlansOwned
    <2>5. unlocked' \in [Accounts -> Nat]
      BY <1>3, <2>2, <2>4 DEF Restore, TypeOK
    <2>6. restored' \in [Locks -> Nat]
      BY <1>3, <2>2 DEF Restore, TypeOK
    <2> QED
      BY <1>3, <2>3, <2>5, <2>6 DEF Restore, TypeOK
  <1>4. CASE \E i \in Locks : Forfeit(w, i)
    BY <1>4, ForfeitType
  <1> QED
    BY <1>1, <1>2, <1>3, <1>4 DEF JobStep

(* Requests that start a job. *)
LEMMA BeginType ==
    ASSUME TypeOK, AppealsKnown, NEW w \in Workers, Begin(w)
    PROVE  TypeOK'
  <1>1. CASE \E a \in Accounts : LockRequest(w, a)
    <2>1. PICK a \in Accounts : LockRequest(w, a)
      BY <1>1
    <2>2. PICK x \in Amounts, b \in Bonuses :
            Goto(w, [op |-> "debit", acct |-> a, amount |-> x, bonus |-> b])
      BY <2>1 DEF LockRequest
    <2>3. [op |-> "debit", acct |-> a, amount |-> x, bonus |-> b] \in Job
      BY InputsAssumption DEF Job, LockJob
    <2>4. job' \in [Workers -> Job]
      BY <2>2, <2>3, GotoType
    <2> QED
      BY <2>1, <2>4 DEF LockRequest, TypeOK
  <1>2. CASE \E k \in Keys : KeyFails(w, k)
    <2>1. PICK k \in Keys : KeyFails(w, k)
      BY <1>2
    <2>2. [op |-> "forfeit", todo |-> {i \in Locks : Active(i) /\ plan[i].key = k}] \in Job
      BY DEF Job, ForfeitJob
    <2>3. job' \in [Workers -> Job]
      BY <2>1, <2>2, GotoType DEF KeyFails
    <2> QED
      BY <2>1, <2>3 DEF KeyFails, TypeOK
  <1>3. CASE \E q \in Appeals : Resolve(w, q)
    <2>1. PICK q \in Appeals : Resolve(w, q)
      BY <1>3
    <2>2. appeal[q] \in Appeal /\ appeal[q].plan \in Locks
      BY <2>1 DEF TypeOK, AppealsKnown, Resolve
    <2>3. [op |-> "restore", plan |-> appeal[q].plan, amount |-> appeal[q].amount] \in Job
      BY <2>2 DEF Job, RestoreJob, Appeal
    <2>4. job' \in [Workers -> Job]
      BY <2>1, <2>3, GotoType DEF Resolve, TypeOK
    <2>5. appeal' \in [Appeals -> Appeal]
      BY <2>1, <2>2 DEF Resolve, TypeOK, Appeal
    <2> QED
      BY <2>1, <2>4, <2>5 DEF Resolve, TypeOK
  <1> QED
    BY <1>1, <1>2, <1>3 DEF Begin

(* Requests of one transaction. *)
LEMMA RequestType ==
    ASSUME TypeOK, PlansOwned, Request
    PROVE  TypeOK'
  <1>1. CASE \E a \in Accounts : Earn(a)
    <2>1. PICK a \in Accounts, e \in Earnings :
            Earn(a) /\ unlocked' = [unlocked EXCEPT ![a] = @ + e]
      BY <1>1 DEF Earn
    <2>2. unlocked' \in [Accounts -> Nat]
      BY <2>1, InputsAssumption DEF TypeOK
    <2> QED
      BY <2>1, <2>2 DEF Earn, TypeOK
  <1>2. CASE \E a \in Accounts : Convert(a)
    <2>1. PICK a \in Accounts, x \in Amounts :
            Convert(a) /\ x <= unlocked[a] /\ unlocked' = [unlocked EXCEPT ![a] = @ - x]
      BY <1>2 DEF Convert
    <2>2. x \in Nat /\ unlocked[a] \in Nat
      BY InputsAssumption DEF TypeOK
    <2>3. unlocked' \in [Accounts -> Nat]
      BY <2>1, <2>2 DEF TypeOK
    <2> QED
      BY <2>1, <2>3 DEF Convert, TypeOK
  <1>3. CASE \E a \in Accounts : PayOnRequest(a)
    BY <1>3, PayType DEF PayOnRequest
  <1>4. CASE \E i \in Locks : EarlyUnlock(i)
    BY <1>4, EarlyUnlockType
  <1>5. CASE \E q \in Appeals, i \in Locks : FileAppeal(q, i)
    <2>1. PICK q \in Appeals, i \in Locks : FileAppeal(q, i)
      BY <1>5
    <2>2. [status |-> "pending", plan |-> i, amount |-> plan[i].forfeited] \in Appeal
      BY DEF TypeOK, Plan, Appeal
    <2> QED
      BY <2>1, <2>2 DEF FileAppeal, TypeOK
  <1> QED
    BY <1>1, <1>2, <1>3, <1>4, <1>5 DEF Request

(* Dates that pass. *)
LEMMA ClockType ==
    ASSUME TypeOK, Clock
    PROVE  TypeOK'
  <1>1. CASE \E a \in Accounts : HalfLifePasses(a)
    BY <1>1 DEF HalfLifePasses, TypeOK
  <1>2. CASE \E i \in Locks : DueDatePasses(i)
    <2>1. PICK i \in Locks : DueDatePasses(i)
      BY <1>2
    <2>2. [plan[i] EXCEPT !.due = TRUE] \in Plan
      BY DEF TypeOK, Plan
    <2>3. plan' = [plan EXCEPT ![i] = [plan[i] EXCEPT !.due = TRUE]]
      BY <2>1 DEF DueDatePasses, TypeOK
    <2>4. plan' \in [Locks -> Plan]
      BY <2>2, <2>3 DEF TypeOK
    <2> QED
      BY <2>1, <2>4 DEF DueDatePasses, TypeOK
  <1>3. CASE \E i \in Locks : WindowCloses(i)
    <2>1. PICK i \in Locks : WindowCloses(i)
      BY <1>3
    <2>2. [plan[i] EXCEPT !.window = FALSE] \in Plan
      BY DEF TypeOK, Plan
    <2>3. plan' = [plan EXCEPT ![i] = [plan[i] EXCEPT !.window = FALSE]]
      BY <2>1 DEF WindowCloses, TypeOK
    <2>4. plan' \in [Locks -> Plan]
      BY <2>2, <2>3 DEF TypeOK
    <2> QED
      BY <2>1, <2>4 DEF WindowCloses, TypeOK
  <1> QED
    BY <1>1, <1>2, <1>3 DEF Clock

LEMMA NextType == IInv /\ [Next]_vars => TypeOK'
  <1> SUFFICES ASSUME IInv, [Next]_vars PROVE TypeOK'
    OBVIOUS
  <1>0. TypeOK /\ PlansOwned /\ RestoresForfeited /\ AppealsKnown
    BY DEF IInv
  <1>1. CASE \E w \in Workers : JobStep(w) \/ Begin(w)
    BY <1>0, <1>1, JobStepType, BeginType
  <1>2. CASE Request
    BY <1>0, <1>2, RequestType
  <1>3. CASE Maintain
    BY <1>0, <1>3, PayType DEF Maintain
  <1>4. CASE Decay
    BY <1>0, <1>4, RoundedFifth DEF Decay, TypeOK
  <1>5. CASE Clock
    BY <1>0, <1>5, ClockType
  <1>6. CASE Restart
    BY <1>0, <1>6, IdleType, BoundsAssumption DEF Restart, TypeOK
  <1>7. CASE UNCHANGED vars
    BY <1>0, <1>7 DEF vars, TypeOK
  <1> QED
    BY <1>1, <1>2, <1>3, <1>4, <1>5, <1>6, <1>7 DEF Next

-----------------------------------------------------------------------------
(* What a step may do to a plan                                            *)

(* An ended plan keeps how it ended, a plan keeps its owner and a new one   *)
(* has one.                                                                 *)
Kept(i) ==
    /\ plan[i].status \in Ended =>
         /\ plan'[i].status = plan[i].status
         /\ plan'[i].paid = plan[i].paid
         /\ plan'[i].forfeited = plan[i].forfeited
    /\ plan[i].status # "none" =>
         /\ plan'[i].status # "none"
         /\ plan'[i].owner = plan[i].owner
    /\ plan[i].status = "none" => plan'[i].status = "none" \/ plan'[i].owner \in Accounts

(* Only running plans are settled, and only unused rows become plans. *)
LEMMA PlanKept ==
    ASSUME IInv, [Next]_vars, NEW i \in Locks
    PROVE  Kept(i)
  <1>1. TypeOK /\ plan[i] \in Plan
    BY DEF IInv, TypeOK
  <1>2. CASE UNCHANGED plan
    BY <1>2 DEF Kept
  <1>3. CASE \E w \in Workers : LockInstall(w)
    <2>1. PICK w \in Workers, l \in Locks, k \in Keys \cup {None} :
            /\ At(w, "install")
            /\ plan[l].status = "none"
            /\ plan' = [plan EXCEPT ![l] =
                 [NoPlan EXCEPT !.status = "active", !.owner = job[w].acct, !.total = job[w].amount,
                                !.bonus = job[w].bonus, !.key = k]]
      BY <1>3 DEF LockInstall
    <2>2. job[w].acct \in Accounts
      BY <1>1, <2>1, JobShape DEF At, LockJob
    <2> QED
      BY <1>1, <2>1, <2>2 DEF Kept, Ended, TypeOK, NoPlan
  <1>4. CASE \E w \in Workers, l \in Locks : Forfeit(w, l)
    BY <1>1, <1>4 DEF Forfeit, Forfeitable, Active, Kept, Ended, TypeOK, Plan
  <1>5. CASE \E l \in Locks : EarlyUnlock(l)
    BY <1>1, <1>5 DEF EarlyUnlock, Active, Kept, Ended, TypeOK, Plan
  <1>6. CASE \E l \in Locks : DueDatePasses(l)
    BY <1>1, <1>6 DEF DueDatePasses, Active, Kept, Ended, TypeOK, Plan
  <1>7. CASE \E l \in Locks : WindowCloses(l)
    BY <1>1, <1>7 DEF WindowCloses, Kept, Ended, TypeOK, Plan
  <1>8. ASSUME NEW payees, NEW force, PayPeriods(payees, force) PROVE Kept(i)
    <2>1. PICK S \in SUBSET Payable(payees, force) \ {{}} :
            plan' = [l \in Locks |-> IF l \in S THEN PaidPeriod(plan[l]) ELSE plan[l]]
      BY <1>8 DEF PayPeriods
    <2>2. i \in S => plan[i].status = "active"
      BY DEF Payable, Active
    <2>3. /\ PaidPeriod(plan[i]).status # "none"
          /\ PaidPeriod(plan[i]).owner = plan[i].owner
      BY <1>1 DEF PaidPeriod, Plan
    <2> QED
      BY <2>1, <2>2, <2>3 DEF Kept, Ended
  <1> QED
    BY <1>2, <1>3, <1>4, <1>5, <1>6, <1>7, <1>8
       DEF Next, vars, JobStep, Begin, Request, Maintain, PayOnRequest, Clock, Earn, Convert, Decay,
           HalfLifePasses, LockRequest, LockDebit, LockCredit, KeyFails, ForfeitRaises, FileAppeal,
           Resolve, Restore, Restart

LEMMA PlansOwnedStep == IInv /\ [Next]_vars => PlansOwned'
  <1> SUFFICES ASSUME IInv, [Next]_vars, NEW i \in Locks, plan'[i].status # "none"
               PROVE  plan'[i].owner \in Accounts
    BY DEF PlansOwned
  <1>1. Kept(i)
    BY PlanKept
  <1> QED
    BY <1>1 DEF Kept, IInv, PlansOwned

-----------------------------------------------------------------------------
(* What a step may do to an appeal and to a restoration                    *)

(* An appeal keeps its plan and its amount; a new one takes them from a     *)
(* forfeited plan.                                                          *)
LEMMA AppealKept ==
    ASSUME IInv, [Next]_vars, NEW q \in Appeals, appeal'[q].status # "none"
    PROVE  \/ /\ appeal[q].status # "none"
              /\ appeal'[q].plan = appeal[q].plan
              /\ appeal'[q].amount = appeal[q].amount
           \/ /\ UNCHANGED plan
              /\ \E i \in Locks : /\ plan[i].status = "forfeited_key_failure"
                                  /\ appeal'[q].plan = i
                                  /\ appeal'[q].amount = plan[i].forfeited
  <1>1. TypeOK
    BY DEF IInv
  <1>2. CASE UNCHANGED appeal
    BY <1>2
  <1>3. CASE \E r \in Appeals, i \in Locks : FileAppeal(r, i)
    BY <1>1, <1>3 DEF FileAppeal, Appealable, TypeOK
  <1>4. CASE \E w \in Workers, r \in Appeals : Resolve(w, r)
    <2>1. PICK r \in Appeals : appeal[r].status # "none"
                              /\ appeal' = [appeal EXCEPT ![r].status = "resolved"]
      BY <1>4 DEF Resolve
    <2>2. appeal[r] \in Appeal
      BY <1>1 DEF TypeOK
    <2> QED
      BY <1>1, <2>1, <2>2 DEF TypeOK, Appeal
  <1> QED
    BY <1>2, <1>3, <1>4
       DEF Next, vars, JobStep, Begin, Request, Maintain, PayOnRequest, PayPeriods, Clock, Earn,
           Convert, Decay, HalfLifePasses, LockRequest, LockDebit, LockCredit, LockInstall,
           DueDatePasses, EarlyUnlock, KeyFails, Forfeit, ForfeitRaises, WindowCloses, Restore, Restart

(* A thread starts to restore only for an appeal. *)
LEMMA RestoreBegins ==
    ASSUME IInv, [Next]_vars, NEW w \in Workers, job'[w].op = "restore"
    PROVE  \/ job'[w] = job[w]
           \/ \E q \in Appeals : appeal[q].status # "none" /\ job'[w].plan = appeal[q].plan
  <1>1. TypeOK
    BY DEF IInv
  <1>2. CASE UNCHANGED job
    BY <1>2
  <1>3. CASE Restart
    BY <1>3 DEF Restart, Idle
  <1>4. ASSUME NEW v \in Workers, NEW j, Goto(v, j), v = w => j.op # "restore"
        PROVE  job'[w] = job[w]
    BY <1>1, <1>4 DEF Goto, TypeOK
  <1>5. CASE \E v \in Workers : LockInstall(v) \/ ForfeitRaises(v) \/ Restore(v)
    BY <1>4, <1>5 DEF LockInstall, ForfeitRaises, Restore, Idle
  <1>6. CASE \E v \in Workers : LockDebit(v) \/ LockCredit(v)
    <2>1. PICK v \in Workers : LockDebit(v) \/ LockCredit(v)
      BY <1>6
    <2>2. job[v] \in LockJob
      BY <1>1, <2>1, JobShape DEF LockDebit, LockCredit, At
    <2>3. /\ [job[v] EXCEPT !.op = "credit"].op # "restore"
          /\ [job[v] EXCEPT !.op = "install"].op # "restore"
          /\ Idle.op # "restore"
      BY <2>2 DEF LockJob, Idle
    <2> QED
      BY <1>4, <2>1, <2>3 DEF LockDebit, LockCredit
  <1>7. CASE \E v \in Workers, i \in Locks : Forfeit(v, i)
    <2>1. PICK v \in Workers, i \in Locks : Forfeit(v, i)
      BY <1>7
    <2>2. job[v] \in ForfeitJob
      BY <1>1, <2>1, JobShape DEF Forfeit, At
    <2>3. [job[v] EXCEPT !.todo = @ \ {i}].op # "restore" /\ Idle.op # "restore"
      BY <2>2 DEF ForfeitJob, Idle
    <2>4. Goto(v, IF job[v].todo = {i} THEN Idle ELSE [job[v] EXCEPT !.todo = @ \ {i}])
      BY <2>1 DEF Forfeit
    <2> QED
      BY <1>4, <2>3, <2>4
  <1>8. CASE \E v \in Workers : (\E a \in Accounts : LockRequest(v, a)) \/ \E k \in Keys : KeyFails(v, k)
    BY <1>4, <1>8 DEF LockRequest, KeyFails
  <1>9. CASE \E v \in Workers, q \in Appeals : Resolve(v, q)
    <2>1. PICK v \in Workers, q \in Appeals : Resolve(v, q)
      BY <1>9
    <2>2. CASE v = w /\ ~UNCHANGED job
      BY <1>1, <2>1, <2>2 DEF Resolve, Goto, TypeOK
    <2>3. CASE v # w /\ ~UNCHANGED job
      BY <1>4, <2>1, <2>3 DEF Resolve
    <2> QED
      BY <1>2, <2>2, <2>3
  <1> QED
    BY <1>2, <1>3, <1>5, <1>6, <1>7, <1>8, <1>9
       DEF Next, vars, JobStep, Begin, Request, Maintain, PayOnRequest, PayPeriods, Clock, Earn,
           Convert, Decay, HalfLifePasses, DueDatePasses, EarlyUnlock, WindowCloses, FileAppeal

(* Only the thread that restores for a plan adds to what it restored. *)
LEMMA RestoredKept ==
    ASSUME IInv, [Next]_vars, NEW i \in Locks
    PROVE  \/ restored'[i] = restored[i]
           \/ \E w \in Workers : job[w].op = "restore" /\ job[w].plan = i
  <1>1. CASE UNCHANGED restored
    BY <1>1
  <1>2. CASE \E w \in Workers : Restore(w)
    BY <1>2 DEF Restore, At, IInv, TypeOK
  <1> QED
    BY <1>1, <1>2
       DEF Next, vars, JobStep, Begin, Request, Maintain, PayOnRequest, PayPeriods, Clock, Earn,
           Convert, Decay, HalfLifePasses, LockRequest, LockDebit, LockCredit, LockInstall,
           DueDatePasses, EarlyUnlock, KeyFails, Forfeit, ForfeitRaises, WindowCloses, FileAppeal,
           Resolve, Restart

LEMMA RestoresForfeitedStep == IInv /\ [Next]_vars => RestoresForfeited'
  <1> SUFFICES ASSUME IInv, [Next]_vars, NEW w \in Workers, job'[w].op = "restore"
               PROVE  plan'[job'[w].plan].status = "forfeited_key_failure"
    BY DEF RestoresForfeited
  <1>1. job'[w].plan \in Locks /\ plan[job'[w].plan].status = "forfeited_key_failure"
    <2>1. CASE job'[w] = job[w]
      BY <2>1, JobShape DEF IInv, RestoresForfeited, RestoreJob
    <2>2. CASE \E q \in Appeals : appeal[q].status # "none" /\ job'[w].plan = appeal[q].plan
      BY <2>2 DEF IInv, AppealsKnown, AppealsMatchForfeiture
    <2> QED
      BY <2>1, <2>2, RestoreBegins
  <1>2. Kept(job'[w].plan)
    BY <1>1, PlanKept
  <1> QED
    BY <1>1, <1>2 DEF Kept, Ended

LEMMA AppealsStep == IInv /\ [Next]_vars => (AppealsKnown /\ AppealsMatchForfeiture)'
  <1> SUFFICES ASSUME IInv, [Next]_vars
               PROVE  (AppealsKnown /\ AppealsMatchForfeiture)'
    OBVIOUS
  <1>1. ASSUME NEW q \in Appeals, appeal'[q].status # "none"
        PROVE  /\ appeal'[q].plan \in Locks
               /\ plan'[appeal'[q].plan].status = "forfeited_key_failure"
               /\ appeal'[q].amount = plan'[appeal'[q].plan].forfeited
    <2>1. CASE /\ appeal[q].status # "none"
               /\ appeal'[q].plan = appeal[q].plan
               /\ appeal'[q].amount = appeal[q].amount
      <3>1. /\ appeal[q].plan \in Locks
            /\ plan[appeal[q].plan].status = "forfeited_key_failure"
            /\ appeal[q].amount = plan[appeal[q].plan].forfeited
        BY <2>1 DEF IInv, AppealsKnown, AppealsMatchForfeiture
      <3>2. Kept(appeal[q].plan)
        BY <3>1, PlanKept
      <3> QED
        BY <2>1, <3>1, <3>2 DEF Kept, Ended
    <2>2. CASE UNCHANGED plan /\ \E i \in Locks : /\ plan[i].status = "forfeited_key_failure"
                                                 /\ appeal'[q].plan = i
                                                 /\ appeal'[q].amount = plan[i].forfeited
      BY <2>2
    <2> QED
      BY <1>1, <2>1, <2>2, AppealKept
  <1>2. ASSUME NEW i \in Locks, restored'[i] > 0
        PROVE  plan'[i].status = "forfeited_key_failure"
    <2>1. plan[i].status = "forfeited_key_failure"
      BY <1>2, RestoredKept DEF IInv, AppealsMatchForfeiture, RestoresForfeited
    <2>2. Kept(i)
      BY PlanKept
    <2> QED
      BY <2>1, <2>2 DEF Kept, Ended
  <1> QED
    BY <1>1, <1>2 DEF AppealsKnown, AppealsMatchForfeiture

LEMMA NextIInv == IInv /\ [Next]_vars => IInv'
  BY NextType, PlansOwnedStep, RestoresForfeitedStep, AppealsStep DEF IInv

-----------------------------------------------------------------------------
(* Sums over plans and threads                                             *)

(* The sums of the model as sums of functions, which SumTheorems is about.  *)
LEMMA PrincipalsSum ==
    ASSUME NEW T \in SUBSET Locks
    PROVE  MapThenSumSet(LAMBDA i : UnpaidPrincipal(plan[i]), T) =
             SumOf([i \in Locks |-> UnpaidPrincipal(plan[i])], T)
  <1> DEFINE f == [i \in Locks |-> UnpaidPrincipal(plan[i])]
             Step(g) == [s \in SUBSET T |-> IF s = {} THEN 0
                           ELSE UnpaidPrincipal(plan[CHOOSE x \in s : TRUE]) + g[s \ {CHOOSE x \in s : TRUE}]]
             it == CHOOSE g : g = Step(g)
  <1>1. MapThenSumSet(LAMBDA i : UnpaidPrincipal(plan[i]), T) = it[T]
    BY DEF MapThenSumSet, MapThenFoldSet
  <1>2. IsFiniteSet(T)
    BY FiniteAssumption, FS_Subset
  <1>3. \A s \in SUBSET T : s # {} => f[Chosen(s)] = UnpaidPrincipal(plan[CHOOSE x \in s : TRUE])
    BY DEF Chosen
  <1>4. ASSUME NEW g
        PROVE  Sums(g, f, T) <=> g = Step(g)
    BY <1>3 DEF Sums, Chosen
  <1>5. PICK g : Sums(g, f, T)
    BY <1>2, SumsExist
  <1> HIDE DEF f, Step
  <1>6. it = Step(it)
    BY <1>4, <1>5
  <1>7. Sums(it, f, T)
    BY <1>4, <1>6
  <1> QED
    BY <1>1, <1>2, <1>7, SumsUnique DEF f

(* ... those of the periods that a payment takes ...                         *)
LEMMA PeriodsSum ==
    ASSUME NEW T \in SUBSET Locks
    PROVE  MapThenSumSet(LAMBDA i : PeriodPrincipal(plan[i]), T) =
             SumOf([i \in Locks |-> PeriodPrincipal(plan[i])], T)
  <1> DEFINE f == [i \in Locks |-> PeriodPrincipal(plan[i])]
             Step(g) == [s \in SUBSET T |-> IF s = {} THEN 0
                           ELSE PeriodPrincipal(plan[CHOOSE x \in s : TRUE]) + g[s \ {CHOOSE x \in s : TRUE}]]
             it == CHOOSE g : g = Step(g)
  <1>1. MapThenSumSet(LAMBDA i : PeriodPrincipal(plan[i]), T) = it[T]
    BY DEF MapThenSumSet, MapThenFoldSet
  <1>2. IsFiniteSet(T)
    BY FiniteAssumption, FS_Subset
  <1>3. \A s \in SUBSET T : s # {} => f[Chosen(s)] = PeriodPrincipal(plan[CHOOSE x \in s : TRUE])
    BY DEF Chosen
  <1>4. ASSUME NEW g
        PROVE  Sums(g, f, T) <=> g = Step(g)
    BY <1>3 DEF Sums, Chosen
  <1>5. PICK g : Sums(g, f, T)
    BY <1>2, SumsExist
  <1> HIDE DEF f, Step
  <1>6. it = Step(it)
    BY <1>4, <1>5
  <1>7. Sums(it, f, T)
    BY <1>4, <1>6
  <1> QED
    BY <1>1, <1>2, <1>7, SumsUnique DEF f

(* ... and those of the locks that are still to be installed.               *)
LEMMA LoadsSum ==
    ASSUME NEW T \in SUBSET Workers
    PROVE  MapThenSumSet(LAMBDA w : job[w].amount, T) =
             SumOf([w \in Workers |-> job[w].amount], T)
  <1> DEFINE f == [w \in Workers |-> job[w].amount]
             Step(g) == [s \in SUBSET T |-> IF s = {} THEN 0
                           ELSE job[CHOOSE x \in s : TRUE].amount + g[s \ {CHOOSE x \in s : TRUE}]]
             it == CHOOSE g : g = Step(g)
  <1>1. MapThenSumSet(LAMBDA w : job[w].amount, T) = it[T]
    BY DEF MapThenSumSet, MapThenFoldSet
  <1>2. IsFiniteSet(T)
    BY FiniteAssumption, FS_Subset
  <1>3. \A s \in SUBSET T : s # {} => f[Chosen(s)] = job[CHOOSE x \in s : TRUE].amount
    BY DEF Chosen
  <1>4. ASSUME NEW g
        PROVE  Sums(g, f, T) <=> g = Step(g)
    BY <1>3 DEF Sums, Chosen
  <1>5. PICK g : Sums(g, f, T)
    BY <1>2, SumsExist
  <1> HIDE DEF f, Step
  <1>6. it = Step(it)
    BY <1>4, <1>5
  <1>7. Sums(it, f, T)
    BY <1>4, <1>6
  <1> QED
    BY <1>1, <1>2, <1>7, SumsUnique DEF f

(* What a plan, and a thread between LockCredit and LockInstall, claim of   *)
(* the locked balance of a.                                                 *)
Claim(p, a) == IF p.status = "active" /\ p.owner = a THEN UnpaidPrincipal(p) ELSE 0
Load(j, a) == IF j.op = "install" /\ j.acct = a THEN j.amount ELSE 0

Claims(a) == SumOf([i \in Locks |-> Claim(plan[i], a)], Locks)
Loads(a) == SumOf([w \in Workers |-> Load(job[w], a)], Workers)

(* LockedBacksPlans, said with functions.                                   *)
Backed(a) ==
    /\ locked[a] >= Claims(a) + Loads(a)
    /\ crashes = 0 => locked[a] = Claims(a) + Loads(a)

LEMMA ClaimType ==
    ASSUME TypeOK, NEW a
    PROVE  /\ \A i \in Locks : Claim(plan[i], a) \in Nat /\ Claim(plan[i], a) \in Int
           /\ \A w \in Workers : Load(job[w], a) \in Nat /\ Load(job[w], a) \in Int
  <1>1. \A i \in Locks : Claim(plan[i], a) \in Nat
    BY PlanAmounts DEF TypeOK, Claim
  <1>2. \A w \in Workers : Load(job[w], a) \in Nat
    BY JobShape DEF Load, LockJob
  <1> QED
    BY <1>1, <1>2

LEMMA ClaimsType ==
    ASSUME TypeOK, NEW a
    PROVE  /\ Claims(a) \in Nat /\ Loads(a) \in Nat
           /\ Claims(a) \in Int /\ Loads(a) \in Int
           /\ \A i \in Locks : Claim(plan[i], a) <= Claims(a)
  <1> DEFINE f == [i \in Locks |-> Claim(plan[i], a)]
             g == [w \in Workers |-> Load(job[w], a)]
  <1>1. /\ \A i \in Locks : f[i] = Claim(plan[i], a) /\ f[i] \in Nat /\ f[i] \in Int
        /\ \A w \in Workers : g[w] \in Nat /\ g[w] \in Int
    BY ClaimType
  <1>2. Claims(a) = SumOf(f, Locks) /\ Loads(a) = SumOf(g, Workers)
    BY DEF Claims, Loads
  <1> HIDE DEF f, g
  <1>3. \A i \in Locks : f[i] <= SumOf(f, Locks)
    BY <1>1, FiniteAssumption, SumOfTerm
  <1>4. SumOf(f, Locks) \in Nat /\ SumOf(g, Workers) \in Nat
    BY <1>1, FiniteAssumption, SumOfNat
  <1> QED
    BY <1>1, <1>2, <1>3, <1>4

(* One plan changes its claim; one thread its load.                         *)
LEMMA ClaimsChange ==
    ASSUME TypeOK, TypeOK', NEW a, NEW i \in Locks,
           \A l \in Locks \ {i} : Claim(plan'[l], a) = Claim(plan[l], a)
    PROVE  Claims(a)' = Claims(a) - Claim(plan[i], a) + Claim(plan'[i], a)
  <1> DEFINE f == [l \in Locks |-> Claim(plan[l], a)]
             g == [l \in Locks |-> Claim(plan'[l], a)]
  <1>1. \A l \in Locks : Claim(plan[l], a) \in Int /\ Claim(plan'[l], a) \in Int
    <2>1. \A l \in Locks : Claim(plan[l], a) \in Int
      BY ClaimType
    <2>2. \A l \in Locks : Claim(plan'[l], a) \in Int
      BY PlanAmounts DEF TypeOK, Claim
    <2> QED
      BY <2>1, <2>2
  <1>2. /\ \A l \in Locks : f[l] \in Int /\ g[l] \in Int
        /\ \A l \in Locks \ {i} : g[l] = f[l]
        /\ f[i] = Claim(plan[i], a) /\ g[i] = Claim(plan'[i], a)
    BY <1>1
  <1>3. Claims(a) = SumOf(f, Locks) /\ Claims(a)' = SumOf(g, Locks)
    BY DEF Claims
  <1> HIDE DEF f, g
  <1>4. SumOf(g, Locks) = SumOf(f, Locks) - f[i] + g[i]
    BY ONLY <1>2, i \in Locks, FiniteAssumption, SumOfChange
  <1> QED
    BY <1>2, <1>3, <1>4

LEMMA LoadsChange ==
    ASSUME TypeOK, TypeOK', NEW a, NEW w \in Workers,
           \A v \in Workers \ {w} : Load(job'[v], a) = Load(job[v], a)
    PROVE  Loads(a)' = Loads(a) - Load(job[w], a) + Load(job'[w], a)
  <1> DEFINE f == [v \in Workers |-> Load(job[v], a)]
             g == [v \in Workers |-> Load(job'[v], a)]
  <1>1. \A v \in Workers : Load(job[v], a) \in Int /\ Load(job'[v], a) \in Int
    <2>1. \A v \in Workers : Load(job[v], a) \in Int
      BY ClaimType
    <2>2. \A v \in Workers : job'[v] \in Job
      BY DEF TypeOK
    <2>3. \A v \in Workers : Load(job'[v], a) \in Int
      BY <2>2 DEF Load, Job, Idle, LockJob, ForfeitJob, RestoreJob
    <2> QED
      BY <2>1, <2>3
  <1>2. /\ \A y \in Workers : f[y] \in Int /\ g[y] \in Int
        /\ \A y \in Workers \ {w} : g[y] = f[y]
    BY <1>1
  <1>2a. IsFiniteSet(Workers)
    BY FiniteAssumption
  <1>2b. f[w] = Load(job[w], a) /\ g[w] = Load(job'[w], a)
    OBVIOUS
  <1>3. Loads(a) = SumOf(f, Workers) /\ Loads(a)' = SumOf(g, Workers)
    BY DEF Loads
  <1> HIDE DEF f, g
  <1>4. SumOf(g, Workers) = SumOf(f, Workers) - f[w] + g[w]
    BY ONLY <1>2, <1>2a, w \in Workers, SumOfChange
  <1> QED
    BY <1>2b, <1>3, <1>4

(* Nobody changes anything.                                                 *)
LEMMA SameClaims ==
    ASSUME NEW a, \A i \in Locks : Claim(plan'[i], a) = Claim(plan[i], a)
    PROVE  Claims(a)' = Claims(a)
  BY DEF Claims

LEMMA SameLoads ==
    ASSUME NEW a, \A w \in Workers : Load(job'[w], a) = Load(job[w], a)
    PROVE  Loads(a)' = Loads(a)
  BY DEF Loads

(* A step that moves the balance by what it moves the claims. *)
LEMMA BackedMove ==
    ASSUME TypeOK, TypeOK', NEW a \in Accounts, Backed(a), crashes' = crashes, NEW d \in Int,
           locked'[a] = locked[a] + d, Claims(a)' + Loads(a)' = Claims(a) + Loads(a) + d
    PROVE  Backed(a)'
  <1>1. /\ locked[a] \in Int /\ Claims(a) \in Int /\ Loads(a) \in Int
        /\ locked'[a] \in Int
    BY ClaimsType DEF TypeOK
  <1> QED
    BY <1>1 DEF Backed

LEMMA BackedQuiet ==
    ASSUME NEW a \in Accounts, Backed(a), UNCHANGED <<locked, crashes>>,
           \A i \in Locks : Claim(plan'[i], a) = Claim(plan[i], a),
           \A w \in Workers : Load(job'[w], a) = Load(job[w], a)
    PROVE  Backed(a)'
  <1>1. Claims(a)' = Claims(a) /\ Loads(a)' = Loads(a)
    BY SameClaims, SameLoads
  <1> QED
    BY <1>1 DEF Backed

(* Threads that neither start nor end between LockCredit and LockInstall.   *)
LEMMA GotoLoads ==
    ASSUME TypeOK, NEW a, NEW w \in Workers, NEW j, Goto(w, j), job[w].op # "install",
           j.op # "install"
    PROVE  \A v \in Workers : Load(job'[v], a) = Load(job[v], a)
  BY DEF Goto, TypeOK, Load

-----------------------------------------------------------------------------
(* The locked balance backs the plans: the inductive invariant              *)

(* A running plan has a period left. *)
PeriodLeft == \A i \in Locks : Active(i) => plan[i].paid < 3

BInv ==
    /\ \A a \in Accounts : Backed(a)
    /\ PeriodLeft
    /\ ForfeitedInFull

(* The balance covers each of the plans it backs: the branch of a key       *)
(* failure for one that does not is taken only when a residue of doubles    *)
(* makes it so, and takes the same amount.                                  *)
LEMMA ClaimCovered ==
    ASSUME TypeOK, NEW i \in Locks, Active(i), plan[i].owner \in Accounts, Backed(plan[i].owner)
    PROVE  UnpaidPrincipal(plan[i]) <= locked[plan[i].owner]
  <1> DEFINE a == plan[i].owner
             u == UnpaidPrincipal(plan[i])
  <1>1. Claim(plan[i], a) = u
    BY DEF Claim, Active
  <1>2. u <= Claims(a)
    BY <1>1, ClaimsType
  <1>3. Claims(a) \in Nat /\ Loads(a) \in Nat /\ locked[a] \in Nat /\ u \in Nat
    BY ClaimsType, PlanAmounts DEF TypeOK
  <1>4. locked[a] >= Claims(a) + Loads(a)
    BY DEF Backed
  <1> HIDE DEF u, a
  <1>5. u <= locked[a]
    BY <1>2, <1>3, <1>4
  <1> QED
    BY <1>5 DEF u, a

LEMMA TakenIsUnpaid ==
    ASSUME NEW balance \in Nat, NEW sign, NEW unpaid \in Nat, unpaid <= balance
    PROVE  Taken(balance, unpaid, unpaid = 0 \/ Covers(balance, sign, unpaid)) = unpaid
  <1>1. CASE unpaid = 0 \/ Covers(balance, sign, unpaid)
    BY <1>1 DEF Taken
  <1>2. CASE ~(unpaid = 0 \/ Covers(balance, sign, unpaid))
    <2>1. ~(balance > unpaid)
      BY <1>2 DEF Covers
    <2>2. balance = unpaid
      BY <2>1
    <2> QED
      BY <1>2, <2>2 DEF Taken
  <1> QED
    BY <1>1, <1>2

(* lock_contribution credits the locked balance ...                         *)
LEMMA CreditBacks ==
    ASSUME TypeOK, TypeOK', NEW w \in Workers, LockCredit(w), NEW a \in Accounts, Backed(a)
    PROVE  Backed(a)'
  <1> DEFINE amount == job[w].amount
             d == IF a = job[w].acct THEN amount ELSE 0
             j == [job[w] EXCEPT !.op = "install"]
  <1>1. job[w] \in LockJob /\ job[w].op = "credit"
    BY JobShape DEF LockCredit, At
  <1>2. amount \in Nat /\ d \in Int /\ job[w].acct \in Accounts
    BY <1>1 DEF LockJob
  <1>3. j.op = "install" /\ j.acct = job[w].acct /\ j.amount = amount
    BY <1>1 DEF LockJob
  <1>4. job' = [job EXCEPT ![w] = j]
    BY DEF LockCredit, Goto
  <1> HIDE DEF j
  <1>5. job'[w] = j /\ \A v \in Workers \ {w} : job'[v] = job[v]
    BY <1>4 DEF TypeOK
  <1>6. Load(job[w], a) = 0 /\ Load(job'[w], a) = d
    BY <1>1, <1>3, <1>5 DEF Load
  <1>7. Loads(a)' = Loads(a) - Load(job[w], a) + Load(job'[w], a)
    BY <1>5, LoadsChange
  <1>8. Claims(a)' = Claims(a)
    BY SameClaims DEF LockCredit
  <1>9. locked'[a] = locked[a] + d
    <2>1. locked' = [locked EXCEPT ![job[w].acct] = @ + amount]
      BY DEF LockCredit
    <2>2. locked \in [Accounts -> Nat]
      BY DEF TypeOK
    <2>3. CASE a = job[w].acct
      BY <2>1, <2>2, <2>3
    <2>4. CASE a # job[w].acct
      BY <2>1, <2>2, <2>4
    <2> QED
      BY <2>3, <2>4
  <1>10. crashes' = crashes
    BY DEF LockCredit
  <1>11. Claims(a) \in Int /\ Loads(a) \in Int
    BY ClaimsType
  <1> HIDE DEF d
  <1>12. Claims(a)' + Loads(a)' = Claims(a) + Loads(a) + d
    BY <1>2, <1>6, <1>7, <1>8, <1>11
  <1> QED
    BY <1>2, <1>9, <1>10, <1>12, BackedMove

(* ... and then installs the plan that claims what it credited.             *)
LEMMA InstallBacks ==
    ASSUME TypeOK, TypeOK', NEW w \in Workers, LockInstall(w), NEW a \in Accounts, Backed(a)
    PROVE  Backed(a)'
  <1> DEFINE amount == job[w].amount
             d == IF a = job[w].acct THEN amount ELSE 0
  <1>1. job[w] \in LockJob /\ job[w].op = "install"
    BY JobShape DEF LockInstall, At
  <1>2. amount \in Nat /\ d \in Nat /\ job[w].acct \in Accounts
    BY <1>1 DEF LockJob
  <1>3. PICK i \in Locks, k \in Keys \cup {None} :
          /\ plan[i].status = "none"
          /\ plan' = [plan EXCEPT ![i] =
               [NoPlan EXCEPT !.status = "active", !.owner = job[w].acct, !.total = job[w].amount,
                              !.bonus = job[w].bonus, !.key = k]]
    BY DEF LockInstall
  <1> DEFINE p == [NoPlan EXCEPT !.status = "active", !.owner = job[w].acct,
                                 !.total = job[w].amount, !.bonus = job[w].bonus, !.key = k]
  <1>4. p.status = "active" /\ p.owner = job[w].acct /\ p.total = amount /\ p.paid = 0
    BY DEF NoPlan
  <1>5. plan' = [plan EXCEPT ![i] = p]
    BY <1>3
  <1> HIDE DEF p
  <1>6. plan'[i] = p /\ \A l \in Locks \ {i} : plan'[l] = plan[l]
    BY <1>5 DEF TypeOK
  <1>7. UnpaidPrincipal(p) = amount
    <2>1. Instalment(p) \in Nat
      BY <1>2, <1>4, RoundedThird DEF Instalment
    <2>2. Instalment(p) * p.paid = 0
      BY <2>1, <1>4
    <2> QED
      BY <2>2, <1>2, <1>4 DEF UnpaidPrincipal, NonNegative
  <1>8. Claim(plan[i], a) = 0 /\ Claim(plan'[i], a) = d
    BY <1>3, <1>4, <1>6, <1>7 DEF Claim
  <1>9. Claims(a)' = Claims(a) - Claim(plan[i], a) + Claim(plan'[i], a)
    BY <1>6, ClaimsChange
  <1>10. job'[w] = Idle /\ \A v \in Workers \ {w} : job'[v] = job[v]
    BY DEF LockInstall, Goto, TypeOK
  <1>11. Load(job[w], a) = d /\ Load(job'[w], a) = 0
    BY <1>1, <1>10 DEF Load, Idle
  <1>12. Loads(a)' = Loads(a) - Load(job[w], a) + Load(job'[w], a)
    BY <1>10, LoadsChange
  <1>13. locked'[a] = locked[a] + 0 /\ crashes' = crashes
    BY DEF LockInstall, TypeOK
  <1>14. Claims(a) \in Int /\ Loads(a) \in Int
    BY ClaimsType
  <1> HIDE DEF d
  <1>15. Claims(a)' + Loads(a)' = Claims(a) + Loads(a) + 0
    BY <1>2, <1>8, <1>9, <1>11, <1>12, <1>14
  <1> QED
    BY <1>13, <1>15, BackedMove

(* A plan that ends gives up its claim to what was taken for it.            *)
LEMMA EndBacks ==
    ASSUME TypeOK, TypeOK', NEW i \in Locks, NEW a \in Accounts, Backed(a), Active(i),
           plan'[i].status \in Ended, \A l \in Locks \ {i} : plan'[l] = plan[l],
           \A w \in Workers : Load(job'[w], a) = Load(job[w], a),
           plan[i].owner \in Accounts,
           locked' = [locked EXCEPT ![plan[i].owner] = @ - UnpaidPrincipal(plan[i])],
           crashes' = crashes
    PROVE  Backed(a)'
  <1> DEFINE u == UnpaidPrincipal(plan[i])
             d == IF a = plan[i].owner THEN -u ELSE 0
  <1>1. u \in Nat /\ d \in Int /\ locked \in [Accounts -> Nat]
    BY PlanAmounts DEF TypeOK
  <1>2. Claim(plan[i], a) = -d /\ Claim(plan'[i], a) = 0
    BY <1>1 DEF Claim, Active, Ended
  <1>3. \A l \in Locks \ {i} : Claim(plan'[l], a) = Claim(plan[l], a)
    OBVIOUS
  <1>4. Claims(a)' = Claims(a) - Claim(plan[i], a) + Claim(plan'[i], a)
    BY <1>3, ClaimsChange
  <1>5. Loads(a)' = Loads(a)
    BY SameLoads
  <1>6. locked'[a] = locked[a] + d
    <2> HIDE DEF u
    <2>1. locked' = [locked EXCEPT ![plan[i].owner] = @ - u]
      BY DEF u
    <2>2. locked[a] \in Int
      BY <1>1
    <2>3. CASE a = plan[i].owner
      BY <1>1, <2>1, <2>2, <2>3
    <2>4. CASE a # plan[i].owner
      BY <1>1, <2>1, <2>2, <2>4
    <2> QED
      BY <2>3, <2>4
  <1>7. Claims(a) \in Int /\ Loads(a) \in Int
    BY ClaimsType
  <1> HIDE DEF d
  <1>8. Claims(a)' + Loads(a)' = Claims(a) + Loads(a) + d
    BY <1>1, <1>2, <1>4, <1>5, <1>7
  <1> QED
    BY <1>1, <1>6, <1>8, BackedMove

LEMMA UnlockBacks ==
    ASSUME TypeOK, TypeOK', PlansOwned, NEW i \in Locks, EarlyUnlock(i), NEW a \in Accounts,
           Backed(a)
    PROVE  Backed(a)'
  <1>1. Active(i) /\ plan[i].owner \in Accounts /\ plan[i] \in Plan
    BY DEF EarlyUnlock, Active, PlansOwned, TypeOK
  <1>2. /\ locked' = [locked EXCEPT ![plan[i].owner] = @ - UnpaidPrincipal(plan[i])]
        /\ UNCHANGED job /\ crashes' = crashes
    BY DEF EarlyUnlock, DebitLocked
  <1>3. plan'[i].status = "early_unlocked" /\ \A l \in Locks \ {i} : plan'[l] = plan[l]
    BY <1>1 DEF EarlyUnlock, TypeOK, Plan
  <1> QED
    BY <1>1, <1>2, <1>3, EndBacks DEF Ended

LEMMA ForfeitTakes ==
    ASSUME TypeOK, PlansOwned, \A a \in Accounts : Backed(a), NEW w \in Workers, NEW i \in Locks,
           Forfeit(w, i)
    PROVE  /\ Active(i) /\ plan[i].owner \in Accounts /\ crashes' = crashes
           /\ locked' = [locked EXCEPT ![plan[i].owner] = @ - UnpaidPrincipal(plan[i])]
           /\ plan'[i].status = "forfeited_key_failure"
           /\ plan'[i].forfeited = UnpaidPrincipal(plan[i]) + UnpaidReward(plan[i])
           /\ plan'[i].paid = plan[i].paid
           /\ plan'[i].total = plan[i].total /\ plan'[i].bonus = plan[i].bonus
           /\ \A l \in Locks \ {i} : plan'[l] = plan[l]
  <1> DEFINE p      == plan[i]
             a      == p.owner
             unpaid == UnpaidPrincipal(p)
             full   == unpaid = 0 \/ Covers(locked[a], residue[a], unpaid)
             taken  == Taken(locked[a], unpaid, full)
             empty  == locked[a] = 0 /\ residue[a] = 0
             lost   == UnpaidReward(p) + IF empty THEN unpaid ELSE taken
  <1>1. p \in Plan /\ a \in Accounts /\ Active(i)
    BY DEF TypeOK, PlansOwned, Forfeit, Forfeitable, Active
  <1>2. unpaid \in Nat /\ UnpaidReward(p) \in Nat /\ locked[a] \in Nat
    BY <1>1, PlanAmounts DEF TypeOK
  <1>3. unpaid <= locked[a]
    BY <1>1, ClaimCovered
  <1>4. taken = unpaid
    BY <1>2, <1>3, TakenIsUnpaid
  <1>5. lost = unpaid + UnpaidReward(p)
    BY <1>2, <1>4
  <1>6. /\ locked' = [locked EXCEPT ![a] = @ - taken]
        /\ plan' = [plan EXCEPT ![i].status = "forfeited_key_failure", ![i].due = FALSE,
                                ![i].forfeited = lost, ![i].window = TRUE]
        /\ crashes' = crashes
    BY DEF Forfeit
  <1> HIDE DEF unpaid, full, taken, empty, lost
  <1>7. /\ plan'[i].status = "forfeited_key_failure"
        /\ plan'[i].forfeited = lost
        /\ plan'[i].paid = p.paid /\ plan'[i].total = p.total /\ plan'[i].bonus = p.bonus
        /\ \A l \in Locks \ {i} : plan'[l] = plan[l]
    BY <1>1, <1>6 DEF TypeOK, Plan
  <1>8. locked' = [locked EXCEPT ![a] = @ - unpaid]
    BY <1>4, <1>6
  <1> QED
    BY <1>1, <1>5, <1>6, <1>7, <1>8 DEF unpaid

LEMMA ForfeitBacks ==
    ASSUME TypeOK, TypeOK', PlansOwned, \A b \in Accounts : Backed(b), NEW w \in Workers,
           NEW i \in Locks, Forfeit(w, i), NEW a \in Accounts
    PROVE  Backed(a)'
  <1> DEFINE j == IF job[w].todo = {i} THEN Idle ELSE [job[w] EXCEPT !.todo = @ \ {i}]
  <1>1. job[w] \in ForfeitJob /\ job[w].op = "forfeit"
    BY JobShape DEF Forfeit, At
  <1>2. j.op # "install"
    BY <1>1 DEF Idle, ForfeitJob
  <1>3. Goto(w, j)
    BY DEF Forfeit
  <1> HIDE DEF j
  <1>4. \A v \in Workers : Load(job'[v], a) = Load(job[v], a)
    BY <1>1, <1>2, <1>3, GotoLoads
  <1>5. /\ Active(i) /\ plan[i].owner \in Accounts /\ crashes' = crashes
        /\ locked' = [locked EXCEPT ![plan[i].owner] = @ - UnpaidPrincipal(plan[i])]
        /\ plan'[i].status \in Ended
        /\ \A l \in Locks \ {i} : plan'[l] = plan[l]
    BY ForfeitTakes DEF Ended
  <1> QED
    BY <1>4, <1>5, EndBacks

(* A payment takes from each claim what it takes from the balance. *)
LEMMA PeriodTaken ==
    ASSUME NEW p \in Plan, p.status = "active", p.paid < 3, NEW a
    PROVE  Claim(p, a) = Claim(PaidPeriod(p), a) + (IF p.owner = a THEN PeriodPrincipal(p) ELSE 0)
  <1>1. /\ PaidPeriod(p).owner = p.owner
        /\ PaidPeriod(p).status = IF p.paid = 2 THEN "completed" ELSE "active"
    BY DEF PaidPeriod, Plan
  <1>2. p.paid \in {0, 1, 2}
    BY DEF Plan
  <1>3. UnpaidPrincipal(p) \in Nat /\ PeriodPrincipal(p) \in Nat
    BY PlanAmounts, PeriodsExhaustPrincipal
  <1>4. CASE p.owner # a
    BY <1>1, <1>4 DEF Claim
  <1>5. CASE p.owner = a /\ p.paid < 2
    <2>1. UnpaidPrincipal(PaidPeriod(p)) = UnpaidPrincipal(p) - PeriodPrincipal(p)
      BY <1>5, PeriodsExhaustPrincipal
    <2> QED
      BY <1>1, <1>3, <1>5, <2>1 DEF Claim
  <1>6. CASE p.owner = a /\ p.paid = 2
    <2>1. PeriodPrincipal(p) = UnpaidPrincipal(p)
      BY <1>6, PeriodsExhaustPrincipal
    <2> QED
      BY <1>1, <1>3, <1>6, <2>1 DEF Claim
  <1> QED
    BY <1>2, <1>4, <1>5, <1>6

LEMMA PeriodType ==
    ASSUME NEW p \in Plan
    PROVE  PeriodPrincipal(p) \in Int
  <1>1. p.total \in Nat /\ p.paid \in Nat
    BY DEF Plan
  <1>2. Instalment(p) \in Nat
    BY <1>1, RoundedThird DEF Instalment
  <1>3. Instalment(p) * p.paid \in Nat
    BY <1>1, <1>2, ProductNat
  <1> QED
    BY <1>1, <1>2, <1>3 DEF PeriodPrincipal

LEMMA PayBacks ==
    ASSUME TypeOK, TypeOK', NEW payees, NEW force, PayPeriods(payees, force), NEW a \in Accounts,
           Backed(a)
    PROVE  Backed(a)'
  <1>1. PICK S \in SUBSET Payable(payees, force) :
           /\ locked' = [b \in Accounts |-> locked[b] - PeriodsOf(OwnedBy(b, S))]
           /\ plan' = [i \in Locks |-> IF i \in S THEN PaidPeriod(plan[i]) ELSE plan[i]]
    BY DEF PayPeriods
  <1> DEFINE f == [i \in Locks |-> PeriodPrincipal(plan[i])]
             g == [i \in Locks |-> IF i \in OwnedBy(a, S) THEN f[i] ELSE 0]
             c == [i \in Locks |-> Claim(plan[i], a)]
             e == [i \in Locks |-> Claim(plan'[i], a)]
  <1>2. /\ OwnedBy(a, S) \in SUBSET Locks
        /\ \A i \in S : plan[i].status = "active" /\ plan[i].paid < 3
        /\ \A i \in S : i \in OwnedBy(a, S) <=> plan[i].owner = a
    BY DEF OwnedBy, Payable, Active
  <1>3. \A i \in Locks : plan[i] \in Plan /\ plan'[i] \in Plan
    BY DEF TypeOK
  <1>4. \A i \in Locks : f[i] \in Int
    BY <1>3, PeriodType
  <1>5. \A i \in Locks : /\ c[i] \in Int /\ e[i] \in Int /\ g[i] \in Int
                         /\ g[i] = IF i \in OwnedBy(a, S) THEN f[i] ELSE 0
    <2>1. \A i \in Locks : Claim(plan[i], a) \in Int /\ Claim(plan'[i], a) \in Int
      BY <1>3, PlanAmounts DEF Claim
    <2> QED
      BY <1>4, <2>1
  <1>6. \A i \in Locks : c[i] = e[i] + g[i]
    <2> SUFFICES ASSUME NEW i \in Locks
                 PROVE  Claim(plan[i], a) = Claim(plan'[i], a) + g[i]
      OBVIOUS
    <2>1. CASE i \in S
      <3>1. plan'[i] = PaidPeriod(plan[i])
        BY <1>1, <2>1
      <3>2. g[i] = IF plan[i].owner = a THEN PeriodPrincipal(plan[i]) ELSE 0
        BY <1>2, <2>1
      <3>3. Claim(plan[i], a) = Claim(PaidPeriod(plan[i]), a)
                  + (IF plan[i].owner = a THEN PeriodPrincipal(plan[i]) ELSE 0)
        BY <1>2, <1>3, <2>1, PeriodTaken
      <3> QED
        BY <3>1, <3>2, <3>3
    <2>2. CASE i \notin S
      <3>1. plan'[i] = plan[i] /\ i \notin OwnedBy(a, S)
        BY <1>1, <2>2 DEF OwnedBy
      <3>2. g[i] = 0 /\ Claim(plan[i], a) \in Int
        BY <1>5, <3>1
      <3> HIDE DEF g
      <3> QED
        BY <3>1, <3>2
    <2> QED
      BY <2>1, <2>2
  <1>7. Claims(a) = SumOf(c, Locks) /\ Claims(a)' = SumOf(e, Locks)
    BY DEF Claims
  <1>8. PeriodsOf(OwnedBy(a, S)) = SumOf(f, OwnedBy(a, S))
    BY <1>2, PeriodsSum DEF PeriodsOf
  <1>9. locked'[a] = locked[a] - PeriodsOf(OwnedBy(a, S))
    BY <1>1
  <1> HIDE DEF f, g, c, e
  <1>10. SumOf(f, OwnedBy(a, S)) = SumOf(g, Locks)
    BY <1>2, <1>4, <1>5, FiniteAssumption, SumOfPart
  <1>11. SumOf(c, Locks) = SumOf(e, Locks) + SumOf(g, Locks)
    BY <1>5, <1>6, FiniteAssumption, SumOfPlus
  <1>12. /\ SumOf(g, Locks) \in Int /\ SumOf(e, Locks) \in Int /\ Loads(a) \in Int
         /\ locked[a] \in Int
    BY <1>5, FiniteAssumption, SumOfType, ClaimsType DEF TypeOK
  <1>13. Loads(a)' = Loads(a) /\ crashes' = crashes
    BY SameLoads DEF PayPeriods
  <1> DEFINE d == -SumOf(g, Locks)
  <1>14. d \in Int /\ locked'[a] = locked[a] + d
    BY <1>8, <1>9, <1>10, <1>12
  <1>15. Claims(a)' + Loads(a)' = Claims(a) + Loads(a) + d
    BY <1>7, <1>11, <1>12, <1>13
  <1> HIDE DEF d
  <1> QED
    BY <1>13, <1>14, <1>15, BackedMove

(* A crash forgets the threads between LockCredit and LockInstall, and with *)
(* them what they claim.                                                    *)
LEMMA RestartBacks ==
    ASSUME TypeOK, TypeOK', Restart, NEW a \in Accounts, Backed(a)
    PROVE  Backed(a)'
  <1> DEFINE g == [w \in Workers |-> Load(job'[w], a)]
  <1>1. Claims(a)' = Claims(a) /\ locked'[a] = locked[a]
    BY SameClaims DEF Restart
  <1>2. \A w \in Workers : g[w] = 0
    BY DEF Restart, Load, Idle
  <1>3. Loads(a)' = SumOf(g, Workers)
    BY DEF Loads
  <1> HIDE DEF g
  <1>4. Loads(a)' = 0
    BY <1>2, <1>3, FiniteAssumption, SumOfZeros
  <1>5. crashes' # 0
    BY DEF Restart, TypeOK
  <1>6. Claims(a) \in Nat /\ Loads(a) \in Nat /\ locked[a] \in Nat
    BY ClaimsType DEF TypeOK
  <1> QED
    BY <1>1, <1>4, <1>5, <1>6 DEF Backed

(* The other steps move neither the balance nor a claim to it.              *)
LEMMA OthersBack ==
    ASSUME TypeOK, NEW a \in Accounts, Backed(a),
           \/ \E w \in Workers : LockDebit(w) \/ ForfeitRaises(w) \/ Restore(w) \/ Begin(w)
           \/ \E b \in Accounts : Earn(b) \/ Convert(b)
           \/ \E q \in Appeals, i \in Locks : FileAppeal(q, i)
           \/ Decay \/ Clock \/ UNCHANGED vars
    PROVE  Backed(a)'
  <1>1. CASE \/ \E b \in Accounts : Earn(b) \/ Convert(b) \/ HalfLifePasses(b)
             \/ \E q \in Appeals, i \in Locks : FileAppeal(q, i)
             \/ Decay \/ UNCHANGED vars
    <2>1. UNCHANGED <<locked, crashes, plan, job>>
      BY <1>1 DEF Earn, Convert, HalfLifePasses, FileAppeal, Decay, vars
    <2> QED
      BY <2>1, BackedQuiet
  <1>2. ASSUME NEW i \in Locks, DueDatePasses(i) \/ WindowCloses(i)
        PROVE  Backed(a)'
    <2>1. /\ UNCHANGED <<locked, crashes, job>>
          /\ \A l \in Locks \ {i} : plan'[l] = plan[l]
          /\ plan'[i].status = plan[i].status /\ plan'[i].owner = plan[i].owner
          /\ plan'[i].total = plan[i].total /\ plan'[i].paid = plan[i].paid
      BY <1>2 DEF DueDatePasses, WindowCloses, TypeOK, Plan
    <2>2. UnpaidPrincipal(plan'[i]) = UnpaidPrincipal(plan[i])
      BY <2>1 DEF UnpaidPrincipal, Instalment
    <2>3. \A l \in Locks : Claim(plan'[l], a) = Claim(plan[l], a)
      BY <2>1, <2>2 DEF Claim
    <2> QED
      BY <2>1, <2>3, BackedQuiet
  <1>3. ASSUME NEW w \in Workers, NEW j, Goto(w, j), job[w].op # "install", j.op # "install",
               UNCHANGED <<locked, crashes, plan>>
        PROVE  Backed(a)'
    BY <1>3, GotoLoads, BackedQuiet
  <1>4. ASSUME NEW w \in Workers, LockDebit(w) \/ ForfeitRaises(w) \/ Restore(w)
        PROVE  Backed(a)'
    <2>1. CASE ForfeitRaises(w) \/ Restore(w)
      BY <1>3, <2>1 DEF ForfeitRaises, Restore, At, Idle
    <2>2. CASE LockDebit(w)
      <3>1. job[w] \in LockJob /\ job[w].op = "debit"
        BY <2>2, JobShape DEF LockDebit, At
      <3>2. [job[w] EXCEPT !.op = "credit"].op # "install" /\ Idle.op # "install"
        BY <3>1 DEF LockJob, Idle
      <3> QED
        BY <1>3, <2>2, <3>1, <3>2 DEF LockDebit
    <2> QED
      BY <1>4, <2>1, <2>2
  <1>5. ASSUME NEW w \in Workers, Begin(w)
        PROVE  Backed(a)'
    <2>0. Free(w) /\ UNCHANGED <<locked, crashes, plan>>
      BY <1>5 DEF Begin, LockRequest, KeyFails, Resolve
    <2>1. job[w].op # "install"
      BY <2>0 DEF Free, Idle
    <2>2. CASE \E b \in Accounts : LockRequest(w, b)
      <3>1. \E j : Goto(w, j) /\ j.op # "install"
        BY <2>2 DEF LockRequest
      <3> QED
        BY <1>3, <2>0, <2>1, <3>1
    <2>3. CASE \E k \in Keys : KeyFails(w, k)
      <3>1. \E j : Goto(w, j) /\ j.op # "install"
        BY <2>3 DEF KeyFails
      <3> QED
        BY <1>3, <2>0, <2>1, <3>1
    <2>4. CASE \E q \in Appeals : Resolve(w, q)
      <3>1. UNCHANGED job \/ \E j : Goto(w, j) /\ j.op # "install"
        BY <2>4 DEF Resolve
      <3>2. CASE UNCHANGED job
        BY <2>0, <3>2, BackedQuiet
      <3> QED
        BY <1>3, <2>0, <2>1, <3>1, <3>2
    <2> QED
      BY <1>5, <2>2, <2>3, <2>4 DEF Begin
  <1> QED
    BY <1>1, <1>2, <1>4, <1>5 DEF Clock

LEMMA BackedStep ==
    ASSUME IInv, BInv, [Next]_vars, NEW a \in Accounts
    PROVE  Backed(a)'
  <1>0. TypeOK /\ TypeOK' /\ PlansOwned /\ Backed(a) /\ \A b \in Accounts : Backed(b)
    BY NextIInv DEF IInv, BInv
  <1>1. CASE \E w \in Workers : LockCredit(w) \/ LockInstall(w)
    BY <1>0, <1>1, CreditBacks, InstallBacks
  <1>2. CASE \E w \in Workers, i \in Locks : Forfeit(w, i)
    BY <1>0, <1>2, ForfeitBacks
  <1>3. CASE \E i \in Locks : EarlyUnlock(i)
    BY <1>0, <1>3, UnlockBacks
  <1>4. CASE Maintain \/ \E b \in Accounts : PayOnRequest(b)
    BY <1>0, <1>4, PayBacks DEF Maintain, PayOnRequest
  <1>5. CASE Restart
    BY <1>0, <1>5, RestartBacks
  <1> QED
    BY <1>0, <1>1, <1>2, <1>3, <1>4, <1>5, OthersBack DEF Next, JobStep, Request

-----------------------------------------------------------------------------
(* Theorems                                                                *)

LEMMA SpecIInv == Spec => []IInv
  BY InitIInv, NextIInv, PTL DEF Spec

(* No transaction makes a balance negative, whatever others come between:   *)
(* each debit checks again what the request saw (atomic_debit_pool), and    *)
(* a forfeiture takes no more than the balance.                             *)
THEOREM LocksTypeCorrect == Spec => []TypeOK
  <1>1. IInv => TypeOK
    BY DEF IInv
  <1> QED
    BY <1>1, SpecIInv, PTL

(* An appeal asks for exactly what its plan forfeited, and only forfeited   *)
(* plans are ever restored (create_appeal, resolve_appeal).                 *)
THEOREM AppealsAskForForfeiture == Spec => []AppealsMatchForfeiture
  <1>1. IInv => AppealsMatchForfeiture
    BY DEF IInv
  <1> QED
    BY <1>1, SpecIInv, PTL

(* A payment, an early unlock and a key failure that race for a plan settle *)
(* it once: each reads the status in the transaction that changes it.       *)
THEOREM EndedStaysEnded == Spec => EndedIsFinal
  <1>1. IInv /\ [Next]_vars =>
          [\A i \in Locks : plan[i].status \in Ended =>
             /\ plan'[i].status = plan[i].status
             /\ plan'[i].paid = plan[i].paid
             /\ plan'[i].forfeited = plan[i].forfeited]_vars
    BY PlanKept DEF Kept
  <1> QED
    BY <1>1, SpecIInv, PTL DEF Spec, EndedIsFinal

-----------------------------------------------------------------------------
(* What the sums say                                                       *)

(* LockedBacksPlans adds up the same claims. *)
LEMMA BackedSums ==
    ASSUME TypeOK, NEW a \in Accounts
    PROVE  UnpaidPrincipals(a) = Claims(a) /\ Uninstalled(a) = Loads(a)
  <1> DEFINE P == {i \in Locks : Active(i) /\ plan[i].owner = a}
             f == [i \in Locks |-> UnpaidPrincipal(plan[i])]
             c == [i \in Locks |-> Claim(plan[i], a)]
             Q == {w \in Workers : At(w, "install") /\ job[w].acct = a}
             h == [w \in Workers |-> IF w \in Q THEN job[w].amount ELSE 0]
             j == [w \in Workers |-> job[w].amount]
             m == [w \in Workers |-> Load(job[w], a)]
  <1>1. UnpaidPrincipals(a) = SumOf(f, P)
    BY PrincipalsSum DEF UnpaidPrincipals
  <1>2. Claims(a) = SumOf(c, Locks)
    BY DEF Claims
  <1>3. /\ P \in SUBSET Locks
        /\ \A i \in Locks : f[i] \in Int /\ c[i] = IF i \in P THEN f[i] ELSE 0
    BY PlanAmounts DEF TypeOK, Claim, Active
  <1>4. Uninstalled(a) = SumOf(j, Q)
    BY LoadsSum DEF Uninstalled
  <1>5. Loads(a) = SumOf(m, Workers)
    BY DEF Loads
  <1>6. /\ Q \in SUBSET Workers
        /\ \A w \in Q : j[w] \in Int /\ h[w] = j[w]
        /\ \A w \in Workers : h[w] \in Int /\ h[w] = (IF w \in Q THEN h[w] ELSE 0) /\ m[w] = h[w]
    <2>1. \A w \in Q : j[w] \in Int /\ h[w] = j[w]
      BY JobShape DEF At, LockJob
    <2>2. \A w \in Workers : m[w] = h[w]
      BY DEF Load, At
    <2> QED
      BY <2>1, <2>2
  <1> HIDE DEF P, f, c, Q, h, j, m
  <1>7. SumOf(f, P) = SumOf(c, Locks)
    BY <1>3, FiniteAssumption, SumOfPart
  <1>8. SumOf(j, Q) = SumOf(h, Q)
    BY <1>6, FiniteAssumption, FS_Subset, SumOfEqual
  <1>9. SumOf(h, Q) = SumOf(h, Workers) /\ SumOf(m, Workers) = SumOf(h, Workers)
    BY <1>6, FiniteAssumption, SumOfPart, SumOfEqual
  <1> QED
    BY <1>1, <1>2, <1>4, <1>5, <1>7, <1>8, <1>9

LEMMA BInvBacks == IInv /\ BInv => LockedBacksPlans
  BY BackedSums DEF IInv, BInv, Backed, LockedBacksPlans

(* How a row of a forfeited plan comes about, and that it stays.            *)
LEMMA ForfeitedKept ==
    ASSUME IInv, BInv, [Next]_vars, NEW i \in Locks, plan'[i].status = "forfeited_key_failure"
    PROVE  /\ plan'[i].paid = plan[i].paid
           /\ plan'[i].total = plan[i].total
           /\ plan'[i].bonus = plan[i].bonus
           /\ plan'[i].forfeited = UnpaidPrincipal(plan[i]) + UnpaidReward(plan[i])
  <1>0. TypeOK /\ PlansOwned /\ plan[i] \in Plan /\ \A a \in Accounts : Backed(a)
    BY DEF IInv, TypeOK, BInv
  <1> DEFINE Same == /\ plan'[i].status = plan[i].status
                     /\ plan'[i].paid = plan[i].paid
                     /\ plan'[i].total = plan[i].total
                     /\ plan'[i].bonus = plan[i].bonus
                     /\ plan'[i].forfeited = plan[i].forfeited
             Goal == /\ plan'[i].paid = plan[i].paid
                     /\ plan'[i].total = plan[i].total
                     /\ plan'[i].bonus = plan[i].bonus
                     /\ plan'[i].forfeited = UnpaidPrincipal(plan[i]) + UnpaidReward(plan[i])
  <1> SUFFICES Goal
    OBVIOUS
  <1>a. Same => Goal
    BY DEF BInv, ForfeitedInFull
  <1>1. CASE UNCHANGED plan
    BY <1>1, <1>a
  <1>2. ASSUME NEW w \in Workers, NEW l \in Locks, Forfeit(w, l) PROVE Goal
    <2>1. CASE l = i
      BY <1>0, <1>2, <2>1, ForfeitTakes
    <2>2. CASE l # i
      BY <1>0, <1>2, <1>a, <2>2, ForfeitTakes
    <2> QED
      BY <2>1, <2>2
  <1>3. ASSUME NEW l \in Locks, DueDatePasses(l) \/ WindowCloses(l) PROVE Goal
    <2>0. plan[l] \in Plan /\ plan \in [Locks -> Plan]
      BY <1>0 DEF TypeOK
    <2>1. CASE DueDatePasses(l)
      <3>1. plan' = [plan EXCEPT ![l].due = TRUE]
        BY <2>1 DEF DueDatePasses
      <3>2. Same
        BY <1>0, <2>0, <3>1 DEF Plan
      <3> QED
        BY <1>a, <3>2
    <2>2. CASE WindowCloses(l)
      <3>1. plan' = [plan EXCEPT ![l].window = FALSE]
        BY <2>2 DEF WindowCloses
      <3>2. Same
        BY <1>0, <2>0, <3>1 DEF Plan
      <3> QED
        BY <1>a, <3>2
    <2> QED
      BY <1>3, <2>1, <2>2
  <1>4. ASSUME NEW l \in Locks, EarlyUnlock(l) PROVE Goal
    <2>1. l # i /\ Same
      BY <1>0, <1>4 DEF EarlyUnlock, TypeOK, Plan
    <2> QED
      BY <1>a, <2>1
  <1>5. ASSUME NEW w \in Workers, LockInstall(w) PROVE Goal
    <2>1. PICK l \in Locks, k \in Keys \cup {None} :
            plan' = [plan EXCEPT ![l] =
              [NoPlan EXCEPT !.status = "active", !.owner = job[w].acct, !.total = job[w].amount,
                             !.bonus = job[w].bonus, !.key = k]]
      BY <1>5 DEF LockInstall
    <2>2. Same
      BY <1>0, <2>1 DEF TypeOK, NoPlan
    <2> QED
      BY <1>a, <2>2
  <1>6. ASSUME NEW payees, NEW force, PayPeriods(payees, force) PROVE Goal
    <2>1. PICK S \in SUBSET Payable(payees, force) :
            plan' = [l \in Locks |-> IF l \in S THEN PaidPeriod(plan[l]) ELSE plan[l]]
      BY <1>6 DEF PayPeriods
    <2>2. CASE i \in S
      <3>1. PaidPeriod(plan[i]).status \in {"completed", "active"}
        BY <1>0 DEF PaidPeriod, Plan
      <3> QED
        BY <2>1, <2>2, <3>1
    <2>3. CASE i \notin S
      BY <1>a, <2>1, <2>3
    <2> QED
      BY <2>2, <2>3
  <1> HIDE DEF Same, Goal
  <1>7. ASSUME NEW w \in Workers, JobStep(w) PROVE Goal
    <2>1. LockDebit(w) \/ LockCredit(w) \/ ForfeitRaises(w) \/ Restore(w) => UNCHANGED plan
      BY DEF LockDebit, LockCredit, ForfeitRaises, Restore
    <2> QED
      BY <1>1, <1>2, <1>5, <1>7, <2>1 DEF JobStep
  <1>8. ASSUME NEW w \in Workers, Begin(w) PROVE Goal
    BY <1>1, <1>8 DEF Begin, LockRequest, KeyFails, Resolve
  <1>9. CASE Request
    <2>1. \A a \in Accounts : Earn(a) \/ Convert(a) => UNCHANGED plan
      BY DEF Earn, Convert
    <2>2. \A q \in Appeals, l \in Locks : FileAppeal(q, l) => UNCHANGED plan
      BY DEF FileAppeal
    <2> QED
      BY <1>1, <1>4, <1>6, <1>9, <2>1, <2>2 DEF Request, PayOnRequest
  <1>10. CASE Maintain
    BY <1>6, <1>10 DEF Maintain
  <1>11. CASE Clock
    <2>1. \A a \in Accounts : HalfLifePasses(a) => UNCHANGED plan
      BY DEF HalfLifePasses
    <2> QED
      BY <1>1, <1>3, <1>11, <2>1 DEF Clock
  <1>12. CASE Decay \/ Restart \/ UNCHANGED vars
    <2>1. UNCHANGED plan
      BY <1>12 DEF Decay, Restart, vars
    <2> QED
      BY <1>1, <2>1
  <1> QED
    BY <1>7, <1>8, <1>9, <1>10, <1>11, <1>12 DEF Next

LEMMA ForfeitedInFullStep == IInv /\ BInv /\ [Next]_vars => ForfeitedInFull'
  <1> SUFFICES ASSUME IInv, BInv, [Next]_vars, NEW i \in Locks,
                      plan'[i].status = "forfeited_key_failure"
               PROVE  plan'[i].forfeited = UnpaidPrincipal(plan'[i]) + UnpaidReward(plan'[i])
    BY DEF ForfeitedInFull
  <1>1. /\ plan'[i].paid = plan[i].paid /\ plan'[i].total = plan[i].total
        /\ plan'[i].bonus = plan[i].bonus
        /\ plan'[i].forfeited = UnpaidPrincipal(plan[i]) + UnpaidReward(plan[i])
    BY ForfeitedKept
  <1>2. UnpaidPrincipal(plan'[i]) = UnpaidPrincipal(plan[i])
    BY <1>1 DEF UnpaidPrincipal, Instalment
  <1>3. UnpaidReward(plan'[i]) = UnpaidReward(plan[i])
    BY <1>1 DEF UnpaidReward, RewardPaid, RewardTotal
  <1> QED
    BY <1>1, <1>2, <1>3

LEMMA PeriodLeftStep == IInv /\ BInv /\ [Next]_vars => PeriodLeft'
  <1> SUFFICES ASSUME IInv, BInv, [Next]_vars, NEW i \in Locks, plan'[i].status = "active"
               PROVE  plan'[i].paid < 3
    BY DEF PeriodLeft, Active
  <1>0. TypeOK /\ plan[i] \in Plan /\ (plan[i].status = "active" => plan[i].paid < 3)
    BY DEF IInv, TypeOK, BInv, PeriodLeft, Active
  <1>1. CASE UNCHANGED plan
    BY <1>0, <1>1
  <1>2. ASSUME NEW l \in Locks, \/ DueDatePasses(l) \/ WindowCloses(l) \/ EarlyUnlock(l)
                                \/ \E w \in Workers : Forfeit(w, l)
        PROVE  plan'[i].paid < 3
    <2>0. plan[l] \in Plan /\ plan \in [Locks -> Plan]
      BY <1>0 DEF TypeOK
    <2>1. CASE DueDatePasses(l)
      <3>1. plan' = [plan EXCEPT ![l].due = TRUE]
        BY <2>1 DEF DueDatePasses
      <3>2. plan'[i].status = plan[i].status /\ plan'[i].paid = plan[i].paid
        BY <1>0, <2>0, <3>1 DEF Plan
      <3> QED
        BY <1>0, <3>2
    <2>2. CASE WindowCloses(l)
      <3>1. plan' = [plan EXCEPT ![l].window = FALSE]
        BY <2>2 DEF WindowCloses
      <3>2. plan'[i].status = plan[i].status /\ plan'[i].paid = plan[i].paid
        BY <1>0, <2>0, <3>1 DEF Plan
      <3> QED
        BY <1>0, <3>2
    <2>3. CASE \/ EarlyUnlock(l)
               \/ \E w \in Workers : Forfeit(w, l)
      <3>1. PICK st \in Ended :
              /\ plan'[l].status = st
              /\ \A k \in Locks \ {l} : plan'[k] = plan[k]
        <4>1. CASE EarlyUnlock(l)
          <5>1. plan'[l].status = "early_unlocked" /\ \A k \in Locks \ {l} : plan'[k] = plan[k]
            BY <2>0, <4>1 DEF EarlyUnlock, Plan
          <5> QED
            BY <5>1 DEF Ended
        <4>2. CASE \E w \in Workers : Forfeit(w, l)
          <5>1. /\ plan'[l].status = "forfeited_key_failure"
                /\ \A k \in Locks \ {l} : plan'[k] = plan[k]
            BY <2>0, <4>2 DEF Forfeit, Plan
          <5> QED
            BY <5>1 DEF Ended
        <4> QED
          BY <2>3, <4>1, <4>2
      <3>2. CASE l = i
        <4>1. plan'[i].status = st
          BY <2>0, <3>1, <3>2 DEF Plan
        <4> QED
          BY <4>1 DEF Ended
      <3>3. CASE l # i
        <4>1. plan'[i] = plan[i]
          BY <2>0, <3>1, <3>3
        <4> QED
          BY <1>0, <4>1
      <3> QED
        BY <3>2, <3>3
    <2> QED
      BY <1>2, <2>1, <2>2, <2>3
  <1>3. ASSUME NEW w \in Workers, LockInstall(w) PROVE plan'[i].paid < 3
    <2>1. PICK l \in Locks, k \in Keys \cup {None} :
            plan' = [plan EXCEPT ![l] =
              [NoPlan EXCEPT !.status = "active", !.owner = job[w].acct, !.total = job[w].amount,
                             !.bonus = job[w].bonus, !.key = k]]
      BY <1>3 DEF LockInstall
    <2> QED
      BY <1>0, <2>1 DEF TypeOK, NoPlan
  <1>4. ASSUME NEW payees, NEW force, PayPeriods(payees, force) PROVE plan'[i].paid < 3
    <2>1. PICK S \in SUBSET Payable(payees, force) :
            plan' = [l \in Locks |-> IF l \in S THEN PaidPeriod(plan[l]) ELSE plan[l]]
      BY <1>4 DEF PayPeriods
    <2>2. CASE i \in S
      <3>1. plan[i].paid < 3 /\ plan[i].paid \in 0..3
        BY <1>0, <2>2 DEF Payable, Plan
      <3>2. /\ PaidPeriod(plan[i]).paid = plan[i].paid + 1
            /\ PaidPeriod(plan[i]).status = IF plan[i].paid = 2 THEN "completed" ELSE "active"
        BY <1>0 DEF PaidPeriod, Plan
      <3> QED
        BY <2>1, <2>2, <3>1, <3>2
    <2>3. CASE i \notin S
      BY <1>0, <2>1, <2>3
    <2> QED
      BY <2>2, <2>3
  <1> QED
    BY <1>1, <1>2, <1>3, <1>4
       DEF Next, vars, JobStep, Begin, Request, Maintain, PayOnRequest, Clock, Earn, Convert, Decay,
           HalfLifePasses, LockRequest, LockDebit, LockCredit, KeyFails, ForfeitRaises, FileAppeal,
           Resolve, Restore, Restart

LEMMA InitBInv == Init => BInv
  <1> SUFFICES ASSUME Init PROVE BInv
    OBVIOUS
  <1>1. \A i \in Locks : plan[i].status = "none"
    BY DEF Init, NoPlan
  <1>2. \A w \in Workers : job[w].op = "idle"
    BY DEF Init, Idle
  <1>3. ASSUME NEW a \in Accounts PROVE Backed(a)
    <2> DEFINE c == [i \in Locks |-> Claim(plan[i], a)]
               m == [w \in Workers |-> Load(job[w], a)]
    <2>1. /\ \A i \in Locks : c[i] = 0
          /\ \A w \in Workers : m[w] = 0
      BY <1>1, <1>2 DEF Claim, Load
    <2>2. Claims(a) = SumOf(c, Locks) /\ Loads(a) = SumOf(m, Workers)
      BY DEF Claims, Loads
    <2> HIDE DEF c, m
    <2>3. Claims(a) = 0 /\ Loads(a) = 0
      BY <2>1, <2>2, FiniteAssumption, SumOfZeros
    <2> QED
      BY <2>3 DEF Backed, Init
  <1> QED
    BY <1>1, <1>3 DEF BInv, PeriodLeft, Active, ForfeitedInFull

LEMMA SpecBInv == Spec => [](IInv /\ BInv)
  <1>1. IInv /\ BInv /\ [Next]_vars => BInv'
    BY BackedStep, ForfeitedInFullStep, PeriodLeftStep DEF BInv
  <1> QED
    BY <1>1, InitBInv, InitIInv, NextIInv, PTL DEF Spec

(* The balance of POOL_CONTRIBUTION_LOCKED always holds the unpaid          *)
(* principal of every running plan of the account, through races of         *)
(* payments, early unlocks and key failures, and nothing else unless a      *)
(* crash came between LockCredit and LockInstall (pool_store.py).           *)
THEOREM LockedAlwaysBacks == Spec => []LockedBacksPlans
  BY SpecBInv, BInvBacks, PTL

(* A key failure forfeits what is unpaid of a plan, whatever was paid,      *)
(* taken or left to the balance before (forfeit_installment_key_failure).   *)
THEOREM ForfeitsInFull == Spec => []ForfeitedInFull
  <1>1. BInv => ForfeitedInFull
    BY DEF BInv
  <1> QED
    BY <1>1, SpecBInv, PTL

(* What can keep a period from a running plan: the double below the balance *)
(* it stands for, where the period takes the whole of it.                   *)
OnlyResidueBlocks ==
    \A i \in Locks : Active(i) =>
        LET a == plan[i].owner
        IN  \/ Covers(locked[a], residue[a], PeriodPrincipal(plan[i]))
            \/ residue[a] < 0 /\ locked[a] = PeriodPrincipal(plan[i])

(* A due period is always covered unless the stored double lies below the   *)
(* decimal balance (process_lock_installments): the residue that the        *)
(* counterexample to PlansEnd builds up is the only thing that can keep the *)
(* maintenance loop from paying.                                            *)
THEOREM ResidueAloneBlocks == Spec => []OnlyResidueBlocks
  <1>1. IInv /\ BInv => OnlyResidueBlocks
    <2> SUFFICES ASSUME IInv, BInv, NEW i \in Locks, Active(i)
                 PROVE  \/ Covers(locked[plan[i].owner], residue[plan[i].owner],
                                  PeriodPrincipal(plan[i]))
                        \/ /\ residue[plan[i].owner] < 0
                           /\ locked[plan[i].owner] = PeriodPrincipal(plan[i])
      BY DEF OnlyResidueBlocks
    <2>1. /\ TypeOK /\ plan[i] \in Plan /\ plan[i].owner \in Accounts /\ plan[i].paid < 3
          /\ Backed(plan[i].owner)
      BY DEF IInv, BInv, PlansOwned, PeriodLeft, TypeOK, Active
    <2>2. UnpaidPrincipal(plan[i]) <= locked[plan[i].owner]
      BY <2>1, ClaimCovered
    <2>3. PeriodPrincipal(plan[i]) <= UnpaidPrincipal(plan[i]) /\ PeriodPrincipal(plan[i]) \in Nat
      <3>1. UnpaidPrincipal(plan[i]) \in Nat /\ plan[i].paid \in {0, 1, 2}
        BY <2>1, PlanAmounts DEF Plan
      <3>2. PeriodPrincipal(plan[i]) \in Nat
        BY <2>1, PeriodsExhaustPrincipal
      <3>3. CASE plan[i].paid < 2
        <4>1. PaidPeriod(plan[i]) \in Plan
          BY <2>1, PaidPeriodType
        <4>2. UnpaidPrincipal(PaidPeriod(plan[i])) \in Nat
          BY <4>1, PlanAmounts
        <4>3. UnpaidPrincipal(PaidPeriod(plan[i])) =
                UnpaidPrincipal(plan[i]) - PeriodPrincipal(plan[i])
          BY <2>1, <3>3, PeriodsExhaustPrincipal
        <4> QED
          BY <3>1, <3>2, <4>2, <4>3
      <3>4. CASE plan[i].paid = 2
        BY <2>1, <3>1, <3>4, PeriodsExhaustPrincipal
      <3> QED
        BY <3>1, <3>3, <3>4
    <2>4. locked[plan[i].owner] \in Nat /\ UnpaidPrincipal(plan[i]) \in Nat
      BY <2>1, PlanAmounts DEF TypeOK
    <2>5. PeriodPrincipal(plan[i]) <= locked[plan[i].owner]
      BY <2>2, <2>3, <2>4
    <2>6. residue[plan[i].owner] \in Int
      <3>1. residue[plan[i].owner] \in Residues
        BY <2>1 DEF TypeOK
      <3>2. \A s \in Residues : s \in Int
        BY ResiduesAssumption
      <3> QED
        BY <3>1, <3>2
    <2> QED
      BY <2>3, <2>4, <2>5, <2>6 DEF Covers
  <1> QED
    BY <1>1, SpecBInv, PTL
=============================================================================
