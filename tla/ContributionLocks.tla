-------------------------- MODULE ContributionLocks --------------------------
(***************************************************************************)
(* Contribution credits: earned, locked for a bonus, paid back in three    *)
(* instalments, forfeited when a key fails, restored on appeal             *)
(* (billing/contribution_service.py, billing/pool_store.py,                *)
(* billing/appeals.py, billing/contribution_rewards.py).                   *)
(*                                                                         *)
(* The endpoints run in threads.  Each `with store._conn()` block is one   *)
(* transaction under a process-wide lock; an operation is a few of them,   *)
(* and other threads, or a crash, come in between.  One action is one      *)
(* transaction; job[w] says where thread w stands.                         *)
(*                                                                         *)
(* Balances are SQLite REALs that are never rounded, while every amount    *)
(* taken from them is rounded to four digits.  locked[a] is the decimal    *)
(* value, an integer of 0.0001 credits; residue[a] is the sign of what the *)
(* stored double differs from it.  An addition or subtraction may leave    *)
(* any residue: which one depends on digits that the model abstracts.      *)
(* The unlocked balance has no residue here: there it could only turn a    *)
(* request away, which a race does too.                                    *)
(*                                                                         *)
(* Left out, because nothing here reads them: credits to the purchased     *)
(* pool, and the entries booked in the fault pool after the commit, which  *)
(* FaultPool models.                                                       *)
(***************************************************************************)
EXTENDS Integers, FiniteSets, FiniteSetsExt

CONSTANTS
    Accounts, Keys, Locks, Appeals,
    Workers,       \* threads that serve requests
    None,
    Amounts,       \* amounts asked to be locked or converted
    Earnings,      \* contributor rewards
    Bonuses,       \* per cent: the tiers 2, 8 and 20
    BaseT, FloorT, CapT,  \* LOCK_THRESHOLD_BASE, plan floor, LOCK_THRESHOLD_CAP
    Residues,      \* {0}: sums are exact; {-1, 0, 1}: as doubles do them
    MaxUnlocked,   \* bound: no earnings beyond it
    MaxRestored,   \* bound: restorations of one instalment plan
    MaxCrashes     \* bound: restarts of the process

ASSUME InputsAssumption ==
    /\ Amounts \subseteq Nat \ {0} /\ Earnings \subseteq Nat \ {0} /\ Bonuses \subseteq Nat
    /\ None \notin Accounts \cup Keys \cup Locks
ASSUME ThresholdAssumption == BaseT \in Nat /\ FloorT \in Nat /\ CapT \in Nat
ASSUME ResiduesAssumption == 0 \in Residues /\ Residues \subseteq -1..1
ASSUME FiniteAssumption == IsFiniteSet(Locks) /\ IsFiniteSet(Workers)
ASSUME BoundsAssumption ==
    MaxUnlocked \in Nat /\ MaxRestored \in Nat /\ MaxCrashes \in Nat

VARIABLES
    unlocked,   \* balance of POOL_CONTRIBUTION_UNLOCKED
    locked,     \* balance of POOL_CONTRIBUTION_LOCKED, as a decimal
    residue,    \* sign of (stored double - decimal) of that balance
    plan,       \* rows of lock_installments
    appeal,     \* rows of billing_appeals
    decayed,    \* decayed[a]: last_decay_at lies within the half-life
    job,        \* job[w]: the operation thread w is in
    restored,   \* history: what restore_key_failure_forfeiture paid for a plan
    crashes

vars == <<unlocked, locked, residue, plan, appeal, decayed, job, restored, crashes>>

-----------------------------------------------------------------------------
(* Arithmetic                                                              *)

(* round(n / d, 4) in units of 0.0001; no property depends on ties.        *)
Rounded(n, d) == (2 * n + d) \div (2 * d)
NonNegative(n) == IF n > 0 THEN n ELSE 0
Lesser(x, y) == IF x < y THEN x ELSE y
Greater(x, y) == IF x > y THEN x ELSE y

(* compute_lock_threshold, rounded to the unit of the model.                 *)
Threshold(u, l) ==
    LET growth  == Lesser(CapT - FloorT, Rounded(12 * (u + l), 100))
        dynamic == IF u + l > 0 /\ 10 * l >= 6 * (u + l)
                   THEN Rounded(9 * (BaseT + growth), 10)
                   ELSE BaseT + growth
    IN  Greater(FloorT, Lesser(CapT, dynamic))

Convertible(a) == NonNegative(unlocked[a] - Threshold(unlocked[a], locked[a]))

Instalment(p) == Rounded(p.total, 3)
\* Mutant: every period the same, the last one too.
PeriodPrincipalEven(p) == Instalment(p)
PeriodPrincipal(p) == IF p.paid < 2 THEN Instalment(p) ELSE p.total - Instalment(p) * p.paid
UnpaidPrincipal(p) == NonNegative(p.total - Instalment(p) * p.paid)

RewardTotal(p) == Rounded(p.total * p.bonus, 100)
RewardPaid(p) == Rounded(RewardTotal(p) * p.paid, 3)
UnpaidReward(p) == NonNegative(RewardTotal(p) - RewardPaid(p))

-----------------------------------------------------------------------------
(* Records                                                                 *)

NoPlan == [status |-> "none", owner |-> None, total |-> 0, bonus |-> 0, paid |-> 0,
           key |-> None, due |-> FALSE, forfeited |-> 0, window |-> FALSE]
Ended == {"completed", "forfeited_key_failure", "early_unlocked"}
Plan == [status : {"none", "active"} \cup Ended, owner : Accounts \cup {None},
         total : Nat, bonus : Nat, paid : 0..3, key : Keys \cup {None},
         due : BOOLEAN, forfeited : Nat, window : BOOLEAN]

NoAppeal == [status |-> "none", plan |-> None, amount |-> 0]
Appeal == [status : {"none", "pending", "resolved"}, plan : Locks \cup {None}, amount : Nat]

Idle == [op |-> "idle"]
LockJob == [op : {"debit", "credit", "install"}, acct : Accounts, amount : Nat, bonus : Nat]
ForfeitJob == [op : {"forfeit"}, todo : SUBSET Locks]
RestoreJob == [op : {"restore"}, plan : Locks, amount : Nat]
Job == {Idle} \cup LockJob \cup ForfeitJob \cup RestoreJob

TypeOK ==
    /\ unlocked \in [Accounts -> Nat]
    /\ locked \in [Accounts -> Nat]
    /\ residue \in [Accounts -> Residues]
    /\ plan \in [Locks -> Plan]
    /\ appeal \in [Appeals -> Appeal]
    /\ decayed \in [Accounts -> BOOLEAN]
    /\ job \in [Workers -> Job]
    /\ restored \in [Locks -> Nat]
    /\ crashes \in 0..MaxCrashes

Init ==
    /\ unlocked = [a \in Accounts |-> 0]
    /\ locked = [a \in Accounts |-> 0]
    /\ residue = [a \in Accounts |-> 0]
    /\ plan = [i \in Locks |-> NoPlan]
    /\ appeal = [p \in Appeals |-> NoAppeal]
    /\ decayed = [a \in Accounts |-> FALSE]
    /\ job = [w \in Workers |-> Idle]
    /\ restored = [i \in Locks |-> 0]
    /\ crashes = 0

Free(w) == job[w] = Idle

Active(i) == plan[i].status = "active"
At(w, op) == job[w].op = op
Goto(w, j) == job' = [job EXCEPT ![w] = j]

-----------------------------------------------------------------------------
(* The locked balance                                                      *)

(* atomic_debit_pool: UPDATE ... WHERE amount >= ?, on the stored double.   *)
Covers(balance, sign, amount) == balance > amount \/ (balance = amount /\ sign >= 0)

(* The residue of a difference.  What is left of a balance after nothing,   *)
(* or its own decimal value, was taken is the old residue.                  *)
ResidueOfDebit(a, amount) ==
    IF amount \in {0, locked[a]} THEN {residue[a]} ELSE Residues

ResidueOfCredit(a) ==
    IF locked[a] = 0 /\ residue[a] = 0 THEN {0} ELSE Residues

DebitLocked(a, amount) ==
    /\ locked' = [locked EXCEPT ![a] = @ - amount]
    /\ \E s \in ResidueOfDebit(a, amount) : residue' = [residue EXCEPT ![a] = s]

-----------------------------------------------------------------------------
(* Earning, converting, decay                                              *)

(* settle_contributor_reward credits the owner of the key. *)
Earn(a) ==
    /\ \E e \in Earnings :
         /\ unlocked[a] + e <= MaxUnlocked
         /\ unlocked' = [unlocked EXCEPT ![a] = @ + e]
    /\ UNCHANGED <<locked, residue, plan, appeal, decayed, job, restored, crashes>>

(* convert_contribution_unlocked.  Its first look at the balance decides    *)
(* nothing that the debit does not decide again.                            *)
Convert(a) ==
    /\ \E x \in Amounts :
         /\ x <= unlocked[a]
         /\ unlocked' = [unlocked EXCEPT ![a] = @ - x]
    /\ UNCHANGED <<locked, residue, plan, appeal, decayed, job, restored, crashes>>

(* run_contribution_decay: a fifth is lost, once per half-life.             *)
Decay ==
    LET struck == {a \in Accounts : unlocked[a] > 0 /\ ~decayed[a]}
    IN  /\ struck # {}
        /\ unlocked' = [a \in Accounts |->
             IF a \in struck THEN unlocked[a] - Rounded(unlocked[a], 5) ELSE unlocked[a]]
        /\ decayed' = [a \in Accounts |-> decayed[a] \/ a \in struck]
        /\ UNCHANGED <<locked, residue, plan, appeal, job, restored, crashes>>

HalfLifePasses(a) ==
    /\ decayed[a]
    /\ decayed' = [decayed EXCEPT ![a] = FALSE]
    /\ UNCHANGED <<unlocked, locked, residue, plan, appeal, job, restored, crashes>>

-----------------------------------------------------------------------------
(* lock_contribution: a check and three transactions                       *)

Locking == {w \in Workers : job[w].op \in {"debit", "credit", "install"}}

(* contribution_status and the comparison with it.                          *)
LockRequest(w, a) ==
    /\ Free(w)
    /\ Cardinality(Locking) < Cardinality({i \in Locks : plan[i].status = "none"})
    /\ \E x \in Amounts, b \in Bonuses :
         /\ x <= Convertible(a)
         /\ Goto(w, [op |-> "debit", acct |-> a, amount |-> x, bonus |-> b])
    /\ UNCHANGED <<unlocked, locked, residue, plan, appeal, decayed, restored, crashes>>

\* Mutant: the debit trusts the check made before it.
LockDebitUnchecked(w) ==
    /\ At(w, "debit")
    /\ unlocked' = [unlocked EXCEPT ![job[w].acct] = @ - job[w].amount]
    /\ Goto(w, [job[w] EXCEPT !.op = "credit"])
    /\ UNCHANGED <<locked, residue, plan, appeal, decayed, restored, crashes>>

LockDebit(w) ==
    /\ At(w, "debit")
    /\ LET a == job[w].acct
       IN  IF unlocked[a] >= job[w].amount
           THEN /\ unlocked' = [unlocked EXCEPT ![a] = @ - job[w].amount]
                /\ Goto(w, [job[w] EXCEPT !.op = "credit"])
           ELSE Goto(w, Idle) /\ UNCHANGED unlocked
    /\ UNCHANGED <<locked, residue, plan, appeal, decayed, restored, crashes>>

LockCredit(w) ==
    /\ At(w, "credit")
    /\ LET a == job[w].acct
       IN  /\ locked' = [locked EXCEPT ![a] = @ + job[w].amount]
           /\ \E s \in ResidueOfCredit(a) : residue' = [residue EXCEPT ![a] = s]
    /\ Goto(w, [job[w] EXCEPT !.op = "install"])
    /\ UNCHANGED <<unlocked, plan, appeal, decayed, restored, crashes>>

(* create_lock_installment.  The key is the newest active one the account   *)
(* has at that moment, if any.                                              *)
LockInstall(w) ==
    /\ At(w, "install")
    /\ \E i \in Locks, k \in Keys \cup {None} :
         /\ plan[i].status = "none"
         /\ plan' = [plan EXCEPT ![i] =
              [NoPlan EXCEPT !.status = "active", !.owner = job[w].acct, !.total = job[w].amount,
                             !.bonus = job[w].bonus, !.key = k]]
    /\ Goto(w, Idle)
    /\ UNCHANGED <<unlocked, locked, residue, appeal, decayed, restored, crashes>>

-----------------------------------------------------------------------------
(* Instalments                                                             *)

DueDatePasses(i) ==
    /\ Active(i) /\ ~plan[i].due
    /\ plan' = [plan EXCEPT ![i].due = TRUE]
    /\ UNCHANGED <<unlocked, locked, residue, appeal, decayed, job, restored, crashes>>

\* Mutant: the count before the payment is compared with three.
PaidPeriodLate(p) ==
    [p EXCEPT !.paid = @ + 1, !.due = FALSE, !.status = IF p.paid = 3 THEN "completed" ELSE "active"]
PaidPeriod(p) ==
    [p EXCEPT !.paid = @ + 1, !.due = FALSE, !.status = IF p.paid = 2 THEN "completed" ELSE "active"]

OwnedBy(a, S) == {i \in S : plan[i].owner = a}
PeriodsOf(S) == MapThenSumSet(LAMBDA i : PeriodPrincipal(plan[i]), S)

Payable(payees, force) ==
    {i \in Locks : Active(i) /\ plan[i].paid < 3 /\ plan[i].owner \in payees /\ (force \/ plan[i].due)}

(* Residues that paying the plans S of a may leave: one debit of the whole  *)
(* balance leaves the old residue, several leave what their differences do. *)
PayResidue(a, S, left, s) ==
    IF OwnedBy(a, S) = {} THEN s = residue[a]
    ELSE left > 0 \/ (s >= 0 /\ (Cardinality(OwnedBy(a, S)) = 1 => s = residue[a]))

(* process_lock_installments: one transaction pays a period of every row    *)
(* whose principal the locked balance covers, and skips the other rows.     *)
PayPeriods(payees, force) ==
    /\ \E S \in SUBSET Payable(payees, force) \ {{}}, signs \in [Accounts -> Residues] :
         LET left == [a \in Accounts |-> locked[a] - PeriodsOf(OwnedBy(a, S))]
         IN  /\ \A a \in Accounts : left[a] \in Nat /\ PayResidue(a, S, left[a], signs[a])
             /\ \A i \in Payable(payees, force) \ S :
                  ~Covers(left[plan[i].owner], signs[plan[i].owner], PeriodPrincipal(plan[i]))
             /\ locked' = left
             /\ residue' = signs
             /\ plan' = [i \in Locks |-> IF i \in S THEN PaidPeriod(plan[i]) ELSE plan[i]]
    /\ UNCHANGED <<unlocked, appeal, decayed, job, restored, crashes>>

(* The maintenance loop pays what is due; an owner may also ask, by force.   *)
Maintain == PayPeriods(Accounts, FALSE)
PayOnRequest(a) == \E force \in BOOLEAN : PayPeriods({a}, force)

(* early_unlock_installment: unpaid rewards and 5% of the principal go to   *)
(* the fault pool, the rest of the principal back to the unlocked pool.     *)
EarlyUnlock(i) ==
    LET p       == plan[i]
        unpaid  == UnpaidPrincipal(p)
        penalty == Rounded(p.total * 5, 100)
        forfeit == UnpaidReward(p) + penalty
    IN  /\ Active(i)
        /\ unpaid > 0 => Covers(locked[p.owner], residue[p.owner], unpaid)
        /\ DebitLocked(p.owner, unpaid)
        /\ unlocked' = [unlocked EXCEPT ![p.owner] = @ + NonNegative(unpaid - penalty)]
        /\ plan' = [plan EXCEPT ![i].status = "early_unlocked", ![i].due = FALSE,
                                ![i].forfeited = forfeit]
        /\ UNCHANGED <<appeal, decayed, job, restored, crashes>>

-----------------------------------------------------------------------------
(* A key fails                                                             *)

(* forfeit_installments_for_key_failure first lists the plans ...           *)
KeyFails(w, k) ==
    LET bound == {i \in Locks : Active(i) /\ plan[i].key = k}
    IN  /\ Free(w) /\ bound # {}
        /\ Goto(w, [op |-> "forfeit", todo |-> bound])
        /\ UNCHANGED <<unlocked, locked, residue, plan, appeal, decayed, restored, crashes>>

\* Mutant: a balance that does not cover the principal loses nothing.
TakenIfCovered(balance, unpaid, full) == IF full THEN unpaid ELSE 0
Taken(balance, unpaid, full) == IF full THEN unpaid ELSE balance

\* Mutant: the list is trusted.
ForfeitableListed(i) == TRUE
Forfeitable(i) == Active(i)

(* ... then forfeits each in a transaction of its own.  A balance that does *)
(* not cover the principal is emptied and counted as it is; one that is     *)
(* zero leaves the count as it was.                                         *)
Forfeit(w, i) ==
    LET p      == plan[i]
        a      == p.owner
        unpaid == UnpaidPrincipal(p)
        full   == unpaid = 0 \/ Covers(locked[a], residue[a], unpaid)
        taken  == Taken(locked[a], unpaid, full)
        empty  == locked[a] = 0 /\ residue[a] = 0
        lost   == UnpaidReward(p) + IF empty THEN unpaid ELSE taken
    IN  /\ At(w, "forfeit") /\ i \in job[w].todo /\ Forfeitable(i)
        /\ locked' = [locked EXCEPT ![a] = @ - taken]
        /\ \E s \in IF full THEN ResidueOfDebit(a, taken) ELSE {0} :
             residue' = [residue EXCEPT ![a] = s]
        /\ plan' = [plan EXCEPT ![i].status = "forfeited_key_failure", ![i].due = FALSE,
                                ![i].forfeited = lost, ![i].window = TRUE]
        /\ Goto(w, IF job[w].todo = {i} THEN Idle ELSE [job[w] EXCEPT !.todo = @ \ {i}])
        /\ UNCHANGED <<unlocked, appeal, decayed, restored, crashes>>

(* A plan that ended since the list was read raises, and ends the loop.     *)
ForfeitRaises(w) ==
    /\ At(w, "forfeit")
    /\ \E i \in job[w].todo : ~Active(i)
    /\ Goto(w, Idle)
    /\ UNCHANGED <<unlocked, locked, residue, plan, appeal, decayed, restored, crashes>>

-----------------------------------------------------------------------------
(* Appeals                                                                 *)

WindowCloses(i) ==
    /\ plan[i].window
    /\ plan' = [plan EXCEPT ![i].window = FALSE]
    /\ UNCHANGED <<unlocked, locked, residue, appeal, decayed, job, restored, crashes>>

\* Mutant: any plan that ended can be appealed.
AppealableEnded(i) == plan[i].status \in Ended
Appealable(i) == plan[i].status = "forfeited_key_failure" /\ plan[i].window

(* create_appeal.  What it reads of the plan does not change any more, so   *)
(* reading and inserting are one step.                                      *)
FileAppeal(q, i) ==
    /\ appeal[q].status = "none"
    /\ Appealable(i)
    /\ appeal' = [appeal EXCEPT ![q] = [status |-> "pending", plan |-> i, amount |-> plan[i].forfeited]]
    /\ UNCHANGED <<unlocked, locked, residue, plan, decayed, job, restored, crashes>>

(* resolve_appeal: any appeal, whatever its status ...                      *)
Resolve(w, q) ==
    /\ Free(w)
    /\ appeal[q].status # "none"
    /\ restored[appeal[q].plan] <= MaxRestored
    /\ appeal' = [appeal EXCEPT ![q].status = "resolved"]
    /\ \E restore \in BOOLEAN :
         IF restore /\ appeal[q].amount > 0
         THEN Goto(w, [op |-> "restore", plan |-> appeal[q].plan, amount |-> appeal[q].amount])
         ELSE UNCHANGED job
    /\ UNCHANGED <<unlocked, locked, residue, plan, decayed, restored, crashes>>

(* ... and restore_key_failure_forfeiture in a second transaction.          *)
Restore(w) ==
    /\ At(w, "restore")
    /\ LET a == plan[job[w].plan].owner
       IN  unlocked' = [unlocked EXCEPT ![a] = @ + job[w].amount]
    /\ restored' = [restored EXCEPT ![job[w].plan] = @ + job[w].amount]
    /\ Goto(w, Idle)
    /\ UNCHANGED <<locked, residue, plan, appeal, decayed, crashes>>

-----------------------------------------------------------------------------
(* The process dies: committed transactions stay, threads do not.           *)
Restart ==
    /\ crashes < MaxCrashes
    /\ crashes' = crashes + 1
    /\ job' = [w \in Workers |-> Idle]
    /\ UNCHANGED <<unlocked, locked, residue, plan, appeal, decayed, restored>>

(* What a thread does on its own once a request has started it.             *)
JobStep(w) ==
    \/ LockDebit(w) \/ LockCredit(w) \/ LockInstall(w)
    \/ ForfeitRaises(w) \/ Restore(w)
    \/ \E i \in Locks : Forfeit(w, i)

(* Requests that take one transaction, and those that start a job.          *)
Request ==
    \/ \E a \in Accounts : Earn(a) \/ Convert(a) \/ PayOnRequest(a)
    \/ \E i \in Locks : EarlyUnlock(i)
    \/ \E q \in Appeals, i \in Locks : FileAppeal(q, i)

Begin(w) ==
    \/ \E a \in Accounts : LockRequest(w, a)
    \/ \E k \in Keys : KeyFails(w, k)
    \/ \E q \in Appeals : Resolve(w, q)

Clock == \/ \E a \in Accounts : HalfLifePasses(a)
         \/ \E i \in Locks : DueDatePasses(i) \/ WindowCloses(i)

Next ==
    \/ \E w \in Workers : JobStep(w) \/ Begin(w)
    \/ Request \/ Maintain \/ Decay \/ Clock \/ Restart

Spec == Init /\ [][Next]_vars

(* Threads run, dates pass, and the hourly loop comes round.  Nobody has to *)
(* make a request.                                                          *)
Fairness ==
    /\ \A w \in Workers : WF_vars(JobStep(w))
    /\ \A i \in Locks : WF_vars(DueDatePasses(i))
    /\ WF_vars(Maintain)

FairSpec == Spec /\ Fairness

-----------------------------------------------------------------------------
(* Properties                                                              *)

UnpaidPrincipals(a) ==
    MapThenSumSet(LAMBDA i : UnpaidPrincipal(plan[i]), {i \in Locks : Active(i) /\ plan[i].owner = a})
Uninstalled(a) ==
    MapThenSumSet(LAMBDA w : job[w].amount, {w \in Workers : At(w, "install") /\ job[w].acct = a})

(* The locked balance always holds the unpaid principal of every running    *)
(* plan of the account, through races of payments, early unlocks and key    *)
(* failures; and it holds nothing else, unless a crash came between         *)
(* LockCredit and LockInstall.                                              *)
LockedBacksPlans ==
    \A a \in Accounts :
        LET owed == UnpaidPrincipals(a) + Uninstalled(a)
        IN  locked[a] >= owed /\ (crashes = 0 => locked[a] = owed)

(* A key failure takes the unpaid principal and rewards of a plan, no less: *)
(* the branch for a balance that does not cover the principal loses none.   *)
ForfeitedInFull ==
    \A i \in Locks : plan[i].status = "forfeited_key_failure" =>
        plan[i].forfeited = UnpaidPrincipal(plan[i]) + UnpaidReward(plan[i])

(* Only forfeited plans are ever restored, and an appeal asks for exactly   *)
(* what its plan forfeited, however late it is resolved.                    *)
AppealsMatchForfeiture ==
    /\ \A q \in Appeals : appeal[q].status # "none" =>
         LET i == appeal[q].plan
         IN  plan[i].status = "forfeited_key_failure" /\ appeal[q].amount = plan[i].forfeited
    /\ \A i \in Locks : restored[i] > 0 => plan[i].status = "forfeited_key_failure"

(* A plan that ended stays as it ended: a payment, an early unlock and a    *)
(* key failure that race for it settle it once.                             *)
EndedIsFinal ==
    [][\A i \in Locks : plan[i].status \in Ended =>
         /\ plan'[i].status = plan[i].status
         /\ plan'[i].paid = plan[i].paid
         /\ plan'[i].forfeited = plan[i].forfeited]_vars

Ends(i) == Active(i) ~> plan[i].status \in Ended

(* "locked -> installment: three periods -> purchased"                      *)
(* (docs/architecture/credit-pools-lifecycle.md, lines 94-95): with the     *)
(* maintenance loop running, every plan is paid out or otherwise ended ...  *)
PlansEnd == \A i \in Locks : Ends(i)

(* ... which is so as long as the sums of doubles come out exact.           *)
PlansEndIfExact == [](\A a \in Accounts : residue[a] = 0) => PlansEnd

(* "Restore the forfeited credits" (billing/pool_store.py, line 1723): the  *)
(* account does not get more back than was forfeited.                       *)
RestoredOnce == \A i \in Locks : restored[i] <= plan[i].forfeited

(* A failed key forfeits the unpaid instalments (billing/pool_store.py,     *)
(* line 1571): the loop over them does not stop while one is still active   *)
(* that no other thread is about to forfeit.                                *)
KeyFailureReachesAll ==
    [][\A w \in Workers :
         (At(w, "forfeit") /\ job'[w] = Idle /\ crashes' = crashes) =>
           \A i \in job[w].todo : plan'[i].status = "active" =>
             \E v \in Workers \ {w} : At(v, "forfeit") /\ i \in job[v].todo]_vars
=============================================================================
