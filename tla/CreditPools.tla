------------------------------ MODULE CreditPools ------------------------------
(***************************************************************************)
(* The credit pools of one account: the monthly grant and the purchased    *)
(* pool that charges are taken from, the unlocked contribution pool that   *)
(* is converted into purchased credits, and the operations that work on    *)
(* them at the same time: reservations and settlements of tasks, metered   *)
(* charges, top-ups, conversions and the monthly rollover                  *)
(* (backend/billing/pools_service.py, pool_store.py, task_lifecycle.py,    *)
(* store.py).                                                              *)
(*                                                                         *)
(* Every block under PoolStore._conn is one transaction, hence one action; *)
(* what an operation does between two of them is what it remembers: pc,    *)
(* held and entry.  Nothing forces an operation to take its next step, so  *)
(* a crash between two transactions is an operation that stops for ever.   *)
(* Amounts are whole numbers of the smallest unit the code rounds to.      *)
(***************************************************************************)
EXTENDS Integers, FiniteSets, FiniteSetsExt

CONSTANTS
  Tasks,         \* task ids whose execution is billed (reserve_for_task)
  Calls,         \* metered charges without a task snapshot (emit_usage_event)
  Converts,      \* calls of convert_contribution_unlocked
  Topups,        \* calls of topup_purchased / BillingStore.credit
  Closers,       \* calls of complete_billed_task
  Amount,        \* what each task is estimated at and each call asks for
  MonthlyGrant,  \* the plan's monthly_credits
  RollPercent,   \* monthly_rollover_ratio, in percent
  RollCap,       \* rollover_cap
  Contributed,   \* the unlocked contribution pool at the start
  MaxMonth,      \* bound: months
  MaxUsage       \* bound: usage recorded for one task

Askers == Tasks \cup Calls \cup Converts \cup Topups
Procs == Askers \cup Closers

ASSUME ProcsDisjoint ==
  /\ Tasks \cap (Calls \cup Converts \cup Topups \cup Closers) = {}
  /\ Calls \cap (Converts \cup Topups \cup Closers) = {}
  /\ Converts \cap (Topups \cup Closers) = {}
  /\ Topups \cap Closers = {}
ASSUME ProcsFinite == IsFiniteSet(Procs)
ASSUME AmountsPositive == \A p \in Askers : Amount[p] \in Nat \ {0}
ASSUME PolicyAssumption ==
  /\ MonthlyGrant \in Nat /\ RollCap \in Nat /\ Contributed \in Nat
  /\ RollPercent \in 0..100
  /\ MaxMonth \in Nat \ {0} /\ MaxUsage \in Nat

VARIABLES
  month,      \* the current _month_key
  granted,    \* months with a subscription grant
  rolled,     \* months with a rollover record
  grants,     \* sum of the grants table's subscription rows
  forfeited,  \* sum of rollover_records.forfeited
  ledger,     \* sum of pool_ledger.amount over the two spendable pools
  monthly,    \* balances: monthly_grant
  purchased,  \* balances: purchased
  unlocked,   \* balances: contribution_unlocked
  reserved,   \* tasks.reserved_credits, 0 while there is no row
  usage,      \* sum of pool_usage_events.cost_credits of the task
  settled,    \* tasks.settled_credits
  status,     \* tasks.status
  pc,         \* where each operation stands
  held,       \* the amount an operation has decided on
  entry,      \* the ledger entry an operation has still to write
  target,     \* the task a settlement closes
  paid,       \* history: credits taken for the task, less those given back
  closes      \* history: settlements begun for the task

poolVars == <<monthly, purchased, unlocked>>
monthVars == <<month, granted, rolled, grants, forfeited>>
taskVars == <<reserved, usage, settled, status>>
history == <<paid, closes>>
local == <<pc, held, entry, target>>
vars == <<poolVars, monthVars, ledger, taskVars, local, history>>

States == {"start", "ensured", "record", "spend", "log", "debit", "credit",
           "refund", "check", "mark", "running", "done", "refused", "failed"}

Smaller(a, b) == IF a <= b THEN a ELSE b
Spendable == monthly + purchased
\* Mutant: the purchased pool is spent first.
TakeMonthlyLast(a) == a - Smaller(purchased, a)
TakeMonthly(a) == Smaller(monthly, a)
Rolled(unused) == Smaller((unused * RollPercent) \div 100, RollCap)
Converted(a) == (a * 2) \div 5

Init ==
  /\ month = 1 /\ granted = {} /\ rolled = {} /\ grants = 0 /\ forfeited = 0
  /\ ledger = 0 /\ monthly = 0 /\ purchased = 0 /\ unlocked = Contributed
  /\ reserved = [t \in Tasks |-> 0]
  /\ usage = [t \in Tasks |-> 0]
  /\ settled = [t \in Tasks |-> 0]
  /\ status = [t \in Tasks |-> "open"]
  /\ pc = [p \in Procs |-> "start"]
  /\ held = [p \in Procs |-> 0]
  /\ entry = [p \in Procs |-> 0]
  /\ target \in [Closers -> Tasks]
  /\ paid = [t \in Tasks |-> 0]
  /\ closes = [t \in Tasks |-> 0]

Goto(p, next) == pc' = [pc EXCEPT ![p] = next]
Hold(p, a) == held' = [held EXCEPT ![p] = a]
Owe(p, a) == entry' = [entry EXCEPT ![p] = a]

-------------------------------------------------------------------------------
(* ensure_pools, the first transaction of every operation of a user: the   *)
(* month's grant is made once, whoever comes first.                        *)
EnsurePools(p) ==
  /\ pc[p] = "start" /\ p \in Askers
  /\ IF month \in granted
       THEN UNCHANGED <<granted, grants, monthly>>
       ELSE /\ granted' = granted \cup {month}
            /\ grants' = grants + MonthlyGrant
            /\ monthly' = monthly + MonthlyGrant
  /\ Goto(p, "ensured")
  /\ UNCHANGED <<month, rolled, forfeited, purchased, unlocked, ledger,
                 taskVars, held, entry, target, history>>

(* evaluate_reserve_tier *)
Rejects(available, estimate) == 2 * available < estimate
ReserveOf(available, estimate) == Smaller(available, estimate)

(* reserve_for_task: total_spendable and the tier it gives.                *)
ReserveRead(t) ==
  /\ t \in Tasks /\ pc[t] = "ensured"
  /\ IF Rejects(Spendable, Amount[t])
       THEN Goto(t, "refused") /\ UNCHANGED held
       ELSE Goto(t, "record") /\ Hold(t, ReserveOf(Spendable, Amount[t]))
  /\ UNCHANGED <<poolVars, monthVars, ledger, taskVars, entry, target, history>>

(* create_task_record: the task's row and its reservation.                 *)
CreateTaskRecord(t) ==
  /\ t \in Tasks /\ pc[t] = "record"
  /\ reserved' = [reserved EXCEPT ![t] = held[t]]
  /\ Goto(t, "spend")
  /\ UNCHANGED <<poolVars, monthVars, ledger, usage, settled, status,
                 held, entry, target, history>>

\* Mutant: the UPDATE does not ask for amount >= X.
SpendUnchecked(p, a) ==
  /\ monthly' = monthly - TakeMonthly(a)
  /\ purchased' = purchased - (a - TakeMonthly(a))
  /\ Owe(p, -a)
  /\ Goto(p, "log")

(* spend_from_pools: the grant first, then the purchased pool, all of the  *)
(* amount or nothing.                                                      *)
Spend(p, a) ==
  /\ a <= Spendable
  /\ monthly' = monthly - TakeMonthly(a)
  /\ purchased' = purchased - (a - TakeMonthly(a))
  /\ Owe(p, -a)
  /\ Goto(p, "log")

\* Mutant: what could be taken is committed before the error.
SpendFailsUnrolled(p, a) ==
  /\ a > Spendable
  /\ monthly' = 0 /\ purchased' = 0
  /\ Goto(p, "failed") /\ UNCHANGED entry

(* INSUFFICIENT_CREDITS: the transaction is rolled back.                   *)
SpendFails(p, a) ==
  /\ a > Spendable
  /\ Goto(p, "failed")
  /\ UNCHANGED <<monthly, purchased, entry>>

ReserveSpend(t) ==
  /\ t \in Tasks /\ pc[t] = "spend"
  /\ \/ Spend(t, held[t]) /\ paid' = [paid EXCEPT ![t] = @ + held[t]]
     \/ SpendFails(t, held[t]) /\ UNCHANGED paid
  /\ UNCHANGED <<unlocked, monthVars, ledger, taskVars, held, target, closes>>

(* append_ledger, a transaction of its own after the one it reports.       *)
After(p) == IF p \in Tasks THEN "running"
            ELSE IF p \in Closers THEN "mark" ELSE "done"

AppendLedger(p) ==
  /\ pc[p] = "log"
  /\ ledger' = ledger + entry[p]
  /\ Owe(p, 0)
  /\ Goto(p, After(p))
  /\ UNCHANGED <<poolVars, monthVars, taskVars, held, target, history>>

(* meter_llm of a task with a snapshot: record_usage_event, no debit.  A   *)
(* task whose reservation failed runs too: create_task of main.py turns    *)
(* only InsufficientCreditsError into a refusal.                           *)
RecordUsage(t) ==
  /\ t \in Tasks /\ pc[t] \in {"running", "failed"} /\ usage[t] < MaxUsage
  /\ usage' = [usage EXCEPT ![t] = @ + 1]
  /\ UNCHANGED <<poolVars, monthVars, ledger, reserved, settled, status,
                 local, history>>

-------------------------------------------------------------------------------
(* BillingStore.debit: the balance is checked, then spent from.            *)
DebitCheck(c) ==
  /\ c \in Calls /\ pc[c] = "ensured"
  /\ IF Spendable < Amount[c]
       THEN Goto(c, "refused") /\ UNCHANGED held
       ELSE Goto(c, "spend") /\ Hold(c, Amount[c])
  /\ UNCHANGED <<poolVars, monthVars, ledger, taskVars, entry, target, history>>

DebitSpend(c) ==
  /\ c \in Calls /\ pc[c] = "spend"
  /\ Spend(c, held[c]) \/ SpendFails(c, held[c])
  /\ UNCHANGED <<unlocked, monthVars, ledger, taskVars, held, target, history>>

(* credit_pool of purchased credits.                                       *)
Credit(p, a) ==
  /\ purchased' = purchased + a
  /\ Owe(p, a)
  /\ Goto(p, "log")

TopupPurchased(k) ==
  /\ k \in Topups /\ pc[k] = "ensured"
  /\ Credit(k, Amount[k])
  /\ UNCHANGED <<monthly, unlocked, monthVars, ledger, taskVars, held, target,
                 history>>

(* convert_contribution_unlocked: read, debit, credit, three transactions. *)
ConvertRead(v) ==
  /\ v \in Converts /\ pc[v] = "ensured"
  /\ Goto(v, IF Amount[v] > unlocked THEN "refused" ELSE "debit")
  /\ UNCHANGED <<poolVars, monthVars, ledger, taskVars, held, entry, target,
                 history>>

\* Mutant: the balance read before is trusted.
ConvertDebitUnchecked(v) ==
  /\ v \in Converts /\ pc[v] = "debit"
  /\ unlocked' = unlocked - Amount[v]
  /\ Goto(v, "credit")
  /\ UNCHANGED <<monthly, purchased, monthVars, ledger, taskVars, held, entry,
                 target, history>>

ConvertDebit(v) ==
  /\ v \in Converts /\ pc[v] = "debit"
  /\ IF Amount[v] <= unlocked
       THEN unlocked' = unlocked - Amount[v] /\ Goto(v, "credit")
       ELSE UNCHANGED unlocked /\ Goto(v, "failed")
  /\ UNCHANGED <<monthly, purchased, monthVars, ledger, taskVars, held, entry,
                 target, history>>

ConvertCredit(v) ==
  /\ v \in Converts /\ pc[v] = "credit"
  /\ IF Converted(Amount[v]) > 0
       THEN Credit(v, Converted(Amount[v]))
       ELSE Goto(v, "done") /\ UNCHANGED <<purchased, entry>>
  /\ UNCHANGED <<monthly, unlocked, monthVars, ledger, taskVars, held, target,
                 history>>

-------------------------------------------------------------------------------
(* complete_billed_task: the usage is summed, the reservation read; what   *)
(* the task's status says is not asked.                                    *)
Begun(t) == pc[t] \in {"running", "failed"}

CloseRead(f) ==
  /\ f \in Closers /\ pc[f] = "start" /\ Begun(target[f])
  /\ Hold(f, usage[target[f]])
  /\ closes' = [closes EXCEPT ![target[f]] = @ + 1]
  /\ LET delta == reserved[target[f]] - usage[target[f]] IN
       \/ delta > 0 /\ Goto(f, "refund")
       \/ delta < 0 /\ Goto(f, "check")
       \/ delta = 0 /\ Goto(f, "mark")
  /\ UNCHANGED <<poolVars, monthVars, ledger, taskVars, entry, target, paid>>

CloseRefundOf(f, a) ==
  /\ f \in Closers /\ pc[f] = "refund"
  /\ Credit(f, a)
  /\ paid' = [paid EXCEPT ![target[f]] = @ - a]
  /\ UNCHANGED <<monthly, unlocked, monthVars, ledger, taskVars, held, target,
                 closes>>

\* Mutant: the refund is measured against the estimate.
RefundOfEstimate(f) == CloseRefundOf(f, Amount[target[f]] - held[f])

(* finalize_task, less used than reserved: the rest to the purchased pool. *)
CloseRefund(f) == CloseRefundOf(f, reserved[target[f]] - held[f])

(* finalize_task, more used than reserved: the check before the charge.    *)
Extra(f) == held[f] - reserved[target[f]]

CloseCheck(f) ==
  /\ f \in Closers /\ pc[f] = "check"
  /\ Goto(f, IF Spendable < Extra(f) THEN "failed" ELSE "spend")
  /\ UNCHANGED <<poolVars, monthVars, ledger, taskVars, held, entry, target,
                 history>>

CloseSpend(f) ==
  /\ f \in Closers /\ pc[f] = "spend"
  /\ \/ /\ Spend(f, Extra(f))
        /\ paid' = [paid EXCEPT ![target[f]] = @ + Extra(f)]
     \/ SpendFails(f, Extra(f)) /\ UNCHANGED paid
  /\ UNCHANGED <<unlocked, monthVars, ledger, taskVars, held, target, closes>>

CloseMark(f) ==
  /\ f \in Closers /\ pc[f] = "mark"
  /\ settled' = [settled EXCEPT ![target[f]] = held[f]]
  /\ status' = [status EXCEPT ![target[f]] = "settled"]
  /\ Goto(f, "done")
  /\ UNCHANGED <<poolVars, monthVars, ledger, reserved, usage, held, entry,
                 target, history>>

-------------------------------------------------------------------------------
(* run_monthly_rollover, called every day: one transaction, and a record   *)
(* that keeps it to once a month.                                          *)
RunMonthlyRollover ==
  /\ monthly > 0 /\ month \notin rolled
  /\ rolled' = rolled \cup {month}
  /\ forfeited' = forfeited + (monthly - Rolled(monthly))
  /\ purchased' = purchased + Rolled(monthly)
  /\ monthly' = 0
  /\ UNCHANGED <<month, granted, grants, unlocked, ledger, taskVars, local,
                 history>>

NextMonth ==
  /\ month < MaxMonth
  /\ month' = month + 1
  /\ UNCHANGED <<granted, rolled, grants, forfeited, poolVars, ledger, taskVars,
                 local, history>>

Next ==
  \/ \E p \in Askers : EnsurePools(p)
  \/ \E t \in Tasks : \/ ReserveRead(t) \/ CreateTaskRecord(t)
                      \/ ReserveSpend(t) \/ RecordUsage(t)
  \/ \E c \in Calls : DebitCheck(c) \/ DebitSpend(c)
  \/ \E k \in Topups : TopupPurchased(k)
  \/ \E v \in Converts : ConvertRead(v) \/ ConvertDebit(v) \/ ConvertCredit(v)
  \/ \E f \in Closers : \/ CloseRead(f) \/ CloseRefund(f) \/ CloseCheck(f)
                        \/ CloseSpend(f) \/ CloseMark(f)
  \/ \E p \in Procs : AppendLedger(p)
  \/ RunMonthlyRollover
  \/ NextMonth

Spec == Init /\ [][Next]_vars

-------------------------------------------------------------------------------
(* The types of the variables; the pools charges are taken from may be any *)
(* integer, Solvent says more.                                             *)
TypeOK ==
  /\ month \in 1..MaxMonth
  /\ granted \subseteq 1..MaxMonth /\ rolled \subseteq 1..MaxMonth
  /\ grants \in Nat /\ forfeited \in Int /\ ledger \in Int
  /\ monthly \in Int /\ purchased \in Int /\ unlocked \in Nat
  /\ reserved \in [Tasks -> Nat] /\ usage \in [Tasks -> Nat]
  /\ settled \in [Tasks -> Nat] /\ status \in [Tasks -> {"open", "settled"}]
  /\ pc \in [Procs -> States] /\ held \in [Procs -> Nat]
  /\ entry \in [Procs -> Int] /\ target \in [Closers -> Tasks]
  /\ paid \in [Tasks -> Int] /\ closes \in [Tasks -> Nat]

(* However many reservations, charges and settlements passed their check   *)
(* on the same balance, no pool is ever below zero: the transaction of     *)
(* spend_from_pools takes all of an amount or none of it.                  *)
Solvent == monthly >= 0 /\ purchased >= 0

(* The durable records explain the balances: what the pools hold is what   *)
(* was granted, less what rollovers forfeited, plus the ledger, plus the   *)
(* entries of operations that committed and have not yet written theirs.   *)
BooksBalance ==
  monthly + purchased =
    grants - forfeited + ledger + MapThenSumSet(LAMBDA p : entry[p], Procs)

(* A charge reaches the purchased pool, which does not expire, only when   *)
(* the monthly grant is used up: SPEND_ORDER.                              *)
GrantSpentFirst == [][(purchased' < purchased) => (monthly' = 0)]_vars

(* A task whose reservation was charged and that was closed once has paid  *)
(* what it is settled at, in either tier and whether credits were given    *)
(* back or charged on top.                                                 *)
SettledIsPaid ==
  \A t \in Tasks :
    (status[t] = "settled" /\ closes[t] = 1 /\ pc[t] = "running")
      => paid[t] = settled[t]

(* What the account page announces (rollover_notice_zh): the rollover is   *)
(* at the beginning of a month, so it never takes a grant of that month.   *)
FreshGrantKept == [][(rolled' # rolled) => (month \notin granted)]_vars

(* credit-pools-lifecycle.md: a settlement gives back what was reserved    *)
(* and not used, so never more than was taken for the task.                *)
RefundWithinTaken == \A t \in Tasks : paid[t] >= 0
===============================================================================
