--------------------------- MODULE CreditPoolsProofs ---------------------------
(***************************************************************************)
(* Proofs about CreditPools, for any number of operations, any amounts and *)
(* any policy that satisfy its assumptions.                                *)
(***************************************************************************)
EXTENDS CreditPools, SumTheorems

Under(f) == pc[f] # "start"

\* What an operation has decided on, by the place where it stands.
HeldShape ==
  /\ \A t \in Tasks :
       /\ pc[t] \in {"start", "ensured", "refused", "record", "spend", "log",
                     "running", "failed"}
       /\ pc[t] \in {"spend", "log", "running", "failed"} => reserved[t] = held[t]
  /\ \A f \in Closers :
       /\ pc[f] \in {"start", "refund", "check", "spend", "log", "mark", "done",
                     "failed"}
       /\ pc[f] = "refund" => held[f] < reserved[target[f]]
       /\ pc[f] \in {"check", "spend"} => held[f] > reserved[target[f]]
       /\ Under(f) => Begun(target[f])
  /\ \A v \in Converts : pc[v] \in {"start", "ensured", "debit", "credit", "log",
                                    "done", "refused", "failed"}

\* closes counts the settlements under way or over, up to two.
ClosesShape ==
  /\ \A f \in Closers : closes[target[f]] = 0 => ~Under(f)
  /\ \A f, g \in Closers :
       (closes[target[f]] = 1 /\ target[f] = target[g] /\ Under(f) /\ Under(g)) => f = g
  /\ \A t \in Tasks : status[t] = "settled" =>
       \E f \in Closers : target[f] = t /\ pc[f] = "done"

\* What a task has paid before it is closed and while it is closed once.
PaidShape ==
  /\ \A t \in Tasks : closes[t] = 0 =>
       /\ pc[t] \in {"start", "ensured", "refused", "record", "spend"} => paid[t] = 0
       /\ pc[t] \in {"log", "running"} => paid[t] = reserved[t]
  /\ \A t \in Tasks : closes[t] # 0 => pc[t] \in {"running", "failed"}
  /\ \A f \in Closers :
       (closes[target[f]] = 1 /\ Under(f) /\ pc[target[f]] = "running") =>
         /\ pc[f] \in {"refund", "check", "spend", "failed"}
              => paid[target[f]] = reserved[target[f]]
         /\ pc[f] \in {"log", "mark", "done"} => paid[target[f]] = held[f]
         /\ pc[f] = "mark" => held[f] \in Nat
         /\ pc[f] = "done" => settled[target[f]] = held[f]

IInv == TypeOK /\ Solvent /\ HeldShape /\ ClosesShape /\ PaidShape

-------------------------------------------------------------------------------
(* What a transaction does to the pools *)

LEMMA Taking ==
  ASSUME monthly \in Nat, purchased \in Nat, NEW a \in Nat, a <= Spendable
  PROVE  /\ TakeMonthly(a) \in Nat
         /\ monthly - TakeMonthly(a) \in Nat
         /\ purchased - (a - TakeMonthly(a)) \in Nat
         /\ (purchased - (a - TakeMonthly(a)) < purchased)
              => (monthly - TakeMonthly(a) = 0)
BY DEF TakeMonthly, Smaller, Spendable

LEMMA RolledType ==
  ASSUME NEW u \in Nat
  PROVE  Rolled(u) \in Nat
<1>1. (u * RollPercent) \in Nat
  BY PolicyAssumption
<1>2. (u * RollPercent) \div 100 \in Nat
  BY <1>1
<1>. QED  BY <1>2, PolicyAssumption DEF Rolled, Smaller

LEMMA ConvertedType ==
  ASSUME NEW a \in Nat
  PROVE  Converted(a) \in Nat
BY DEF Converted

\* Whose operation is whose.
LEMMA Kinds ==
  /\ \A p \in Tasks : p \in Procs /\ p \notin Calls /\ p \notin Converts
                      /\ p \notin Topups /\ p \notin Closers
  /\ \A p \in Calls : p \in Procs /\ p \notin Tasks /\ p \notin Converts /\ p \notin Closers
  /\ \A p \in Converts : p \in Procs /\ p \notin Tasks /\ p \notin Calls /\ p \notin Closers
                         /\ p \notin Topups
  /\ \A p \in Topups : p \in Procs /\ p \notin Tasks /\ p \notin Converts /\ p \notin Closers
  /\ \A p \in Closers : p \in Procs /\ p \notin Tasks /\ p \notin Converts
BY ProcsDisjoint DEF Procs, Askers

\* An operation moves on, with an amount it may have decided on.
LEMMA GotoType ==
  ASSUME TypeOK, NEW p \in Procs, NEW s \in States, Goto(p, s)
  PROVE  pc' \in [Procs -> States]
BY DEF Goto, TypeOK

LEMMA HoldType ==
  ASSUME TypeOK, NEW p \in Procs, NEW a \in Nat, Hold(p, a) \/ UNCHANGED held
  PROVE  held' \in [Procs -> Nat]
BY DEF Hold, TypeOK

LEMMA OweType ==
  ASSUME TypeOK, NEW p \in Procs, NEW a \in Int, Owe(p, a)
  PROVE  entry' \in [Procs -> Int]
BY DEF Owe, TypeOK

-------------------------------------------------------------------------------
(* Every step keeps the invariant *)

\* The month and the pools change, no operation moves.
LEMMA MonthKeeps ==
  ASSUME IInv, RunMonthlyRollover \/ NextMonth
  PROVE  IInv'
<1>0. monthly \in Nat
  BY DEF IInv, TypeOK, Solvent
<1>1. Rolled(monthly) \in Nat
  BY <1>0, RolledType
<1>2. TypeOK' /\ Solvent'
  <2>1. CASE RunMonthlyRollover
    BY <2>1, <1>0, <1>1
    DEF RunMonthlyRollover, IInv, TypeOK, Solvent, taskVars, local, history
  <2>2. CASE NextMonth
    BY <2>2, PolicyAssumption
    DEF NextMonth, IInv, TypeOK, Solvent, taskVars, local, history, poolVars
  <2>. QED  BY <2>1, <2>2
<1>3. HeldShape' /\ ClosesShape' /\ PaidShape'
  BY DEF RunMonthlyRollover, NextMonth, IInv, HeldShape, ClosesShape, PaidShape,
         Begun, Under, taskVars, local, history, poolVars
<1>. QED  BY <1>2, <1>3 DEF IInv

\* Steps of charges, top-ups and conversions concern no task.
LEMMA OthersKeep ==
  ASSUME IInv, taskVars' = taskVars, history' = history, target' = target,
         \A p \in Tasks \cup Closers : pc'[p] = pc[p] /\ held'[p] = held[p],
         \A p \in Converts : pc'[p] \in {"start", "ensured", "debit", "credit", "log",
                                         "done", "refused", "failed"}
  PROVE  HeldShape' /\ ClosesShape' /\ PaidShape'
<1>. USE DEF taskVars, history, IInv, Under, Begun
<1>0. target \in [Closers -> Tasks]
  BY DEF TypeOK
<1>1. HeldShape'
  BY <1>0 DEF HeldShape
<1>2. ClosesShape'
  BY <1>0 DEF ClosesShape
<1>3. PaidShape'
  BY <1>0 DEF PaidShape
<1>. QED  BY <1>1, <1>2, <1>3

LEMMA CallKeeps ==
  ASSUME IInv, NEW c \in Calls, DebitCheck(c) \/ DebitSpend(c)
  PROVE  IInv'
<1>0. /\ monthly \in Nat /\ purchased \in Nat /\ Amount[c] \in Nat /\ held[c] \in Nat
      /\ c \in Procs
  BY AmountsPositive, Kinds DEF IInv, TypeOK, Solvent, Askers
<1>1. TypeOK' /\ Solvent'
  <2>1. CASE DebitCheck(c)
    BY <2>1, <1>0 DEF DebitCheck, IInv, TypeOK, Solvent, Goto, Hold, States, poolVars,
       monthVars, taskVars, history
  <2>2. CASE DebitSpend(c) /\ held[c] <= Spendable
    BY <2>2, <1>0, Taking DEF DebitSpend, Spend, SpendFails, Owe, IInv, TypeOK, Solvent, Goto,
       States, monthVars, taskVars, history, Spendable
  <2>3. CASE DebitSpend(c) /\ held[c] > Spendable
    BY <2>3, <1>0 DEF DebitSpend, Spend, SpendFails, Owe, IInv, TypeOK, Solvent, Goto,
       States, monthVars, taskVars, history, Spendable
  <2>. QED  BY <2>1, <2>2, <2>3, <1>0 DEF Spendable
<1>2. /\ taskVars' = taskVars /\ history' = history /\ target' = target
      /\ \A p \in Tasks \cup Closers \cup Converts : pc'[p] = pc[p] /\ held'[p] = held[p]
  BY Kinds DEF DebitCheck, DebitSpend, Spend, SpendFails, Goto, Hold, IInv, TypeOK
<1>3. HeldShape' /\ ClosesShape' /\ PaidShape'
  BY <1>2, OthersKeep DEF IInv, HeldShape
<1>. QED  BY <1>1, <1>3 DEF IInv

LEMMA TopupKeeps ==
  ASSUME IInv, NEW k \in Topups, TopupPurchased(k)
  PROVE  IInv'
<1>0. purchased \in Nat /\ Amount[k] \in Nat /\ k \in Procs
  BY AmountsPositive, Kinds DEF IInv, TypeOK, Solvent, Askers
<1>1. TypeOK' /\ Solvent'
  BY <1>0 DEF TopupPurchased, Credit, Owe, Goto, States, IInv, TypeOK, Solvent,
              monthVars, taskVars, history
<1>2. /\ taskVars' = taskVars /\ history' = history /\ target' = target
      /\ \A p \in Tasks \cup Closers \cup Converts : pc'[p] = pc[p] /\ held'[p] = held[p]
  BY Kinds DEF TopupPurchased, Credit, Goto, IInv, TypeOK
<1>3. HeldShape' /\ ClosesShape' /\ PaidShape'
  BY <1>2, OthersKeep DEF IInv, HeldShape
<1>. QED  BY <1>1, <1>3 DEF IInv

LEMMA ConvertKeeps ==
  ASSUME IInv, NEW v \in Converts, ConvertRead(v) \/ ConvertDebit(v) \/ ConvertCredit(v)
  PROVE  IInv'
<1>0. /\ purchased \in Nat /\ Amount[v] \in Nat /\ v \in Procs
      /\ Converted(Amount[v]) \in Nat /\ unlocked \in Nat
  BY AmountsPositive, Kinds, ConvertedType DEF IInv, TypeOK, Solvent, Askers
<1>1. TypeOK' /\ Solvent'
  <2>0. CASE ConvertRead(v)
    BY <2>0, <1>0 DEF ConvertRead, Goto, States, IInv, TypeOK, Solvent,
                monthVars, taskVars, history, poolVars
  <2>1. CASE ConvertDebit(v)
    BY <2>1, <1>0 DEF ConvertDebit, Goto, States, IInv, TypeOK, Solvent,
                monthVars, taskVars, history
  <2>2. CASE ConvertCredit(v)
    BY <2>2, <1>0 DEF ConvertCredit, Credit, Owe, Goto, States, IInv, TypeOK, Solvent,
                monthVars, taskVars, history
  <2>. QED  BY <2>0, <2>1, <2>2
<1>2. /\ taskVars' = taskVars /\ history' = history /\ target' = target
      /\ \A p \in Tasks \cup Closers : pc'[p] = pc[p] /\ held'[p] = held[p]
      /\ pc'[v] \in {"refused", "debit", "credit", "failed", "log", "done"}
      /\ \A p \in Converts \ {v} : pc'[p] = pc[p]
  BY Kinds DEF ConvertRead, ConvertDebit, ConvertCredit, Credit, Goto, IInv, TypeOK
<1>3. HeldShape' /\ ClosesShape' /\ PaidShape'
  BY <1>2, OthersKeep DEF IInv, HeldShape
<1>. QED  BY <1>1, <1>3 DEF IInv

\* The first transaction of an operation.
LEMMA EnsureKeeps ==
  ASSUME IInv, NEW p \in Askers, EnsurePools(p)
  PROVE  IInv'
<1>0. p \in Procs /\ p \notin Closers /\ monthly \in Nat /\ purchased \in Nat /\ grants \in Nat
  BY Kinds, ProcsDisjoint DEF IInv, TypeOK, Solvent, Askers, Procs
<1>1. TypeOK' /\ Solvent'
  <2>1. pc' \in [Procs -> States]
    BY <1>0, GotoType DEF EnsurePools, IInv, States
  <2>2. CASE month \in granted
    BY <2>1, <2>2 DEF EnsurePools, IInv, TypeOK, Solvent, taskVars, history
  <2>3. CASE month \notin granted
    <3>1. /\ granted' = granted \cup {month} /\ grants' = grants + MonthlyGrant
          /\ monthly' = monthly + MonthlyGrant
      BY <2>3 DEF EnsurePools
    <3>2. grants' \in Nat /\ monthly' \in Nat
      BY <3>1, <1>0, PolicyAssumption
    <3>3. granted' \subseteq 1..MaxMonth
      BY <3>1 DEF IInv, TypeOK
    <3>. QED  BY <2>1, <3>2, <3>3, <1>0
              DEF EnsurePools, IInv, TypeOK, Solvent, taskVars, history
  <2>. QED  BY <2>2, <2>3
<1>2. /\ taskVars' = taskVars /\ history' = history /\ target' = target /\ held' = held
      /\ pc[p] = "start" /\ pc'[p] = "ensured"
      /\ \A q \in Procs \ {p} : pc'[q] = pc[q]
  BY <1>0 DEF EnsurePools, Goto, IInv, TypeOK
<1>. USE Kinds DEF taskVars, history, IInv, Under, Begun
<1>3. \A f \in Closers : pc'[f] = pc[f] /\ target[f] \in Tasks
  BY <1>0, <1>2 DEF TypeOK
<1>4. HeldShape'
  BY <1>0, <1>2, <1>3 DEF HeldShape
<1>5. ClosesShape'
  BY <1>2, <1>3 DEF ClosesShape
<1>6. PaidShape'
  BY <1>2, <1>3 DEF PaidShape, HeldShape
<1>. QED  BY <1>1, <1>4, <1>5, <1>6

LEMMA TaskKeeps ==
  ASSUME IInv, NEW t \in Tasks,
         ReserveRead(t) \/ CreateTaskRecord(t) \/ ReserveSpend(t) \/ RecordUsage(t)
  PROVE  IInv'
<1>0. /\ monthly \in Nat /\ purchased \in Nat /\ Amount[t] \in Nat /\ held[t] \in Nat
      /\ t \in Procs /\ Smaller(Spendable, Amount[t]) \in Nat /\ paid[t] \in Int
  BY AmountsPositive, Kinds DEF IInv, TypeOK, Solvent, Askers, Spendable, Smaller
<1>1. TypeOK' /\ Solvent'
  <2>0. CASE ReserveRead(t)
    <3>1. pc' \in [Procs -> States] /\ held' \in [Procs -> Nat]
      BY <2>0, <1>0, GotoType, HoldType DEF ReserveRead, ReserveOf, IInv, States
    <3>. QED  BY <2>0, <3>1 DEF ReserveRead, IInv, TypeOK, Solvent, poolVars, monthVars,
                                taskVars, history
  <2>1. CASE CreateTaskRecord(t)
    <3>1. pc' \in [Procs -> States]
      BY <2>1, <1>0, GotoType DEF CreateTaskRecord, IInv, States
    <3>. QED  BY <2>1, <1>0, <3>1 DEF CreateTaskRecord, IInv, TypeOK, Solvent, poolVars,
                                monthVars, history
  <2>1a. CASE RecordUsage(t)
    BY <2>1a DEF RecordUsage, IInv, TypeOK, Solvent, poolVars, monthVars, local, history
  <2>2. CASE ReserveSpend(t) /\ held[t] <= Spendable
    <3>1. /\ Spend(t, held[t]) /\ paid' = [paid EXCEPT ![t] = @ + held[t]]
          /\ UNCHANGED <<unlocked, monthVars, ledger, taskVars, held, target, closes>>
      BY <2>2, <1>0 DEF ReserveSpend, SpendFails, Spendable
    <3>2. pc' \in [Procs -> States]
      BY <3>1, <1>0, GotoType DEF Spend, IInv, States
    <3>3. monthly' \in Nat /\ purchased' \in Nat
      BY <3>1, <2>2, <1>0, Taking DEF Spend
    <3>4. entry' \in [Procs -> Int]
      <4>1. Owe(t, -held[t]) /\ -held[t] \in Int
        BY <3>1, <1>0 DEF Spend
      <4>. QED  BY <4>1, <1>0, OweType DEF IInv
    <3>5. paid' \in [Tasks -> Int]
      BY <3>1, <1>0 DEF IInv, TypeOK
    <3>. QED  BY <3>1, <3>2, <3>3, <3>4, <3>5
              DEF IInv, TypeOK, Solvent, monthVars, taskVars
  <2>3. CASE ReserveSpend(t) /\ held[t] > Spendable
    BY <2>3, <1>0 DEF ReserveSpend, Spend, SpendFails, Owe, IInv, TypeOK, Solvent,
       Goto, States, monthVars, taskVars, Spendable
  <2>. QED  BY <2>0, <2>1, <2>1a, <2>2, <2>3, <1>0 DEF Spendable
<1>2. /\ settled' = settled /\ status' = status /\ closes' = closes /\ target' = target
      /\ \A q \in Procs \ {t} : pc'[q] = pc[q] /\ held'[q] = held[q]
      /\ \A u \in Tasks \ {t} : reserved'[u] = reserved[u] /\ paid'[u] = paid[u]
  BY <1>0 DEF ReserveRead, CreateTaskRecord, ReserveSpend, RecordUsage, Spend, SpendFails,
              Goto, Hold, IInv, TypeOK, taskVars, history, local
<1>3. \/ /\ pc[t] = "ensured" /\ pc'[t] \in {"refused", "record"}
         /\ reserved'[t] = reserved[t] /\ paid'[t] = paid[t]
      \/ /\ pc[t] = "record" /\ pc'[t] = "spend"
         /\ reserved'[t] = held[t] /\ held'[t] = held[t] /\ paid'[t] = paid[t]
      \/ /\ pc[t] = "spend" /\ pc'[t] = "log" /\ paid'[t] = paid[t] + held[t]
         /\ reserved'[t] = reserved[t] /\ held'[t] = held[t]
      \/ /\ pc[t] = "spend" /\ pc'[t] = "failed"
         /\ reserved'[t] = reserved[t] /\ held'[t] = held[t] /\ paid'[t] = paid[t]
      \/ /\ pc'[t] = pc[t] /\ held'[t] = held[t] /\ reserved'[t] = reserved[t]
         /\ paid'[t] = paid[t]
  BY <1>0 DEF ReserveRead, CreateTaskRecord, ReserveSpend, RecordUsage, Spend, SpendFails,
              Goto, Hold, IInv, TypeOK, taskVars, history, local
<1>. USE Kinds DEF IInv, Under, Begun
<1>4. \A f \in Closers : pc'[f] = pc[f] /\ held'[f] = held[f] /\ target[f] \in Tasks
  BY <1>2 DEF TypeOK
<1>5. \A f \in Closers : Under(f) => target[f] # t \/ pc'[t] = pc[t]
  BY <1>3 DEF HeldShape
<1>6. HeldShape'
  BY <1>0, <1>2, <1>3, <1>4, <1>5 DEF HeldShape
<1>7. ClosesShape'
  BY <1>2, <1>4 DEF ClosesShape
<1>8. PaidShape'
  <2>1. \A u \in Tasks : closes'[u] = 0 =>
          /\ pc'[u] \in {"start", "ensured", "refused", "record", "spend"} => paid'[u] = 0
          /\ pc'[u] \in {"log", "running"} => paid'[u] = reserved'[u]
    BY <1>0, <1>2, <1>3 DEF PaidShape, HeldShape
  <2>2. \A u \in Tasks : closes'[u] # 0 => pc'[u] \in {"running", "failed"}
    BY <1>2, <1>3 DEF PaidShape
  <2>3. \A f \in Closers : Under(f) =>
          /\ pc'[target[f]] = pc[target[f]] /\ paid'[target[f]] = paid[target[f]]
          /\ reserved'[target[f]] = reserved[target[f]]
    BY <1>2, <1>3, <1>4 DEF HeldShape
  <2>. QED  BY <2>1, <2>2, <2>3, <1>2, <1>4 DEF PaidShape
<1>. QED  BY <1>1, <1>6, <1>7, <1>8

LEMMA CloserKeeps ==
  ASSUME IInv, NEW f \in Closers,
         CloseRead(f) \/ CloseRefund(f) \/ CloseCheck(f) \/ CloseSpend(f) \/ CloseMark(f)
  PROVE  IInv'
<1>. DEFINE t == target[f]
<1>0. /\ monthly \in Nat /\ purchased \in Nat /\ held[f] \in Nat
      /\ t \in Tasks /\ reserved[t] \in Nat /\ usage[t] \in Nat
      /\ f \in Procs /\ paid[t] \in Int /\ closes[t] \in Nat
      /\ pc[f] = "refund" => reserved[t] - held[f] \in Nat
      /\ pc[f] \in {"check", "spend"} => Extra(f) \in Nat
  BY Kinds DEF IInv, TypeOK, Solvent, Extra, HeldShape
<1>1. TypeOK' /\ Solvent'
  <2>0. CASE CloseRead(f)
    <3>1. pc' \in [Procs -> States] /\ held' \in [Procs -> Nat]
      BY <2>0, <1>0, GotoType, HoldType DEF CloseRead, IInv, States
    <3>. QED  BY <2>0, <1>0, <3>1 DEF CloseRead, IInv, TypeOK, Solvent, poolVars, monthVars,
                                taskVars
  <2>1. CASE CloseCheck(f) \/ CloseMark(f)
    <3>1. pc' \in [Procs -> States]
      BY <2>1, <1>0, GotoType DEF CloseCheck, CloseMark, IInv, States
    <3>. QED  BY <2>1, <1>0, <3>1 DEF CloseCheck, CloseMark, IInv, TypeOK, Solvent, poolVars,
                                monthVars, taskVars, history
  <2>2. CASE CloseRefund(f)
    BY <2>2, <1>0 DEF CloseRefund, CloseRefundOf, Credit, Owe, IInv, TypeOK, Solvent,
       Goto, States, monthVars, taskVars
  <2>3. CASE CloseSpend(f) /\ Extra(f) <= Spendable
    <3>0. Extra(f) \in Nat
      BY <2>3, <1>0 DEF CloseSpend
    <3>1. /\ Spend(f, Extra(f)) /\ paid' = [paid EXCEPT ![t] = @ + Extra(f)]
          /\ UNCHANGED <<unlocked, monthVars, ledger, taskVars, held, target, closes>>
      BY <2>3, <3>0, <1>0 DEF CloseSpend, SpendFails, Spendable
    <3>2. pc' \in [Procs -> States]
      BY <3>1, <1>0, GotoType DEF Spend, IInv, States
    <3>3. monthly' \in Nat /\ purchased' \in Nat
      BY <3>1, <2>3, <3>0, <1>0, Taking DEF Spend
    <3>4. entry' \in [Procs -> Int]
      <4>1. Owe(f, -Extra(f)) /\ -Extra(f) \in Int
        BY <3>0, <3>1, <1>0 DEF Spend
      <4>. QED  BY <4>1, <1>0, OweType DEF IInv
    <3>5. paid' \in [Tasks -> Int]
      BY <3>0, <3>1, <1>0 DEF IInv, TypeOK
    <3>. QED  BY <3>1, <3>2, <3>3, <3>4, <3>5
              DEF IInv, TypeOK, Solvent, monthVars, taskVars
  <2>4. CASE CloseSpend(f) /\ Extra(f) > Spendable
    BY <2>4, <1>0 DEF CloseSpend, Spend, SpendFails, Owe, IInv, TypeOK, Solvent,
       Goto, States, monthVars, taskVars, Spendable
  <2>. QED  BY <2>0, <2>1, <2>2, <2>3, <2>4, <1>0 DEF Spendable, CloseSpend
<1>2. /\ reserved' = reserved /\ target' = target
      /\ \A q \in Procs \ {f} : pc'[q] = pc[q] /\ held'[q] = held[q]
      /\ \A u \in Tasks \ {t} : paid'[u] = paid[u] /\ closes'[u] = closes[u]
                                /\ status'[u] = status[u] /\ settled'[u] = settled[u]
      /\ pc[f] # "start" => closes'[t] = closes[t]
  BY <1>0 DEF CloseRead, CloseRefund, CloseRefundOf, CloseCheck, CloseSpend, CloseMark,
              Credit, Spend, SpendFails, Goto, Hold, IInv, TypeOK, taskVars, history
<1>3. \/ /\ pc[f] = "start" /\ Begun(t) /\ closes'[t] = closes[t] + 1
         /\ held'[f] = usage[t] /\ paid'[t] = paid[t]
         /\ status'[t] = status[t] /\ settled'[t] = settled[t]
         /\ \/ pc'[f] = "refund" /\ usage[t] < reserved[t]
            \/ pc'[f] = "check" /\ usage[t] > reserved[t]
            \/ pc'[f] = "mark" /\ usage[t] = reserved[t]
      \/ /\ pc[f] = "refund" /\ pc'[f] = "log" /\ held'[f] = held[f]
         /\ paid'[t] = paid[t] - (reserved[t] - held[f])
         /\ status'[t] = status[t] /\ settled'[t] = settled[t]
      \/ /\ pc[f] = "check" /\ pc'[f] \in {"spend", "failed"} /\ held'[f] = held[f]
         /\ paid'[t] = paid[t] /\ status'[t] = status[t] /\ settled'[t] = settled[t]
      \/ /\ pc[f] = "spend" /\ pc'[f] = "log" /\ held'[f] = held[f]
         /\ paid'[t] = paid[t] + (held[f] - reserved[t])
         /\ status'[t] = status[t] /\ settled'[t] = settled[t]
      \/ /\ pc[f] = "spend" /\ pc'[f] = "failed" /\ held'[f] = held[f]
         /\ paid'[t] = paid[t] /\ status'[t] = status[t] /\ settled'[t] = settled[t]
      \/ /\ pc[f] = "mark" /\ pc'[f] = "done" /\ held'[f] = held[f]
         /\ paid'[t] = paid[t] /\ status'[t] = "settled" /\ settled'[t] = held[f]
  <2>1. CASE CloseRead(f)
    BY <2>1, <1>0 DEF CloseRead, Goto, Hold, IInv, TypeOK, taskVars, history
  <2>2. CASE CloseRefund(f) \/ CloseCheck(f) \/ CloseMark(f)
    BY <2>2, <1>0 DEF CloseRefund, CloseRefundOf, CloseCheck, CloseMark, Credit, Goto,
                      IInv, TypeOK, taskVars, history
  <2>3. CASE CloseSpend(f)
    BY <2>3, <1>0 DEF CloseSpend, Spend, SpendFails, Goto, Extra, IInv, TypeOK, taskVars
  <2>. QED  BY <2>1, <2>2, <2>3
<1>. USE Kinds DEF IInv, Under, Begun
<1>4. \A u \in Tasks : pc'[u] = pc[u] /\ held'[u] = held[u]
  BY <1>2
<1>5. \A g \in Closers \ {f} : pc'[g] = pc[g] /\ held'[g] = held[g]
  BY <1>2
<1>5a. \A g \in Closers : target[g] \in Tasks
  BY DEF TypeOK
<1>5b. pc'[f] # "start"
  BY <1>3
<1>6. HeldShape'
  <2>1. \A g \in Closers :
       /\ pc'[g] \in {"start", "refund", "check", "spend", "log", "mark", "done",
                     "failed"}
       /\ pc'[g] = "refund" => held'[g] < reserved[target[g]]
       /\ pc'[g] \in {"check", "spend"} => held'[g] > reserved[target[g]]
       /\ pc'[g] # "start" => Begun(target[g])
    BY <1>0, <1>3, <1>5 DEF HeldShape
  <2>2. \A v \in Converts : pc'[v] = pc[v]
    BY <1>2
  <2>. QED  BY <2>1, <2>2, <1>2, <1>4, <1>5a DEF HeldShape
<1>7. ClosesShape'
  <2>1. \A g \in Closers : closes'[target[g]] = 0 => pc'[g] = "start"
    BY <1>0, <1>2, <1>3, <1>5, <1>5a DEF ClosesShape
  <2>2. \A g, h \in Closers :
       (closes'[target[g]] = 1 /\ target[g] = target[h] /\ pc'[g] # "start" /\ pc'[h] # "start")
         => g = h
    BY <1>0, <1>2, <1>3, <1>5, <1>5a DEF ClosesShape
  <2>3. \A u \in Tasks : status'[u] = "settled" =>
       \E g \in Closers : target[g] = u /\ pc'[g] = "done"
    BY <1>0, <1>2, <1>3, <1>5, <1>5a DEF ClosesShape
  <2>. QED  BY <2>1, <2>2, <2>3, <1>2 DEF ClosesShape
<1>8. PaidShape'
  <2>1. \A u \in Tasks : closes'[u] = 0 =>
          /\ u # t
          /\ closes[u] = 0 /\ paid'[u] = paid[u]
    BY <1>0, <1>2, <1>3 DEF ClosesShape
  <2>2. \A u \in Tasks : closes'[u] # 0 => pc[u] \in {"running", "failed"}
    BY <1>0, <1>2, <1>3 DEF PaidShape, HeldShape
  <2>3. \A g \in Closers \ {f} :
       (closes'[target[g]] = 1 /\ pc[g] # "start") => target[g] # t /\ closes[target[g]] = 1
    BY <1>0, <1>2, <1>3, <1>5, <1>5a DEF ClosesShape
  <2>4. (closes'[t] = 1 /\ pc[t] = "running") =>
         /\ pc'[f] \in {"refund", "check", "spend", "failed"} => paid'[t] = reserved[t]
         /\ pc'[f] \in {"log", "mark", "done"} => paid'[t] = held'[f]
         /\ pc'[f] = "done" => settled'[t] = held'[f]
    BY <1>0, <1>2, <1>3 DEF PaidShape
  <2>5. held'[f] \in Nat
    BY <1>0, <1>3
  <2>. QED  BY <2>1, <2>2, <2>3, <2>4, <2>5, <1>0, <1>2, <1>4, <1>5, <1>5a DEF PaidShape
<1>. QED  BY <1>1, <1>6, <1>7, <1>8

\* The ledger entry, whosever it is.
LEMMA LedgerKeeps ==
  ASSUME IInv, NEW p \in Procs, AppendLedger(p)
  PROVE  IInv'
<1>1. TypeOK' /\ Solvent'
  BY DEF AppendLedger, After, Owe, Goto, States, IInv, TypeOK, Solvent, poolVars, monthVars,
         taskVars, history
<1>2. /\ taskVars' = taskVars /\ history' = history /\ target' = target /\ held' = held
      /\ pc[p] = "log" /\ pc'[p] = After(p)
      /\ \A q \in Procs \ {p} : pc'[q] = pc[q]
  BY DEF AppendLedger, Goto, IInv, TypeOK
<1>. USE Kinds DEF taskVars, history, IInv, Under, Begun, After
<1>2a. /\ p \in Tasks => pc'[p] = "running"
       /\ p \in Closers => pc'[p] = "mark"
       /\ p \in Converts => pc'[p] = "done"
  BY <1>2
<1>3. \A f \in Closers : /\ target[f] \in Tasks /\ held[f] \in Nat
                         /\ (pc'[f] = pc[f] \/ (pc[f] = "log" /\ pc'[f] = "mark"))
  BY <1>2, <1>2a DEF TypeOK
<1>3a. \A t \in Tasks : pc'[t] = pc[t] \/ (pc[t] = "log" /\ pc'[t] = "running")
  BY <1>2, <1>2a
<1>3b. \A v \in Converts : pc'[v] = pc[v] \/ pc'[v] = "done"
  BY <1>2, <1>2a
<1>4. HeldShape'
  BY <1>2, <1>3, <1>3a, <1>3b DEF HeldShape
<1>5. ClosesShape'
  BY <1>2, <1>3 DEF ClosesShape
<1>6. PaidShape'
  <2>1. \A f \in Closers : Under(f) => pc'[target[f]] = pc[target[f]]
    BY <1>3, <1>3a DEF HeldShape
  <2>. QED  BY <1>2, <1>3, <1>3a, <2>1 DEF PaidShape
<1>. QED  BY <1>1, <1>4, <1>5, <1>6

LEMMA NextKeeps == IInv /\ [Next]_vars => IInv'
<1>. SUFFICES ASSUME IInv, [Next]_vars PROVE IInv'
  OBVIOUS
<1>1. CASE UNCHANGED vars
  BY <1>1 DEF vars, poolVars, monthVars, taskVars, local, history, IInv, TypeOK, Solvent,
     HeldShape, ClosesShape, PaidShape, Under, Begun
<1>2. CASE Next
  BY <1>2, MonthKeeps, CallKeeps, TopupKeeps, ConvertKeeps, EnsureKeeps, TaskKeeps,
     CloserKeeps, LedgerKeeps DEF Next
<1>. QED  BY <1>1, <1>2

-------------------------------------------------------------------------------
(* Theorems *)

\* The strengthened invariant holds in every reachable state.
THEOREM PoolsInvariance == Spec => []IInv
<1>1. Init => IInv
  BY Kinds, PolicyAssumption DEF Init, IInv, TypeOK, Solvent, HeldShape, ClosesShape, PaidShape, Under,
     Begun, States
<1>. QED  BY <1>1, NextKeeps, PTL DEF Spec

\* The variables keep their types, for every set of operations.
THEOREM PoolsTypeCorrect == Spec => []TypeOK
BY PoolsInvariance, PTL DEF IInv

\* No interleaving of reservations, charges, settlements, conversions and
\* rollovers takes a pool below zero.
THEOREM PoolsSolvent == Spec => []Solvent
BY PoolsInvariance, PTL DEF IInv

\* Whatever its tier, a task that was charged and closed once has paid what
\* it is settled at.
THEOREM SettlementExact == Spec => []SettledIsPaid
<1>1. IInv => SettledIsPaid
  BY DEF IInv, SettledIsPaid, ClosesShape, PaidShape, Under
<1>. QED  BY <1>1, PoolsInvariance, PTL

\* The purchased pool is touched by a charge only once the grant is used up.
THEOREM GrantFirst == Spec => GrantSpentFirst
<1>1. IInv /\ [Next]_vars => [(purchased' < purchased) => (monthly' = 0)]_vars
  <2>. SUFFICES ASSUME IInv, Next PROVE (purchased' < purchased) => (monthly' = 0)
    OBVIOUS
  <2>0. monthly \in Nat /\ purchased \in Nat
    BY DEF IInv, TypeOK, Solvent
  <2>1. ASSUME NEW p, NEW a \in Nat, Spend(p, a)
        PROVE (purchased' < purchased) => (monthly' = 0)
    BY <2>0, <2>1, Taking DEF Spend
  <2>2. ASSUME NEW p, NEW a \in Nat, Credit(p, a)
        PROVE ~(purchased' < purchased)
    BY <2>0, <2>2 DEF Credit
  <2>3. ASSUME NEW t \in Tasks, ReserveSpend(t)
        PROVE (purchased' < purchased) => (monthly' = 0)
    BY <2>0, <2>1, <2>3, Kinds DEF ReserveSpend, SpendFails, IInv, TypeOK
  <2>4. ASSUME NEW c \in Calls, DebitSpend(c)
        PROVE (purchased' < purchased) => (monthly' = 0)
    BY <2>0, <2>1, <2>4, Kinds DEF DebitSpend, SpendFails, IInv, TypeOK
  <2>5. ASSUME NEW f \in Closers, CloseSpend(f)
        PROVE (purchased' < purchased) => (monthly' = 0)
    <3>1. Extra(f) \in Nat
      BY <2>5, Kinds DEF CloseSpend, Extra, IInv, TypeOK, HeldShape
    <3>. QED  BY <2>0, <2>1, <2>5, <3>1 DEF CloseSpend, SpendFails
  <2>6. ASSUME NEW f \in Closers, CloseRefund(f)
        PROVE ~(purchased' < purchased)
    <3>1. reserved[target[f]] - held[f] \in Nat
      BY <2>6, Kinds DEF CloseRefund, CloseRefundOf, IInv, TypeOK, HeldShape
    <3>. QED  BY <2>2, <2>6, <3>1 DEF CloseRefund, CloseRefundOf
  <2>7. ASSUME NEW k \in Topups, TopupPurchased(k)
        PROVE ~(purchased' < purchased)
    BY <2>2, <2>7, AmountsPositive DEF TopupPurchased, Askers
  <2>8. ASSUME NEW v \in Converts, ConvertCredit(v)
        PROVE ~(purchased' < purchased)
    <3>1. Converted(Amount[v]) \in Nat
      BY AmountsPositive, ConvertedType DEF Askers
    <3>. QED  BY <2>0, <2>2, <2>8, <3>1 DEF ConvertCredit
  <2>9. ASSUME RunMonthlyRollover PROVE monthly' = 0
    BY <2>9 DEF RunMonthlyRollover
  <2>10. ASSUME \/ \E p \in Askers : EnsurePools(p)
                \/ \E t \in Tasks : ReserveRead(t) \/ CreateTaskRecord(t) \/ RecordUsage(t)
                \/ \E c \in Calls : DebitCheck(c)
                \/ \E v \in Converts : ConvertRead(v) \/ ConvertDebit(v)
                \/ \E f \in Closers : CloseRead(f) \/ CloseCheck(f) \/ CloseMark(f)
                \/ \E p \in Procs : AppendLedger(p)
                \/ NextMonth
         PROVE purchased' = purchased
    BY <2>10 DEF EnsurePools, ReserveRead, CreateTaskRecord, RecordUsage, DebitCheck,
       ConvertRead, ConvertDebit, CloseRead, CloseCheck, CloseMark, AppendLedger, NextMonth,
       poolVars
  <2>. QED  BY <2>0, <2>3, <2>4, <2>5, <2>6, <2>7, <2>8, <2>9, <2>10 DEF Next
<1>. QED  BY <1>1, PoolsInvariance, PTL DEF Spec, GrantSpentFirst
-------------------------------------------------------------------------------
(* The books *)

\* Only an operation that stands before append_ledger owes an entry, so a
\* second one never overwrites the first.
EntryShape == \A p \in Procs : pc[p] # "log" => entry[p] = 0

Owed == SumOf(entry, Procs)

BooksInv ==
  /\ EntryShape
  /\ monthly + purchased = grants - forfeited + ledger + Owed

\* What BooksBalance adds up is a sum of naturals or of debts: an integer.
LEMMA OwedType ==
  ASSUME IInv
  PROVE  Owed \in Int
<1>1. \A p \in Procs : entry[p] \in Int
  BY DEF IInv, TypeOK
<1>. QED  BY <1>1, ProcsFinite, SumOfType DEF Owed

\* A transaction that leaves its entry to be written.
LEMMA OweBooks ==
  ASSUME IInv, EntryShape, NEW p \in Procs, pc[p] # "log", NEW a \in Int,
         Owe(p, a), Goto(p, "log")
  PROVE  EntryShape' /\ Owed' = Owed + a
<1>0. \A q \in Procs : entry[q] \in Int
  BY DEF IInv, TypeOK
<1>1. /\ entry'[p] = a /\ pc'[p] = "log" /\ entry[p] = 0
      /\ \A q \in Procs \ {p} : entry'[q] = entry[q] /\ pc'[q] = pc[q]
  BY DEF Owe, Goto, IInv, TypeOK, EntryShape
<1>2. /\ \A q \in Procs : entry[q] \in Int /\ entry'[q] \in Int
      /\ \A q \in Procs \ {p} : entry'[q] = entry[q]
  BY <1>0, <1>1
<1>3. SumOf(entry', Procs) = SumOf(entry, Procs) - entry[p] + entry'[p]
  BY ONLY <1>2, ProcsFinite, p \in Procs, SumOfChange
<1>4. Owed \in Int
  BY OwedType
<1>. QED  BY <1>1, <1>3, <1>4 DEF EntryShape, Owed

\* Spending and crediting move the pools by what they owe the ledger.
LEMMA SpendBooks ==
  ASSUME IInv, BooksInv, NEW p \in Procs, pc[p] # "log", NEW a \in Nat, Spend(p, a),
         UNCHANGED <<grants, forfeited, ledger>>
  PROVE  BooksInv'
<1>0. /\ monthly \in Int /\ purchased \in Int /\ grants \in Int /\ forfeited \in Int
      /\ ledger \in Int /\ Owed \in Int
  BY OwedType DEF IInv, TypeOK
<1>1. EntryShape' /\ Owed' = Owed + (-a)
  BY OweBooks DEF Spend, BooksInv
<1>2. TakeMonthly(a) \in Int
  BY <1>0 DEF TakeMonthly, Smaller
<1>3. monthly' = monthly - TakeMonthly(a) /\ purchased' = purchased - (a - TakeMonthly(a))
  BY DEF Spend
<1>. QED  BY <1>0, <1>1, <1>2, <1>3 DEF BooksInv

LEMMA CreditBooks ==
  ASSUME IInv, BooksInv, NEW p \in Procs, pc[p] # "log", NEW a \in Int, Credit(p, a),
         UNCHANGED <<monthly, grants, forfeited, ledger>>
  PROVE  BooksInv'
<1>0. /\ monthly \in Int /\ purchased \in Int /\ grants \in Int /\ forfeited \in Int
      /\ ledger \in Int /\ Owed \in Int
  BY OwedType DEF IInv, TypeOK
<1>1. EntryShape' /\ Owed' = Owed + a
  BY OweBooks DEF Credit, BooksInv
<1>. QED  BY <1>0, <1>1 DEF BooksInv, Credit

\* A step that neither moves credits nor passes the write of an entry.
LEMMA QuietBooks ==
  ASSUME IInv, BooksInv, UNCHANGED <<monthly, purchased, grants, forfeited, ledger, entry>>,
         \A p \in Procs : pc[p] = "log" => pc'[p] = "log"
  PROVE  BooksInv'
<1>1. Owed' = Owed
  BY DEF Owed
<1>. QED  BY <1>1 DEF BooksInv, EntryShape

\* An operation of its own moves on without moving credits.
LEMMA GotoBooks ==
  ASSUME IInv, BooksInv, UNCHANGED <<monthly, purchased, grants, forfeited, ledger, entry>>,
         NEW p \in Procs, pc[p] # "log", NEW s, Goto(p, s)
  PROVE  BooksInv'
<1>1. \A q \in Procs : pc[q] = "log" => pc'[q] = "log"
  BY DEF Goto, IInv, TypeOK
<1>. QED  BY <1>1, QuietBooks

LEMMA AskerBooks ==
  ASSUME IInv, BooksInv, NEW p \in Askers, EnsurePools(p)
  PROVE  BooksInv'
<1>0. /\ monthly \in Int /\ purchased \in Int /\ grants \in Int /\ forfeited \in Int
      /\ ledger \in Int /\ Owed \in Int /\ MonthlyGrant \in Nat /\ p \in Procs
  BY OwedType, PolicyAssumption DEF IInv, TypeOK, Procs
<1>1. CASE month \in granted
  BY <1>1, <1>0, GotoBooks DEF EnsurePools
<1>2. CASE month \notin granted
  <2>1. Owed' = Owed
    BY DEF EnsurePools, Owed
  <2>2. EntryShape'
    BY <1>0 DEF EnsurePools, Goto, EntryShape, BooksInv, IInv, TypeOK
  <2>. QED  BY <1>2, <1>0, <2>1, <2>2 DEF EnsurePools, BooksInv
<1>. QED  BY <1>1, <1>2

LEMMA TaskBooks ==
  ASSUME IInv, BooksInv, NEW t \in Tasks,
         ReserveRead(t) \/ CreateTaskRecord(t) \/ ReserveSpend(t) \/ RecordUsage(t)
  PROVE  BooksInv'
<1>0. t \in Procs /\ held[t] \in Nat
  BY Kinds DEF IInv, TypeOK
<1>1. CASE ReserveRead(t) \/ CreateTaskRecord(t)
  BY <1>1, <1>0, GotoBooks DEF ReserveRead, CreateTaskRecord, poolVars, monthVars
<1>2. CASE RecordUsage(t)
  BY <1>2, QuietBooks DEF RecordUsage, poolVars, monthVars, local
<1>3. CASE ReserveSpend(t) /\ Spend(t, held[t])
  BY <1>3, <1>0, SpendBooks DEF ReserveSpend, monthVars
<1>4. CASE ReserveSpend(t) /\ SpendFails(t, held[t])
  BY <1>4, <1>0, GotoBooks DEF ReserveSpend, SpendFails, monthVars
<1>. QED  BY <1>1, <1>2, <1>3, <1>4 DEF ReserveSpend

LEMMA CallBooks ==
  ASSUME IInv, BooksInv, NEW c \in Calls, DebitCheck(c) \/ DebitSpend(c)
  PROVE  BooksInv'
<1>0. c \in Procs /\ held[c] \in Nat
  BY Kinds DEF IInv, TypeOK
<1>1. CASE DebitCheck(c)
  BY <1>1, <1>0, GotoBooks DEF DebitCheck, poolVars, monthVars
<1>2. CASE DebitSpend(c) /\ Spend(c, held[c])
  BY <1>2, <1>0, SpendBooks DEF DebitSpend, monthVars
<1>3. CASE DebitSpend(c) /\ SpendFails(c, held[c])
  BY <1>3, <1>0, GotoBooks DEF DebitSpend, SpendFails, monthVars
<1>. QED  BY <1>1, <1>2, <1>3 DEF DebitSpend

LEMMA TopupBooks ==
  ASSUME IInv, BooksInv, NEW k \in Topups, TopupPurchased(k)
  PROVE  BooksInv'
<1>0. k \in Procs /\ Amount[k] \in Nat
  BY Kinds, AmountsPositive DEF Askers
<1>. QED  BY <1>0, CreditBooks DEF TopupPurchased, monthVars

LEMMA ConvertBooks ==
  ASSUME IInv, BooksInv, NEW v \in Converts, ConvertRead(v) \/ ConvertDebit(v) \/ ConvertCredit(v)
  PROVE  BooksInv'
<1>0. v \in Procs /\ Converted(Amount[v]) \in Nat
  BY Kinds, AmountsPositive, ConvertedType DEF Askers
<1>1. CASE ConvertRead(v) \/ ConvertDebit(v)
  BY <1>1, <1>0, GotoBooks DEF ConvertRead, ConvertDebit, poolVars, monthVars
<1>2. CASE ConvertCredit(v) /\ Converted(Amount[v]) > 0
  BY <1>2, <1>0, CreditBooks DEF ConvertCredit, monthVars
<1>3. CASE ConvertCredit(v) /\ ~(Converted(Amount[v]) > 0)
  BY <1>3, <1>0, GotoBooks DEF ConvertCredit, monthVars
<1>. QED  BY <1>1, <1>2, <1>3

LEMMA CloserBooks ==
  ASSUME IInv, BooksInv, NEW f \in Closers,
         CloseRead(f) \/ CloseRefund(f) \/ CloseCheck(f) \/ CloseSpend(f) \/ CloseMark(f)
  PROVE  BooksInv'
<1>0. /\ f \in Procs
      /\ pc[f] = "refund" => reserved[target[f]] - held[f] \in Int
      /\ pc[f] = "spend" => Extra(f) \in Nat
  BY Kinds DEF IInv, TypeOK, HeldShape, Extra
<1>1. CASE CloseRead(f) \/ CloseCheck(f) \/ CloseMark(f)
  <2>1. pc[f] # "log" /\ \E s : Goto(f, s)
    BY <1>1 DEF CloseRead, CloseCheck, CloseMark
  <2>. QED  BY <1>1, <1>0, <2>1, GotoBooks
            DEF CloseRead, CloseCheck, CloseMark, poolVars, monthVars
<1>2. CASE CloseRefund(f)
  BY <1>2, <1>0, CreditBooks DEF CloseRefund, CloseRefundOf, monthVars
<1>3. CASE CloseSpend(f) /\ Spend(f, Extra(f))
  BY <1>3, <1>0, SpendBooks DEF CloseSpend, monthVars
<1>4. CASE CloseSpend(f) /\ SpendFails(f, Extra(f))
  BY <1>4, <1>0, GotoBooks DEF CloseSpend, SpendFails, monthVars
<1>. QED  BY <1>1, <1>2, <1>3, <1>4 DEF CloseSpend

\* append_ledger turns what was owed into what is booked.
LEMMA LedgerBooks ==
  ASSUME IInv, BooksInv, NEW p \in Procs, AppendLedger(p)
  PROVE  BooksInv'
<1>0. /\ monthly \in Int /\ purchased \in Int /\ grants \in Int /\ forfeited \in Int
      /\ ledger \in Int /\ Owed \in Int /\ \A q \in Procs : entry[q] \in Int
  BY OwedType DEF IInv, TypeOK
<1>1. /\ entry'[p] = 0
      /\ \A q \in Procs \ {p} : entry'[q] = entry[q] /\ pc'[q] = pc[q]
  BY DEF AppendLedger, Owe, Goto, IInv, TypeOK
<1>2. SumOf(entry', Procs) = SumOf(entry, Procs) - entry[p] + entry'[p]
  BY <1>0, <1>1, ProcsFinite, SumOfChange
<1>3. EntryShape'
  BY <1>1 DEF EntryShape, BooksInv
<1>. QED  BY <1>0, <1>1, <1>2, <1>3 DEF AppendLedger, Owed, BooksInv, poolVars, monthVars

LEMMA RolloverBooks ==
  ASSUME IInv, BooksInv, RunMonthlyRollover
  PROVE  BooksInv'
<1>0. /\ monthly \in Int /\ purchased \in Int /\ grants \in Int /\ forfeited \in Int
      /\ ledger \in Int /\ Owed \in Int
  BY OwedType DEF IInv, TypeOK
<1>1. Rolled(monthly) \in Nat
  BY RolledType DEF IInv, TypeOK, Solvent
<1>2. Owed' = Owed /\ EntryShape'
  BY DEF RunMonthlyRollover, local, Owed, EntryShape, BooksInv
<1>. QED  BY <1>0, <1>1, <1>2 DEF RunMonthlyRollover, BooksInv

\* The books stay balanced, whoever has still to write its entry.
LEMMA BooksKept == Spec => []BooksInv
<1>1. Init => BooksInv
  <2>. SUFFICES ASSUME Init PROVE BooksInv
    OBVIOUS
  <2>1. \A p \in Procs : entry[p] = 0
    BY DEF Init
  <2>2. Owed = 0
    BY <2>1, ProcsFinite, SumOfZeros DEF Owed
  <2>. QED  BY <2>1, <2>2 DEF Init, BooksInv, EntryShape
<1>2. IInv /\ BooksInv /\ [Next]_vars => BooksInv'
  <2>. SUFFICES ASSUME IInv, BooksInv, [Next]_vars PROVE BooksInv'
    OBVIOUS
  <2>1. CASE UNCHANGED vars
    BY <2>1, QuietBooks DEF vars, poolVars, monthVars, local
  <2>2. CASE NextMonth
    BY <2>2, QuietBooks DEF NextMonth, poolVars, local
  <2>3. CASE Next
    BY <2>2, <2>3, AskerBooks, TaskBooks, CallBooks, TopupBooks, ConvertBooks, CloserBooks,
       LedgerBooks, RolloverBooks DEF Next
  <2>. QED  BY <2>1, <2>3
<1>. QED  BY <1>1, <1>2, PoolsInvariance, PTL DEF Spec

\* However its transactions interleave, and wherever an operation stops for
\* ever between the transaction that moves credits and append_ledger: the
\* pools hold what was granted, less what rollovers forfeited, plus the
\* ledger, plus the entries still owed (pool_store.py, store.py).
THEOREM BooksAlwaysBalance == Spec => []BooksBalance
<1>1. BooksInv => BooksBalance
  BY DEF BooksInv, BooksBalance, Owed, SumOf
<1>. QED  BY <1>1, BooksKept, PTL

\* Where no operation stands between a transaction and its ledger entry, the
\* durable records alone explain the balances.
BooksAtRest ==
  (\A p \in Procs : pc[p] # "log") => monthly + purchased = grants - forfeited + ledger

\* A difference between the balances and the records is an entry that an
\* operation, or a crash, has left unwritten (append_ledger): nothing else
\* makes one.
THEOREM RecordsSuffice == Spec => []BooksAtRest
<1>1. IInv /\ BooksInv => BooksAtRest
  <2>. SUFFICES ASSUME IInv, BooksInv, \A p \in Procs : pc[p] # "log"
                PROVE  monthly + purchased = grants - forfeited + ledger
    BY DEF BooksAtRest
  <2>1. \A p \in Procs : entry[p] = 0
    BY DEF BooksInv, EntryShape
  <2>2. Owed = 0
    BY <2>1, ProcsFinite, SumOfZeros DEF Owed
  <2>. QED  BY <2>2 DEF BooksInv, IInv, TypeOK
<1>. QED  BY <1>1, BooksKept, PoolsInvariance, PTL

-------------------------------------------------------------------------------
(* Refunds *)

\* A task that was closed has somebody who closed it.
CloserKnown == \A t \in Tasks : closes[t] # 0 => \E f \in Closers : target[f] = t /\ Under(f)

LEMMA CloserStaysKnown == IInv /\ CloserKnown /\ [Next]_vars => CloserKnown'
<1>. SUFFICES ASSUME IInv, CloserKnown, [Next]_vars PROVE CloserKnown'
  OBVIOUS
<1>0. TypeOK
  BY DEF IInv
<1>1. ASSUME NEW f \in Closers, CloseRead(f) PROVE CloserKnown'
  <2>1. /\ closes' = [closes EXCEPT ![target[f]] = @ + 1] /\ target' = target
        /\ pc'[f] # "start" /\ \A g \in Closers \ {f} : pc'[g] = pc[g]
    BY <1>0, <1>1, Kinds DEF CloseRead, Goto, TypeOK
  <2>. QED  BY <1>0, <2>1 DEF CloserKnown, Under, TypeOK
<1>2. CASE closes' = closes /\ target' = target
           /\ \A f \in Closers : pc[f] # "start" => pc'[f] # "start"
  BY <1>2 DEF CloserKnown, Under
<1>3. ASSUME NEW p \in Procs, NEW n \in States \ {"start"}, Goto(p, n)
      PROVE  \A f \in Closers : pc[f] # "start" => pc'[f] # "start"
  BY <1>0, <1>3, Kinds DEF Goto, TypeOK
<1>4. ASSUME NEW p \in Procs, AppendLedger(p) PROVE CloserKnown'
  <2>1. After(p) \in States \ {"start"}
    BY DEF After, States
  <2>. QED  BY <1>2, <1>3, <1>4, <2>1 DEF AppendLedger, history
<1>5. ASSUME NEW f \in Closers, CloseRefund(f) \/ CloseCheck(f) \/ CloseSpend(f) \/ CloseMark(f)
      PROVE  CloserKnown'
  <2>1. f \in Procs /\ {"log", "failed", "spend", "done"} \subseteq States \ {"start"}
    BY Kinds DEF States
  <2>2. \E n \in {"log", "failed", "spend", "done"} : Goto(f, n)
    BY <1>5 DEF CloseRefund, CloseRefundOf, Credit, CloseCheck, CloseSpend, Spend, SpendFails,
       CloseMark
  <2>3. closes' = closes /\ target' = target
    BY <1>5 DEF CloseRefund, CloseRefundOf, CloseCheck, CloseSpend, CloseMark, history
  <2>. QED  BY <1>2, <1>3, <2>1, <2>2, <2>3
<1>6. ASSUME NEW p \in Askers, UNCHANGED <<closes, target>>, NEW n \in States, Goto(p, n)
      PROVE  CloserKnown'
  <2>1. p \in Procs /\ p \notin Closers
    BY ProcsDisjoint DEF Procs, Askers
  <2>2. \A f \in Closers : pc'[f] = pc[f]
    BY <1>0, <1>6, <2>1, Kinds DEF Goto, TypeOK
  <2>. QED  BY <1>2, <1>6, <2>2
<1>7. ASSUME NEW p \in Askers, EnsurePools(p) PROVE CloserKnown'
  BY <1>6, <1>7 DEF EnsurePools, States, history
<1>8. ASSUME NEW t \in Tasks, ReserveRead(t) \/ CreateTaskRecord(t) \/ ReserveSpend(t)
      PROVE  CloserKnown'
  <2>1. \E n \in States : Goto(t, n)
    BY <1>8 DEF ReserveRead, CreateTaskRecord, ReserveSpend, Spend, SpendFails, States
  <2>2. UNCHANGED <<closes, target>>
    BY <1>8 DEF ReserveRead, CreateTaskRecord, ReserveSpend, history
  <2>. QED  BY <1>6, <2>1, <2>2 DEF Askers
<1>9. ASSUME NEW c \in Calls, DebitCheck(c) \/ DebitSpend(c) PROVE CloserKnown'
  <2>1. \E n \in States : Goto(c, n)
    BY <1>9 DEF DebitCheck, DebitSpend, Spend, SpendFails, States
  <2>2. UNCHANGED <<closes, target>>
    BY <1>9 DEF DebitCheck, DebitSpend, history
  <2>. QED  BY <1>6, <2>1, <2>2 DEF Askers
<1>10. ASSUME NEW k \in Topups, TopupPurchased(k) PROVE CloserKnown'
  BY <1>6, <1>10 DEF TopupPurchased, Credit, States, history, Askers
<1>11. ASSUME NEW v \in Converts, ConvertRead(v) \/ ConvertDebit(v) \/ ConvertCredit(v)
       PROVE  CloserKnown'
  <2>1. \E n \in States : Goto(v, n)
    BY <1>11 DEF ConvertRead, ConvertDebit, ConvertCredit, Credit, States
  <2>2. UNCHANGED <<closes, target>>
    BY <1>11 DEF ConvertRead, ConvertDebit, ConvertCredit, history
  <2>. QED  BY <1>6, <2>1, <2>2 DEF Askers
<1>12. CASE \/ \E t \in Tasks : RecordUsage(t)
            \/ RunMonthlyRollover \/ NextMonth \/ UNCHANGED vars
  <2>1. closes' = closes /\ target' = target /\ pc' = pc
    BY <1>12 DEF RecordUsage, RunMonthlyRollover, NextMonth, local, history, vars
  <2>. QED  BY <1>2, <2>1
<1>. QED  BY <1>1, <1>4, <1>5, <1>7, <1>8, <1>9, <1>10, <1>11, <1>12 DEF Next

\* RefundWithinTaken, for a task whose reservation was charged and that was
\* closed at most once.
RefundsFit == \A t \in Tasks : (closes[t] <= 1 /\ pc[t] # "failed") => paid[t] >= 0

\* A settlement gives back more than was taken only if the reservation was
\* never charged or the task is settled a second time (complete_billed_task):
\* these are the only ways to the counterexample to RefundWithinTaken.
THEOREM RefundsFitTaken == Spec => []RefundsFit
<1>1. Init => CloserKnown
  BY DEF Init, CloserKnown
<1>2. IInv /\ CloserKnown => RefundsFit
  <2>. SUFFICES ASSUME IInv, CloserKnown, NEW t \in Tasks, closes[t] <= 1, pc[t] # "failed"
                PROVE  paid[t] >= 0
    BY DEF RefundsFit
  <2>0. /\ closes[t] \in Nat /\ reserved[t] \in Nat /\ \A p \in Procs : held[p] \in Nat
        /\ t \in Procs
    BY Kinds DEF IInv, TypeOK
  <2>1. CASE closes[t] = 0
    BY <2>0, <2>1 DEF IInv, HeldShape, PaidShape
  <2>2. CASE closes[t] = 1
    <3>1. pc[t] = "running"
      BY <2>2 DEF IInv, PaidShape
    <3>2. PICK f \in Closers : target[f] = t /\ Under(f)
      BY <2>2 DEF CloserKnown
    <3>3. held[f] \in Nat
      BY <2>0, Kinds
    <3>4. \/ paid[t] = reserved[t]
          \/ paid[t] = held[f]
      BY <2>2, <3>1, <3>2 DEF IInv, HeldShape, PaidShape, Under
    <3>. QED  BY <2>0, <3>3, <3>4
  <2>. QED  BY <2>0, <2>1, <2>2
<1>. QED  BY <1>1, <1>2, CloserStaysKnown, PoolsInvariance, PTL DEF Spec

-------------------------------------------------------------------------------
(* Conversions *)

\* What a conversion has taken from the contribution pool.
Taken(v) == IF pc[v] \in {"credit", "log", "done"} THEN Amount[v] ELSE 0
AllTaken == SumOf([v \in Converts |-> Taken(v)], Converts)

\* The contribution pool is what it was at the start, less the conversions
\* that debited it.
ContributionsKept == unlocked = Contributed - AllTaken

\* A step after which every conversion has taken what it had, and the pool
\* holds what it held.
LEMMA NothingTaken ==
  ASSUME ContributionsKept, UNCHANGED unlocked, \A v \in Converts : Taken(v)' = Taken(v)
  PROVE  ContributionsKept'
BY DEF ContributionsKept, AllTaken

LEMMA NobodyConverts ==
  ASSUME TypeOK, ContributionsKept, UNCHANGED unlocked,
         NEW p \in Procs \ Converts, NEW n, Goto(p, n)
  PROVE  ContributionsKept'
<1>1. \A v \in Converts : pc'[v] = pc[v]
  BY Kinds DEF TypeOK, Goto
<1>. QED  BY <1>1, NothingTaken DEF Taken

\* A debit takes from the pool what the conversion then has taken.
LEMMA DebitTakes ==
  ASSUME IInv, ContributionsKept, NEW v \in Converts, ConvertDebit(v), Amount[v] <= unlocked
  PROVE  ContributionsKept'
<1>. DEFINE f == [w \in Converts |-> Taken(w)]
            g == [w \in Converts |-> Taken(w)']
<1>0. /\ IsFiniteSet(Converts) /\ v \in Procs
      /\ \A w \in Converts : Amount[w] \in Nat
  <2>1. Converts \subseteq Procs
    BY DEF Procs, Askers
  <2>. QED  BY <2>1, ProcsFinite, FS_Subset, AmountsPositive DEF Askers
<1>1. /\ pc[v] = "debit" /\ unlocked' = unlocked - Amount[v]
      /\ pc'[v] = "credit" /\ \A w \in Converts \ {v} : pc'[w] = pc[w]
  BY <1>0, Kinds DEF ConvertDebit, Goto, IInv, TypeOK
<1>2. \A w \in Converts : f[w] \in Int /\ g[w] \in Int
  BY <1>0 DEF Taken
<1>3. /\ \A w \in Converts \ {v} : g[w] = f[w]
      /\ f[v] = 0 /\ g[v] = Amount[v]
  BY <1>1 DEF Taken
<1>4. AllTaken = SumOf(f, Converts) /\ AllTaken' = SumOf(g, Converts)
  BY DEF AllTaken
<1>. HIDE DEF f, g
<1>5. SumOf(g, Converts) = SumOf(f, Converts) - f[v] + g[v]
  <2>1. IsFiniteSet(Converts)
    BY <1>0
  <2>2. \A w \in Converts \ {v} : g[w] = f[w]
    BY <1>3
  <2>. QED  BY <1>2, <2>1, <2>2, SumOfChange
<1>6. SumOf(f, Converts) \in Int
  BY <1>0, <1>2, SumOfType
<1>. QED  BY <1>0, <1>1, <1>3, <1>4, <1>5, <1>6, PolicyAssumption DEF ContributionsKept

LEMMA ContributionsStep == IInv /\ ContributionsKept /\ [Next]_vars => ContributionsKept'
<1>. SUFFICES ASSUME IInv, ContributionsKept, [Next]_vars PROVE ContributionsKept'
  OBVIOUS
<1>0. TypeOK
  BY DEF IInv
<1>1. ASSUME NEW v \in Converts, ConvertRead(v) PROVE ContributionsKept'
  <2>1. /\ pc[v] = "ensured" /\ pc'[v] \in {"refused", "debit"} /\ UNCHANGED unlocked
        /\ \A w \in Converts \ {v} : pc'[w] = pc[w]
    BY <1>0, <1>1, Kinds DEF ConvertRead, Goto, TypeOK, poolVars
  <2>. QED  BY <2>1, NothingTaken DEF Taken
<1>2. ASSUME NEW v \in Converts, ConvertDebit(v) PROVE ContributionsKept'
  <2>1. CASE Amount[v] <= unlocked
    BY <1>2, <2>1, DebitTakes
  <2>2. CASE ~(Amount[v] <= unlocked)
    <3>1. /\ pc[v] = "debit" /\ pc'[v] = "failed" /\ UNCHANGED unlocked
          /\ \A w \in Converts \ {v} : pc'[w] = pc[w]
      BY <1>0, <1>2, <2>2, Kinds DEF ConvertDebit, Goto, TypeOK
    <3>. QED  BY <3>1, NothingTaken DEF Taken
  <2>. QED  BY <2>1, <2>2
<1>3. ASSUME NEW v \in Converts, ConvertCredit(v) PROVE ContributionsKept'
  <2>1. /\ pc[v] = "credit" /\ pc'[v] \in {"log", "done"} /\ UNCHANGED unlocked
        /\ \A w \in Converts \ {v} : pc'[w] = pc[w]
    BY <1>0, <1>3, Kinds DEF ConvertCredit, Credit, Goto, TypeOK
  <2>. QED  BY <2>1, NothingTaken DEF Taken
<1>4. ASSUME NEW p \in Procs, AppendLedger(p) PROVE ContributionsKept'
  <2>1. /\ pc[p] = "log" /\ pc'[p] = After(p) /\ UNCHANGED unlocked
        /\ \A q \in Procs \ {p} : pc'[q] = pc[q]
    BY <1>0, <1>4 DEF AppendLedger, Goto, TypeOK, poolVars
  <2>2. \A v \in Converts : v = p => pc'[v] = "done"
    BY <2>1, Kinds DEF After
  <2>3. \A v \in Converts : Taken(v)' = Taken(v)
    BY <2>1, <2>2, Kinds DEF Taken
  <2>. QED  BY <2>1, <2>3, NothingTaken
<1>5. ASSUME NEW p \in Askers, EnsurePools(p) PROVE ContributionsKept'
  <2>1. /\ pc[p] = "start" /\ pc'[p] = "ensured" /\ UNCHANGED unlocked
        /\ \A q \in Procs \ {p} : pc'[q] = pc[q]
    BY <1>0, <1>5 DEF EnsurePools, Goto, TypeOK, Procs
  <2>2. \A v \in Converts : Taken(v)' = Taken(v)
    BY <2>1, Kinds DEF Taken
  <2>. QED  BY <2>1, <2>2, NothingTaken
<1>6. ASSUME NEW t \in Tasks, ReserveRead(t) \/ CreateTaskRecord(t) \/ ReserveSpend(t)
      PROVE  ContributionsKept'
  <2>1. UNCHANGED unlocked /\ \E n : Goto(t, n)
    BY <1>6 DEF ReserveRead, CreateTaskRecord, ReserveSpend, Spend, SpendFails, poolVars
  <2>. QED  BY <1>0, <2>1, Kinds, NobodyConverts
<1>7. ASSUME NEW c \in Calls, DebitCheck(c) \/ DebitSpend(c) PROVE ContributionsKept'
  <2>1. UNCHANGED unlocked /\ \E n : Goto(c, n)
    BY <1>7 DEF DebitCheck, DebitSpend, Spend, SpendFails, poolVars
  <2>. QED  BY <1>0, <2>1, Kinds, NobodyConverts
<1>8. ASSUME NEW k \in Topups, TopupPurchased(k) PROVE ContributionsKept'
  <2>1. UNCHANGED unlocked /\ Goto(k, "log")
    BY <1>8 DEF TopupPurchased, Credit
  <2>. QED  BY <1>0, <2>1, Kinds, NobodyConverts
<1>9. ASSUME NEW f \in Closers,
             CloseRead(f) \/ CloseRefund(f) \/ CloseCheck(f) \/ CloseSpend(f) \/ CloseMark(f)
      PROVE  ContributionsKept'
  <2>1. UNCHANGED unlocked /\ \E n : Goto(f, n)
    BY <1>9 DEF CloseRead, CloseRefund, CloseRefundOf, Credit, CloseCheck, CloseSpend, Spend,
       SpendFails, CloseMark, poolVars
  <2>. QED  BY <1>0, <2>1, Kinds, NobodyConverts
<1>10. CASE \/ \E t \in Tasks : RecordUsage(t)
            \/ RunMonthlyRollover \/ NextMonth \/ UNCHANGED vars
  <2>1. UNCHANGED <<unlocked, pc>>
    BY <1>10 DEF RecordUsage, RunMonthlyRollover, NextMonth, local, poolVars, vars
  <2>. QED  BY <2>1, NothingTaken DEF Taken
<1>. QED  BY <1>1, <1>2, <1>3, <1>4, <1>5, <1>6, <1>7, <1>8, <1>9, <1>10 DEF Next

\* Contributions leave the pool for conversions only, and each takes its
\* amount once, however its check and its debit interleave with those of
\* others; what a crash between the debit and the credit loses is the amount
\* of the conversions that stop there (convert_contribution_unlocked).
THEOREM ContributionsAccounted == Spec => []ContributionsKept
<1>1. Init => ContributionsKept
  <2>. SUFFICES ASSUME Init PROVE ContributionsKept
    OBVIOUS
  <2>. DEFINE f == [v \in Converts |-> Taken(v)]
  <2>1. \A v \in Converts : f[v] = 0
    BY Kinds DEF Init, Taken
  <2>2. IsFiniteSet(Converts)
    BY ProcsFinite, FS_Subset DEF Procs, Askers
  <2>3. AllTaken = SumOf(f, Converts)
    BY DEF AllTaken
  <2>. HIDE DEF f
  <2>4. AllTaken = 0
    BY <2>1, <2>2, <2>3, SumOfZeros
  <2>. QED  BY <2>4, PolicyAssumption DEF Init, ContributionsKept
<1>. QED  BY <1>1, ContributionsStep, PoolsInvariance, PTL DEF Spec
===============================================================================
