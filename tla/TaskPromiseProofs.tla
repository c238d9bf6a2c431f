------------------------- MODULE TaskPromiseProofs -------------------------
(***************************************************************************)
(* TaskLifecycle implements TaskPromise, for every set of tasks, coroutine *)
(* identities and settings: every step of the task manager is, to the      *)
(* user, a step of the promise or none.                                    *)
(*                                                                         *)
(* A task has at most one coroutine (see TaskLifecycleProofs), so what the *)
(* user sees is a function of its record and of that coroutine.  Beside    *)
(* the invariant of TaskLifecycleProofs the mapping needs `Shown': which   *)
(* status a record may show at which place of its coroutine.               *)
(***************************************************************************)
EXTENDS TaskLifecycleProofs

\* What the record r shows beside the only coroutine c of its task.
ShownOf(r, c) ==
  /\ r.plan = "pending_user" => r.status = "awaiting_confirmation" /\ r.path # ""
  /\ r.status = "awaiting_confirmation" => ~r.resumable
  /\ c.pc # "idle" =>
       /\ c.pc \notin {"startq", "queued"} => r.path # ""
       /\ c.pc \notin {"draftq", "draft"} => r.status # "awaiting_confirmation"
       /\ c.pc = "ctx" /\ ~c.killed => r.status = "running"

Shown(t) ==
  /\ ShownOf(task[t], Idle)
  /\ \A i \in Slots : ShownOf(task[t], run[t][i])

PInv == IInv /\ \A t \in Tasks : Shown(t)

\* Seats work, and something is out of reach of a rejection, in terms of the
\* record and the only coroutine.
Works(c) == c.pc \in Executing /\ ~c.killed
Lags(r, c) == c.pc # "idle" /\ (r.path = "" \/ Away(c))

\* No coroutine of the task is alive but i.
Only(t, i) == \A j \in Slots \ {i} : run[t][j].pc = "idle"

\* What has to be shown of a step: the user sees a step of the promise or none.
Promised == Promise!Next \/ UNCHANGED Promise!vars

\* Nothing happens to the other tasks.
OthersStay(t) == \A u \in Tasks \ {t} : task'[u] = task[u] /\ run'[u] = run[u]

-----------------------------------------------------------------------------
(* What the user sees *)

\* Of a task with one coroutine, ...
LEMMA View ==
  ASSUME NEW t \in Tasks, NEW i \in Slots, Only(t, i)
  PROVE  /\ Working(t) <=> Works(run[t][i])
         /\ Late(t) <=> Lags(task[t], run[t][i])
BY DEF Only, Working, Works, Late, Lags, At, Live, Unreachable, Away, Resumed, InExecute,
       Executing

\* ... and after a step.
LEMMA ViewNext ==
  ASSUME NEW t \in Tasks, NEW i \in Slots, Only(t, i)'
  PROVE  /\ Working(t)' <=> Works(run'[t][i])
         /\ Late(t)' <=> Lags(task'[t], run'[t][i])
BY DEF Only, Working, Works, Late, Lags, At, Live, Unreachable, Away, Resumed, InExecute,
       Executing

\* Of a task with none.
LEMMA IdleView ==
  ASSUME NEW t \in Tasks, IdleTask(t)
  PROVE  ~Working(t) /\ ~Late(t)
BY DEF IdleTask, Working, Late, At, Live, Executing

\* A step of one task is one of its entries in what the user sees.
LEMMA Becoming ==
  ASSUME NEW t \in Tasks, OthersStay(t), NEW s, NEW p, NEW w \in BOOLEAN, NEW l \in BOOLEAN,
         task'[t].status = s, task'[t].plan = p, Working(t)' <=> w, Late(t)' <=> l
  PROVE  Promise!Becomes(t, s, p, w, l)
<1>1. \A u \in Tasks \ {t} : (Working(u)' <=> Working(u)) /\ (Late(u)' <=> Late(u))
  BY DEF OthersStay, Working, Late, At, Live, Unreachable, Resumed, InExecute
<1>2. \A u \in Tasks : Working(u)' = IF u = t THEN w ELSE Working(u)
  BY <1>1 DEF Working
<1>3. \A u \in Tasks : Late(u)' = IF u = t THEN l ELSE Late(u)
  BY <1>1 DEF Late
<1>4. [u \in Tasks |-> Working(u)]' = [[u \in Tasks |-> Working(u)] EXCEPT ![t] = w]
  BY <1>2
<1>5. [u \in Tasks |-> Late(u)]' = [[u \in Tasks |-> Late(u)] EXCEPT ![t] = l]
  BY <1>3
<1>6. [u \in Tasks |-> task[u].status]' = [[u \in Tasks |-> task[u].status] EXCEPT ![t] = s]
  BY DEF OthersStay
<1>7. [u \in Tasks |-> task[u].plan]' = [[u \in Tasks |-> task[u].plan] EXCEPT ![t] = p]
  BY DEF OthersStay
<1> QED BY <1>4, <1>5, <1>6, <1>7 DEF Promise!Becomes

\* A step the user does not see.
LEMMA Unseen ==
  ASSUME NEW t \in Tasks, OthersStay(t),
         task'[t].status = task[t].status, task'[t].plan = task[t].plan,
         Working(t)' <=> Working(t), Late(t)' <=> Late(t)
  PROVE  Promised
<1>a. \A u \in Tasks \ {t} : (Working(u)' <=> Working(u)) /\ (Late(u)' <=> Late(u))
  BY DEF OthersStay, Working, Late, At, Live, Unreachable, Resumed, InExecute
<1>1. \A u \in Tasks : (Working(u)' <=> Working(u)) /\ (Late(u)' <=> Late(u))
  <2> HIDE DEF Working, Late
  <2> QED BY <1>a
<1>2. \A u \in Tasks : Working(u)' = Working(u) /\ Late(u)' = Late(u)
  BY <1>1 DEF Working, Late
<1>3. \A u \in Tasks : task'[u].status = task[u].status /\ task'[u].plan = task[u].plan
  BY DEF OthersStay
<1> QED BY <1>2, <1>3 DEF Promised, Promise!vars

-----------------------------------------------------------------------------
(* The shapes of a step *)

\* What a coroutine finds when it is alive.
LEMMA Found ==
  ASSUME PInv, NEW t \in Tasks, NEW i \in Slots, run[t][i].pc # "idle"
  PROVE  /\ IInv /\ Only(t, i) /\ BusyTask(t, i) /\ BusyRecord(task[t], ckpt[t], run[t][i])
         /\ ShownOf(task[t], run[t][i])
         /\ task[t] \in Record /\ run[t][i] \in Coroutine
         /\ Working(t) <=> Works(run[t][i])
         /\ Late(t) <=> Lags(task[t], run[t][i])
<1>1. IInv /\ Shown(t)
  BY DEF PInv
<1>2. BusyTask(t, i) /\ task[t] \in Record /\ run[t][i] \in Coroutine
  BY <1>1, AtBusy
<1>3. Only(t, i) /\ BusyRecord(task[t], ckpt[t], run[t][i])
  BY <1>2 DEF BusyTask, Only
<1> QED BY <1>1, <1>2, <1>3, View DEF Shown

\* A task without coroutines.
LEMMA FoundIdle ==
  ASSUME PInv, NEW t \in Tasks, IdleTask(t)
  PROVE  /\ IInv /\ task[t] \in Record /\ ShownOf(task[t], Idle)
         /\ \A i \in Slots : Only(t, i) /\ run[t][i].pc = "idle"
         /\ ~Working(t) /\ ~Late(t) /\ IdleRecord(task[t], ckpt[t])
BY TypedAt, IdleView DEF PInv, Shown, IdleTask, Only, IInv

\* The other tasks show what they showed.
LEMMA OthersShown ==
  ASSUME PInv, NEW t \in Tasks, OthersStay(t), Shown(t)'
  PROVE  \A u \in Tasks : Shown(u)'
BY DEF PInv, Shown, OthersStay

\* A coroutine begins, goes on or ends, and writes the record.
LEMMA MoveSeen ==
  ASSUME PInv, NEW t \in Tasks, NEW i \in Slots, Only(t, i), NEW r, NEW c,
         task' = [task EXCEPT ![t] = r], run' = [run EXCEPT ![t][i] = c],
         ShownOf(r, c)
  PROVE  /\ OthersStay(t) /\ task'[t] = r
         /\ Working(t)' <=> Works(c)
         /\ Late(t)' <=> Lags(r, c)
         /\ \A u \in Tasks : Shown(u)'
<1>1. task \in [Tasks -> Record] /\ run \in [Tasks -> [Slots -> Coroutine]]
  BY DEF PInv, IInv, TypeOK
<1>2. /\ OthersStay(t) /\ task'[t] = r /\ run'[t][i] = c
      /\ \A j \in Slots \ {i} : run'[t][j] = run[t][j]
  BY <1>1 DEF OthersStay
<1>3. Only(t, i)'
  BY <1>2 DEF Only
<1>4. Shown(t)'
  BY <1>2, <1>3, IdleTyped DEF Shown, ShownOf, Only
<1> QED BY <1>2, <1>3, <1>4, ViewNext, OthersShown

\* The record is written while no coroutine is alive.
LEMMA WriteIdle ==
  ASSUME PInv, NEW t \in Tasks, IdleTask(t), NEW r,
         task' = [task EXCEPT ![t] = r], UNCHANGED run, ShownOf(r, Idle)
  PROVE  /\ OthersStay(t) /\ task'[t] = r /\ ~Working(t)' /\ ~Late(t)'
         /\ \A u \in Tasks : Shown(u)'
<1>1. task \in [Tasks -> Record]
  BY DEF PInv, IInv, TypeOK
<1>2. OthersStay(t) /\ task'[t] = r
  BY <1>1 DEF OthersStay
<1>3. ~Working(t)' /\ ~Late(t)'
  BY DEF IdleTask, Working, Late, At, Live, Executing
<1>4. Shown(t)'
  BY <1>2, IdleTyped DEF Shown, ShownOf, IdleTask
<1> QED BY <1>2, <1>3, <1>4, OthersShown

\* The record is written, and nothing that is seen of it.
LEMMA WriteUnseen ==
  ASSUME PInv, NEW t \in Tasks, NEW r,
         task' = [task EXCEPT ![t] = r], UNCHANGED run,
         r.status = task[t].status, r.plan = task[t].plan, r.path = task[t].path,
         r.resumable = task[t].resumable
  PROVE  Promised /\ \A u \in Tasks : Shown(u)'
<1>1. task \in [Tasks -> Record]
  BY DEF PInv, IInv, TypeOK
<1>2. OthersStay(t) /\ task'[t] = r
  BY <1>1 DEF OthersStay
<1>3. (Working(t)' <=> Working(t)) /\ (Late(t)' <=> Late(t))
  BY <1>2 DEF Working, Late, At, Live, Unreachable, Resumed, InExecute
<1>4. Shown(t)'
  BY <1>2 DEF PInv, Shown, ShownOf
<1> HIDE DEF Working, Late
<1> QED BY <1>2, <1>3, <1>4, Unseen, OthersShown

\* A step of one coroutine that is not seen.
LEMMA MoveUnseen ==
  ASSUME PInv, NEW t \in Tasks, NEW i \in Slots, run[t][i].pc # "idle", NEW r, NEW c,
         task' = [task EXCEPT ![t] = r], run' = [run EXCEPT ![t][i] = c],
         ShownOf(r, c), r.status = task[t].status, r.plan = task[t].plan,
         Works(c) <=> Works(run[t][i]), Lags(r, c) <=> Lags(task[t], run[t][i])
  PROVE  Promised /\ \A u \in Tasks : Shown(u)'
BY Found, MoveSeen, Unseen

-----------------------------------------------------------------------------
(* Handlers *)

\* A task is submitted.
LEMMA PostSeen ==
  ASSUME PInv, NEW t \in Tasks,
         PostSimple(t) \/ PostCompany(t) \/ PostUnpaid(t) \/ McpSubmit(t)
  PROVE  Promised /\ \A u \in Tasks : Shown(u)'
<1>1. task[t].status = "none" /\ IInv
  BY DEF PostSimple, PostCompany, PostUnpaid, McpSubmit, PInv
<1>2. IdleTask(t)
  BY <1>1, IdleAt
<1>3. task[t].plan = "none"
  BY <1>1, <1>2 DEF IdleTask, IdleRecord
<1>4. ASSUME NEW s \in {"pending", "awaiting_confirmation"}, NEW b \in BOOLEAN, OthersStay(t),
             task'[t].status = s, task'[t].plan = "none", ~Working(t)', Late(t)' <=> b
      PROVE  Promised
  <2>1. Promise!Becomes(t, s, "none", FALSE, b)
    BY <1>4, Becoming
  <2> QED BY <1>1, <1>3, <2>1 DEF Promised, Promise!Next, Promise!Submit, Promise!Waiting
<1>5. ASSUME NEW s \in {"pending", "awaiting_confirmation"}, NEW p \in {"", "simple", "company"},
             NEW l \in {"queued", "draftq", "startq"}, NEW i \in Slots,
             Schedule(t, i, NewRecord(s, p), l),
             l = "draftq" <=> s = "awaiting_confirmation", l = "draftq" => p # ""
      PROVE  Promised /\ \A u \in Tasks : Shown(u)'
  <2> DEFINE r == NewRecord(s, p)
             c == NewCoroutine(l)
  <2>1. task' = [task EXCEPT ![t] = r] /\ run' = [run EXCEPT ![t][i] = c]
    BY <1>5 DEF Schedule
  <2>2. /\ r.status = s /\ r.path = p /\ r.plan = "none" /\ ~r.resumable
        /\ c.pc = l /\ ~c.killed
    BY DEF NewRecord, NewCoroutine
  <2> HIDE DEF r, c
  <2>3. ShownOf(r, c)
    BY <1>5, <2>2 DEF ShownOf
  <2>4. /\ OthersStay(t) /\ task'[t] = r /\ (Working(t)' <=> Works(c))
        /\ (Late(t)' <=> Lags(r, c)) /\ \A u \in Tasks : Shown(u)'
    BY <1>2, <2>1, <2>3, FoundIdle, MoveSeen
  <2>5. ~Works(c) /\ Lags(r, c) \in BOOLEAN
    BY <2>2 DEF Works, Lags, Executing
  <2> QED BY <1>4, <2>2, <2>4, <2>5
<1>6. CASE PostUnpaid(t)
  <2>1. PICK p \in {"simple", "company"} : task' = [task EXCEPT ![t] = NewRecord("pending", p)]
    BY <1>6 DEF PostUnpaid
  <2> DEFINE r == NewRecord("pending", p)
  <2>2. r.status = "pending" /\ r.plan = "none"
    BY DEF NewRecord
  <2> HIDE DEF r
  <2>3. ShownOf(r, Idle)
    BY <2>2, IdleTyped DEF ShownOf
  <2>4. /\ OthersStay(t) /\ task'[t] = r /\ ~Working(t)' /\ ~Late(t)'
        /\ \A u \in Tasks : Shown(u)'
    BY <1>2, <1>6, <2>1, <2>3, WriteIdle DEF PostUnpaid, r
  <2> QED BY <1>4, <2>2, <2>4
<1>7. CASE PostSimple(t)
  BY <1>5, <1>7 DEF PostSimple, Start
<1>8. CASE PostCompany(t)
  BY <1>5, <1>8 DEF PostCompany, Start
<1>9. CASE McpSubmit(t)
  BY <1>5, <1>9 DEF McpSubmit
<1> QED BY <1>6, <1>7, <1>8, <1>9

\* The expiry: a lapse of the plan.
LEMMA ExpirySeen ==
  ASSUME PInv, NEW t \in Tasks, ExpireDue(t), NEW r,
         task' = [task EXCEPT ![t] = r], r.status = "expired", r.plan = "expired",
         UNCHANGED run
  PROVE  Promised /\ \A u \in Tasks : Shown(u)'
<1>1. IdleTask(t)
  BY IdleAt DEF ExpireDue, PInv
<1>2. ShownOf(r, Idle)
  BY IdleTyped DEF ShownOf
<1>3. /\ OthersStay(t) /\ task'[t] = r /\ ~Working(t)' /\ ~Late(t)'
      /\ \A u \in Tasks : Shown(u)'
  BY <1>1, <1>2, WriteIdle
<1>4. Promise!Becomes(t, "expired", "expired", FALSE, FALSE)
  BY <1>3, Becoming
<1> QED BY <1>3, <1>4 DEF ExpireDue, Promised, Promise!Next, Promise!Lapse, Promise!Waiting

\* Reading the task is at most a lapse of the plan.
LEMMA GetSeen ==
  ASSUME PInv, NEW t \in Tasks, GetTask(t)
  PROVE  Promised /\ \A u \in Tasks : Shown(u)'
<1>1. /\ ExpireDue(t) /\ UNCHANGED run /\ task[t] \in Record
      /\ task' = [task EXCEPT ![t] = Seen(t)]
  BY TypedAt DEF GetTask, PInv, IInv
<1>2. Seen(t).status = "expired" /\ Seen(t).plan = "expired"
  BY <1>1 DEF Seen, Record
<1> QED BY <1>1, <1>2, ExpirySeen

\* The deadline alone is not seen.
LEMMA DeadlineSeen ==
  ASSUME PInv, NEW t \in Tasks, DeadlinePasses(t)
  PROVE  Promised /\ \A u \in Tasks : Shown(u)'
<1> DEFINE r == [task[t] EXCEPT !.deadline = "past"]
<1>1. task[t] \in Record /\ task' = [task EXCEPT ![t] = r] /\ UNCHANGED run
  BY TypedAt DEF DeadlinePasses, PInv, IInv
<1>2. /\ r.status = task[t].status /\ r.plan = task[t].plan /\ r.path = task[t].path
      /\ r.resumable = task[t].resumable
  BY <1>1 DEF Record
<1> HIDE DEF r
<1> QED BY <1>1, <1>2, WriteUnseen

\* An approval grants the plan, ...
LEMMA ApproveSeen ==
  ASSUME PInv, NEW t \in Tasks, Approve(t)
  PROVE  Promised /\ \A u \in Tasks : Shown(u)'
<1>1. /\ task[t].plan = "pending_user" /\ task[t].status = "awaiting_confirmation"
      /\ IdleTask(t) /\ task[t] \in Record /\ ~task[t].resumable /\ task[t].path # ""
  BY IdleAt, TypedAt DEF Approve, MayApprove, PInv, Shown, ShownOf, IInv
<1>2. PICK i \in Slots : Schedule(t, i, Approved(task[t]), "queued")
  BY DEF Approve, Start
<1> DEFINE r == Approved(task[t])
           c == NewCoroutine("queued")
<1>3. task' = [task EXCEPT ![t] = r] /\ run' = [run EXCEPT ![t][i] = c]
  BY <1>2 DEF Schedule
<1>4. /\ r.plan = "locked" /\ r.status = "pending" /\ r.path = task[t].path
      /\ c.pc = "queued" /\ ~c.resumed
  BY <1>1 DEF Approved, Record, NewCoroutine
<1> HIDE DEF r, c
<1>5. ShownOf(r, c)
  BY <1>4 DEF ShownOf
<1>6. /\ OthersStay(t) /\ task'[t] = r /\ (Working(t)' <=> Works(c))
      /\ (Late(t)' <=> Lags(r, c)) /\ \A u \in Tasks : Shown(u)'
  BY <1>1, <1>3, <1>5, FoundIdle, MoveSeen
<1>7. ~Works(c) /\ ~Lags(r, c) /\ ~Late(t)
  BY <1>1, <1>4, FoundIdle DEF Works, Lags, Away, Executing
<1>8. Promise!Becomes(t, "pending", "locked", FALSE, FALSE)
  BY <1>4, <1>6, <1>7, Becoming
<1> QED BY <1>1, <1>6, <1>7, <1>8 DEF Promised, Promise!Next, Promise!Grant, Promise!Waiting

\* ... also when the reservation fails.
LEMMA ApproveUnpaidSeen ==
  ASSUME PInv, NEW t \in Tasks, ApproveUnpaid(t)
  PROVE  Promised /\ \A u \in Tasks : Shown(u)'
<1> DEFINE r == [task[t] EXCEPT !.plan = "locked"]
<1>1. /\ task[t].plan = "pending_user" /\ task[t].status = "awaiting_confirmation"
      /\ IdleTask(t) /\ task[t] \in Record /\ ~task[t].resumable
  BY IdleAt, TypedAt DEF ApproveUnpaid, MayApprove, PInv, Shown, ShownOf, IInv
<1>2. task' = [task EXCEPT ![t] = r] /\ UNCHANGED run
  BY DEF ApproveUnpaid
<1>3. r.plan = "locked" /\ r.status = task[t].status /\ ~r.resumable
  BY <1>1 DEF Record
<1> HIDE DEF r
<1>4. ShownOf(r, Idle)
  BY <1>1, <1>3, IdleTyped DEF ShownOf
<1>5. /\ OthersStay(t) /\ task'[t] = r /\ ~Working(t)' /\ ~Late(t)' /\ ~Late(t)
      /\ \A u \in Tasks : Shown(u)'
  BY <1>1, <1>2, <1>4, WriteIdle, FoundIdle
<1>6. Promise!Becomes(t, task[t].status, "locked", FALSE, FALSE)
  BY <1>3, <1>5, Becoming
<1> QED BY <1>1, <1>5, <1>6 DEF Promised, Promise!Next, Promise!Grant, Promise!Waiting

\* Reject finds the coroutine, or there is none, or it is late.
LEMMA RejectSeen ==
  ASSUME PInv, NEW t \in Tasks, Reject(t)
  PROVE  Promised /\ \A u \in Tasks : Shown(u)'
<1> DEFINE p == IF task[t].plan = "none" THEN "none" ELSE "rejected"
           r == [task[t] EXCEPT !.status = "rejected", !.plan = p]
<1>1. /\ IInv /\ task[t] \in Record /\ task' = [task EXCEPT ![t] = r]
      /\ task[t].status \in {"pending", "awaiting_confirmation", "running", "interrupted"}
      /\ run \in [Tasks -> [Slots -> Coroutine]]
      /\ run' = IF HandleLive(t) THEN [run EXCEPT ![t][handle[t]].killed = TRUE] ELSE run
  BY TypedAt DEF Reject, Undecided, PInv, IInv, TypeOK, Record, Status, Ended
<1>2. r.status = "rejected" /\ r.plan = p /\ r.path = task[t].path
  BY <1>1 DEF Record
<1> HIDE DEF r
<1>3. ASSUME OthersStay(t), task'[t] = r, ~Working(t)', Late(t)' <=> Late(t)
      PROVE  Promised
  <2>1. PICK l \in BOOLEAN : Late(t) <=> l
    BY DEF Late
  <2>2. Promise!Becomes(t, "rejected", p, FALSE, l)
    <3> HIDE DEF p
    <3> QED BY <1>2, <1>3, <2>1, Becoming
  <2>3. [u \in Tasks |-> Late(u)][t] = l
    BY <2>1 DEF Late
  <2>4. /\ [u \in Tasks |-> task[u].plan][t] = task[t].plan
        /\ [u \in Tasks |-> task[u].status][t] = task[t].status
    OBVIOUS
  <2>5. Promise!Refuse(t)
    BY <1>1, <2>2, <2>3, <2>4 DEF Promise!Refuse, Promise!Becomes, Promise!Waiting
  <2> QED BY <2>5 DEF Promised, Promise!Next
<1>4. CASE IdleTask(t)
  <2>1. UNCHANGED run
    BY <1>1, <1>4, IdleHandle
  <2>2. ShownOf(r, Idle)
    BY <1>2, IdleTyped DEF ShownOf
  <2>3. /\ OthersStay(t) /\ task'[t] = r /\ ~Working(t)' /\ ~Late(t)' /\ ~Late(t)
        /\ \A u \in Tasks : Shown(u)'
    BY <1>1, <1>4, <2>1, <2>2, WriteIdle, FoundIdle
  <2> QED BY <1>3, <2>3
<1>5. ASSUME NEW i \in Slots, BusyTask(t, i)
      PROVE  Promised /\ \A u \in Tasks : Shown(u)'
  <2> DEFINE c == IF HandleLive(t) THEN [run[t][i] EXCEPT !.killed = TRUE] ELSE run[t][i]
  <2>1. /\ run[t][i].pc # "idle"
        /\ HandleLive(t) => handle[t] = i
        /\ ~HandleLive(t) => Away(run[t][i]) /\ run[t][i].pc \notin Executing
    BY <1>1, <1>5, HandleAt DEF BusyTask
  <2>2. /\ Only(t, i) /\ run[t][i] \in Coroutine
        /\ BusyRecord(task[t], ckpt[t], run[t][i])
        /\ ShownOf(task[t], run[t][i]) /\ (Late(t) <=> Lags(task[t], run[t][i]))
    BY <2>1, Found
  <2>3. run' = [run EXCEPT ![t][i] = c]
    <3>1. CASE HandleLive(t)
      BY <1>1, <2>1, <3>1
    <3>2. CASE ~HandleLive(t)
      BY <1>1, <3>2
    <3> QED BY <3>1, <3>2
  <2>4. /\ c.pc = run[t][i].pc /\ c.resumed = run[t][i].resumed
        /\ c.killed \/ (Away(c) /\ c.pc \notin Executing)
    BY <2>1, <2>2 DEF Coroutine, Away
  <2> HIDE DEF c
  <2>5. ShownOf(r, c)
    BY <1>2, <2>2, <2>4 DEF ShownOf, BusyRecord, Away, Executing, Reflecting
  <2>6. /\ OthersStay(t) /\ task'[t] = r /\ (Working(t)' <=> Works(c))
        /\ (Late(t)' <=> Lags(r, c)) /\ \A u \in Tasks : Shown(u)'
    BY <1>1, <2>2, <2>3, <2>5, MoveSeen
  <2>7. ~Works(c) /\ (Lags(r, c) <=> Lags(task[t], run[t][i]))
    BY <1>2, <2>4 DEF Works, Lags, Away
  <2> QED BY <1>3, <2>2, <2>6, <2>7
<1> QED BY <1>1, <1>4, <1>5 DEF IInv, TaskInv

\* A cancel writes the flag only, unless the plan has lapsed.
LEMMA CancelSeen ==
  ASSUME PInv, NEW t \in Tasks, Cancel(t) \/ McpCancel(t)
  PROVE  Promised /\ \A u \in Tasks : Shown(u)'
<1> DEFINE r == [Seen(t) EXCEPT !.cancelReq = TRUE]
<1>1. /\ IInv /\ task[t] \in Record /\ Seen(t) \in Record
      /\ task' = [task EXCEPT ![t] = r]
      /\ run' = IF orch[t] # NoSlot THEN [run EXCEPT ![t][orch[t]].stop = TRUE] ELSE run
  BY TypedAt, SeenAt DEF Cancel, McpCancel, RequestCancel, PInv, IInv
<1>2. /\ r.status = Seen(t).status /\ r.plan = Seen(t).plan /\ r.path = Seen(t).path
      /\ r.resumable = Seen(t).resumable
  BY <1>1 DEF Record
<1> HIDE DEF r
<1>3. CASE ExpireDue(t)
  <2>1. Seen(t).status = "expired" /\ Seen(t).plan = "expired"
    BY <1>1, <1>3 DEF Seen, Record
  <2>2. IdleTask(t)
    BY <1>1, <1>3, IdleAt DEF ExpireDue
  <2>3. UNCHANGED run
    BY <1>1, <2>2 DEF IdleTask
  <2> QED BY <1>1, <1>2, <1>3, <2>1, <2>3, ExpirySeen
<1>4. CASE ~ExpireDue(t)
  <2>1. Seen(t) = task[t]
    BY <1>4 DEF Seen
  <2>2. CASE orch[t] = NoSlot
    BY <1>1, <1>2, <2>1, <2>2, WriteUnseen
  <2>3. CASE orch[t] # NoSlot
    <3> DEFINE i == orch[t]
               c == [run[t][i] EXCEPT !.stop = TRUE]
    <3>1. i \in Slots /\ run[t][i].pc # "idle" /\ run \in [Tasks -> [Slots -> Coroutine]]
      BY <1>1, <2>3 DEF IInv, TypeOK, TaskInv, IdleTask, BusyTask
    <3>2. run[t][i] \in Coroutine /\ ShownOf(task[t], run[t][i])
      BY <3>1, Found
    <3>3. run' = [run EXCEPT ![t][i] = c]
      BY <1>1, <2>3, <3>1
    <3>4. c.pc = run[t][i].pc /\ c.resumed = run[t][i].resumed /\ c.killed = run[t][i].killed
      BY <3>2 DEF Coroutine
    <3> HIDE DEF c, i
    <3>5. ShownOf(r, c)
      BY <1>2, <2>1, <3>2, <3>4 DEF ShownOf
    <3>6. (Works(c) <=> Works(run[t][i])) /\ (Lags(r, c) <=> Lags(task[t], run[t][i]))
      BY <1>2, <2>1, <3>4 DEF Works, Lags, Away
    <3> QED BY <1>1, <1>2, <2>1, <3>1, <3>3, <3>5, <3>6, MoveUnseen
  <2> QED BY <2>2, <2>3
<1> QED BY <1>3, <1>4

\* The fuse cuts the registered coroutine, or nobody.
LEMMA ForceCancelSeen ==
  ASSUME PInv, NEW t \in Tasks, ForceCancel(t)
  PROVE  Promised /\ \A u \in Tasks : Shown(u)'
<1>1. /\ IInv /\ task[t] \in Record /\ UNCHANGED task /\ task = [task EXCEPT ![t] = task[t]]
      /\ run \in [Tasks -> [Slots -> Coroutine]]
      /\ run' = IF FuseMayCut(t) THEN [run EXCEPT ![t][handle[t]].killed = TRUE] ELSE run
  BY TypedAt, Unchanged DEF ForceCancel, PInv, IInv, TypeOK
<1>2. CASE ~FuseMayCut(t)
  BY <1>1, <1>2, WriteUnseen
<1>3. CASE FuseMayCut(t)
  <2> DEFINE i == handle[t]
             c == [run[t][i] EXCEPT !.killed = TRUE]
  <2>1. i \in Slots /\ run[t][i].pc # "idle"
    BY <1>1, <1>3 DEF IInv, TypeOK, FuseMayCut, HandleLive, Live
  <2>2. /\ Only(t, i) /\ run[t][i] \in Coroutine /\ ShownOf(task[t], run[t][i])
        /\ (Working(t) <=> Works(run[t][i])) /\ (Late(t) <=> Lags(task[t], run[t][i]))
    BY <2>1, Found
  <2>3. run' = [run EXCEPT ![t][i] = c]
    BY <1>1, <1>3, <2>1
  <2>4. c.pc = run[t][i].pc /\ c.resumed = run[t][i].resumed /\ c.killed
    BY <2>2 DEF Coroutine
  <2> HIDE DEF c, i
  <2>5. ShownOf(task[t], c)
    BY <2>2, <2>4 DEF ShownOf
  <2>6. /\ OthersStay(t) /\ (Working(t)' <=> Works(c))
        /\ (Late(t)' <=> Lags(task[t], c)) /\ \A u \in Tasks : Shown(u)'
    BY <1>1, <2>1, <2>2, <2>3, <2>5, MoveSeen
  <2>7. ~Works(c) /\ (Lags(task[t], c) <=> Lags(task[t], run[t][i]))
    BY <2>4 DEF Works, Lags, Away
  <2>8. CASE Working(t)
    <3>1. PICK l \in BOOLEAN : Late(t)' <=> l
      BY DEF Late
    <3>2. Promise!Becomes(t, task[t].status, task[t].plan, FALSE, l)
      BY <1>1, <2>6, <2>7, <3>1, Becoming
    <3> QED BY <2>6, <2>8, <3>2 DEF Promised, Promise!Next, Promise!Rest
  <2>9. CASE ~Working(t)
    BY <1>1, <2>2, <2>6, <2>7, <2>9, Unseen
  <2> QED BY <2>8, <2>9
<1> QED BY <1>2, <1>3

\* A resume finds a task that ended, or that a resume reset before.
LEMMA ResumeSeen ==
  ASSUME PInv, NEW t \in Tasks, Resume(t) \/ McpResume(t)
  PROVE  Promised /\ \A u \in Tasks : Shown(u)'
<1> DEFINE r == ResumedRecord(t)
           c == NewCoroutine("resumeq")
<1>1. /\ IInv /\ MayResume(t) /\ Seen(t).resumable = task[t].resumable /\ task[t] \in Record
      /\ task[t].resumable
  BY SeenAt, TypedAt DEF Resume, McpResume, MayResume, PInv, IInv
<1>2. IdleTask(t)
  BY <1>1, IdleAt
<1>3. /\ ~Working(t) /\ ~Late(t) /\ IdleRecord(task[t], ckpt[t]) /\ ShownOf(task[t], Idle)
  BY <1>2, FoundIdle
<1>4. Seen(t) = task[t]
  BY <1>1, <1>3 DEF Seen, ExpireDue, IdleRecord
<1>5. /\ task[t].status \in {"pending", "failed", "cancelled", "interrupted", "rejected"}
      /\ task[t].plan \notin {"pending_user", "expired"} /\ task[t].path = "company"
  BY <1>1, <1>3, <1>4
     DEF MayResume, IdleRecord, ShownOf, Record, Status, Ended
<1>6. /\ r.status = "pending" /\ r.plan = task[t].plan /\ r.path = task[t].path
      /\ ~r.resumable
  BY <1>1, <1>4 DEF ResumedRecord, Record
<1>7. c.pc = "resumeq" /\ c.resumed
  BY DEF NewCoroutine
<1> HIDE DEF r, c
<1>8. ASSUME OthersStay(t), task'[t] = r, ~Working(t)'
      PROVE  Promised
  <2>1. PICK l \in BOOLEAN : Late(t)' <=> l
    BY DEF Late
  <2>2. Promise!Becomes(t, "pending", task[t].plan, FALSE, l)
    BY <1>6, <1>8, <2>1, Becoming
  <2> QED BY <1>3, <1>5, <2>2 DEF Promised, Promise!Next, Promise!Resume
<1>9. CASE Resume(t)
  <2>1. PICK i \in Slots : task' = [task EXCEPT ![t] = r] /\ run' = [run EXCEPT ![t][i] = c]
    BY <1>9 DEF Resume, Schedule, r, c
  <2>2. ShownOf(r, c)
    BY <1>5, <1>6, <1>7 DEF ShownOf
  <2>3. /\ OthersStay(t) /\ task'[t] = r /\ (Working(t)' <=> Works(c))
        /\ \A u \in Tasks : Shown(u)'
    BY <1>2, <2>1, <2>2, FoundIdle, MoveSeen
  <2>4. ~Works(c)
    BY <1>7 DEF Works, Executing
  <2> QED BY <1>8, <2>3, <2>4
<1>10. CASE McpResume(t)
  <2>1. task' = [task EXCEPT ![t] = r] /\ UNCHANGED run
    BY <1>10 DEF McpResume, r
  <2>2. ShownOf(r, Idle)
    BY <1>5, <1>6, IdleTyped DEF ShownOf
  <2>3. OthersStay(t) /\ task'[t] = r /\ ~Working(t)' /\ \A u \in Tasks : Shown(u)'
    BY <1>2, <2>1, <2>2, WriteIdle
  <2> QED BY <1>8, <2>3
<1> QED BY <1>9, <1>10

-----------------------------------------------------------------------------
(* Coroutines *)

\* The record with another status and flag.
LEMMA Fields ==
  ASSUME PInv, NEW t \in Tasks, NEW s \in Status, NEW b \in BOOLEAN,
         \/ task' = [task EXCEPT ![t].status = s, ![t].resumable = b]
         \/ task' = [task EXCEPT ![t].status = s] /\ b = task[t].resumable
  PROVE  \E r : /\ task' = [task EXCEPT ![t] = r] /\ r.plan = task[t].plan
               /\ r.status = s /\ r.resumable = b /\ r.path = task[t].path
<1> DEFINE r == [task[t] EXCEPT !.status = s, !.resumable = b]
           q == [task[t] EXCEPT !.status = s]
<1>1. task[t] \in Record
  BY TypedAt DEF PInv, IInv
<1>2. r.plan = task[t].plan /\ r.status = s /\ r.resumable = b /\ r.path = task[t].path
  BY <1>1 DEF Record
<1>3. /\ q.plan = task[t].plan /\ q.status = s /\ q.resumable = task[t].resumable
      /\ q.path = task[t].path
  BY <1>1 DEF Record
<1>4. CASE task' = [task EXCEPT ![t].status = s, ![t].resumable = b]
  <2>1. task' = [task EXCEPT ![t] = r]
    BY <1>4
  <2> HIDE DEF r
  <2> QED BY <1>2, <2>1
<1>5. CASE task' = [task EXCEPT ![t].status = s] /\ b = task[t].resumable
  <2>1. task' = [task EXCEPT ![t] = q]
    BY <1>5
  <2> HIDE DEF q
  <2> QED BY <1>3, <1>5, <2>1
<1> QED BY <1>4, <1>5

\* A run ends and closes the record: it was not rejected, or it is late.
LEMMA CloseSeen ==
  ASSUME PInv, NEW t \in Tasks, NEW i \in Slots, run[t][i].pc \notin {"idle", "draftq", "draft"},
         ~run[t][i].killed \/ Closable(t), NEW r,
         task' = [task EXCEPT ![t] = r], End(t, i),
         r.status \in {"completed", "failed", "cancelled"}, r.plan = task[t].plan
  PROVE  Promised /\ \A u \in Tasks : Shown(u)'
<1>1. /\ Only(t, i) /\ BusyRecord(task[t], ckpt[t], run[t][i]) /\ ShownOf(task[t], run[t][i])
      /\ (Late(t) <=> Lags(task[t], run[t][i])) /\ run[t][i] \in Coroutine
  BY Found
<1>2. ShownOf(r, Idle)
  BY <1>1, IdleTyped DEF ShownOf, BusyRecord
<1>3. run' = [run EXCEPT ![t][i] = Idle]
  BY DEF End
<1>4. /\ OthersStay(t) /\ task'[t] = r /\ (Working(t)' <=> Works(Idle))
      /\ (Late(t)' <=> Lags(r, Idle)) /\ \A u \in Tasks : Shown(u)'
  BY <1>1, <1>2, <1>3, MoveSeen
<1>5. ~Works(Idle) /\ ~Lags(r, Idle)
  BY IdleTyped DEF Works, Lags, Executing
<1>6. Promise!Becomes(t, r.status, task[t].plan, FALSE, FALSE)
  BY <1>4, <1>5, Becoming
<1>7. \/ task[t].status \in {"pending", "running"}
      \/ task[t].status = "rejected" /\ Late(t)
  BY <1>1 DEF BusyRecord, ShownOf, Lags, Closable, Coroutine
<1> HIDE DEF Late
<1> QED BY <1>4, <1>6, <1>7 DEF Promised, Promise!Next, Promise!Close, Promise!Open

\* A coroutine ends and leaves the status.
LEMMA LeaveSeen ==
  ASSUME PInv, NEW t \in Tasks, NEW i \in Slots, run[t][i].pc # "idle", NEW r,
         task' = [task EXCEPT ![t] = r], End(t, i),
         r.status = task[t].status, r.plan = task[t].plan,
         r.status = "awaiting_confirmation" => ~r.resumable
  PROVE  Promised /\ \A u \in Tasks : Shown(u)'
<1>1. Only(t, i) /\ BusyRecord(task[t], ckpt[t], run[t][i])
  BY Found
<1>2. ShownOf(r, Idle)
  BY <1>1, IdleTyped DEF ShownOf, BusyRecord
<1>3. run' = [run EXCEPT ![t][i] = Idle]
  BY DEF End
<1>4. /\ OthersStay(t) /\ task'[t] = r /\ (Working(t)' <=> Works(Idle))
      /\ (Late(t)' <=> Lags(r, Idle)) /\ \A u \in Tasks : Shown(u)'
  BY <1>1, <1>2, <1>3, MoveSeen
<1>5. ~Works(Idle) /\ ~Lags(r, Idle)
  BY IdleTyped DEF Works, Lags, Executing
<1>6. Promise!Becomes(t, task[t].status, task[t].plan, FALSE, FALSE)
  BY <1>4, <1>5, Becoming
<1> QED BY <1>4, <1>6 DEF Promised, Promise!Next, Promise!Leave

\* The same without writing the record.
LEMMA DropSeen ==
  ASSUME PInv, NEW t \in Tasks, NEW i \in Slots, run[t][i].pc # "idle",
         UNCHANGED task, End(t, i)
  PROVE  Promised /\ \A u \in Tasks : Shown(u)'
<1>1. task = [task EXCEPT ![t] = task[t]] /\ BusyRecord(task[t], ckpt[t], run[t][i])
  BY Found, Unchanged DEF PInv, IInv
<1> QED BY <1>1, LeaveSeen DEF BusyRecord

\* The coroutine goes on, and neither works where it did not nor the reverse.
LEMMA GoOnSeen ==
  ASSUME PInv, NEW t \in Tasks, NEW i \in Slots, UNCHANGED task,
         NEW c, run' = [run EXCEPT ![t][i] = c],
         c.resumed = run[t][i].resumed, c.killed = run[t][i].killed,
         \/ run[t][i].pc = "draftq" /\ c.pc = "draft"
         \/ run[t][i].pc = "startq" /\ c.pc = "queued"
         \/ run[t][i].pc \in Executing /\ c.pc \in Executing
         \/ run[t][i].pc \in {"gen"} \cup Reflecting /\ c.pc \in Reflecting
  PROVE  Promised /\ \A u \in Tasks : Shown(u)'
<1>1. run[t][i].pc # "idle" /\ task = [task EXCEPT ![t] = task[t]]
  BY Unchanged DEF Executing, Reflecting, PInv, IInv
<1>2. /\ BusyRecord(task[t], ckpt[t], run[t][i]) /\ ShownOf(task[t], run[t][i])
      /\ run[t][i] \in Coroutine
  BY <1>1, Found
<1>4. ShownOf(task[t], c)
  BY <1>2 DEF ShownOf, Executing, Reflecting
<1>5. /\ Works(c) <=> Works(run[t][i])
      /\ Lags(task[t], c) <=> Lags(task[t], run[t][i])
  BY <1>2 DEF Works, Lags, Away, BusyRecord, Executing, Reflecting
<1> QED BY <1>1, <1>4, <1>5, MoveUnseen

\* A step inside the loop or inside execute().
LEMMA GotoSeen ==
  ASSUME PInv, NEW t \in Tasks, NEW i \in Slots, UNCHANGED task, NEW p, Goto(t, i, p),
         \/ run[t][i].pc = "draftq" /\ p = "draft"
         \/ run[t][i].pc = "startq" /\ p = "queued"
         \/ run[t][i].pc \in Executing /\ p \in Executing
  PROVE  Promised /\ \A u \in Tasks : Shown(u)'
<1> DEFINE c == [run[t][i] EXCEPT !.pc = p]
<1>1. run[t][i].pc # "idle"
  BY DEF Executing
<1>2. run[t][i] \in Coroutine
  BY <1>1, Found
<1>3. /\ run' = [run EXCEPT ![t][i] = c]
      /\ c.pc = p /\ c.resumed = run[t][i].resumed /\ c.killed = run[t][i].killed
  BY <1>2 DEF Goto, Coroutine
<1> HIDE DEF c
<1> QED BY <1>3, GoOnSeen

\* The draft asks the user.
LEMMA AskSeen ==
  ASSUME PInv, NEW t \in Tasks, NEW i \in Slots, DraftDone(t, i) \/ DraftRaises(t, i)
  PROVE  Promised /\ \A u \in Tasks : Shown(u)'
<1>1. PICK d \in {"none", "open"} : task' = [task EXCEPT ![t] = Drafted(t, d)]
  BY DEF DraftDone, DraftRaises
<1>2. run[t][i].pc = "draft" /\ ~run[t][i].killed /\ run' = [run EXCEPT ![t][i] = Idle]
  BY DEF DraftDone, DraftRaises, At, End
<1>3. /\ Only(t, i) /\ BusyRecord(task[t], ckpt[t], run[t][i]) /\ ShownOf(task[t], run[t][i])
      /\ (Late(t) <=> Lags(task[t], run[t][i])) /\ task[t] \in Record
  BY <1>2, Found
<1> DEFINE r == Drafted(t, d)
<1>4. /\ r.plan = "pending_user" /\ r.status = "awaiting_confirmation"
      /\ r.path = task[t].path /\ r.resumable = task[t].resumable
  BY <1>3 DEF Drafted, Record
<1> HIDE DEF r
<1>5. ShownOf(r, Idle)
  BY <1>2, <1>3, <1>4, IdleTyped DEF ShownOf, BusyRecord
<1>6. /\ OthersStay(t) /\ task'[t] = r /\ (Working(t)' <=> Works(Idle))
      /\ (Late(t)' <=> Lags(r, Idle)) /\ \A u \in Tasks : Shown(u)'
  BY <1>1, <1>2, <1>3, <1>5, MoveSeen DEF r
<1>7. ~Works(Idle) /\ ~Lags(r, Idle)
  BY IdleTyped DEF Works, Lags, Executing
<1>8. Promise!Becomes(t, "awaiting_confirmation", "pending_user", FALSE, FALSE)
  BY <1>4, <1>6, <1>7, Becoming
<1>9. /\ task[t].status \in {"pending", "awaiting_confirmation"} /\ task[t].plan = "none"
      /\ ~Late(t)
  BY <1>2, <1>3 DEF BusyRecord, ShownOf, Lags, Away, Scheduled, Executing, Reflecting
<1> QED BY <1>6, <1>8, <1>9 DEF Promised, Promise!Next, Promise!Ask, Promise!Waiting

\* The draft approves at once: one coroutine ends, another begins.
LEMMA DraftApprovesSeen ==
  ASSUME PInv, NEW t \in Tasks, NEW i \in Slots, DraftApproves(t, i)
  PROVE  Promised /\ \A u \in Tasks : Shown(u)'
<1>1. PICK d \in {"none", "open"}, j \in Slots :
        /\ Free(t, j) /\ task' = [task EXCEPT ![t] = Approved(Drafted(t, d))]
        /\ run' = [run EXCEPT ![t] = [@ EXCEPT ![i] = Idle, ![j] = NewCoroutine("queued")]]
  BY DEF DraftApproves
<1>2. run[t][i].pc = "draft" /\ ~run[t][i].killed /\ i # j
  BY <1>1 DEF DraftApproves, At, Free, Live
<1>3. /\ Only(t, i) /\ BusyRecord(task[t], ckpt[t], run[t][i]) /\ ShownOf(task[t], run[t][i])
      /\ (Late(t) <=> Lags(task[t], run[t][i])) /\ task[t] \in Record
      /\ task \in [Tasks -> Record] /\ run \in [Tasks -> [Slots -> Coroutine]]
  BY <1>2, Found DEF PInv, IInv, TypeOK
<1> DEFINE r == Approved(Drafted(t, d))
           c == NewCoroutine("queued")
<1>4. r.plan = "locked" /\ r.status = "pending" /\ r.path = task[t].path
  BY <1>3 DEF Drafted, Approved, Record
<1>5. c.pc = "queued" /\ ~c.resumed
  BY DEF NewCoroutine
<1>6. /\ OthersStay(t) /\ task'[t] = r /\ run'[t][i] = Idle /\ run'[t][j] = c
      /\ \A k \in Slots \ {i, j} : run'[t][k] = run[t][k]
  BY <1>1, <1>2, <1>3 DEF OthersStay
<1> HIDE DEF r, c
<1>7. Only(t, j)'
  BY <1>3, <1>6, IdleTyped DEF Only
<1>8. Shown(t)'
  BY <1>4, <1>5, <1>6, <1>7, IdleTyped DEF Shown, ShownOf, Only
<1>9. (Working(t)' <=> Works(c)) /\ (Late(t)' <=> Lags(r, c))
  BY <1>6, <1>7, ViewNext
<1>10. /\ task[t].status \in {"pending", "awaiting_confirmation"} /\ task[t].plan = "none"
       /\ ~Late(t) /\ task[t].path # ""
  BY <1>2, <1>3 DEF BusyRecord, ShownOf, Lags, Away, Scheduled, Executing, Reflecting
<1>11. ~Works(c) /\ ~Lags(r, c)
  BY <1>4, <1>5, <1>10 DEF Works, Lags, Away, Executing
<1>12. Promise!Becomes(t, "pending", "locked", FALSE, FALSE)
  BY <1>4, <1>6, <1>9, <1>11, Becoming
<1>13. Promised
  BY <1>10, <1>12 DEF Promised, Promise!Next, Promise!Grant, Promise!Waiting
<1> QED BY <1>6, <1>8, <1>13, OthersShown

\* A run begins.
LEMMA RunStartSeen ==
  ASSUME PInv, NEW t \in Tasks, NEW i \in Slots, RunStart(t, i)
  PROVE  Promised /\ \A u \in Tasks : Shown(u)'
<1>1. PICK p \in IF task[t].path = "" THEN {"simple", "company"} ELSE {task[t].path} :
        /\ task' = [task EXCEPT ![t].status = "running", ![t].path = p]
        /\ Goto(t, i, IF p = "company" THEN "ctx" ELSE "gen")
  BY DEF RunStart
<1>2. run[t][i].pc = "queued" /\ ~run[t][i].killed
  BY DEF RunStart, At
<1>3. /\ Only(t, i) /\ BusyRecord(task[t], ckpt[t], run[t][i]) /\ ShownOf(task[t], run[t][i])
      /\ (Late(t) <=> Lags(task[t], run[t][i])) /\ task[t] \in Record
      /\ run[t][i] \in Coroutine /\ IInv
  BY <1>2, Found
<1>4. ~run[t][i].resumed
  BY <1>2, <1>3 DEF BusyRecord, Executing, Reflecting
<1> DEFINE r == [task[t] EXCEPT !.status = "running", !.path = p]
<1>5. task' = [task EXCEPT ![t] = r]
  BY <1>1
<1>6. /\ r.status = "running" /\ r.path = p /\ r.plan = task[t].plan
      /\ p # "" /\ r.resumable = task[t].resumable
  BY <1>1, <1>3 DEF Record
<1> HIDE DEF r
<1>7. PICK l \in {"ctx", "gen"} : Goto(t, i, l)
  BY <1>1
<1> DEFINE c == [run[t][i] EXCEPT !.pc = l]
<1>8. /\ run' = [run EXCEPT ![t][i] = c]
      /\ c.pc = l /\ c.resumed = run[t][i].resumed /\ c.killed = run[t][i].killed
  BY <1>3, <1>7 DEF Goto, Coroutine
<1> HIDE DEF c
<1>9. ShownOf(r, c)
  BY <1>3, <1>6, <1>7, <1>8 DEF ShownOf, BusyRecord
<1>10. /\ OthersStay(t) /\ task'[t] = r /\ (Working(t)' <=> Works(c))
       /\ (Late(t)' <=> Lags(r, c)) /\ \A u \in Tasks : Shown(u)'
  BY <1>3, <1>5, <1>8, <1>9, MoveSeen
<1>11. ~Works(c) /\ ~Lags(r, c)
  BY <1>4, <1>6, <1>7, <1>8 DEF Works, Lags, Away, Executing
<1>12. Promise!Becomes(t, "running", task[t].plan, FALSE, FALSE)
  BY <1>6, <1>10, <1>11, Becoming
<1>13. \/ task[t].status = "pending"
       \/ task[t].status = "rejected" /\ Late(t)
  BY <1>2, <1>3 DEF BusyRecord, ShownOf, Lags, Scheduled
<1> HIDE DEF Late
<1>14. Promise!Begin(t)
  BY <1>12, <1>13 DEF Promise!Begin, Promise!Open
<1> QED BY <1>10, <1>14 DEF Promised, Promise!Next

\* A checkpoint is saved with the record of a run that closes.
LEMMA SaveCloses ==
  ASSUME PInv, NEW t \in Tasks, NEW s \in {"failed", "cancelled"},
         SaveCheckpoint(t, Close(t, s))
  PROVE  \E r : /\ task' = [task EXCEPT ![t] = r] /\ r.plan = task[t].plan
               /\ r.status \in {"completed", "failed", "cancelled"}
<1> DEFINE c == Close(t, s)
<1>1. c \in Record /\ c.plan = task[t].plan /\ c.status = s
  BY TypedAt DEF PInv, IInv, Close, Record, Status, Ended
<1>2. SaveCheckpoint(t, c) /\ IInv
  BY DEF PInv
<1> HIDE DEF c
<1>3. \E r \in Record : /\ task' = [task EXCEPT ![t] = r]
                        /\ r.plan = task[t].plan /\ r.status = c.status
  BY <1>1, <1>2, SaveRewrites, Zenon
<1> QED BY <1>1, <1>3

\* A run that is not rejected closes, in one of the ways to write it.
LEMMA ClosesSeen ==
  ASSUME PInv, NEW t \in Tasks, NEW i \in Slots, run[t][i].pc \notin {"idle", "draftq", "draft"},
         ~run[t][i].killed, End(t, i),
         \/ SaveCheckpoint(t, Close(t, "failed")) \/ SaveCheckpoint(t, Close(t, "cancelled"))
         \/ \E s \in {"completed", "failed", "cancelled"}, b \in BOOLEAN :
              \/ task' = [task EXCEPT ![t].status = s, ![t].resumable = b]
              \/ task' = [task EXCEPT ![t].status = s] /\ b = task[t].resumable
  PROVE  Promised /\ \A u \in Tasks : Shown(u)'
<1>1. ASSUME NEW s \in {"completed", "failed", "cancelled"}, NEW b \in BOOLEAN,
             \/ task' = [task EXCEPT ![t].status = s, ![t].resumable = b]
             \/ task' = [task EXCEPT ![t].status = s] /\ b = task[t].resumable
      PROVE  Promised /\ \A u \in Tasks : Shown(u)'
  <2>1. s \in Status
    BY DEF Status, Ended
  <2>2. \E r : /\ task' = [task EXCEPT ![t] = r] /\ r.plan = task[t].plan
              /\ r.status = s /\ r.resumable = b /\ r.path = task[t].path
    BY <1>1, <2>1, Fields
  <2> QED BY <2>2, CloseSeen
<1>2. CASE SaveCheckpoint(t, Close(t, "failed")) \/ SaveCheckpoint(t, Close(t, "cancelled"))
  <2>1. \E r : /\ task' = [task EXCEPT ![t] = r] /\ r.plan = task[t].plan
              /\ r.status \in {"completed", "failed", "cancelled"}
    BY <1>2, SaveCloses
  <2> QED BY <2>1, CloseSeen
<1> QED BY <1>1, <1>2

\* The three paths end with the result, or leave what a cancel is to close.
LEMMA FinishSeen ==
  ASSUME PInv, NEW t \in Tasks, NEW i \in Slots, run[t][i].pc \notin {"idle", "draftq", "draft"},
         ~run[t][i].killed, Finish(t, i)
  PROVE  Promised /\ \A u \in Tasks : Shown(u)'
<1>1. End(t, i)
  BY DEF Finish
<1>2. CASE Completes(t)
  <2> DEFINE b == IF Resumed(t, i) THEN FALSE ELSE task[t].resumable
  <2>1. task' = [task EXCEPT ![t].status = "completed", ![t].resumable = b]
    BY <1>2 DEF Finish
  <2>2. b \in BOOLEAN
    BY TypedAt DEF PInv, IInv, Record
  <2> HIDE DEF b
  <2> QED BY <1>1, <2>1, <2>2, ClosesSeen
<1>3. CASE ~Completes(t)
  BY <1>1, <1>3, DropSeen DEF Finish
<1> QED BY <1>2, <1>3

\* The seats are at work: the record shows a run under a locked plan.
LEMMA SeatsBegin ==
  ASSUME PInv, NEW t \in Tasks, NEW i \in Slots, run[t][i].pc # "idle", ~run[t][i].killed,
         EnterExecute(t, i), NEW r, task' = [task EXCEPT ![t] = r],
         r.status = "running", r.plan = task[t].plan, r.path = task[t].path, r.path # ""
  PROVE  /\ Promise!Becomes(t, "running", task[t].plan, TRUE, FALSE)
         /\ \A u \in Tasks : Shown(u)'
<1>1. Only(t, i) /\ run[t][i] \in Coroutine /\ BusyRecord(task[t], ckpt[t], run[t][i])
  BY Found
<1> DEFINE c == [run[t][i] EXCEPT !.pc = "exec"]
<1>2. run' = [run EXCEPT ![t][i] = c] /\ c.pc = "exec" /\ ~c.killed
  BY <1>1 DEF EnterExecute, Coroutine
<1> HIDE DEF c
<1>3. ShownOf(r, c)
  BY <1>1, <1>2 DEF ShownOf, BusyRecord
<1>4. /\ OthersStay(t) /\ task'[t] = r /\ (Working(t)' <=> Works(c))
      /\ (Late(t)' <=> Lags(r, c)) /\ \A u \in Tasks : Shown(u)'
  BY <1>1, <1>2, <1>3, MoveSeen
<1>5. Works(c) /\ ~Lags(r, c)
  BY <1>2 DEF Works, Lags, Away, Executing
<1> QED BY <1>4, <1>5, Becoming

\* The gate lets the seats begin or the run fails.
LEMMA CtxDoneSeen ==
  ASSUME PInv, NEW t \in Tasks, NEW i \in Slots, CtxDone(t, i)
  PROVE  Promised /\ \A u \in Tasks : Shown(u)'
<1>1. run[t][i].pc = "ctx" /\ ~run[t][i].killed
  BY DEF CtxDone, At
<1>2. /\ BusyRecord(task[t], ckpt[t], run[t][i]) /\ ShownOf(task[t], run[t][i])
      /\ (Late(t) <=> Lags(task[t], run[t][i]))
  BY <1>1, Found
<1>3. CASE ApprovalGate(t)
  <2>1. EnterExecute(t, i) /\ task' = [task EXCEPT ![t] = task[t]]
    BY <1>3, Unchanged DEF CtxDone, PInv, IInv
  <2>2. /\ task[t].status = "running" /\ task[t].plan = "locked" /\ task[t].path # ""
        /\ ~Late(t)
    BY <1>1, <1>2, <1>3
       DEF ApprovalGate, BusyRecord, ShownOf, Lags, Away, Executing, Reflecting
  <2>3. /\ Promise!Becomes(t, "running", "locked", TRUE, FALSE)
        /\ \A u \in Tasks : Shown(u)'
    BY <1>1, <2>1, <2>2, SeatsBegin
  <2> QED BY <2>2, <2>3 DEF Promised, Promise!Next, Promise!Work
<1>4. CASE ~ApprovalGate(t)
  <2>1. SaveCheckpoint(t, Close(t, "failed")) /\ End(t, i)
    BY <1>4 DEF CtxDone
  <2> QED BY <1>1, <2>1, ClosesSeen
<1> QED BY <1>3, <1>4

\* A resumed run begins at work, or fails at the gate.
LEMMA ResumeStartSeen ==
  ASSUME PInv, NEW t \in Tasks, NEW i \in Slots, ResumeStart(t, i)
  PROVE  Promised /\ \A u \in Tasks : Shown(u)'
<1>1. run[t][i].pc = "resumeq" /\ ~run[t][i].killed
  BY DEF ResumeStart, At
<1>2. /\ BusyRecord(task[t], ckpt[t], run[t][i]) /\ ShownOf(task[t], run[t][i])
      /\ (Late(t) <=> Lags(task[t], run[t][i])) /\ run[t][i] \in Coroutine
      /\ task[t] \in Record
  BY <1>1, Found
<1>3. CASE ApprovalGate(t)
  <2>1. EnterExecute(t, i) /\ task' = [task EXCEPT ![t].status = "running"]
    BY <1>3 DEF ResumeStart
  <2> DEFINE r == [task[t] EXCEPT !.status = "running"]
  <2>2. task' = [task EXCEPT ![t] = r]
    BY <2>1
  <2>3. r.status = "running" /\ r.plan = task[t].plan /\ r.path = task[t].path
    BY <1>2 DEF Record
  <2> HIDE DEF r
  <2>4. task[t].path # "" /\ task[t].plan = "locked"
    BY <1>1, <1>2, <1>3 DEF ShownOf, ApprovalGate
  <2>5. /\ Promise!Becomes(t, "running", "locked", TRUE, FALSE)
        /\ \A u \in Tasks : Shown(u)'
    BY <1>1, <2>1, <2>2, <2>3, <2>4, SeatsBegin
  <2>6. \/ task[t].status = "pending"
        \/ task[t].status = "rejected" /\ Late(t)
    BY <1>1, <1>2 DEF BusyRecord, ShownOf, Lags, Away, Scheduled, Executing
  <2> HIDE DEF Late
  <2>7. Promise!Begin(t)
    BY <2>4, <2>5, <2>6 DEF Promise!Begin, Promise!Open
  <2> QED BY <2>5, <2>7 DEF Promised, Promise!Next
<1>4. CASE ~ApprovalGate(t)
  <2>1. /\ task' = [task EXCEPT ![t].status = "failed", ![t].resumable = ckpt[t]]
        /\ End(t, i)
    BY <1>4 DEF ResumeStart
  <2>2. ckpt[t] \in BOOLEAN
    BY TypedAt DEF PInv, IInv
  <2> QED BY <1>1, <2>1, <2>2, ClosesSeen
<1> QED BY <1>3, <1>4

\* execute() returns an error result or raises.
LEMMA ExecFailsSeen ==
  ASSUME PInv, NEW t \in Tasks, NEW i \in Slots, ExecRefuses(t, i) \/ ExecRaises(t, i)
  PROVE  Promised /\ \A u \in Tasks : Shown(u)'
<1>1. /\ run[t][i].pc \notin {"idle", "draftq", "draft"} /\ ~run[t][i].killed /\ End(t, i)
  BY DEF ExecRefuses, ExecRaises, At, Executing
<1>2. ckpt[t] \in BOOLEAN /\ task[t].resumable \in BOOLEAN
  BY TypedAt DEF PInv, IInv, Record
<1>3. \/ SaveCheckpoint(t, Close(t, "failed")) \/ SaveCheckpoint(t, Close(t, "cancelled"))
      \/ \E b \in BOOLEAN : task' = [task EXCEPT ![t].status = "failed", ![t].resumable = b]
  <2>1. CASE ExecRefuses(t, i)
    <3> DEFINE b == IF Resumed(t, i) THEN ckpt[t] ELSE task[t].resumable
    <3>1. b \in BOOLEAN
      BY <1>2
    <3>2. \/ SaveCheckpoint(t, Close(t, "cancelled"))
          \/ task' = [task EXCEPT ![t].status = "failed", ![t].resumable = b]
      BY <2>1 DEF ExecRefuses
    <3> HIDE DEF b
    <3> QED BY <3>1, <3>2
  <2>2. CASE ExecRaises(t, i)
    BY <1>2, <2>2 DEF ExecRaises
  <2> QED BY <2>1, <2>2
<1> QED BY <1>1, <1>3, ClosesSeen

\* The seats are done; the result is still to be judged.
LEMMA RestSeen ==
  ASSUME PInv, NEW t \in Tasks, NEW i \in Slots, ExecSucceedsReflect(t, i)
  PROVE  Promised /\ \A u \in Tasks : Shown(u)'
<1>1. /\ run[t][i].pc = "review" /\ ~run[t][i].killed
      /\ task' = [task EXCEPT ![t] = task[t]] /\ UNCHANGED task
  BY Unchanged DEF ExecSucceedsReflect, At, PInv, IInv
<1>2. /\ Only(t, i) /\ BusyRecord(task[t], ckpt[t], run[t][i]) /\ ShownOf(task[t], run[t][i])
      /\ run[t][i] \in Coroutine /\ (Working(t) <=> Works(run[t][i]))
  BY <1>1, Found
<1>3. PICK p \in {"final", "eval"} : Goto(t, i, p)
  BY DEF ExecSucceedsReflect
<1> DEFINE c == [run[t][i] EXCEPT !.pc = p]
<1>4. run' = [run EXCEPT ![t][i] = c] /\ c.pc = p /\ c.killed = run[t][i].killed
  BY <1>2, <1>3 DEF Goto, Coroutine
<1> HIDE DEF c
<1>5. ShownOf(task[t], c)
  BY <1>1, <1>2, <1>3, <1>4 DEF ShownOf
<1>6. /\ OthersStay(t) /\ (Working(t)' <=> Works(c)) /\ \A u \in Tasks : Shown(u)'
  BY <1>1, <1>2, <1>4, <1>5, MoveSeen
<1>7. ~Works(c) /\ Working(t)
  BY <1>1, <1>2, <1>3, <1>4 DEF Works, Executing
<1>8. PICK l \in BOOLEAN : Late(t)' <=> l
  BY DEF Late
<1>9. Promise!Becomes(t, task[t].status, task[t].plan, FALSE, l)
  BY <1>1, <1>6, <1>7, <1>8, Becoming
<1> QED BY <1>6, <1>7, <1>9 DEF Promised, Promise!Next, Promise!Rest

\* A run starts or goes on; what can end it closes the task.
LEMMA EnterSeen ==
  ASSUME PInv, NEW t \in Tasks, NEW i \in Slots, Enter(t, i)
  PROVE  Promised /\ \A u \in Tasks : Shown(u)'
<1>1. CASE McpStart(t, i)
  BY <1>1, GotoSeen DEF McpStart, At
<1>2. CASE DraftStart(t, i)
  <2>1. run[t][i].pc = "draftq" /\ UNCHANGED task /\ (End(t, i) \/ Goto(t, i, "draft"))
    BY <1>2 DEF DraftStart, At
  <2> QED BY <2>1, DropSeen, GotoSeen
<1>3. CASE RunStart(t, i)
  BY <1>3, RunStartSeen
<1>4. CASE ResumeStart(t, i)
  BY <1>4, ResumeStartSeen
<1> QED BY <1>1, <1>2, <1>3, <1>4 DEF Enter

\* A call returns or raises.
LEMMA AdvanceSeen ==
  ASSUME PInv, NEW t \in Tasks, NEW i \in Slots, Advance(t, i)
  PROVE  Promised /\ \A u \in Tasks : Shown(u)'
<1>1. CASE DraftDone(t, i) \/ DraftRaises(t, i)
  BY <1>1, AskSeen
<1>2. CASE DraftApproves(t, i)
  BY <1>2, DraftApprovesSeen
<1>3. CASE CtxDone(t, i)
  BY <1>3, CtxDoneSeen
<1>4. CASE WorkDone(t, i)
  <2>1. /\ run[t][i].pc \in Executing /\ "review" \in Executing
        /\ UNCHANGED task /\ Goto(t, i, "review")
    BY <1>4 DEF WorkDone, At, Executing
  <2> QED BY <2>1, GotoSeen
<1>5. CASE ExecRefuses(t, i) \/ ExecRaises(t, i)
  BY <1>5, ExecFailsSeen
<1>6. CASE ExecSucceedsOff(t, i) \/ FinalizeDone(t, i)
  BY <1>6, FinishSeen DEF ExecSucceedsOff, FinalizeDone, At
<1>7. CASE ExecSucceedsReflect(t, i)
  BY <1>7, RestSeen
<1>8. CASE StopAtCheck(t, i)
  <2>1. /\ run[t][i].pc \notin {"idle", "draftq", "draft"} /\ ~run[t][i].killed /\ End(t, i)
        /\ task' = [task EXCEPT ![t].status = "cancelled"]
    BY <1>8 DEF StopAtCheck, At
  <2>2. task[t].resumable \in BOOLEAN
    BY TypedAt DEF PInv, IInv, Record
  <2> QED BY <2>1, <2>2, ClosesSeen
<1>9. CASE GenerateDone(t, i) \/ EvaluateDone(t, i) \/ ImproveDone(t, i)
  <2>1. PICK c \in Coroutine :
          /\ c.pc \in Reflecting
          /\ c.resumed = run[t][i].resumed /\ c.killed = run[t][i].killed
          /\ run' = [run EXCEPT ![t][i] = c]
    BY <1>9, ReflectMoves DEF PInv, IInv, Reflecting
  <2>2. run[t][i].pc \in {"gen"} \cup Reflecting /\ UNCHANGED task
    BY <1>9 DEF GenerateDone, EvaluateDone, ImproveDone, At, Reflecting
  <2> QED BY <2>1, <2>2, GoOnSeen
<1>10. CASE StepRaises(t, i)
  <2>1. run[t][i].pc \notin {"idle", "draftq", "draft"} /\ ~run[t][i].killed
    BY <1>10 DEF StepRaises, At, Reflecting
  <2>2. CASE Finish(t, i)
    BY <2>1, <2>2, FinishSeen
  <2>3. CASE ~Finish(t, i)
    <3>1. task' = [task EXCEPT ![t].status = "failed"] /\ End(t, i)
      BY <1>10, <2>3 DEF StepRaises
    <3>2. task[t].resumable \in BOOLEAN
      BY TypedAt DEF PInv, IInv, Record
    <3> QED BY <2>1, <3>1, <3>2, ClosesSeen
  <2> QED BY <2>2, <2>3
<1> QED BY <1>1, <1>2, <1>3, <1>4, <1>5, <1>6, <1>7, <1>8, <1>9, <1>10 DEF Advance

-----------------------------------------------------------------------------
(* CancelledError and restart *)

\* An interrupted run closes the task or leaves it, as it finds it.
LEMMA AbortSeen ==
  ASSUME PInv, NEW t \in Tasks, NEW i \in Slots, run[t][i].pc \notin {"idle", "draftq", "draft"},
         NEW r, task' = [task EXCEPT ![t] = r], End(t, i), r.plan = task[t].plan,
         IF Closable(t) THEN r.status = "cancelled" ELSE r.status = task[t].status
  PROVE  Promised /\ \A u \in Tasks : Shown(u)'
<1>1. CASE Closable(t)
  BY <1>1, CloseSeen
<1>2. CASE ~Closable(t)
  BY <1>2, LeaveSeen, Found DEF ShownOf
<1> QED BY <1>1, <1>2

\* A CancelledError arrives.
LEMMA InterruptSeen ==
  ASSUME PInv, NEW t \in Tasks, NEW i \in Slots, Interrupt(t, i)
  PROVE  Promised /\ \A u \in Tasks : Shown(u)'
<1>1. run[t][i].pc # "idle" /\ End(t, i)
  BY DEF Interrupt, Live
<1>2. task[t] \in Record /\ IInv
  BY TypedAt DEF PInv, IInv
<1>3. CASE UNCHANGED task
  BY <1>1, <1>3, DropSeen
<1>4. CASE AbortFresh(t, i)
  <2> DEFINE closed == [Close(t, "cancelled") EXCEPT !.resumable = task[t].path = "company"]
             q == IF Closable(t) THEN closed ELSE task[t]
  <2>1. closed \in Record /\ closed.plan = task[t].plan /\ closed.status = "cancelled"
    BY <1>2 DEF Close, Record, Status, Ended
  <2>2. /\ q \in Record /\ q.plan = task[t].plan
        /\ IF Closable(t) THEN q.status = "cancelled" ELSE q.status = task[t].status
    BY <1>2, <2>1
  <2>3. run[t][i].pc \notin {"idle", "draftq", "draft"}
    BY <1>4 DEF AbortFresh, Executing, Reflecting
  <2>4. CASE InExecute(t, i)
    <3>1. SaveCheckpoint(t, q)
      BY <1>4, <2>4 DEF AbortFresh
    <3> HIDE DEF q
    <3>2. \E r \in Record : /\ task' = [task EXCEPT ![t] = r]
                            /\ r.plan = task[t].plan /\ r.status = q.status
      BY <1>2, <2>2, <3>1, SaveRewrites, Zenon
    <3> QED BY <1>1, <2>2, <2>3, <3>2, AbortSeen
  <2>5. CASE ~InExecute(t, i)
    <3>1. task' = [task EXCEPT ![t] = q]
      BY <1>2, <1>4, <2>5, Unchanged DEF AbortFresh, IInv
    <3> HIDE DEF q
    <3> QED BY <1>1, <2>2, <2>3, <3>1, AbortSeen
  <2> QED BY <2>4, <2>5
<1>5. CASE AbortResumed(t, i)
  <2> DEFINE closed == [task[t] EXCEPT !.status = "cancelled", !.resumable = TRUE]
             q == IF Closable(t) THEN closed ELSE task[t]
  <2>1. closed.plan = task[t].plan /\ closed.status = "cancelled"
    BY <1>2 DEF Record
  <2>2. /\ q.plan = task[t].plan
        /\ IF Closable(t) THEN q.status = "cancelled" ELSE q.status = task[t].status
    BY <2>1
  <2>3. run[t][i].pc \notin {"idle", "draftq", "draft"}
    BY <1>5 DEF AbortResumed, InExecute, Executing
  <2>4. task' = [task EXCEPT ![t] = q]
    BY <1>2, <1>5, Unchanged DEF AbortResumed, IInv
  <2> HIDE DEF q
  <2> QED BY <1>1, <2>2, <2>3, <2>4, AbortSeen
<1> QED BY <1>3, <1>4, <1>5 DEF Interrupt, DropUnentered, AbandonDraft

\* What was pending or running is shown as interrupted.
LEMMA RestartSeen ==
  ASSUME PInv, Restart
  PROVE  Promised /\ \A u \in Tasks : Shown(u)'
<1>1. ASSUME NEW t \in Tasks
      PROVE  /\ ~Working(t)' /\ ~Late(t)' /\ Shown(t)'
             /\ task'[t].plan = task[t].plan
             /\ task'[t].status = IF task[t].status \in {"pending", "running"}
                                    THEN "interrupted" ELSE task[t].status
  <2>1. /\ task[t] \in Record /\ task'[t] = Rehydrated(t) /\ ckpt[t] \in BOOLEAN
        /\ \A i \in Slots : run'[t][i] = Idle
        /\ Shown(t)
    BY TypedAt DEF Restart, PInv, IInv
  <2>2. /\ task'[t].plan = task[t].plan /\ task'[t].path = task[t].path
        /\ task'[t].status = IF task[t].status \in {"pending", "running"}
                               THEN "interrupted" ELSE task[t].status
        /\ task[t].status \notin {"pending", "running"}
             => task'[t].resumable = task[t].resumable
    BY <2>1 DEF Rehydrated, Record
  <2>3. ~Working(t)' /\ ~Late(t)'
    BY <2>1, IdleTyped DEF Working, Late, At, Live, Executing
  <2>4. ShownOf(task'[t], Idle)
    BY <2>1, <2>2, IdleTyped DEF Shown, ShownOf
  <2> QED BY <2>1, <2>2, <2>3, <2>4 DEF Shown
<1>2. Promise!Restart
  <2>1. \A t \in Tasks : Working(t)' = FALSE /\ Late(t)' = FALSE
    BY <1>1 DEF Working, Late
  <2> QED BY <1>1, <2>1 DEF Promise!Restart
<1> QED BY <1>1, <1>2 DEF Promised, Promise!Next

-----------------------------------------------------------------------------
(* The refinement *)

\* At first nobody has submitted anything.
LEMMA InitSeen == Init => PInv /\ Promise!Init
<1> SUFFICES ASSUME Init  PROVE  PInv /\ Promise!Init
  OBVIOUS
<1>1. IInv
  BY InitInv
<1>2. ASSUME NEW t \in Tasks  PROVE  Shown(t)
  BY IdleTyped DEF Init, Shown, ShownOf, NewRecord
<1>3. ASSUME NEW t \in Tasks
      PROVE  /\ Working(t) = FALSE /\ Late(t) = FALSE
             /\ task[t].status = "none" /\ task[t].plan = "none"
  BY IdleTyped DEF Init, Working, Late, At, Live, Executing, NewRecord
<1> QED BY <1>1, <1>2, <1>3 DEF PInv, Promise!Init

\* Every step is one of the promise, and keeps what the mapping needs.
LEMMA NextSeen == PInv /\ [Next]_vars => PInv' /\ [Promise!Next]_(Promise!vars)
<1> SUFFICES ASSUME PInv, [Next]_vars  PROVE  PInv' /\ Promised
  BY DEF Promised
<1>1. IInv'
  BY NextInv DEF PInv
<1>2. ASSUME NEW t \in Tasks, Handler(t)
      PROVE  Promised /\ \A u \in Tasks : Shown(u)'
  BY <1>2, PostSeen, GetSeen, DeadlineSeen, ApproveSeen, ApproveUnpaidSeen, RejectSeen,
     CancelSeen, ResumeSeen DEF Handler
<1>3. ASSUME NEW t \in Tasks, NEW i \in Slots, Enter(t, i) \/ Advance(t, i) \/ Interrupt(t, i)
      PROVE  Promised /\ \A u \in Tasks : Shown(u)'
  BY <1>3, EnterSeen, AdvanceSeen, InterruptSeen
<1>4. ASSUME UNCHANGED vars
      PROVE  Promised /\ \A u \in Tasks : Shown(u)'
  <2>1. Promised
    BY <1>4 DEF vars, Promised, Promise!vars, Working, Late, At, Live, Unreachable, Resumed,
                InExecute
  <2>2. \A u \in Tasks : Shown(u)'
    BY <1>4 DEF vars, PInv, Shown
  <2> QED BY <2>1, <2>2
<1>5. Promised /\ \A u \in Tasks : Shown(u)'
  BY <1>2, <1>3, <1>4, ForceCancelSeen, RestartSeen DEF Next
<1> QED BY <1>1, <1>5 DEF PInv

\* The task manager keeps its promise, for every number of tasks and
\* coroutines, in every setting: each step of a handler, coroutine, timer or
\* restart (task_manager.py) is a step of TaskPromise or changes nothing the
\* user sees.
THEOREM TaskKeepsPromise == Spec => KeepsPromise
<1>1. Spec => []PInv
  BY InitSeen, NextSeen, PTL DEF Spec
<1> QED BY <1>1, InitSeen, NextSeen, PTL DEF Spec, KeepsPromise, Promise!Spec
=============================================================================
