------------------------ MODULE TaskLifecycleProofs ------------------------
(***************************************************************************)
(* Safety of TaskLifecycle for every set of tasks, every set of coroutine  *)
(* identities, every choice of reflection modes and either setting of      *)
(* auto-approval.                                                          *)
(*                                                                         *)
(* The inductive invariant says that a task is in one of two modes: idle,  *)
(* with no coroutine, or busy with exactly one, whose place in the code    *)
(* determines what the record, the checkpoint and the two registries may   *)
(* hold.  A step either leaves the coroutines alone, schedules one, moves  *)
(* one or ends one; there is a lemma for each of these shapes, and one     *)
(* lemma per action that applies it.                                       *)
(***************************************************************************)
EXTENDS TaskLifecycle, TLAPS

\* What the record r and the checkpoint k of a task without coroutines hold.
IdleRecord(r, k) ==
  /\ r.status = "running" => r.cancelReq
  /\ r.plan \in {"pending_user", "expired"} => ~k /\ ~r.resumable
  /\ r.plan = "expired" <=> r.status = "expired"
  /\ r.status = "none" => r.plan = "none" /\ ~k /\ ~r.resumable

\* Unreachable, of the coroutine itself.
Away(c) == c.pc = "startq" \/ (c.resumed /\ c.pc \notin Executing)

\* What they hold beside the only coroutine c of the task.
BusyRecord(r, k, c) ==
  /\ r.status \in {"awaiting_confirmation", "pending", "running", "rejected"}
  /\ r.plan \notin {"pending_user", "expired"}
  /\ ~r.resumable
  /\ r.status = "rejected" /\ r.path # "" /\ ~Away(c) => c.killed
  /\ c.pc = "startq" => r.path = ""
  /\ c.pc \in {"draftq", "draft"} => r.plan = "none" /\ ~k
  /\ c.pc \in Scheduled \cup {"draft"} => r.status # "running"
  /\ c.pc \in Executing /\ ~c.killed => r.plan = "locked"
  /\ c.resumed => k /\ c.pc \in {"resumeq"} \cup Executing \cup Reflecting

IdleTask(t) ==
  /\ \A i \in Slots : run[t][i].pc = "idle"
  /\ orch[t] = NoSlot
  /\ IdleRecord(task[t], ckpt[t])

BusyTask(t, i) ==
  /\ run[t][i].pc # "idle"
  /\ \A j \in Slots : j # i => run[t][j].pc = "idle"
  /\ orch[t] = IF run[t][i].pc \in Executing THEN i ELSE NoSlot
  /\ Unreachable(t, i) \/ handle[t] = i
  /\ BusyRecord(task[t], ckpt[t], run[t][i])

TaskInv(t) == IdleTask(t) \/ \E i \in Slots : BusyTask(t, i)

IInv == TypeOK /\ \A t \in Tasks : TaskInv(t)

-----------------------------------------------------------------------------
(* Typing *)

\* A new record, and a new coroutine at any of its places, are typed.
LEMMA NewRecordTyped ==
  ASSUME NEW s \in Status, NEW p \in {"", "simple", "company"}
  PROVE  NewRecord(s, p) \in Record
BY DEF NewRecord, Record, Plan

\* A new coroutine is typed.
LEMMA NewCoroutineTyped ==
  ASSUME NEW p \in Pc
  PROVE  NewCoroutine(p) \in Coroutine
BY DEF NewCoroutine, Coroutine

\* An absent coroutine is typed and idle.
LEMMA IdleTyped == Idle \in Coroutine /\ Idle.pc = "idle"
BY NewCoroutineTyped DEF Idle, Pc, NewCoroutine

\* The state of one task is typed.
LEMMA TypedAt ==
  ASSUME TypeOK, NEW t \in Tasks
  PROVE  /\ task[t] \in Record /\ ckpt[t] \in BOOLEAN
         /\ run[t] \in [Slots -> Coroutine]
         /\ \A i \in Slots : run[t][i] \in Coroutine
         /\ handle[t] \in Slots \cup {NoSlot} /\ orch[t] \in Slots \cup {NoSlot}
BY DEF TypeOK

\* Writing back what is there changes nothing.
LEMMA Unchanged ==
  ASSUME TypeOK, NEW t \in Tasks
  PROVE  /\ task = [task EXCEPT ![t] = task[t]]
         /\ ckpt = [ckpt EXCEPT ![t] = ckpt[t]]
         /\ run = [run EXCEPT ![t] = run[t]]
         /\ handle = [handle EXCEPT ![t] = handle[t]]
         /\ orch = [orch EXCEPT ![t] = orch[t]]
BY DEF TypeOK

-----------------------------------------------------------------------------
(* The shapes of a step *)

\* A step that touches one task preserves the invariant of the others.
LEMMA LocalStep ==
  ASSUME IInv, NEW t \in Tasks, TypeOK', TaskInv(t)',
         \A u \in Tasks \ {t} :
           /\ task'[u] = task[u] /\ ckpt'[u] = ckpt[u] /\ run'[u] = run[u]
           /\ handle'[u] = handle[u] /\ orch'[u] = orch[u]
  PROVE  IInv'
<1>1. ASSUME NEW u \in Tasks \ {t}  PROVE  TaskInv(u)'
  <2>1. TaskInv(u)
    BY DEF IInv
  <2>. QED  BY <2>1 DEF TaskInv, IdleTask, BusyTask, Unreachable,
                        InExecute, Resumed
<1>. QED  BY <1>1 DEF IInv

\* What a step writes about one task, if typed, only has to keep that task in
\* one of the two modes.
LEMMA Change ==
  ASSUME IInv, NEW t \in Tasks, NEW r \in Record, NEW k \in BOOLEAN,
         NEW f \in [Slots -> Coroutine],
         NEW h \in Slots \cup {NoSlot}, NEW o \in Slots \cup {NoSlot},
         task' = [task EXCEPT ![t] = r], ckpt' = [ckpt EXCEPT ![t] = k],
         run' = [run EXCEPT ![t] = f], handle' = [handle EXCEPT ![t] = h],
         orch' = [orch EXCEPT ![t] = o], timers' \in [Tasks -> 0..MaxTimers],
         TaskInv(t)'
  PROVE  IInv'
<1>1. TypeOK'
  BY DEF IInv, TypeOK
<1>2. \A u \in Tasks \ {t} :
        /\ task'[u] = task[u] /\ ckpt'[u] = ckpt[u] /\ run'[u] = run[u]
        /\ handle'[u] = handle[u] /\ orch'[u] = orch[u]
  BY DEF IInv, TypeOK
<1>. QED  BY <1>1, <1>2, LocalStep

\* A step that rewrites the record of an idle task.
LEMMA RecordStep ==
  ASSUME IInv, NEW t \in Tasks, NEW r \in Record,
         task' = [task EXCEPT ![t] = r],
         UNCHANGED <<ckpt, run, handle, orch>>, timers' \in [Tasks -> 0..MaxTimers],
         IdleTask(t), IdleRecord(r, ckpt[t])
  PROVE  IInv'
<1>1. TypeOK
  BY DEF IInv
<1>2. TypeOK'
  BY <1>1 DEF TypeOK
<1>3. IdleTask(t)'
  BY <1>1 DEF TypeOK, IdleTask
<1>4. TaskInv(t)'
  BY <1>3 DEF TaskInv
<1>5. \A u \in Tasks \ {t} : task'[u] = task[u]
  BY <1>1 DEF TypeOK
<1>. QED  BY <1>2, <1>4, <1>5, LocalStep

\* A step that sends a signal to coroutines: it sets their flags and rewrites
\* the record of the busy task.
LEMMA SignalStep ==
  ASSUME IInv, NEW t \in Tasks, NEW i \in Slots, BusyTask(t, i),
         NEW r \in Record, NEW c \in Coroutine,
         c.pc = run[t][i].pc, c.resumed = run[t][i].resumed,
         BusyRecord(r, ckpt[t], c),
         task' = [task EXCEPT ![t] = r],
         run' = [run EXCEPT ![t] = [run[t] EXCEPT ![i] = c]],
         UNCHANGED <<ckpt, handle, orch>>, timers' \in [Tasks -> 0..MaxTimers]
  PROVE  IInv'
<1>1. TypeOK
  BY DEF IInv
<1>2. /\ task'[t] = r /\ run'[t][i] = c
      /\ \A j \in Slots : j # i => run'[t][j] = run[t][j]
  BY <1>1 DEF TypeOK
<1>3. BusyTask(t, i)'
  BY <1>2 DEF BusyTask, Unreachable, Resumed, InExecute
<1>4. /\ ckpt' = [ckpt EXCEPT ![t] = ckpt[t]]
      /\ handle' = [handle EXCEPT ![t] = handle[t]]
      /\ orch' = [orch EXCEPT ![t] = orch[t]]
  BY <1>1, Unchanged
<1>5. [run[t] EXCEPT ![i] = c] \in [Slots -> Coroutine]
  BY <1>1 DEF TypeOK
<1>6. TaskInv(t)'
  BY <1>3 DEF TaskInv
<1>7. /\ ckpt[t] \in BOOLEAN
      /\ handle[t] \in Slots \cup {NoSlot} /\ orch[t] \in Slots \cup {NoSlot}
  BY <1>1, TypedAt
<1>. QED  BY <1>4, <1>5, <1>6, <1>7, Change

\* A step that gives an idle task a coroutine.
LEMMA ScheduleStep ==
  ASSUME IInv, NEW t \in Tasks, NEW i \in Slots, NEW r \in Record, NEW p \in Scheduled,
         Schedule(t, i, r, p), IdleTask(t),
         NEW h \in Slots \cup {NoSlot}, handle' = [handle EXCEPT ![t] = h],
         h = i \/ p \in {"startq", "resumeq"},
         BusyRecord(r, ckpt[t], NewCoroutine(p))
  PROVE  IInv'
<1>. DEFINE c == NewCoroutine(p)
<1>1. TypeOK
  BY DEF IInv
<1>2. c \in Coroutine /\ c.pc = p /\ (p = "resumeq" => c.resumed)
  BY NewCoroutineTyped DEF NewCoroutine, Pc
<1>3. p # "idle" /\ p \notin Executing
  BY DEF Scheduled, Executing
<1>. HIDE DEF c
<1>4. /\ task' = [task EXCEPT ![t] = r]
      /\ run' = [run EXCEPT ![t] = [run[t] EXCEPT ![i] = c]]
      /\ UNCHANGED <<ckpt, orch, timers>>
  BY DEF Schedule, c
<1>5. /\ task'[t] = r /\ run'[t][i] = c /\ handle'[t] = h
      /\ \A j \in Slots : j # i => run'[t][j] = run[t][j]
  BY <1>1, <1>4 DEF TypeOK
<1>6. BusyRecord(r, ckpt[t], c)
  BY DEF c
<1>7. BusyTask(t, i)'
  BY <1>2, <1>3, <1>4, <1>5, <1>6
     DEF BusyTask, IdleTask, Unreachable, Resumed, InExecute
<1>8. /\ ckpt' = [ckpt EXCEPT ![t] = ckpt[t]]
      /\ orch' = [orch EXCEPT ![t] = orch[t]]
  BY <1>1, <1>4, Unchanged
<1>9. /\ [run[t] EXCEPT ![i] = c] \in [Slots -> Coroutine]
      /\ timers' \in [Tasks -> 0..MaxTimers]
  BY <1>1, <1>2, <1>4 DEF TypeOK
<1>10. TaskInv(t)'
  BY <1>7 DEF TaskInv
<1>. QED  BY <1>1, <1>4, <1>8, <1>9, <1>10, TypedAt, Change

\* A step that lets the coroutine of a busy task go on as c.
LEMMA GoOnStep ==
  ASSUME IInv, NEW t \in Tasks, NEW i \in Slots, BusyTask(t, i),
         NEW c \in Coroutine, NEW r \in Record,
         NEW h \in Slots \cup {NoSlot}, NEW o \in Slots \cup {NoSlot},
         run' = [run EXCEPT ![t][i] = c], task' = [task EXCEPT ![t] = r],
         handle' = [handle EXCEPT ![t] = h], orch' = [orch EXCEPT ![t] = o],
         UNCHANGED <<ckpt, timers>>,
         c.pc # "idle", c.resumed = Resumed(t, i),
         o = IF c.pc \in Executing THEN i ELSE NoSlot,
         h = i \/ c.pc = "startq" \/ (Resumed(t, i) /\ c.pc \notin Executing),
         BusyRecord(r, ckpt[t], c)
  PROVE  IInv'
<1>1. TypeOK
  BY DEF IInv
<1>3. run' = [run EXCEPT ![t] = [run[t] EXCEPT ![i] = c]]
  OBVIOUS
<1>5. /\ task'[t] = r /\ run'[t][i] = c /\ handle'[t] = h /\ orch'[t] = o
      /\ \A j \in Slots : j # i => run'[t][j] = run[t][j]
  BY <1>1, <1>3 DEF TypeOK
<1>7. ckpt' = [ckpt EXCEPT ![t] = ckpt[t]]
  BY <1>1, Unchanged
<1>6. BusyTask(t, i)'
  BY <1>5 DEF BusyTask, Unreachable, Resumed, InExecute
<1>8. /\ [run[t] EXCEPT ![i] = c] \in [Slots -> Coroutine]
      /\ timers' \in [Tasks -> 0..MaxTimers]
  BY <1>1 DEF TypeOK
<1>9. TaskInv(t)'
  BY <1>6 DEF TaskInv
<1>. QED  BY <1>1, <1>3, <1>7, <1>8, <1>9, TypedAt, Change

\* A step that moves the coroutine of a busy task to another await.
LEMMA MoveStep ==
  ASSUME IInv, NEW t \in Tasks, NEW i \in Slots, BusyTask(t, i),
         NEW p \in Pc \ {"idle"}, NEW r \in Record,
         NEW h \in Slots \cup {NoSlot}, NEW o \in Slots \cup {NoSlot},
         Goto(t, i, p), task' = [task EXCEPT ![t] = r],
         handle' = [handle EXCEPT ![t] = h], orch' = [orch EXCEPT ![t] = o],
         UNCHANGED <<ckpt, timers>>,
         o = IF p \in Executing THEN i ELSE NoSlot,
         h = i \/ p = "startq" \/ (Resumed(t, i) /\ p \notin Executing),
         BusyRecord(r, ckpt[t], [run[t][i] EXCEPT !.pc = p])
  PROVE  IInv'
<1>. DEFINE c == [run[t][i] EXCEPT !.pc = p]
<1>1. TypeOK
  BY DEF IInv
<1>2. c \in Coroutine /\ c.pc = p /\ c.resumed = Resumed(t, i)
  BY <1>1, TypedAt DEF Coroutine, Resumed
<1>3. run' = [run EXCEPT ![t][i] = c]
  BY DEF Goto
<1>4. BusyRecord(r, ckpt[t], c)
  OBVIOUS
<1>. HIDE DEF c
<1>. QED  BY <1>2, <1>3, <1>4, GoOnStep

\* A step that ends the coroutine of a busy task.
LEMMA EndStep ==
  ASSUME IInv, NEW t \in Tasks, NEW i \in Slots, BusyTask(t, i),
         NEW r \in Record, NEW k \in BOOLEAN, NEW h \in Slots \cup {NoSlot},
         End(t, i), task' = [task EXCEPT ![t] = r], ckpt' = [ckpt EXCEPT ![t] = k],
         handle' = [handle EXCEPT ![t] = h],
         orch' = [orch EXCEPT ![t] = NoSlot], UNCHANGED timers,
         IdleRecord(r, k)
  PROVE  IInv'
<1>1. TypeOK
  BY DEF IInv
<1>2. run' = [run EXCEPT ![t] = [run[t] EXCEPT ![i] = Idle]]
  BY DEF End
<1>3. /\ task'[t] = r /\ ckpt'[t] = k /\ run'[t][i] = Idle /\ orch'[t] = NoSlot
      /\ \A j \in Slots : j # i => run'[t][j] = run[t][j]
  BY <1>1, <1>2 DEF TypeOK
<1>4. IdleTask(t)'
  BY <1>3, IdleTyped DEF BusyTask, IdleTask
<1>5. /\ [run[t] EXCEPT ![i] = Idle] \in [Slots -> Coroutine]
      /\ timers' \in [Tasks -> 0..MaxTimers]
  BY <1>1, IdleTyped DEF TypeOK
<1>6. TaskInv(t)'
  BY <1>4 DEF TaskInv
<1>. QED  BY <1>1, <1>2, <1>5, <1>6, TypedAt, Change

-----------------------------------------------------------------------------
(* Modes *)

\* A live coroutine is the one its task is busy with.
LEMMA BusyAt ==
  ASSUME IInv, NEW t \in Tasks, NEW i \in Slots, run[t][i].pc # "idle"
  PROVE  BusyTask(t, i)
BY DEF IInv, TaskInv, IdleTask, BusyTask

\* A task not yet created, one whose plan is open and one that can be
\* resumed have no coroutine.
LEMMA IdleAt ==
  ASSUME IInv, NEW t \in Tasks,
         \/ task[t].status \notin {"awaiting_confirmation", "pending", "running", "rejected"}
         \/ task[t].plan = "pending_user"
         \/ task[t].resumable
  PROVE  IdleTask(t)
BY DEF IInv, TaskInv, BusyTask, BusyRecord

\* get_task leaves a record that is still that of an idle or busy task.
LEMMA SeenAt ==
  ASSUME IInv, NEW t \in Tasks
  PROVE  /\ Seen(t) \in Record
         /\ Seen(t).cancelReq = task[t].cancelReq
         /\ Seen(t).resumable = task[t].resumable
         /\ IdleTask(t) => IdleRecord(Seen(t), ckpt[t])
         /\ \A i \in Slots : BusyTask(t, i) => Seen(t) = task[t]
<1>1. task[t] \in Record
  BY DEF IInv, TypeOK
<1>2. CASE ExpireDue(t)
  <2>1. Seen(t) = [task[t] EXCEPT !.status = "expired", !.plan = "expired"]
    BY <1>2 DEF Seen
  <2>2. /\ Seen(t) \in Record /\ Seen(t).status = "expired" /\ Seen(t).plan = "expired"
        /\ Seen(t).cancelReq = task[t].cancelReq
        /\ Seen(t).resumable = task[t].resumable
    BY <1>1, <2>1 DEF Record, Status, Ended, Plan
  <2>3. IdleTask(t) => IdleRecord(Seen(t), ckpt[t])
    BY <1>2, <2>2 DEF IdleTask, IdleRecord, ExpireDue
  <2>4. \A i \in Slots : ~BusyTask(t, i)
    BY <1>2 DEF ExpireDue, BusyTask, BusyRecord
  <2>. QED  BY <2>2, <2>3, <2>4
<1>3. CASE ~ExpireDue(t)
  BY <1>1, <1>3 DEF Seen, IdleTask
<1>. QED  BY <1>2, <1>3

-----------------------------------------------------------------------------
(* Handlers *)

\* Creation, whichever way it comes, leaves a busy task; unpaid, an idle one.
LEMMA PostStep ==
  ASSUME IInv, NEW t \in Tasks,
         PostSimple(t) \/ PostCompany(t) \/ PostUnpaid(t) \/ McpSubmit(t)
  PROVE  IInv'
<1>1. task[t].status = "none"
  BY DEF PostSimple, PostCompany, PostUnpaid, McpSubmit
<1>2. IdleTask(t) /\ ckpt[t] = FALSE
  BY <1>1, IdleAt, TypedAt DEF IdleTask, IdleRecord, IInv
<1>3. handle[t] \in Slots \cup {NoSlot} /\ handle = [handle EXCEPT ![t] = handle[t]]
  BY TypedAt, Unchanged DEF IInv
<1>4. ASSUME NEW s \in {"pending", "awaiting_confirmation"}, NEW p \in {"", "simple", "company"}
      PROVE  /\ NewRecord(s, p) \in Record
             /\ IdleRecord(NewRecord(s, p), ckpt[t])
             /\ \A q \in {"queued", "startq", "draftq"} : (q = "startq" => p = "") =>
                  BusyRecord(NewRecord(s, p), ckpt[t], NewCoroutine(q))
  <2>1. NewRecord(s, p) \in Record
    BY NewRecordTyped DEF Status, Ended
  <2>2. IdleRecord(NewRecord(s, p), ckpt[t])
    BY <1>2 DEF IdleRecord, NewRecord
  <2>3. ASSUME NEW q \in {"queued", "startq", "draftq"}, q = "startq" => p = ""
        PROVE  BusyRecord(NewRecord(s, p), ckpt[t], NewCoroutine(q))
    BY <1>2, <2>3 DEF BusyRecord, NewRecord, NewCoroutine, Executing, Reflecting
  <2>. QED  BY <2>1, <2>2, <2>3
<1>5. CASE PostSimple(t)
  <2>1. PICK i \in Slots : Start(t, i, NewRecord("pending", "simple"), "queued")
    BY <1>5 DEF PostSimple
  <2>. QED  BY <1>2, <1>4, <2>1, ScheduleStep DEF Start, Scheduled
<1>6. CASE PostCompany(t)
  <2>1. PICK i \in Slots :
          Start(t, i, NewRecord("awaiting_confirmation", "company"), "draftq")
    BY <1>6 DEF PostCompany
  <2>. QED  BY <1>2, <1>4, <2>1, ScheduleStep DEF Start, Scheduled
<1>7. CASE PostUnpaid(t)
  <2>1. PICK p \in {"simple", "company"} :
          task' = [task EXCEPT ![t] = NewRecord("pending", p)]
    BY <1>7 DEF PostUnpaid
  <2>. QED  BY <1>2, <1>4, <1>7, <2>1, RecordStep DEF PostUnpaid, IInv, TypeOK
<1>8. CASE McpSubmit(t)
  <2>1. PICK i \in Slots : Schedule(t, i, NewRecord("pending", ""), "startq")
    BY <1>8 DEF McpSubmit
  <2>2. handle' = [handle EXCEPT ![t] = handle[t]]
    BY <1>3, <1>8 DEF McpSubmit
  <2>. QED  BY <1>2, <1>3, <1>4, <2>1, <2>2, ScheduleStep DEF Scheduled
<1>. QED  BY <1>5, <1>6, <1>7, <1>8

\* An expiring read happens to an idle task only: its plan is open.
LEMMA GetTaskStep ==
  ASSUME IInv, NEW t \in Tasks, GetTask(t)
  PROVE  IInv'
<1>1. IdleTask(t)
  BY IdleAt DEF GetTask, ExpireDue
<1>. QED  BY <1>1, SeenAt, RecordStep DEF GetTask, IInv, TypeOK

\* Approval starts the only coroutine of an idle task.
LEMMA ApproveStep ==
  ASSUME IInv, NEW t \in Tasks, Approve(t)
  PROVE  IInv'
<1>1. PICK i \in Slots : Start(t, i, Approved(task[t]), "queued")
  BY DEF Approve
<1>2. IdleTask(t) /\ ~task[t].resumable /\ task[t] \in Record
  BY IdleAt, TypedAt DEF Approve, MayApprove, IdleTask, IdleRecord, IInv
<1>3. Approved(task[t]) \in Record
  BY <1>2 DEF Approved, Record, Status, Ended, Plan
<1>4. BusyRecord(Approved(task[t]), ckpt[t], NewCoroutine("queued"))
  BY <1>2 DEF Approved, BusyRecord, Record, NewCoroutine, Executing, Reflecting
<1>. QED  BY <1>1, <1>2, <1>3, <1>4, ScheduleStep DEF Start, Scheduled

\* An approval the billing refuses leaves the task idle.
LEMMA ApproveUnpaidStep ==
  ASSUME IInv, NEW t \in Tasks, ApproveUnpaid(t)
  PROVE  IInv'
<1>. DEFINE r == [task[t] EXCEPT !.plan = "locked"]
<1>1. IdleTask(t) /\ task[t] \in Record /\ task[t].status \notin {"none", "expired"}
  BY IdleAt, TypedAt DEF ApproveUnpaid, MayApprove, Undecided, IInv
<1>2. r \in Record /\ IdleRecord(r, ckpt[t])
  BY <1>1 DEF Record, Plan, IdleTask, IdleRecord
<1>3. task' = [task EXCEPT ![t] = r]
  BY DEF ApproveUnpaid
<1>. QED  BY <1>1, <1>2, <1>3, RecordStep DEF ApproveUnpaid, IInv, TypeOK

\* Writing back the coroutine that is there changes nothing.
LEMMA SameCoroutine ==
  ASSUME TypeOK, NEW t \in Tasks, NEW i \in Slots
  PROVE  run = [run EXCEPT ![t] = [run[t] EXCEPT ![i] = run[t][i]]]
<1>1. run[t] = [run[t] EXCEPT ![i] = run[t][i]]
  BY DEF TypeOK
<1>. QED  BY <1>1, Unchanged

\* Nothing but the expiry depends on the deadline.
LEMMA DeadlineStep ==
  ASSUME IInv, NEW t \in Tasks, DeadlinePasses(t)
  PROVE  IInv'
<1>. DEFINE r == [task[t] EXCEPT !.deadline = "past"]
<1>1. /\ r \in Record /\ r.status = task[t].status /\ r.plan = task[t].plan
      /\ r.cancelReq = task[t].cancelReq /\ r.resumable = task[t].resumable
      /\ r.path = task[t].path
  BY TypedAt DEF Record, IInv
<1>2. /\ task' = [task EXCEPT ![t] = r] /\ UNCHANGED <<ckpt, run, handle, orch>>
      /\ timers' \in [Tasks -> 0..MaxTimers]
  BY DEF DeadlinePasses, IInv, TypeOK
<1>. HIDE DEF r
<1>3. CASE IdleTask(t)
  BY <1>1, <1>2, <1>3, RecordStep DEF IdleTask, IdleRecord
<1>4. ASSUME NEW i \in Slots, BusyTask(t, i)  PROVE  IInv'
  <2>1. BusyRecord(r, ckpt[t], run[t][i])
    BY <1>1, <1>4 DEF BusyTask, BusyRecord
  <2>2. run' = [run EXCEPT ![t] = [run[t] EXCEPT ![i] = run[t][i]]]
    BY <1>2, SameCoroutine DEF IInv
  <2>. QED  BY <1>1, <1>2, <1>4, <2>1, <2>2, TypedAt, SignalStep DEF IInv
<1>. QED  BY <1>3, <1>4 DEF IInv, TaskInv

\* In a busy task the live coroutine _running_tasks denotes is the only one.
LEMMA HandleAt ==
  ASSUME IInv, NEW t \in Tasks, NEW i \in Slots, BusyTask(t, i)
  PROVE  /\ HandleLive(t) => handle[t] = i
         /\ ~HandleLive(t) => Away(run[t][i]) /\ run[t][i].pc \notin Executing
BY SlotsAssumption
   DEF IInv, TypeOK, BusyTask, HandleLive, Live, Unreachable, Away, Resumed,
       InExecute, Executing

\* Without coroutines the entry of _running_tasks, if any, is a done one.
LEMMA IdleHandle ==
  ASSUME IInv, NEW t \in Tasks, IdleTask(t)
  PROVE  ~HandleLive(t)
BY DEF IInv, TypeOK, IdleTask, HandleLive, Live

\* Task.cancel() sets one flag of a coroutine.
LEMMA KilledTyped ==
  ASSUME IInv, NEW t \in Tasks, NEW i \in Slots
  PROVE  LET c == [run[t][i] EXCEPT !.killed = TRUE]
         IN  /\ c \in Coroutine /\ c.killed
             /\ c.pc = run[t][i].pc /\ c.resumed = run[t][i].resumed
BY TypedAt DEF Coroutine, IInv

\* Reject signals the coroutine; one it cannot reach is outside execute().
LEMMA RejectStep ==
  ASSUME IInv, NEW t \in Tasks, Reject(t)
  PROVE  IInv'
<1>. DEFINE p == IF task[t].plan = "none" THEN "none" ELSE "rejected"
            r == [task[t] EXCEPT !.status = "rejected", !.plan = p]
<1>1. /\ r \in Record /\ r.status = "rejected" /\ r.plan = p
      /\ r.resumable = task[t].resumable /\ r.path = task[t].path
  BY TypedAt DEF Record, IInv, Status, Ended, Plan
<1>2. task' = [task EXCEPT ![t] = r] /\ UNCHANGED <<ckpt, handle, orch>>
  BY DEF Reject
<1>3. timers' \in [Tasks -> 0..MaxTimers]
  BY DEF Reject, IInv, TypeOK
<1>. HIDE DEF r
<1>4. CASE IdleTask(t)
  <2>1. IdleRecord(r, ckpt[t])
    BY <1>1, <1>4 DEF IdleTask, IdleRecord
  <2>2. run' = run
    BY <1>4, IdleHandle DEF Reject
  <2>. QED  BY <1>1, <1>2, <1>3, <1>4, <2>1, <2>2, RecordStep
<1>5. ASSUME NEW i \in Slots, BusyTask(t, i)  PROVE  IInv'
  <2>1. CASE HandleLive(t)
    <3>. DEFINE c == [run[t][i] EXCEPT !.killed = TRUE]
    <3>1. run' = [run EXCEPT ![t] = [run[t] EXCEPT ![i] = c]]
      BY <1>5, <2>1, HandleAt DEF Reject
    <3>2. /\ c \in Coroutine /\ c.killed
          /\ c.pc = run[t][i].pc /\ c.resumed = run[t][i].resumed
      BY KilledTyped
    <3>. HIDE DEF c
    <3>3. BusyRecord(r, ckpt[t], c)
      BY <1>1, <1>5, <3>2 DEF BusyTask, BusyRecord
    <3>. QED  BY <1>1, <1>2, <1>3, <1>5, <3>1, <3>2, <3>3, SignalStep
  <2>2. CASE ~HandleLive(t)
    <3>1. BusyRecord(r, ckpt[t], run[t][i])
      BY <1>1, <1>5, <2>2, HandleAt DEF BusyTask, BusyRecord
    <3>2. run' = [run EXCEPT ![t] = [run[t] EXCEPT ![i] = run[t][i]]]
      BY <2>2, SameCoroutine DEF Reject, IInv
    <3>. QED  BY <1>1, <1>2, <1>3, <1>5, <3>1, <3>2, TypedAt, SignalStep DEF IInv
  <2>. QED  BY <2>1, <2>2
<1>. QED  BY <1>4, <1>5 DEF IInv, TaskInv

\* Cancel and McpCancel differ in the timer only.
LEMMA RequestCancelStep ==
  ASSUME IInv, NEW t \in Tasks, RequestCancel(t),
         timers' \in [Tasks -> 0..MaxTimers]
  PROVE  IInv'
<1>. DEFINE r == [Seen(t) EXCEPT !.cancelReq = TRUE]
<1>1. /\ r \in Record /\ r.cancelReq = TRUE
      /\ r.status = Seen(t).status /\ r.plan = Seen(t).plan /\ r.path = Seen(t).path
      /\ r.resumable = Seen(t).resumable
  BY SeenAt DEF Record
<1>2. task' = [task EXCEPT ![t] = r] /\ UNCHANGED <<ckpt, handle, orch>>
  BY DEF RequestCancel
<1>. HIDE DEF r
<1>3. CASE IdleTask(t)
  <2>1. IdleRecord(r, ckpt[t])
    BY <1>1, <1>3, SeenAt DEF IdleRecord
  <2>2. run' = run
    BY <1>3 DEF RequestCancel, IdleTask
  <2>. QED  BY <1>1, <1>2, <1>3, <2>1, <2>2, RecordStep
<1>4. ASSUME NEW i \in Slots, BusyTask(t, i)  PROVE  IInv'
  <2>1. Seen(t) = task[t]
    BY <1>4, SeenAt
  <2>2. BusyRecord(r, ckpt[t], run[t][i])
    BY <1>1, <1>4, <2>1 DEF BusyTask, BusyRecord
  <2>3. CASE orch[t] # NoSlot
    <3>. DEFINE c == [run[t][i] EXCEPT !.stop = TRUE]
    <3>1. run' = [run EXCEPT ![t] = [run[t] EXCEPT ![i] = c]]
      BY <1>4, <2>3 DEF RequestCancel, BusyTask
    <3>2. /\ c \in Coroutine /\ c.pc = run[t][i].pc
          /\ c.resumed = run[t][i].resumed /\ c.killed = run[t][i].killed
      BY TypedAt DEF Coroutine, IInv
    <3>. HIDE DEF c
    <3>3. BusyRecord(r, ckpt[t], c)
      BY <2>2, <3>2 DEF BusyRecord, Away
    <3>. QED  BY <1>1, <1>2, <1>4, <3>1, <3>2, <3>3, SignalStep
  <2>4. CASE orch[t] = NoSlot
    <3>1. run' = [run EXCEPT ![t] = [run[t] EXCEPT ![i] = run[t][i]]]
      BY <2>4, SameCoroutine DEF RequestCancel, IInv
    <3>. QED  BY <1>1, <1>2, <1>4, <2>2, <3>1, TypedAt, SignalStep DEF IInv
  <2>. QED  BY <2>3, <2>4
<1>. QED  BY <1>3, <1>4 DEF IInv, TaskInv

\* Both cancels keep the invariant.
LEMMA CancelStep ==
  ASSUME IInv, NEW t \in Tasks, Cancel(t) \/ McpCancel(t)
  PROVE  IInv'
<1>1. timers' \in [Tasks -> 0..MaxTimers]
  BY TimersAssumption DEF Cancel, McpCancel, IInv, TypeOK
<1>. QED  BY <1>1, RequestCancelStep DEF Cancel, McpCancel

\* The fuse signals the only coroutine, or nothing.
LEMMA ForceCancelStep ==
  ASSUME IInv, NEW t \in Tasks, ForceCancel(t)
  PROVE  IInv'
<1>1. timers' \in [Tasks -> 0..MaxTimers]
  BY TimersAssumption DEF ForceCancel, IInv, TypeOK
<1>2. task' = [task EXCEPT ![t] = task[t]] /\ UNCHANGED <<ckpt, handle, orch>>
  BY Unchanged DEF ForceCancel, IInv
<1>3. CASE IdleTask(t)
  <2>1. run' = run
    BY <1>3, IdleHandle DEF ForceCancel, FuseMayCut
  <2>2. IdleRecord(task[t], ckpt[t])
    BY <1>3 DEF IdleTask
  <2>. QED  BY <1>1, <1>2, <1>3, <2>1, <2>2, TypedAt, RecordStep DEF IInv
<1>4. ASSUME NEW i \in Slots, BusyTask(t, i)  PROVE  IInv'
  <2>1. CASE FuseMayCut(t)
    <3>. DEFINE c == [run[t][i] EXCEPT !.killed = TRUE]
    <3>1. run' = [run EXCEPT ![t] = [run[t] EXCEPT ![i] = c]]
      BY <1>4, <2>1, HandleAt DEF ForceCancel, FuseMayCut
    <3>2. /\ c \in Coroutine /\ c.killed
          /\ c.pc = run[t][i].pc /\ c.resumed = run[t][i].resumed
      BY KilledTyped
    <3>. HIDE DEF c
    <3>3. BusyRecord(task[t], ckpt[t], c)
      BY <1>4, <3>2 DEF BusyTask, BusyRecord
    <3>. QED  BY <1>1, <1>2, <1>4, <3>1, <3>2, <3>3, TypedAt, SignalStep DEF IInv
  <2>2. CASE ~FuseMayCut(t)
    <3>1. run' = [run EXCEPT ![t] = [run[t] EXCEPT ![i] = run[t][i]]]
      BY <2>2, SameCoroutine DEF ForceCancel, IInv
    <3>2. BusyRecord(task[t], ckpt[t], run[t][i])
      BY <1>4 DEF BusyTask
    <3>. QED  BY <1>1, <1>2, <1>4, <3>1, <3>2, TypedAt, SignalStep DEF IInv
  <2>. QED  BY <2>1, <2>2
<1>. QED  BY <1>3, <1>4 DEF IInv, TaskInv

\* A resumable task is idle: the resumed run is its only coroutine.
LEMMA ResumeStep ==
  ASSUME IInv, NEW t \in Tasks, Resume(t) \/ McpResume(t)
  PROVE  IInv'
<1>1. /\ Seen(t) \in Record /\ Seen(t).resumable = task[t].resumable
      /\ IdleTask(t) => IdleRecord(Seen(t), ckpt[t])
  BY SeenAt
<1>2. IdleTask(t) /\ ckpt[t]
  BY <1>1, IdleAt DEF Resume, McpResume, MayResume
<1>3. /\ ResumedRecord(t) \in Record /\ ResumedRecord(t).status = "pending"
      /\ ~ResumedRecord(t).resumable /\ ResumedRecord(t).plan = Seen(t).plan
  BY <1>1 DEF ResumedRecord, Record, Status, Ended
<1>4. ResumedRecord(t).plan \notin {"pending_user", "expired"}
  BY <1>1, <1>2, <1>3 DEF IdleRecord
<1>5. CASE Resume(t)
  <2>1. PICK i \in Slots : Schedule(t, i, ResumedRecord(t), "resumeq")
    BY <1>5 DEF Resume
  <2>2. /\ handle' = [handle EXCEPT ![t] = handle[t]]
        /\ handle[t] \in Slots \cup {NoSlot}
    BY <1>5, Unchanged, TypedAt DEF Resume, IInv
  <2>3. BusyRecord(ResumedRecord(t), ckpt[t], NewCoroutine("resumeq"))
    BY <1>2, <1>3, <1>4 DEF BusyRecord, Away, NewCoroutine, Executing, Reflecting
  <2>. QED  BY <1>2, <1>3, <2>1, <2>2, <2>3, ScheduleStep DEF Scheduled
<1>6. CASE McpResume(t)
  <2>1. /\ task' = [task EXCEPT ![t] = ResumedRecord(t)]
        /\ UNCHANGED <<ckpt, run, handle, orch>>
        /\ timers' \in [Tasks -> 0..MaxTimers]
    BY <1>6 DEF McpResume, IInv, TypeOK
  <2>2. IdleRecord(ResumedRecord(t), ckpt[t])
    BY <1>3, <1>4 DEF IdleRecord
  <2>. QED  BY <1>2, <1>3, <2>1, <2>2, RecordStep
<1>. QED  BY <1>5, <1>6

-----------------------------------------------------------------------------
(* Coroutines *)

\* What a step of coroutine i finds.
LEMMA AtBusy ==
  ASSUME IInv, NEW t \in Tasks, NEW i \in Slots, run[t][i].pc # "idle"
  PROVE  /\ BusyTask(t, i)
         /\ task[t] \in Record /\ run[t][i] \in Coroutine
         /\ handle[t] \in Slots \cup {NoSlot} /\ orch[t] \in Slots \cup {NoSlot}
         /\ task = [task EXCEPT ![t] = task[t]]
         /\ ckpt = [ckpt EXCEPT ![t] = ckpt[t]]
         /\ handle = [handle EXCEPT ![t] = handle[t]]
         /\ orch = [orch EXCEPT ![t] = orch[t]]
BY BusyAt, TypedAt, Unchanged DEF IInv

\* A coroutine that is not away is registered.
LEMMA Registered ==
  ASSUME IInv, NEW t \in Tasks, NEW i \in Slots, run[t][i].pc # "idle"
  PROVE  handle[t] = i \/ Away(run[t][i])
BY BusyAt DEF BusyTask, Unreachable, Away, Resumed, InExecute

\* A coroutine outside execute() and not waiting to resume is a fresh one,
\* unless it is reflecting.
LEMMA NotResumed ==
  ASSUME IInv, NEW t \in Tasks, NEW i \in Slots,
         run[t][i].pc \in {"draftq", "draft", "queued", "ctx", "gen"}
  PROVE  ~run[t][i].resumed /\ handle[t] = i
<1>1. run[t][i].pc # "idle"
  OBVIOUS
<1>2. ~run[t][i].resumed
  BY <1>1, BusyAt DEF BusyTask, BusyRecord, Executing, Reflecting
<1>. QED  BY <1>1, <1>2, Registered DEF Away

\* Both ways to unregister leave an entry of the task's own.
LEMMA Unregistered ==
  ASSUME IInv, NEW t \in Tasks, NEW i \in Slots,
         Unregister(t) \/ UnregisterOwn(t, i) \/ LeaveAfterwards(t, i)
  PROVE  \E h \in Slots \cup {NoSlot} : handle' = [handle EXCEPT ![t] = h]
<1>1. handle = [handle EXCEPT ![t] = handle[t]] /\ handle[t] \in Slots \cup {NoSlot}
  BY TypedAt, Unchanged DEF IInv
<1>. QED  BY <1>1 DEF Unregister, UnregisterOwn, LeaveAfterwards

\* The end of a coroutine outside execute().
LEMMA EndOutside ==
  ASSUME IInv, NEW t \in Tasks, NEW i \in Slots,
         run[t][i].pc # "idle", run[t][i].pc \notin Executing,
         NEW r \in Record, NEW k \in BOOLEAN,
         End(t, i), task' = [task EXCEPT ![t] = r], ckpt' = [ckpt EXCEPT ![t] = k],
         \E h \in Slots \cup {NoSlot} : handle' = [handle EXCEPT ![t] = h],
         UNCHANGED <<orch, timers>>,
         IdleRecord(r, k)
  PROVE  IInv'
<1>1. BusyTask(t, i) /\ orch[t] = NoSlot /\ orch' = [orch EXCEPT ![t] = NoSlot]
  BY AtBusy DEF BusyTask
<1>2. PICK h \in Slots \cup {NoSlot} : handle' = [handle EXCEPT ![t] = h]
  OBVIOUS
<1>. QED  BY <1>1, <1>2, EndStep

\* The end of a coroutine inside execute().
LEMMA EndInside ==
  ASSUME IInv, NEW t \in Tasks, NEW i \in Slots, run[t][i].pc \in Executing,
         NEW r \in Record, NEW k \in BOOLEAN,
         End(t, i), task' = [task EXCEPT ![t] = r], ckpt' = [ckpt EXCEPT ![t] = k],
         Unregister(t), LeaveExecute(t), UNCHANGED timers,
         IdleRecord(r, k)
  PROVE  IInv'
BY BusyAt, EndStep DEF Executing, Unregister, LeaveExecute

\* What a saved checkpoint leaves, if the record it closes may be left.
LEMMA Saved ==
  ASSUME NEW t \in Tasks, NEW r \in Record, SaveCheckpoint(t, r),
         r.status # "none", r.status = "running" => r.cancelReq,
         r.plan \notin {"pending_user", "expired"}, r.status # "expired"
  PROVE  \E r1 \in Record, k \in BOOLEAN :
           /\ task' = [task EXCEPT ![t] = r1] /\ ckpt' = [ckpt EXCEPT ![t] = k]
           /\ IdleRecord(r1, k)
<1>1. PICK file, flag \in BOOLEAN :
        /\ ckpt' = [ckpt EXCEPT ![t] = file]
        /\ task' = [task EXCEPT ![t] = [r EXCEPT !.resumable = r.resumable \/ flag]]
  BY DEF SaveCheckpoint
<1>. DEFINE r1 == [r EXCEPT !.resumable = r.resumable \/ flag]
<1>2. r1 \in Record /\ r1.status = r.status /\ r1.plan = r.plan /\ r1.cancelReq = r.cancelReq
  BY DEF Record
<1>. HIDE DEF r1
<1>3. IdleRecord(r1, file)
  BY <1>2 DEF IdleRecord
<1>. QED  BY <1>1, <1>2, <1>3 DEF r1

\* The same for a run that closes its record as failed or cancelled.
LEMMA SavedClosed ==
  ASSUME NEW t \in Tasks, task[t] \in Record,
         task[t].plan \notin {"pending_user", "expired"},
         NEW s \in {"failed", "cancelled"}, SaveCheckpoint(t, Close(t, s))
  PROVE  \E r \in Record, k \in BOOLEAN :
           /\ task' = [task EXCEPT ![t] = r] /\ ckpt' = [ckpt EXCEPT ![t] = k]
           /\ IdleRecord(r, k)
<1>. DEFINE r == Close(t, s)
<1>1. r \in Record /\ r.status = s /\ r.plan = task[t].plan
  BY DEF Close, Record, Status, Ended
<1>2. SaveCheckpoint(t, r)
  OBVIOUS
<1>3. /\ r.status # "none" /\ (r.status = "running" => r.cancelReq) 
      /\ r.plan \notin {"pending_user", "expired"} /\ r.status # "expired"
  BY <1>1
<1>. HIDE DEF r
<1>. QED  BY <1>1, <1>2, <1>3, Saved, Zenon

\* The draft begins, or ends at once if a cancel came first.
LEMMA DraftStartStep ==
  ASSUME IInv, NEW t \in Tasks, NEW i \in Slots, DraftStart(t, i)
  PROVE  IInv'
<1>1. run[t][i].pc = "draftq" /\ UNCHANGED <<task, ckpt, orch, timers>>
  BY DEF DraftStart, At
<1>2. BusyTask(t, i) /\ handle[t] = i /\ BusyRecord(task[t], ckpt[t], run[t][i])
  BY <1>1, AtBusy, NotResumed DEF BusyTask
<1>3. CASE task[t].cancelReq
  <2>1. End(t, i) /\ UnregisterOwn(t, i)
    BY <1>3 DEF DraftStart
  <2>2. IdleRecord(task[t], ckpt[t])
    BY <1>1, <1>2, <1>3 DEF BusyRecord, IdleRecord
  <2>3. \E h \in Slots \cup {NoSlot} : handle' = [handle EXCEPT ![t] = h]
    BY <2>1, Unregistered
  <2>4. /\ task' = [task EXCEPT ![t] = task[t]] /\ task[t] \in Record
        /\ ckpt' = [ckpt EXCEPT ![t] = ckpt[t]] /\ ckpt[t] \in BOOLEAN
        /\ UNCHANGED <<orch, timers>>
    BY <1>1, AtBusy, TypedAt DEF IInv
  <2>5. run[t][i].pc # "idle" /\ run[t][i].pc \notin Executing
    BY <1>1 DEF Executing
  <2>. QED  BY <2>1, <2>2, <2>3, <2>4, <2>5, EndOutside
<1>4. CASE ~task[t].cancelReq
  <2>1. Goto(t, i, "draft") /\ handle' = handle
    BY <1>4 DEF DraftStart
  <2>. DEFINE c == [run[t][i] EXCEPT !.pc = "draft"]
  <2>2. c.pc = "draft" /\ c.resumed = run[t][i].resumed /\ c.killed = run[t][i].killed
    BY <1>1, AtBusy DEF Coroutine
  <2>3. BusyRecord(task[t], ckpt[t], c)
    BY <1>1, <1>2, <2>2 DEF BusyRecord, Away, Scheduled, Executing, Reflecting
  <2>4. orch[t] = NoSlot
    BY <1>1, <1>2 DEF BusyTask, Executing
  <2>5. /\ task' = [task EXCEPT ![t] = task[t]] /\ task[t] \in Record
        /\ handle' = [handle EXCEPT ![t] = i]
        /\ orch' = [orch EXCEPT ![t] = NoSlot]
    BY <1>1, <1>2, <2>1, <2>4, AtBusy
  <2>6. "draft" \in Pc \ {"idle"} /\ "draft" \notin Executing
    BY DEF Pc, Executing
  <2>. QED  BY <1>1, <1>2, <2>1, <2>3, <2>5, <2>6, MoveStep
<1>. QED  BY <1>3, <1>4

\* What the draft may write: an open plan for an idle task or, approved, a
\* locked one for a run about to start.
LEMMA DraftedAt ==
  ASSUME IInv, NEW t \in Tasks, NEW i \in Slots, run[t][i].pc = "draft",
         NEW d \in {"none", "open"}
  PROVE  /\ Drafted(t, d) \in Record /\ IdleRecord(Drafted(t, d), ckpt[t])
         /\ Approved(Drafted(t, d)) \in Record
         /\ BusyRecord(Approved(Drafted(t, d)), ckpt[t], NewCoroutine("queued"))
<1>1. BusyRecord(task[t], ckpt[t], run[t][i]) /\ task[t] \in Record
  BY AtBusy DEF BusyTask
<1>2. /\ Drafted(t, d) \in Record /\ Drafted(t, d).status = "awaiting_confirmation"
      /\ Drafted(t, d).plan = "pending_user"
      /\ Drafted(t, d).resumable = task[t].resumable
  BY <1>1 DEF Drafted, Record, Status, Plan
<1>3. /\ Approved(Drafted(t, d)) \in Record
      /\ Approved(Drafted(t, d)).status = "pending"
      /\ Approved(Drafted(t, d)).plan = "locked"
      /\ Approved(Drafted(t, d)).resumable = task[t].resumable
  BY <1>2 DEF Approved, Record, Status, Plan
<1>4. IdleRecord(Drafted(t, d), ckpt[t])
  BY <1>1, <1>2 DEF BusyRecord, IdleRecord
<1>5. BusyRecord(Approved(Drafted(t, d)), ckpt[t], NewCoroutine("queued"))
  BY <1>1, <1>3 DEF BusyRecord, NewCoroutine, Executing, Reflecting
<1>. QED  BY <1>2, <1>3, <1>4, <1>5

\* The draft ends and leaves the task idle.
LEMMA DraftEndStep ==
  ASSUME IInv, NEW t \in Tasks, NEW i \in Slots, DraftDone(t, i) \/ DraftRaises(t, i)
  PROVE  IInv'
<1>1. /\ run[t][i].pc = "draft" /\ End(t, i) /\ UnregisterOwn(t, i)
      /\ UNCHANGED <<ckpt, orch, timers>>
  BY DEF DraftDone, DraftRaises, At
<1>2. PICK d \in {"none", "open"} : task' = [task EXCEPT ![t] = Drafted(t, d)]
  BY DEF DraftDone, DraftRaises
<1>3. Drafted(t, d) \in Record /\ IdleRecord(Drafted(t, d), ckpt[t])
  BY <1>1, DraftedAt
<1>4. ckpt' = [ckpt EXCEPT ![t] = ckpt[t]] /\ ckpt[t] \in BOOLEAN
  BY <1>1, Unchanged, TypedAt DEF IInv
<1>5. \E h \in Slots \cup {NoSlot} : handle' = [handle EXCEPT ![t] = h]
  BY <1>1, Unregistered
<1>6. run[t][i].pc # "idle" /\ run[t][i].pc \notin Executing
  BY <1>1 DEF Executing
<1>. QED  BY <1>1, <1>2, <1>3, <1>4, <1>5, <1>6, EndOutside

\* An auto-approving draft hands the task over to the run it starts.
LEMMA DraftApprovesStep ==
  ASSUME IInv, NEW t \in Tasks, NEW i \in Slots, DraftApproves(t, i)
  PROVE  IInv'
<1>1. PICK d \in {"none", "open"}, j \in Slots :
        /\ Free(t, j)
        /\ task' = [task EXCEPT ![t] = Approved(Drafted(t, d))]
        /\ run' = [run EXCEPT ![t] = [run[t] EXCEPT ![i] = Idle, ![j] = NewCoroutine("queued")]]
        /\ handle' = [handle EXCEPT ![t] = j]
  BY DEF DraftApproves
<1>. DEFINE f == [run[t] EXCEPT ![i] = Idle, ![j] = NewCoroutine("queued")]
            r == Approved(Drafted(t, d))
            c == NewCoroutine("queued")
<1>2. /\ run[t][i].pc = "draft" /\ UNCHANGED <<ckpt, orch, timers>>
  BY DEF DraftApproves, At
<1>3. /\ BusyTask(t, i) /\ orch[t] = NoSlot
      /\ orch' = [orch EXCEPT ![t] = NoSlot] /\ ckpt' = [ckpt EXCEPT ![t] = ckpt[t]]
  BY <1>2, AtBusy DEF BusyTask, Executing
<1>4. r \in Record /\ BusyRecord(r, ckpt[t], c)
  BY <1>2, DraftedAt
<1>5. c \in Coroutine /\ c.pc = "queued"
  BY NewCoroutineTyped DEF NewCoroutine, Pc, Scheduled
<1>6. run[t] \in [Slots -> Coroutine] /\ ckpt[t] \in BOOLEAN /\ TypeOK
  BY TypedAt DEF IInv
<1>7. i # j
  BY <1>1, <1>2 DEF Free, Live
<1>. HIDE DEF r, c
<1>8. /\ f \in [Slots -> Coroutine] /\ f[j] = c
      /\ \A l \in Slots : l # j => f[l].pc = "idle"
  BY <1>3, <1>5, <1>6, <1>7, IdleTyped DEF BusyTask, c
<1>. HIDE DEF f
<1>9. task'[t] = r /\ run'[t] = f /\ handle'[t] = j /\ orch'[t] = NoSlot /\ ckpt'[t] = ckpt[t]
  BY <1>1, <1>3, <1>6 DEF TypeOK, f, r
<1>10. BusyTask(t, j)'
  BY <1>4, <1>5, <1>8, <1>9 DEF BusyTask, Executing
<1>11. TaskInv(t)'
  BY <1>10 DEF TaskInv
<1>12. timers' \in [Tasks -> 0..MaxTimers]
  BY <1>2, <1>6 DEF TypeOK
<1>. QED  BY <1>1, <1>3, <1>4, <1>6, <1>8, <1>11, <1>12, Change DEF f, r

\* A move outside execute() that keeps the record and the registration.
LEMMA MoveOutside ==
  ASSUME IInv, NEW t \in Tasks, NEW i \in Slots, NEW c \in Coroutine,
         run[t][i].pc \in {"gen", "eval", "improve"},
         c.pc \in {"eval", "improve", "final"},
         c.resumed = run[t][i].resumed, c.killed = run[t][i].killed,
         run' = [run EXCEPT ![t][i] = c], UNCHANGED <<task, ckpt, handle, orch, timers>>
  PROVE  IInv'
<1>1. run[t][i].pc # "idle" /\ run[t][i].pc \notin Executing
  BY DEF Executing
<1>2. BusyTask(t, i) /\ orch[t] = NoSlot /\ (handle[t] = i \/ Resumed(t, i))
  BY <1>1, AtBusy DEF BusyTask, Unreachable
<1>4. BusyRecord(task[t], ckpt[t], c)
  BY <1>2 DEF BusyTask, BusyRecord, Away, Scheduled, Executing, Reflecting
<1>5. c.pc # "idle" /\ c.pc \notin Executing /\ c.resumed = Resumed(t, i)
  BY DEF Executing, Resumed
<1>3. handle[t] = i \/ (Resumed(t, i) /\ c.pc \notin Executing)
  BY <1>2, <1>5
<1>. DEFINE r == task[t]
            h == handle[t]
            o == NoSlot
<1>6. /\ r \in Record /\ h \in Slots \cup {NoSlot} /\ o \in Slots \cup {NoSlot}
      /\ task' = [task EXCEPT ![t] = r] /\ handle' = [handle EXCEPT ![t] = h]
      /\ orch' = [orch EXCEPT ![t] = o]
  BY <1>1, <1>2, AtBusy
<1>7. /\ h = i \/ c.pc = "startq" \/ (Resumed(t, i) /\ c.pc \notin Executing)
      /\ o = IF c.pc \in Executing THEN i ELSE NoSlot
      /\ BusyRecord(r, ckpt[t], c)
  BY <1>3, <1>4, <1>5
<1>8. UNCHANGED <<ckpt, timers>>
  OBVIOUS
<1>. HIDE DEF r, h, o
<1>9. /\ IInv /\ BusyTask(t, i) /\ c \in Coroutine /\ c.pc # "idle" /\ c.resumed = Resumed(t, i)
      /\ run' = [run EXCEPT ![t][i] = c]
  BY <1>2, <1>5
<1>. QED  BY ONLY <1>9, <1>6, <1>7, <1>8, GoOnStep, t \in Tasks, i \in Slots

\* A start handed over by a thread is registered.
LEMMA McpStartStep ==
  ASSUME IInv, NEW t \in Tasks, NEW i \in Slots, McpStart(t, i)
  PROVE  IInv'
<1>. DEFINE c == [run[t][i] EXCEPT !.pc = "queued"]
<1>1. /\ run[t][i].pc = "startq" /\ Goto(t, i, "queued")
      /\ UNCHANGED <<task, ckpt, orch, timers>> /\ handle' = [handle EXCEPT ![t] = i]
  BY DEF McpStart, At
<1>2. BusyTask(t, i) /\ orch[t] = NoSlot
  BY <1>1, AtBusy DEF BusyTask, Executing
<1>3. c.pc = "queued" /\ c.resumed = run[t][i].resumed /\ c.killed = run[t][i].killed
  BY <1>1, AtBusy DEF Coroutine
<1>4. BusyRecord(task[t], ckpt[t], c)
  BY <1>1, <1>2, <1>3 DEF BusyTask, BusyRecord, Away, Scheduled, Executing, Reflecting
<1>5. "queued" \in Pc \ {"idle"} /\ "queued" \notin Executing
  BY DEF Pc, Scheduled, Executing
<1>6. /\ task' = [task EXCEPT ![t] = task[t]] /\ task[t] \in Record
      /\ orch' = [orch EXCEPT ![t] = NoSlot]
  BY <1>1, <1>2, AtBusy
<1>. QED  BY <1>1, <1>2, <1>4, <1>5, <1>6, MoveStep

\* A run begins: from here on its status is running.
LEMMA RunStartStep ==
  ASSUME IInv, NEW t \in Tasks, NEW i \in Slots, RunStart(t, i)
  PROVE  IInv'
<1>1. run[t][i].pc = "queued" /\ UNCHANGED <<ckpt, handle, orch, timers>>
  BY DEF RunStart, At
<1>2. BusyTask(t, i) /\ task[t] \in Record /\ orch[t] = NoSlot
      /\ (handle[t] = i \/ Resumed(t, i))
  BY <1>1, AtBusy DEF BusyTask, Executing, Unreachable
<1>3. PICK p \in {"simple", "company", task[t].path} :
        /\ task' = [task EXCEPT ![t].status = "running", ![t].path = p]
        /\ Goto(t, i, IF p = "company" THEN "ctx" ELSE "gen")
  BY DEF RunStart
<1>. DEFINE q == IF p = "company" THEN "ctx" ELSE "gen"
            c == [run[t][i] EXCEPT !.pc = q]
            r == [task[t] EXCEPT !.status = "running", !.path = p]
<1>4. /\ r \in Record /\ r.status = "running" /\ r.plan = task[t].plan
      /\ r.resumable = task[t].resumable
  BY <1>2 DEF Record, Status
<1>5. task' = [task EXCEPT ![t] = r]
  BY <1>3
<1>6. q \in Pc \ {"idle"} /\ q \in {"ctx", "gen"} /\ q \notin Executing
  BY DEF Pc, Executing
<1>7. Goto(t, i, q)
  BY <1>3
<1>. HIDE DEF q, r
<1>8. c.pc = q /\ c.resumed = run[t][i].resumed /\ c.killed = run[t][i].killed
  BY <1>1, AtBusy DEF Coroutine
<1>9. BusyRecord(r, ckpt[t], c)
  BY <1>1, <1>2, <1>4, <1>6, <1>8
     DEF BusyTask, BusyRecord, Away, Scheduled, Executing, Reflecting
<1>10. /\ handle' = [handle EXCEPT ![t] = handle[t]] /\ handle[t] \in Slots \cup {NoSlot}
       /\ orch' = [orch EXCEPT ![t] = NoSlot]
  BY <1>1, <1>2, AtBusy
<1>. QED  BY <1>1, <1>2, <1>4, <1>5, <1>6, <1>7, <1>9, <1>10, MoveStep

\* execute() is entered only through the gate.
LEMMA EnterExecuteStep ==
  ASSUME IInv, NEW t \in Tasks, NEW i \in Slots, NEW r \in Record,
         NEW h \in Slots \cup {NoSlot},
         run[t][i].pc \in {"ctx", "resumeq"}, ApprovalGate(t), EnterExecute(t, i),
         task' = [task EXCEPT ![t] = r], handle' = [handle EXCEPT ![t] = h],
         UNCHANGED <<ckpt, timers>>, h = i,
         r.status = "running" \/ (run[t][i].pc = "ctx" /\ r = task[t]),
         r.plan = task[t].plan,
         r.resumable = task[t].resumable
  PROVE  IInv'
<1>. DEFINE c == [run[t][i] EXCEPT !.pc = "exec"]
<1>1. BusyTask(t, i) /\ Goto(t, i, "exec")
  BY AtBusy DEF EnterExecute, Goto
<1>2. c.pc = "exec" /\ c.resumed = run[t][i].resumed /\ c.killed = run[t][i].killed
  BY AtBusy DEF Coroutine
<1>3. BusyRecord(r, ckpt[t], c)
  BY <1>1, <1>2 DEF BusyTask, BusyRecord, Away, Scheduled, Executing, Reflecting, ApprovalGate
<1>4. "exec" \in Pc \ {"idle"} /\ "exec" \in Executing
  BY DEF Pc, Executing
<1>. QED  BY <1>1, <1>3, <1>4, MoveStep DEF EnterExecute

\* A fresh run enters execute() behind the gate, or fails at it.
LEMMA CtxDoneStep ==
  ASSUME IInv, NEW t \in Tasks, NEW i \in Slots, CtxDone(t, i)
  PROVE  IInv'
<1>1. run[t][i].pc = "ctx" /\ UNCHANGED timers
  BY DEF CtxDone, At
<1>2. /\ BusyTask(t, i) /\ task[t] \in Record
      /\ task[t].plan \notin {"pending_user", "expired"}
      /\ handle[t] = i
  <2>1. BusyTask(t, i) /\ task[t] \in Record /\ handle[t] = i
    BY <1>1, AtBusy, NotResumed
  <2>. QED  BY <2>1 DEF BusyTask, BusyRecord
<1>3. CASE ApprovalGate(t) /\ EnterExecute(t, i) /\ UNCHANGED <<task, ckpt, handle>>
  <2>1. /\ task' = [task EXCEPT ![t] = task[t]]
        /\ handle' = [handle EXCEPT ![t] = handle[t]] /\ handle[t] \in Slots \cup {NoSlot}
    BY <1>1, <1>3, AtBusy
  <2>. QED  BY <1>1, <1>2, <1>3, <2>1, EnterExecuteStep
<1>4. CASE ~ApprovalGate(t) /\ SaveCheckpoint(t, Close(t, "failed"))
           /\ End(t, i) /\ Unregister(t) /\ UNCHANGED orch
  <2>1. PICK r \in Record, k \in BOOLEAN :
          /\ task' = [task EXCEPT ![t] = r] /\ ckpt' = [ckpt EXCEPT ![t] = k]
          /\ IdleRecord(r, k)
    BY <1>2, <1>4, SavedClosed
  <2>3. \E h \in Slots \cup {NoSlot} : handle' = [handle EXCEPT ![t] = h]
    BY <1>4, Unregistered
  <2>4. run[t][i].pc # "idle" /\ run[t][i].pc \notin Executing
    BY <1>1 DEF Executing
  <2>. QED  BY <1>1, <1>4, <2>1, <2>3, <2>4, EndOutside
<1>. QED  BY <1>3, <1>4 DEF CtxDone

\* So does a resumed one.
LEMMA ResumeStartStep ==
  ASSUME IInv, NEW t \in Tasks, NEW i \in Slots, ResumeStart(t, i)
  PROVE  IInv'
<1>1. run[t][i].pc = "resumeq" /\ UNCHANGED <<ckpt, timers>>
  BY DEF ResumeStart, At
<1>2. task[t] \in Record /\ task[t].plan \notin {"pending_user", "expired"}
  BY <1>1, AtBusy DEF BusyTask, BusyRecord
<1>3. CASE /\ ApprovalGate(t)
           /\ task' = [task EXCEPT ![t].status = "running"]
           /\ EnterExecute(t, i)
           /\ handle' = [handle EXCEPT ![t] = i]
  <2>. DEFINE r == [task[t] EXCEPT !.status = "running"]
  <2>1. /\ r \in Record /\ r.status = "running" /\ r.plan = task[t].plan
        /\ r.resumable = task[t].resumable
    BY <1>2 DEF Record, Status
  <2>2. task' = [task EXCEPT ![t] = r]
    BY <1>3
  <2>. HIDE DEF r
  <2>. QED  BY <1>1, <1>3, <2>1, <2>2, EnterExecuteStep
<1>4. CASE /\ task' = [task EXCEPT ![t].status = "failed", ![t].resumable = ckpt[t]]
           /\ End(t, i) /\ Unregister(t) /\ UNCHANGED orch
  <2>. DEFINE r == [task[t] EXCEPT !.status = "failed", !.resumable = ckpt[t]]
  <2>1. /\ ckpt[t] \in BOOLEAN /\ ckpt' = [ckpt EXCEPT ![t] = ckpt[t]]
    BY <1>1, TypedAt, Unchanged DEF IInv
  <2>2. r \in Record /\ r.status = "failed" /\ r.plan = task[t].plan
    BY <1>2, <2>1 DEF Record, Status, Ended
  <2>3. task' = [task EXCEPT ![t] = r]
    BY <1>4
  <2>. HIDE DEF r
  <2>4. IdleRecord(r, ckpt[t])
    BY <1>2, <2>2 DEF IdleRecord
  <2>5. \E h \in Slots \cup {NoSlot} : handle' = [handle EXCEPT ![t] = h]
    BY <1>4, Unregistered
  <2>6. run[t][i].pc # "idle" /\ run[t][i].pc \notin Executing
    BY <1>1 DEF Executing
  <2>. QED  BY <1>1, <1>4, <2>1, <2>2, <2>3, <2>4, <2>5, <2>6, EndOutside
<1>. QED  BY <1>3, <1>4 DEF ResumeStart

\* The work is done, the review begins, still inside execute().
LEMMA WorkDoneStep ==
  ASSUME IInv, NEW t \in Tasks, NEW i \in Slots, WorkDone(t, i)
  PROVE  IInv'
<1>. DEFINE c == [run[t][i] EXCEPT !.pc = "review"]
<1>1. /\ run[t][i].pc = "exec" /\ Goto(t, i, "review")
      /\ UNCHANGED <<task, ckpt, handle, orch, timers>>
  BY DEF WorkDone, At
<1>2. BusyTask(t, i) /\ handle[t] = i /\ orch[t] = i
  BY <1>1, AtBusy DEF BusyTask, Executing, Unreachable, InExecute
<1>3. c.pc = "review" /\ c.resumed = run[t][i].resumed /\ c.killed = run[t][i].killed
  BY <1>1, AtBusy DEF Coroutine
<1>4. BusyRecord(task[t], ckpt[t], c)
  BY <1>1, <1>2, <1>3 DEF BusyTask, BusyRecord, Away, Scheduled, Executing, Reflecting
<1>5. "review" \in Pc \ {"idle"} /\ "review" \in Executing
  BY DEF Pc, Executing
<1>6. /\ task' = [task EXCEPT ![t] = task[t]] /\ task[t] \in Record
      /\ handle' = [handle EXCEPT ![t] = i] /\ orch' = [orch EXCEPT ![t] = i]
  BY <1>1, <1>2, AtBusy
<1>. QED  BY <1>1, <1>2, <1>4, <1>5, <1>6, MoveStep

\* A run that fails inside execute() without a new checkpoint.
LEMMA FailInside ==
  ASSUME IInv, NEW t \in Tasks, NEW i \in Slots, run[t][i].pc \in Executing,
         NEW b \in BOOLEAN,
         task' = [task EXCEPT ![t].status = "failed", ![t].resumable = b],
         End(t, i), Unregister(t), LeaveExecute(t), UNCHANGED <<ckpt, timers>>
  PROVE  IInv'
<1>. DEFINE r == [task[t] EXCEPT !.status = "failed", !.resumable = b]
<1>1. task[t] \in Record /\ task[t].plan \notin {"pending_user", "expired"}
  BY AtBusy DEF BusyTask, BusyRecord, Executing
<1>2. r \in Record /\ r.status = "failed" /\ r.plan = task[t].plan
  BY <1>1 DEF Record, Status, Ended
<1>3. task' = [task EXCEPT ![t] = r]
  OBVIOUS
<1>. HIDE DEF r
<1>4. IdleRecord(r, ckpt[t])
  BY <1>1, <1>2 DEF IdleRecord
<1>5. ckpt[t] \in BOOLEAN /\ ckpt' = [ckpt EXCEPT ![t] = ckpt[t]]
  BY TypedAt, Unchanged DEF IInv
<1>. QED  BY <1>2, <1>3, <1>4, <1>5, EndInside

\* execute() refuses or raises: the run is closed and the task idle.
LEMMA ExecFailsStep ==
  ASSUME IInv, NEW t \in Tasks, NEW i \in Slots, ExecRefuses(t, i) \/ ExecRaises(t, i)
  PROVE  IInv'
<1>1. /\ run[t][i].pc \in Executing
      /\ End(t, i) /\ Unregister(t) /\ LeaveExecute(t) /\ UNCHANGED timers
  BY DEF ExecRefuses, ExecRaises, At, Executing
<1>2. /\ task[t] \in Record /\ task[t].plan \notin {"pending_user", "expired"}
      /\ task[t].resumable \in BOOLEAN /\ ckpt[t] \in BOOLEAN
  BY <1>1, AtBusy, TypedAt DEF BusyTask, BusyRecord, Executing, IInv, Record
<1>3. CASE SaveCheckpoint(t, Close(t, "cancelled")) \/ SaveCheckpoint(t, Close(t, "failed"))
  <2>1. PICK r \in Record, k \in BOOLEAN :
          /\ task' = [task EXCEPT ![t] = r] /\ ckpt' = [ckpt EXCEPT ![t] = k]
          /\ IdleRecord(r, k)
    BY <1>2, <1>3, SavedClosed
  <2>. QED  BY <1>1, <2>1, EndInside
<1>4. CASE /\ UNCHANGED ckpt
           /\ task' = [task EXCEPT ![t].status = "failed",
                ![t].resumable = IF Resumed(t, i) THEN ckpt[t] ELSE @]
  <2>. DEFINE b == IF Resumed(t, i) THEN ckpt[t] ELSE task[t].resumable
  <2>1. b \in BOOLEAN
    BY <1>2
  <2>2. task' = [task EXCEPT ![t].status = "failed", ![t].resumable = b]
    BY <1>4
  <2>. HIDE DEF b
  <2>. QED  BY <1>1, <1>4, <2>1, <2>2, FailInside
<1>5. CASE /\ UNCHANGED ckpt
           /\ task' = [task EXCEPT ![t].status = "failed", ![t].resumable = ckpt[t]]
  BY <1>1, <1>2, <1>5, FailInside
<1>. QED  BY <1>3, <1>4, <1>5 DEF ExecRefuses, ExecRaises

\* What the end of a path leaves, for a record that may be running.
LEMMA Finished ==
  ASSUME IInv, NEW t \in Tasks, NEW i \in Slots, run[t][i].pc # "idle", Finish(t, i),
         run[t][i].pc \in Executing \cup Reflecting \cup {"gen"}
  PROVE  \E r \in Record, k \in BOOLEAN :
           /\ task' = [task EXCEPT ![t] = r] /\ ckpt' = [ckpt EXCEPT ![t] = k]
           /\ IdleRecord(r, k)
<1>1. /\ task[t] \in Record /\ ckpt[t] \in BOOLEAN
      /\ BusyRecord(task[t], ckpt[t], run[t][i])
      /\ task = [task EXCEPT ![t] = task[t]] /\ ckpt = [ckpt EXCEPT ![t] = ckpt[t]]
  BY AtBusy, TypedAt DEF BusyTask, IInv
<1>2. CASE Completes(t)
  <2>. DEFINE b == IF Resumed(t, i) THEN FALSE ELSE task[t].resumable
              r == [task[t] EXCEPT !.status = "completed", !.resumable = b]
              k == IF Resumed(t, i) THEN FALSE ELSE ckpt[t]
  <2>1. r \in Record /\ r.status = "completed" /\ r.plan = task[t].plan
    BY <1>1 DEF Record, Status, Ended
  <2>2. task' = [task EXCEPT ![t] = r] /\ ckpt' = [ckpt EXCEPT ![t] = k]
    BY <1>1, <1>2 DEF Finish
  <2>. HIDE DEF r
  <2>3. k \in BOOLEAN /\ IdleRecord(r, k)
    BY <1>1, <2>1 DEF IdleRecord, BusyRecord
  <2>. QED  BY <2>1, <2>2, <2>3
<1>3. CASE ~Completes(t)
  <2>1. IdleRecord(task[t], ckpt[t])
    BY <1>1, <1>3 DEF Completes, BusyRecord, IdleRecord
  <2>2. task' = [task EXCEPT ![t] = task[t]] /\ ckpt' = [ckpt EXCEPT ![t] = ckpt[t]]
    BY <1>1, <1>3 DEF Finish
  <2>. QED  BY <1>1, <2>1, <2>2
<1>. QED  BY <1>2, <1>3

\* execute() succeeds: the run ends or goes on to reflect.
LEMMA ExecSucceedsStep ==
  ASSUME IInv, NEW t \in Tasks, NEW i \in Slots,
         ExecSucceedsOff(t, i) \/ ExecSucceedsReflect(t, i)
  PROVE  IInv'
<1>1. run[t][i].pc = "review" /\ LeaveExecute(t) /\ UNCHANGED timers
  BY DEF ExecSucceedsOff, ExecSucceedsReflect, At
<1>2. CASE Finish(t, i) /\ Unregister(t)
  <2>1. PICK r \in Record, k \in BOOLEAN :
          /\ task' = [task EXCEPT ![t] = r] /\ ckpt' = [ckpt EXCEPT ![t] = k]
          /\ IdleRecord(r, k)
    BY <1>1, <1>2, Finished DEF Executing
  <2>2. run[t][i].pc \in Executing /\ End(t, i)
    BY <1>1, <1>2 DEF Executing, Finish
  <2>. QED  BY <1>1, <1>2, <2>1, <2>2, EndInside
<1>3. ASSUME NEW p \in {"final", "eval"}, Goto(t, i, p), UNCHANGED <<task, ckpt>>,
             IF Resumed(t, i) THEN Unregister(t) ELSE UNCHANGED handle
      PROVE  IInv'
  <2>. DEFINE c == [run[t][i] EXCEPT !.pc = p]
              h == IF Resumed(t, i) THEN NoSlot ELSE i
  <2>1. BusyTask(t, i) /\ handle[t] = i
    BY <1>1, AtBusy DEF BusyTask, Unreachable, InExecute, Executing
  <2>2. c.pc = p /\ c.resumed = run[t][i].resumed /\ c.killed = run[t][i].killed
    BY <1>1, AtBusy DEF Coroutine
  <2>3. BusyRecord(task[t], ckpt[t], c)
    BY <1>1, <2>1, <2>2 DEF BusyTask, BusyRecord, Away, Scheduled, Executing, Reflecting
  <2>4. p \in Pc \ {"idle"} /\ p \notin Executing
    BY DEF Pc, Executing, Reflecting
  <2>5. /\ task' = [task EXCEPT ![t] = task[t]] /\ task[t] \in Record
        /\ handle' = [handle EXCEPT ![t] = h] /\ orch' = [orch EXCEPT ![t] = NoSlot]
    BY <1>1, <1>3, <2>1, AtBusy DEF Unregister, LeaveExecute
  <2>6. h \in Slots \cup {NoSlot} /\ (h = i \/ Resumed(t, i))
    OBVIOUS
  <2>. HIDE DEF h
  <2>. QED  BY <1>1, <1>3, <2>1, <2>3, <2>4, <2>5, <2>6, MoveStep
<1>4. CASE ExecSucceedsOff(t, i)
  BY <1>2, <1>4 DEF ExecSucceedsOff
<1>5. CASE ExecSucceedsReflect(t, i)
  BY <1>3, <1>5 DEF ExecSucceedsReflect
<1>. QED  BY <1>4, <1>5

\* What a step of the loop leaves of the coroutine.
LEMMA ReflectMoves ==
  ASSUME TypeOK, NEW t \in Tasks, NEW i \in Slots,
         GenerateDone(t, i) \/ EvaluateDone(t, i) \/ ImproveDone(t, i)
  PROVE  \E c \in Coroutine :
           /\ c.pc \in {"eval", "improve", "final"}
           /\ c.resumed = run[t][i].resumed /\ c.killed = run[t][i].killed
           /\ run' = [run EXCEPT ![t][i] = c]
<1>1. run[t][i] \in Coroutine
  BY TypedAt
<1>2. CASE \E p \in {"eval", "final"} : Goto(t, i, p)
  <2>1. PICK p \in {"eval", "final"} : Goto(t, i, p)
    BY <1>2
  <2>. DEFINE c == [run[t][i] EXCEPT !.pc = p]
  <2>2. c \in Coroutine /\ c.pc = p /\ c.resumed = run[t][i].resumed
        /\ c.killed = run[t][i].killed
    BY <1>1 DEF Coroutine, Pc, Reflecting
  <2>3. run' = [run EXCEPT ![t][i] = c]
    BY <2>1 DEF Goto
  <2>. QED  BY <2>2, <2>3
<1>3. CASE ImproveDone(t, i)
  <2>. DEFINE c == [run[t][i] EXCEPT !.pc = "eval", !.iteration = @ + 1]
  <2>1. "eval" \in Pc /\ run[t][i].iteration + 1 \in Nat
    BY <1>1 DEF Coroutine, Pc, Reflecting
  <2>2. c \in Coroutine /\ c.pc = "eval" /\ c.resumed = run[t][i].resumed
        /\ c.killed = run[t][i].killed
    BY <1>1, <2>1 DEF Coroutine
  <2>3. run' = [run EXCEPT ![t][i] = c]
    BY <1>3 DEF ImproveDone
  <2>. QED  BY <2>2, <2>3
<1>4. ASSUME NEW directive \in BOOLEAN,
             run' = [run EXCEPT ![t][i].pc = "improve",
                      ![t][i].rewrites = IF directive THEN @ + 1 ELSE @]
      PROVE  \E c \in Coroutine :
               /\ c.pc = "improve"
               /\ c.resumed = run[t][i].resumed /\ c.killed = run[t][i].killed
               /\ run' = [run EXCEPT ![t][i] = c]
  <2>. DEFINE n == IF directive THEN run[t][i].rewrites + 1 ELSE run[t][i].rewrites
              c == [run[t][i] EXCEPT !.pc = "improve", !.rewrites = n]
  <2>1. "improve" \in Pc /\ n \in Nat
    BY <1>1 DEF Coroutine, Pc, Reflecting
  <2>2. c \in Coroutine /\ c.pc = "improve" /\ c.resumed = run[t][i].resumed
        /\ c.killed = run[t][i].killed
    BY <1>1, <2>1 DEF Coroutine
  <2>3. run' = [run EXCEPT ![t][i] = c]
    BY <1>4
  <2>. QED  BY <2>2, <2>3
<1>5. CASE GenerateDone(t, i)
  BY <1>2, <1>5 DEF GenerateDone
<1>6. CASE EvaluateDone(t, i)
  BY <1>2, <1>4, <1>6 DEF EvaluateDone
<1>. QED  BY <1>3, <1>5, <1>6

\* Generation and the rounds of reflection move inside the run.
LEMMA ReflectStep ==
  ASSUME IInv, NEW t \in Tasks, NEW i \in Slots,
         GenerateDone(t, i) \/ EvaluateDone(t, i) \/ ImproveDone(t, i)
  PROVE  IInv'
<1>1. /\ run[t][i].pc \in {"gen", "eval", "improve"}
      /\ UNCHANGED <<task, ckpt, handle, orch, timers>>
  BY DEF GenerateDone, EvaluateDone, ImproveDone, At
<1>2. PICK c \in Coroutine :
        /\ c.pc \in {"eval", "improve", "final"}
        /\ c.resumed = run[t][i].resumed /\ c.killed = run[t][i].killed
        /\ run' = [run EXCEPT ![t][i] = c]
  BY ReflectMoves DEF IInv
<1>. QED  BY <1>1, <1>2, MoveOutside

\* A coroutine outside execute() ends and closes the record.
LEMMA CloseOutside ==
  ASSUME IInv, NEW t \in Tasks, NEW i \in Slots,
         run[t][i].pc \in {"gen"} \cup Reflecting,
         NEW s \in {"cancelled", "failed"}, task' = [task EXCEPT ![t].status = s],
         End(t, i), LeaveAfterwards(t, i), UNCHANGED <<ckpt, orch, timers>>
  PROVE  IInv'
<1>. DEFINE r == [task[t] EXCEPT !.status = s]
<1>1. run[t][i].pc # "idle" /\ run[t][i].pc \notin Executing
  BY DEF Executing, Reflecting
<1>2. task[t] \in Record /\ task[t].plan \notin {"pending_user", "expired"}
  BY <1>1, AtBusy DEF BusyTask, BusyRecord
<1>3. r \in Record /\ r.status = s /\ r.plan = task[t].plan
  BY <1>2 DEF Record, Status, Ended
<1>4. task' = [task EXCEPT ![t] = r]
  OBVIOUS
<1>. HIDE DEF r
<1>5. IdleRecord(r, ckpt[t])
  BY <1>2, <1>3 DEF IdleRecord
<1>6. ckpt[t] \in BOOLEAN /\ ckpt' = [ckpt EXCEPT ![t] = ckpt[t]]
  BY TypedAt, Unchanged DEF IInv
<1>7. \E h \in Slots \cup {NoSlot} : handle' = [handle EXCEPT ![t] = h]
  BY Unregistered
<1>. QED  BY <1>1, <1>3, <1>4, <1>5, <1>6, <1>7, EndOutside

\* A coroutine outside execute() ends as every path does.
LEMMA FinishOutside ==
  ASSUME IInv, NEW t \in Tasks, NEW i \in Slots,
         run[t][i].pc \in {"gen"} \cup Reflecting,
         Finish(t, i), LeaveAfterwards(t, i), UNCHANGED <<orch, timers>>
  PROVE  IInv'
<1>1. run[t][i].pc # "idle" /\ run[t][i].pc \notin Executing
  BY DEF Executing, Reflecting
<1>2. PICK r \in Record, k \in BOOLEAN :
        /\ task' = [task EXCEPT ![t] = r] /\ ckpt' = [ckpt EXCEPT ![t] = k]
        /\ IdleRecord(r, k)
  BY <1>1, Finished
<1>3. \E h \in Slots \cup {NoSlot} : handle' = [handle EXCEPT ![t] = h]
  BY Unregistered
<1>4. End(t, i)
  BY DEF Finish
<1>. QED  BY <1>1, <1>2, <1>3, <1>4, EndOutside

\* Every end of a run outside execute().
LEMMA LoopEndsStep ==
  ASSUME IInv, NEW t \in Tasks, NEW i \in Slots,
         StopAtCheck(t, i) \/ FinalizeDone(t, i) \/ StepRaises(t, i)
  PROVE  IInv'
<1>1. /\ run[t][i].pc \in {"gen"} \cup Reflecting
      /\ LeaveAfterwards(t, i) /\ UNCHANGED <<orch, timers>>
  BY DEF StopAtCheck, FinalizeDone, StepRaises, At, Reflecting
<1>2. CASE Finish(t, i)
  BY <1>1, <1>2, FinishOutside
<1>3. CASE StopAtCheck(t, i)
  BY <1>1, <1>3, CloseOutside DEF StopAtCheck
<1>4. CASE /\ task' = [task EXCEPT ![t].status = "failed"]
           /\ End(t, i) /\ UNCHANGED ckpt
  BY <1>1, <1>4, CloseOutside
<1>. QED  BY <1>2, <1>3, <1>4 DEF FinalizeDone, StepRaises

-----------------------------------------------------------------------------
(* Interruption and restart *)

\* Before its first step, or drafting, a coroutine leaves the record as it is.
LEMMA DropStep ==
  ASSUME IInv, NEW t \in Tasks, NEW i \in Slots,
         DropUnentered(t, i) \/ AbandonDraft(t, i), End(t, i), UNCHANGED timers
  PROVE  IInv'
<1>1. /\ run[t][i].pc \in Scheduled \cup {"draft"} /\ UNCHANGED <<task, ckpt, orch>>
      /\ UNCHANGED handle \/ UnregisterOwn(t, i)
  BY DEF DropUnentered, AbandonDraft
<1>2. run[t][i].pc # "idle" /\ run[t][i].pc \notin Executing
  BY <1>1 DEF Scheduled, Executing
<1>3. /\ task[t] \in Record /\ BusyRecord(task[t], ckpt[t], run[t][i])
      /\ task' = [task EXCEPT ![t] = task[t]] /\ ckpt' = [ckpt EXCEPT ![t] = ckpt[t]]
      /\ ckpt[t] \in BOOLEAN
      /\ handle[t] \in Slots \cup {NoSlot} /\ handle = [handle EXCEPT ![t] = handle[t]]
  BY <1>1, <1>2, AtBusy, TypedAt DEF BusyTask, IInv
<1>4. IdleRecord(task[t], ckpt[t])
  BY <1>1, <1>3 DEF BusyRecord, IdleRecord
<1>5. \E h \in Slots \cup {NoSlot} : handle' = [handle EXCEPT ![t] = h]
  BY <1>1, <1>3, Unregistered
<1>. QED  BY <1>1, <1>2, <1>3, <1>4, <1>5, EndOutside

\* CancelledError in a fresh run closes the record unless a rejection has.
LEMMA AbortFreshStep ==
  ASSUME IInv, NEW t \in Tasks, NEW i \in Slots,
         AbortFresh(t, i), End(t, i), UNCHANGED timers
  PROVE  IInv'
<1>. DEFINE closed == [Close(t, "cancelled") EXCEPT !.resumable = task[t].path = "company"]
            r == IF Closable(t) THEN closed ELSE task[t]
<1>1. run[t][i].pc # "idle" /\ Unregister(t)
  BY DEF AbortFresh, Executing, Reflecting
<1>2. /\ task[t] \in Record /\ BusyRecord(task[t], ckpt[t], run[t][i])
      /\ task = [task EXCEPT ![t] = task[t]]
  BY <1>1, AtBusy DEF BusyTask
<1>3. closed \in Record /\ closed.status = "cancelled" /\ closed.plan = task[t].plan
  BY <1>2 DEF Close, Record, Status, Ended
<1>4. /\ r \in Record /\ r.status \notin {"none", "running", "expired"}
      /\ r.plan \notin {"pending_user", "expired"}
  BY <1>2, <1>3 DEF BusyRecord, Closable
<1>5. CASE InExecute(t, i)
  <2>1. SaveCheckpoint(t, r) /\ LeaveExecute(t)
    BY <1>5 DEF AbortFresh
  <2>. HIDE DEF r
  <2>2. PICK r1 \in Record, k \in BOOLEAN :
          /\ task' = [task EXCEPT ![t] = r1] /\ ckpt' = [ckpt EXCEPT ![t] = k]
          /\ IdleRecord(r1, k)
    BY <1>4, <2>1, Saved, Zenon
  <2>. QED  BY <1>1, <1>5, <2>1, <2>2, EndInside DEF InExecute
<1>6. CASE ~InExecute(t, i)
  <2>1. /\ task' = IF Closable(t) THEN [task EXCEPT ![t] = closed] ELSE task
        /\ UNCHANGED <<ckpt, orch>>
    BY <1>6 DEF AbortFresh
  <2>2. task' = [task EXCEPT ![t] = r]
    BY <1>2, <2>1
  <2>. HIDE DEF r
  <2>3. IdleRecord(r, ckpt[t])
    BY <1>4 DEF IdleRecord
  <2>4. \E h \in Slots \cup {NoSlot} : handle' = [handle EXCEPT ![t] = h]
    BY <1>1, Unregistered
  <2>5. ckpt[t] \in BOOLEAN /\ ckpt' = [ckpt EXCEPT ![t] = ckpt[t]]
    BY <2>1, TypedAt, Unchanged DEF IInv
  <2>. QED  BY <1>1, <1>4, <1>6, <2>1, <2>2, <2>3, <2>4, <2>5, EndOutside DEF InExecute
<1>. QED  BY <1>5, <1>6

\* CancelledError in a resumed run, inside execute().
LEMMA AbortResumedStep ==
  ASSUME IInv, NEW t \in Tasks, NEW i \in Slots,
         AbortResumed(t, i), End(t, i), UNCHANGED timers
  PROVE  IInv'
<1>. DEFINE closed == [task[t] EXCEPT !.status = "cancelled", !.resumable = TRUE]
            r == IF Closable(t) THEN closed ELSE task[t]
<1>1. /\ run[t][i].pc \in Executing /\ run[t][i].pc # "idle"
      /\ Unregister(t) /\ LeaveExecute(t) /\ UNCHANGED ckpt
  BY DEF AbortResumed, InExecute, Executing
<1>2. /\ task[t] \in Record /\ BusyRecord(task[t], ckpt[t], run[t][i])
      /\ task = [task EXCEPT ![t] = task[t]]
      /\ ckpt[t] \in BOOLEAN /\ ckpt' = [ckpt EXCEPT ![t] = ckpt[t]]
  BY <1>1, AtBusy, TypedAt DEF BusyTask, IInv
<1>3. closed \in Record /\ closed.status = "cancelled" /\ closed.plan = task[t].plan
  BY <1>2 DEF Record, Status, Ended
<1>4. r \in Record /\ IdleRecord(r, ckpt[t])
  BY <1>2, <1>3 DEF BusyRecord, IdleRecord, Closable
<1>5. task' = [task EXCEPT ![t] = r]
  BY <1>2 DEF AbortResumed
<1>. HIDE DEF r
<1>. QED  BY <1>1, <1>2, <1>4, <1>5, EndInside

\* CancelledError, wherever it is delivered.
LEMMA InterruptStep ==
  ASSUME IInv, NEW t \in Tasks, NEW i \in Slots, Interrupt(t, i)
  PROVE  IInv'
<1>1. End(t, i) /\ UNCHANGED timers
  BY DEF Interrupt
<1>2. CASE DropUnentered(t, i) \/ AbandonDraft(t, i)
  BY <1>1, <1>2, DropStep
<1>3. CASE AbortFresh(t, i)
  BY <1>1, <1>3, AbortFreshStep
<1>4. CASE AbortResumed(t, i)
  BY <1>1, <1>4, AbortResumedStep
<1>. QED  BY <1>2, <1>3, <1>4 DEF Interrupt

\* After a restart every task is idle.
LEMMA RestartStep ==
  ASSUME IInv, Restart
  PROVE  IInv'
<1>1. \A t \in Tasks : task[t] \in Record /\ ckpt[t] \in BOOLEAN
  BY TypedAt DEF IInv
<1>2. ASSUME NEW t \in Tasks
      PROVE  /\ Rehydrated(t) \in Record /\ Rehydrated(t).status # "running"
             /\ Rehydrated(t).plan = task[t].plan
             /\ Rehydrated(t).status = "expired" <=> task[t].status = "expired"
             /\ Rehydrated(t).status = "none" => Rehydrated(t) = task[t]
             /\ Rehydrated(t).resumable => task[t].resumable \/ ckpt[t]
  BY <1>1 DEF Rehydrated, Record, Status, Ended
<1>3. /\ task' = [t \in Tasks |-> Rehydrated(t)]
      /\ run' = [t \in Tasks |-> [i \in Slots |-> Idle]]
      /\ handle' = [t \in Tasks |-> NoSlot]
      /\ orch' = [t \in Tasks |-> NoSlot]
      /\ timers' = [t \in Tasks |-> 0] /\ ckpt' = ckpt
  BY DEF Restart
<1>4. TypeOK'
  BY <1>2, <1>3, IdleTyped, TimersAssumption DEF TypeOK, IInv
<1>5. ASSUME NEW t \in Tasks  PROVE  TaskInv(t)'
  <2>2. IdleRecord(Rehydrated(t), ckpt[t])
    <3>1. CASE IdleTask(t)
      BY <1>1, <1>2, <3>1 DEF IdleTask, IdleRecord
    <3>2. ASSUME NEW i \in Slots, BusyTask(t, i)
          PROVE  IdleRecord(Rehydrated(t), ckpt[t])
      BY <1>2, <3>2 DEF BusyTask, BusyRecord, IdleRecord
    <3>. QED  BY <3>1, <3>2 DEF IInv, TaskInv
  <2>3. /\ task'[t] = Rehydrated(t) /\ ckpt'[t] = ckpt[t] /\ orch'[t] = NoSlot
        /\ \A i \in Slots : run'[t][i].pc = "idle"
    BY <1>3, IdleTyped
  <2>4. IdleTask(t)'
    BY <2>2, <2>3 DEF IdleTask
  <2>. QED  BY <2>4 DEF TaskInv
<1>. QED  BY <1>4, <1>5 DEF IInv

-----------------------------------------------------------------------------
(* The invariant *)

\* The invariant holds initially,
LEMMA InitInv == Init => IInv
<1>. SUFFICES ASSUME Init PROVE IInv
  OBVIOUS
<1>1. NewRecord("none", "") \in Record
  BY NewRecordTyped DEF Status
<1>2. TypeOK
  <2>1. 0 \in 0..MaxTimers
    BY TimersAssumption
  <2>2. [i \in Slots |-> Idle] \in [Slots -> Coroutine]
    BY IdleTyped
  <2>. QED  BY <1>1, <2>1, <2>2 DEF Init, TypeOK
<1>3. ASSUME NEW t \in Tasks  PROVE  TaskInv(t)
  <2>1. IdleRecord(NewRecord("none", ""), FALSE)
    BY DEF IdleRecord, NewRecord
  <2>. QED  BY <2>1, IdleTyped DEF Init, TaskInv, IdleTask
<1>. QED  BY <1>2, <1>3 DEF IInv

\* is kept by every handler,
LEMMA HandlerStep ==
  ASSUME IInv, NEW t \in Tasks, Handler(t)
  PROVE  IInv'
BY PostStep, GetTaskStep, DeadlineStep, ApproveStep, ApproveUnpaidStep,
   RejectStep, CancelStep, ResumeStep DEF Handler

\* by every stretch of a coroutine and every interruption,
LEMMA CoroutineStep ==
  ASSUME IInv, NEW t \in Tasks, NEW i \in Slots,
         Enter(t, i) \/ Advance(t, i) \/ Interrupt(t, i)
  PROVE  IInv'
<1>1. CASE Enter(t, i)
  BY <1>1, McpStartStep, DraftStartStep, RunStartStep, ResumeStartStep DEF Enter
<1>2. CASE Advance(t, i)
  BY <1>2, DraftEndStep, DraftApprovesStep, CtxDoneStep, WorkDoneStep,
     ExecFailsStep, ExecSucceedsStep, ReflectStep, LoopEndsStep DEF Advance
<1>. QED  BY <1>1, <1>2, InterruptStep

\* and by a step that changes nothing:
LEMMA StutterStep ==
  ASSUME IInv, UNCHANGED vars
  PROVE  IInv'
BY DEF vars, IInv, TypeOK, TaskInv, IdleTask, BusyTask, Unreachable, Resumed, InExecute

\* so it is inductive.
LEMMA NextInv == IInv /\ [Next]_vars => IInv'
<1>. SUFFICES ASSUME IInv, [Next]_vars  PROVE  IInv'
  OBVIOUS
<1>1. ASSUME NEW t \in Tasks, Handler(t)  PROVE  IInv'
  BY <1>1, HandlerStep
<1>2. ASSUME NEW t \in Tasks, ForceCancel(t)  PROVE  IInv'
  BY <1>2, ForceCancelStep
<1>3. ASSUME NEW t \in Tasks, NEW i \in Slots,
             Enter(t, i) \/ Advance(t, i) \/ Interrupt(t, i)
      PROVE  IInv'
  BY <1>3, CoroutineStep
<1>4. CASE Restart
  BY <1>4, RestartStep
<1>5. CASE UNCHANGED vars
  BY <1>5, StutterStep
<1>. QED  BY <1>1, <1>2, <1>3, <1>4, <1>5 DEF Next

\* Every reachable state satisfies the invariant.
THEOREM Invariance == Spec => []IInv
BY InitInv, NextInv, PTL DEF Spec

-----------------------------------------------------------------------------
(* What the invariant means *)

\* Every variable keeps its type.
THEOREM TypeCorrect == Spec => []TypeOK
<1>1. IInv => TypeOK
  BY DEF IInv
<1>. QED  BY <1>1, Invariance, PTL

\* The budget gate of execution_gate.py: whichever way a run is started, its
\* seats execute only behind a plan the user has locked.
THEOREM RunsOnlyApproved == Spec => []ApprovedExecution
<1>1. IInv => ApprovedExecution
  BY BusyAt DEF ApprovedExecution, InExecute, Executing, BusyTask, BusyRecord
<1>. QED  BY <1>1, Invariance, PTL

\* A task never has two coroutines at work, although resume_task and start_task
\* look at the record only and never at _running_tasks.
THEOREM OneCoroutine == Spec => []SingleRunner
<1>1. IInv => SingleRunner
  BY BusyAt DEF SingleRunner, Live, BusyTask
<1>. QED  BY <1>1, Invariance, PTL

\* The coroutine of a task is the one _running_tasks holds, so that reject and
\* the fuse reach it, except in the places Unreachable names.
THEOREM RegisteredCoroutine == Spec => []RunnersReachable
<1>1. IInv => RunnersReachable
  BY BusyAt DEF RunnersReachable, Live, BusyTask
<1>. QED  BY <1>1, Invariance, PTL

\* _orchestrators holds the orchestrator of exactly the coroutine that is
\* inside execute().
THEOREM RegisteredOrchestrator == Spec => []OrchestratorOwned
<1>1. ASSUME IInv, NEW t \in Tasks, NEW i \in Slots
      PROVE  orch[t] = i <=> InExecute(t, i)
  <2>1. CASE IdleTask(t)
    BY <2>1, SlotsAssumption DEF IdleTask, InExecute, Executing
  <2>2. ASSUME NEW j \in Slots, BusyTask(t, j)
        PROVE  orch[t] = i <=> InExecute(t, i)
    BY <2>2, SlotsAssumption DEF BusyTask, InExecute, Executing
  <2>. QED  BY <1>1, <2>1, <2>2 DEF IInv, TaskInv
<1>2. IInv => OrchestratorOwned
  BY <1>1 DEF OrchestratorOwned
<1>. QED  BY <1>2, Invariance, PTL

\* No exit path of a run, restart included, leaves a task running that nothing
\* will close, unless a cancel is pending.
THEOREM RunningHasCoroutine == Spec => []NoOrphanedRun
<1>1. IInv => NoOrphanedRun
  BY DEF NoOrphanedRun, IInv, TaskInv, IdleTask, IdleRecord, BusyTask, Live
<1>. QED  BY <1>1, Invariance, PTL

\* A run resumed from a checkpoint does not lose it before the task completes.
THEOREM ResumedHasCheckpoint == Spec => []ResumedFromCheckpoint
<1>1. IInv => ResumedFromCheckpoint
  BY BusyAt DEF ResumedFromCheckpoint, Live, Resumed, BusyTask, BusyRecord
<1>. QED  BY <1>1, Invariance, PTL

-----------------------------------------------------------------------------
(* What a step never does *)

PlanKept(t) ==
  /\ task[t].plan \in {"rejected", "expired"} => task'[t].plan = task[t].plan
  /\ task[t].plan = "locked" => task'[t].plan \in {"locked", "rejected"}

OutcomeKept(t) ==
  LET s == task[t].status  s1 == task'[t].status
  IN  /\ s \in {"completed", "expired"} => s1 = s
      /\ s \in {"failed", "cancelled"} => s1 \in {s, "pending"}
      /\ s = "interrupted" => s1 \in {s, "pending", "rejected"}
      /\ s = "rejected" /\ Within(t) => s1 \in {s, "pending"}

Kept(t) == PlanKept(t) /\ OutcomeKept(t)

\* The shapes in which steps rewrite a record.
LEMMA SameRecordKept ==
  ASSUME NEW t \in Tasks, task'[t] = task[t]
  PROVE  Kept(t)
BY DEF Kept, PlanKept, OutcomeKept

\* A step that rewrites one record keeps the others as they are.
LEMMA OthersKept ==
  ASSUME IInv, NEW t \in Tasks, \E r : task' = [task EXCEPT ![t] = r]
  PROVE  \A u \in Tasks \ {t} : Kept(u)
<1>1. \A u \in Tasks \ {t} : task'[u] = task[u]
  BY DEF IInv, TypeOK
<1>. QED  BY <1>1, SameRecordKept

\* What is written is what is read.
LEMMA WrittenAt ==
  ASSUME IInv, NEW t \in Tasks, NEW r, task' = [task EXCEPT ![t] = r]
  PROVE  task'[t] = r
BY DEF IInv, TypeOK

\* Handlers and the fuse.
LEMMA HandlerKeeps ==
  ASSUME IInv, NEW t \in Tasks, Handler(t) \/ ForceCancel(t)
  PROVE  (\E r : task' = [task EXCEPT ![t] = r]) /\ Kept(t)
<1>1. task = [task EXCEPT ![t] = task[t]] /\ task[t] \in Record
  BY Unchanged, TypedAt DEF IInv
<1>2. CASE PostSimple(t) \/ PostCompany(t) \/ PostUnpaid(t) \/ McpSubmit(t)
  <2>1. task[t].status = "none"
    BY <1>2 DEF PostSimple, PostCompany, PostUnpaid, McpSubmit
  <2>2. task[t].plan = "none"
    BY <2>1, IdleAt DEF IdleTask, IdleRecord
  <2>3. \E r : task' = [task EXCEPT ![t] = r]
    BY <1>2 DEF PostSimple, PostCompany, PostUnpaid, McpSubmit, Start, Schedule
  <2>. QED  BY <2>1, <2>2, <2>3 DEF Kept, PlanKept, OutcomeKept
<1>3. CASE GetTask(t)
  <2>1. task' = [task EXCEPT ![t] = Seen(t)] /\ ExpireDue(t)
    BY <1>3 DEF GetTask
  <2>2. /\ task[t].plan = "pending_user"
        /\ task[t].status \in {"awaiting_confirmation", "pending"}
    BY <2>1 DEF ExpireDue
  <2>. QED  BY <2>1, <2>2 DEF Kept, PlanKept, OutcomeKept
<1>4. CASE DeadlinePasses(t)
  <2>. DEFINE r == [task[t] EXCEPT !.deadline = "past"]
  <2>1. task' = [task EXCEPT ![t] = r]
    BY <1>4 DEF DeadlinePasses
  <2>2. task'[t] = r
    BY <2>1, WrittenAt
  <2>3. task'[t].status = task[t].status /\ task'[t].plan = task[t].plan
    BY <1>1, <2>2 DEF Record
  <2>. QED  BY <2>1, <2>3 DEF Kept, PlanKept, OutcomeKept
<1>5. CASE Approve(t) \/ ApproveUnpaid(t)
  <2>. DEFINE r == IF Approve(t) THEN Approved(task[t])
                                 ELSE [task[t] EXCEPT !.plan = "locked"]
  <2>1. MayApprove(t) /\ task' = [task EXCEPT ![t] = r]
    BY <1>5 DEF Approve, ApproveUnpaid, Start, Schedule
  <2>2. task'[t] = r
    BY <2>1, WrittenAt
  <2>3. task'[t].status \in {"pending", task[t].status}
    BY <1>1, <2>2 DEF Record, Approved
  <2>4. /\ task[t].plan = "pending_user"
        /\ task[t].status \notin {"completed", "expired", "rejected"}
    BY <2>1 DEF MayApprove, Undecided
  <2>. QED  BY <2>1, <2>3, <2>4 DEF Kept, PlanKept, OutcomeKept
<1>6. CASE Reject(t)
  <2>. DEFINE p == IF task[t].plan = "none" THEN "none" ELSE "rejected"
              r == [task[t] EXCEPT !.status = "rejected", !.plan = p]
  <2>1. Undecided(t) /\ task' = [task EXCEPT ![t] = r]
    BY <1>6 DEF Reject
  <2>2. task'[t] = r
    BY <2>1, WrittenAt
  <2>3. task'[t].status = "rejected" /\ task'[t].plan = p
    BY <1>1, <2>2 DEF Record
  <2>4. task[t].status \in {"awaiting_confirmation", "pending", "running", "interrupted"}
    BY <1>1, <2>1 DEF Undecided, Record, Status, Ended
  <2>5. task[t].plan # "expired"
    BY <2>4 DEF IInv, TaskInv, IdleTask, IdleRecord, BusyTask, BusyRecord
  <2>. QED  BY <2>1, <2>3, <2>4, <2>5 DEF Kept, PlanKept, OutcomeKept
<1>7. CASE RequestCancel(t)
  <2>. DEFINE r == [Seen(t) EXCEPT !.cancelReq = TRUE]
  <2>1. task' = [task EXCEPT ![t] = r]
    BY <1>7 DEF RequestCancel
  <2>2. task'[t] = r
    BY <2>1, WrittenAt
  <2>3. task'[t].status = Seen(t).status /\ task'[t].plan = Seen(t).plan
    BY <2>2, SeenAt DEF Record
  <2>4. CASE ExpireDue(t)
    BY <2>1, <2>4 DEF ExpireDue, Kept, PlanKept, OutcomeKept
  <2>5. CASE ~ExpireDue(t)
    BY <2>1, <2>3, <2>5 DEF Seen, Kept, PlanKept, OutcomeKept
  <2>. QED  BY <2>4, <2>5
<1>8. CASE MayResume(t) /\ task' = [task EXCEPT ![t] = ResumedRecord(t)]
  <2>1. task'[t] = ResumedRecord(t)
    BY <1>8, WrittenAt
  <2>2. task'[t].status = "pending" /\ task'[t].plan = Seen(t).plan
    BY <2>1, SeenAt DEF ResumedRecord, Record
  <2>3. IdleTask(t) /\ IdleRecord(task[t], ckpt[t])
    BY <1>8, SeenAt, IdleAt DEF MayResume, IdleTask
  <2>4. task[t].plan \notin {"pending_user", "expired"}
    BY <1>8, <2>3 DEF IdleRecord, MayResume
  <2>5. Seen(t) = task[t]
    BY <2>4 DEF Seen, ExpireDue
  <2>6. task[t].status \notin {"completed", "expired"}
    BY <1>8, <2>3, <2>4, <2>5 DEF MayResume, IdleRecord
  <2>. QED  BY <1>8, <2>2, <2>5, <2>6 DEF Kept, PlanKept, OutcomeKept
<1>9. CASE ForceCancel(t)
  BY <1>1, <1>9, SameRecordKept DEF ForceCancel
<1>. QED  BY <1>2, <1>3, <1>4, <1>5, <1>6, <1>7, <1>8, <1>9
          DEF Handler, Cancel, McpCancel, Resume, McpResume, Schedule

\* A step of a coroutine that does not touch the plan.
LEMMA RunKeeps ==
  ASSUME IInv, NEW t \in Tasks, NEW i \in Slots, run[t][i].pc # "idle",
         task'[t].plan = task[t].plan,
         run[t][i].killed => task'[t].status = task[t].status \/ task[t].status # "rejected"
  PROVE  Kept(t)
<1>1. BusyTask(t, i)
  BY BusyAt
<1>2. task[t].status \in {"awaiting_confirmation", "pending", "running", "rejected"}
  BY <1>1 DEF BusyTask, BusyRecord
<1>3. ASSUME task[t].status = "rejected", Within(t), task'[t].status # task[t].status
      PROVE  FALSE
  <2>1. ~Away(run[t][i])
    BY <1>3 DEF Within, Live, Unreachable, Away, Resumed, InExecute
  <2>. QED  BY <1>1, <1>3, <2>1 DEF Within, BusyTask, BusyRecord
<1>. QED  BY <1>2, <1>3 DEF Kept, PlanKept, OutcomeKept

\* What a stretch of a run may write: everything but the plan.
Rewrites(t) == \E r \in Record : task' = [task EXCEPT ![t] = r] /\ r.plan = task[t].plan

\* Not writing the record at all;
LEMMA SameRewrites ==
  ASSUME IInv, NEW t \in Tasks, UNCHANGED task
  PROVE  Rewrites(t)
BY Unchanged, TypedAt DEF Rewrites, IInv

\* writing its status and the resumable flag;
LEMMA FieldRewrites ==
  ASSUME IInv, NEW t \in Tasks, NEW s \in Status, NEW b \in BOOLEAN,
         task' = [task EXCEPT ![t].status = s, ![t].resumable = b]
  PROVE  Rewrites(t)
<1>. DEFINE r == [task[t] EXCEPT !.status = s, !.resumable = b]
<1>1. r \in Record /\ r.plan = task[t].plan
  BY TypedAt DEF Record, IInv
<1>2. task' = [task EXCEPT ![t] = r]
  OBVIOUS
<1>. QED  BY <1>1, <1>2 DEF Rewrites

\* writing its status;
LEMMA StatusRewrites ==
  ASSUME IInv, NEW t \in Tasks, NEW s \in Status,
         task' = [task EXCEPT ![t].status = s]
  PROVE  Rewrites(t)
<1>. DEFINE r == [task[t] EXCEPT !.status = s]
<1>1. r \in Record /\ r.plan = task[t].plan
  BY TypedAt DEF Record, IInv
<1>2. task' = [task EXCEPT ![t] = r]
  OBVIOUS
<1>. QED  BY <1>1, <1>2 DEF Rewrites

\* closing it with a checkpoint;
LEMMA SaveRewrites ==
  ASSUME IInv, NEW t \in Tasks, NEW c \in Record, c.plan = task[t].plan,
         SaveCheckpoint(t, c)
  PROVE  \E r \in Record : /\ task' = [task EXCEPT ![t] = r]
                           /\ r.plan = task[t].plan /\ r.status = c.status
<1>1. PICK flag \in BOOLEAN :
        task' = [task EXCEPT ![t] = [c EXCEPT !.resumable = c.resumable \/ flag]]
  BY DEF SaveCheckpoint
<1>. DEFINE r == [c EXCEPT !.resumable = c.resumable \/ flag]
<1>2. r \in Record /\ r.plan = c.plan /\ r.status = c.status
  BY DEF Record
<1>. HIDE DEF r
<1>. QED  BY <1>1, <1>2 DEF r

\* closing it as failed or cancelled with a checkpoint;
LEMMA CloseRewrites ==
  ASSUME IInv, NEW t \in Tasks, NEW s \in {"failed", "cancelled"},
         SaveCheckpoint(t, Close(t, s))
  PROVE  Rewrites(t)
<1>. DEFINE c == Close(t, s)
<1>1. c \in Record /\ c.plan = task[t].plan
  BY TypedAt DEF Close, Record, Status, Ended, IInv
<1>2. SaveCheckpoint(t, c)
  OBVIOUS
<1>. HIDE DEF c
<1>3. \E r \in Record : /\ task' = [task EXCEPT ![t] = r]
                        /\ r.plan = task[t].plan /\ r.status = c.status
  BY <1>1, <1>2, SaveRewrites, Zenon
<1>. QED  BY <1>3 DEF Rewrites

\* and the end every path has.
LEMMA FinishRewrites ==
  ASSUME IInv, NEW t \in Tasks, NEW i \in Slots, Finish(t, i)
  PROVE  Rewrites(t)
<1>. DEFINE b == IF Resumed(t, i) THEN FALSE ELSE task[t].resumable
<1>1. b \in BOOLEAN /\ "completed" \in Status
  BY TypedAt DEF IInv, Record, Status, Ended
<1>2. CASE Completes(t)
  <2>1. task' = [task EXCEPT ![t].status = "completed", ![t].resumable = b]
    BY <1>2 DEF Finish
  <2>. HIDE DEF b
  <2>. QED  BY <1>1, <2>1, FieldRewrites
<1>3. CASE ~Completes(t)
  BY <1>3, SameRewrites DEF Finish
<1>. QED  BY <1>2, <1>3

\* Outside the draft no stretch of a coroutine writes the plan.
LEMMA RunRewrites ==
  ASSUME IInv, NEW t \in Tasks, NEW i \in Slots,
         \/ Enter(t, i)
         \/ /\ Advance(t, i)
            /\ ~(DraftDone(t, i) \/ DraftRaises(t, i) \/ DraftApproves(t, i))
  PROVE  Rewrites(t)
<1>. USE DEF Status, Ended
<1>1. CASE UNCHANGED task
  BY <1>1, SameRewrites
<1>2. CASE Finish(t, i)
  BY <1>2, FinishRewrites
<1>3. CASE SaveCheckpoint(t, Close(t, "failed")) \/ SaveCheckpoint(t, Close(t, "cancelled"))
  BY <1>3, CloseRewrites
<1>4. ASSUME NEW s \in Status, task' = [task EXCEPT ![t].status = s]
      PROVE  Rewrites(t)
  BY <1>4, StatusRewrites
<1>5. ASSUME NEW s \in Status, task' = [task EXCEPT ![t].status = s, ![t].resumable = ckpt[t]]
      PROVE  Rewrites(t)
  BY <1>5, TypedAt, FieldRewrites DEF IInv
<1>6. CASE ExecRefuses(t, i)
  <2>. DEFINE b == IF Resumed(t, i) THEN ckpt[t] ELSE task[t].resumable
  <2>1. CASE task' = [task EXCEPT ![t].status = "failed", ![t].resumable = b]
    <3>1. b \in BOOLEAN
      BY TypedAt DEF IInv, Record
    <3>. HIDE DEF b
    <3>. QED  BY <2>1, <3>1, FieldRewrites
  <2>. QED  BY <1>3, <1>6, <2>1 DEF ExecRefuses
<1>7. CASE RunStart(t, i)
  <2>1. PICK p \in {"simple", "company", task[t].path} :
          task' = [task EXCEPT ![t].status = "running", ![t].path = p]
    BY <1>7 DEF RunStart
  <2>. DEFINE r == [task[t] EXCEPT !.status = "running", !.path = p]
  <2>2. r \in Record /\ r.plan = task[t].plan
    BY TypedAt DEF Record, IInv
  <2>3. task' = [task EXCEPT ![t] = r]
    BY <2>1
  <2>. QED  BY <2>2, <2>3 DEF Rewrites
<1>8. CASE ResumeStart(t, i)
  BY <1>4, <1>5, <1>8 DEF ResumeStart
<1>9. CASE ExecRaises(t, i)
  BY <1>3, <1>5, <1>9 DEF ExecRaises
<1>10. CASE CtxDone(t, i)
  BY <1>1, <1>3, <1>10 DEF CtxDone
<1>11. CASE StopAtCheck(t, i)
  BY <1>4, <1>11 DEF StopAtCheck
<1>12. CASE StepRaises(t, i)
  BY <1>2, <1>4, <1>12 DEF StepRaises
<1>13. CASE Enter(t, i)
  BY <1>1, <1>7, <1>8, <1>13 DEF Enter, McpStart, DraftStart
<1>14. CASE /\ Advance(t, i)
            /\ ~(DraftDone(t, i) \/ DraftRaises(t, i) \/ DraftApproves(t, i))
  BY <1>1, <1>2, <1>6, <1>9, <1>10, <1>11, <1>12, <1>14
     DEF Advance, WorkDone, ExecSucceedsOff, ExecSucceedsReflect,
         GenerateDone, EvaluateDone, ImproveDone, FinalizeDone
<1>. QED  BY <1>13, <1>14

\* A coroutine that goes on: the draft writes the plan, but finds it absent; a
\* run that goes on was not killed, so the rejection did not reach it.
LEMMA AdvanceKeeps ==
  ASSUME IInv, NEW t \in Tasks, NEW i \in Slots, Enter(t, i) \/ Advance(t, i)
  PROVE  (\E r : task' = [task EXCEPT ![t] = r]) /\ Kept(t)
<1>1. run[t][i].pc # "idle" /\ ~run[t][i].killed
  BY DEF Enter, McpStart, DraftStart, RunStart, ResumeStart, Advance,
         DraftDone, DraftRaises, DraftApproves, CtxDone, WorkDone, ExecRefuses,
         ExecRaises, ExecSucceedsOff, ExecSucceedsReflect, StopAtCheck,
         GenerateDone, EvaluateDone, ImproveDone, FinalizeDone, StepRaises,
         At, Executing, Reflecting
<1>2. CASE Rewrites(t)
  <2>1. PICK r \in Record : task' = [task EXCEPT ![t] = r] /\ r.plan = task[t].plan
    BY <1>2 DEF Rewrites
  <2>2. task'[t].plan = task[t].plan
    BY <2>1, WrittenAt
  <2>. QED  BY <1>1, <2>1, <2>2, RunKeeps
<1>3. CASE DraftDone(t, i) \/ DraftRaises(t, i) \/ DraftApproves(t, i)
  <2>1. run[t][i].pc = "draft" /\ \E r : task' = [task EXCEPT ![t] = r]
    BY <1>3 DEF DraftDone, DraftRaises, DraftApproves, At
  <2>2. BusyTask(t, i) /\ ~run[t][i].resumed
    BY <1>1, <2>1, BusyAt, NotResumed
  <2>3. /\ task[t].plan = "none"
        /\ task[t].status \in {"awaiting_confirmation", "pending", "running", "rejected"}
    BY <2>1, <2>2 DEF BusyTask, BusyRecord
  <2>4. ~(task[t].status = "rejected" /\ Within(t))
    BY <1>1, <2>1, <2>2 DEF BusyTask, BusyRecord, Away, Within
  <2>. QED  BY <2>1, <2>3, <2>4 DEF Kept, PlanKept, OutcomeKept
<1>. QED  BY <1>2, <1>3, RunRewrites

\* An interrupted coroutine closes only a record that is still open.
LEMMA InterruptKeeps ==
  ASSUME IInv, NEW t \in Tasks, NEW i \in Slots, Interrupt(t, i)
  PROVE  (\E r : task' = [task EXCEPT ![t] = r]) /\ Kept(t)
<1>1. run[t][i].pc # "idle" /\ run[t][i].killed
  BY DEF Interrupt, Live
<1>2. task[t] \in Record /\ task = [task EXCEPT ![t] = task[t]]
  BY TypedAt, Unchanged DEF IInv
<1>3. CASE UNCHANGED task
  BY <1>2, <1>3, SameRecordKept
<1>4. ASSUME NEW r \in Record, task' = [task EXCEPT ![t] = r],
             r.plan = task[t].plan, r.status = task[t].status \/ Closable(t)
      PROVE  (\E q : task' = [task EXCEPT ![t] = q]) /\ Kept(t)
  <2>1. task'[t] = r
    BY <1>4, WrittenAt
  <2>. QED  BY <1>1, <1>4, <2>1, RunKeeps DEF Closable
<1>5. CASE AbortFresh(t, i)
  <2>. DEFINE closed == [Close(t, "cancelled") EXCEPT !.resumable = task[t].path = "company"]
              c == IF Closable(t) THEN closed ELSE task[t]
  <2>1. closed \in Record /\ closed.plan = task[t].plan
    BY <1>2 DEF Close, Record, Status, Ended
  <2>2. /\ c \in Record /\ c.plan = task[t].plan
        /\ c.status = task[t].status \/ Closable(t)
    BY <1>2, <2>1
  <2>3. CASE InExecute(t, i)
    <3>1. SaveCheckpoint(t, c)
      BY <1>5, <2>3 DEF AbortFresh
    <3>. HIDE DEF c
    <3>2. \E r \in Record : /\ task' = [task EXCEPT ![t] = r]
                            /\ r.plan = task[t].plan /\ r.status = c.status
      BY <2>2, <3>1, SaveRewrites, Zenon
    <3>. QED  BY <1>4, <2>2, <3>2
  <2>4. CASE ~InExecute(t, i)
    <3>1. task' = [task EXCEPT ![t] = c]
      BY <1>2, <1>5, <2>4 DEF AbortFresh
    <3>. HIDE DEF c
    <3>. QED  BY <1>4, <2>2, <3>1
  <2>. QED  BY <2>3, <2>4
<1>6. CASE AbortResumed(t, i)
  <2>. DEFINE closed == [task[t] EXCEPT !.status = "cancelled", !.resumable = TRUE]
              c == IF Closable(t) THEN closed ELSE task[t]
  <2>1. closed \in Record /\ closed.plan = task[t].plan
    BY <1>2 DEF Record, Status, Ended
  <2>2. /\ c \in Record /\ c.plan = task[t].plan
        /\ c.status = task[t].status \/ Closable(t)
    BY <1>2, <2>1
  <2>3. task' = [task EXCEPT ![t] = c]
    BY <1>2, <1>6 DEF AbortResumed
  <2>. HIDE DEF c
  <2>. QED  BY <1>4, <2>2, <2>3
<1>. QED  BY <1>3, <1>5, <1>6 DEF Interrupt, DropUnentered, AbandonDraft

\* So does rehydrate().
LEMMA RestartKeeps ==
  ASSUME IInv, Restart, NEW t \in Tasks
  PROVE  Kept(t)
<1>1. task'[t] = Rehydrated(t) /\ task[t] \in Record
  BY TypedAt DEF Restart, IInv
<1>2. task'[t].plan = task[t].plan
  BY <1>1 DEF Rehydrated, Record
<1>3. \/ task'[t].status = task[t].status
      \/ task[t].status \in {"pending", "running"}
  BY <1>1 DEF Rehydrated
<1>. QED  BY <1>2, <1>3 DEF Kept, PlanKept, OutcomeKept

\* Every step keeps what was decided about every task.
LEMMA NextKeeps ==
  ASSUME IInv, Next
  PROVE  \A t \in Tasks : Kept(t)
<1>1. CASE Restart
  BY <1>1, RestartKeeps
<1>2. ASSUME NEW t \in Tasks, (\E r : task' = [task EXCEPT ![t] = r]) /\ Kept(t)
      PROVE  \A u \in Tasks : Kept(u)
  BY <1>2, OthersKept
<1>3. ASSUME NEW t \in Tasks, Handler(t) \/ ForceCancel(t)
      PROVE  \A u \in Tasks : Kept(u)
  BY <1>2, <1>3, HandlerKeeps
<1>4. ASSUME NEW t \in Tasks, NEW i \in Slots,
             Enter(t, i) \/ Advance(t, i) \/ Interrupt(t, i)
      PROVE  \A u \in Tasks : Kept(u)
  BY <1>2, <1>4, AdvanceKeeps, InterruptKeeps
<1>. QED  BY <1>1, <1>3, <1>4 DEF Next

\* A decided plan stays decided (PlanDecisionFinal).
THEOREM DecisionsStand == Spec => PlanDecisionFinal
<1>1. IInv /\ [Next]_vars =>
        [\A t \in Tasks :
           /\ task[t].plan \in {"rejected", "expired"} => task'[t].plan = task[t].plan
           /\ task[t].plan = "locked" => task'[t].plan \in {"locked", "rejected"}]_vars
  BY NextKeeps DEF Kept, PlanKept
<1>. QED  BY <1>1, Invariance, PTL DEF Spec, PlanDecisionFinal

\* No late coroutine overwrites an outcome (OutcomesFinal).
THEOREM OutcomesStand == Spec => OutcomesFinal
<1>1. IInv /\ [Next]_vars => [\A t \in Tasks : OutcomeKept(t)]_vars
  BY NextKeeps DEF Kept
<1>2. Spec => [][\A t \in Tasks : OutcomeKept(t)]_vars
  BY <1>1, Invariance, PTL DEF Spec
<1>. QED  BY <1>2 DEF OutcomesFinal, OutcomeKept

-----------------------------------------------------------------------------
(* The limit of the reflection loop *)

\* A round was entered below one of the two limits: with a length directive,
\* or after fewer than MaxIterations rounds.
BoundedLoop(c) ==
  /\ c.rewrites <= MaxRewrites
  /\ c.iteration <= MaxIterations + c.rewrites
  /\ c.pc = "improve" => c.iteration < MaxIterations + c.rewrites

\* No run makes more rounds than its two limits allow together.
RoundsBounded == \A t \in Tasks, i \in Slots : BoundedLoop(run[t][i])

\* A coroutine that has made no round is within the limits.
LEMMA NewBounded ==
  ASSUME NEW p \in Pc \ {"improve"}
  PROVE  BoundedLoop(NewCoroutine(p))
BY LoopAssumption DEF BoundedLoop, NewCoroutine

\* So are those of a task whose one coroutine changes to a bounded one.
LEMMA BoundedChange ==
  ASSUME TypeOK, RoundsBounded, NEW t \in Tasks, NEW i \in Slots, NEW c,
         BoundedLoop(c), run' = [run EXCEPT ![t][i] = c]
  PROVE  RoundsBounded'
<1>1. ASSUME NEW u \in Tasks, NEW j \in Slots
      PROVE  BoundedLoop(run'[u][j])
  <2>1. run'[u][j] = IF u = t /\ j = i THEN c ELSE run[u][j]
    BY DEF TypeOK
  <2>. QED  BY <2>1 DEF RoundsBounded
<1>2. ASSUME NEW u \in Tasks, NEW j \in Slots
      PROVE  BoundedLoop(run[u][j])'
  BY <1>1 DEF BoundedLoop
<1>. QED  BY <1>2 DEF RoundsBounded

\* A step that starts a coroutine, ends one, or moves one outside the loop.
LEMMA BoundedMove ==
  ASSUME TypeOK, RoundsBounded, NEW t \in Tasks, NEW i \in Slots,
         \/ \E p \in Scheduled : run' = [run EXCEPT ![t][i] = NewCoroutine(p)]
         \/ End(t, i)
         \/ \E p \in Pc \ {"improve"} : Goto(t, i, p)
  PROVE  RoundsBounded'
<1>1. run[t][i] \in Coroutine /\ BoundedLoop(run[t][i])
  BY DEF TypeOK, RoundsBounded
<1>2. ASSUME NEW p \in Scheduled, run' = [run EXCEPT ![t][i] = NewCoroutine(p)]
      PROVE  RoundsBounded'
  BY <1>2, NewBounded, BoundedChange DEF Scheduled, Pc
<1>3. CASE End(t, i)
  BY <1>3, NewBounded, BoundedChange DEF End, Idle, Pc
<1>4. ASSUME NEW p \in Pc \ {"improve"}, Goto(t, i, p)
      PROVE  RoundsBounded'
  <2>. DEFINE c == [run[t][i] EXCEPT !.pc = p]
  <2>1. BoundedLoop(c)
    BY <1>1 DEF BoundedLoop, Coroutine
  <2>2. run' = [run EXCEPT ![t][i] = c]
    BY <1>4 DEF Goto
  <2>. HIDE DEF c
  <2>. QED  BY <2>1, <2>2, BoundedChange
<1>. QED  BY <1>2, <1>3, <1>4

\* A step that tells a coroutine to stop.
LEMMA BoundedSignal ==
  ASSUME TypeOK, RoundsBounded, NEW t \in Tasks, NEW i \in Slots \cup {NoSlot},
         \/ run' = run
         \/ i # NoSlot /\ run' = [run EXCEPT ![t][i].killed = TRUE]
         \/ i # NoSlot /\ run' = [run EXCEPT ![t][i].stop = TRUE]
  PROVE  RoundsBounded'
<1>1. CASE run' = run
  BY <1>1 DEF RoundsBounded, BoundedLoop
<1>2. ASSUME i # NoSlot, NEW c, run' = [run EXCEPT ![t][i] = c],
             c.pc = run[t][i].pc, c.iteration = run[t][i].iteration,
             c.rewrites = run[t][i].rewrites
      PROVE  RoundsBounded'
  BY <1>2, BoundedChange DEF RoundsBounded, BoundedLoop
<1>3. i # NoSlot => run[t][i] \in Coroutine
  BY DEF TypeOK
<1>4. CASE i # NoSlot /\ run' = [run EXCEPT ![t][i].killed = TRUE]
  <2>. DEFINE c == [run[t][i] EXCEPT !.killed = TRUE]
  <2>1. /\ run' = [run EXCEPT ![t][i] = c] /\ c.pc = run[t][i].pc
        /\ c.iteration = run[t][i].iteration /\ c.rewrites = run[t][i].rewrites
    BY <1>3, <1>4 DEF Coroutine
  <2>. HIDE DEF c
  <2>. QED  BY <1>2, <1>4, <2>1
<1>5. CASE i # NoSlot /\ run' = [run EXCEPT ![t][i].stop = TRUE]
  <2>. DEFINE c == [run[t][i] EXCEPT !.stop = TRUE]
  <2>1. /\ run' = [run EXCEPT ![t][i] = c] /\ c.pc = run[t][i].pc
        /\ c.iteration = run[t][i].iteration /\ c.rewrites = run[t][i].rewrites
    BY <1>3, <1>5 DEF Coroutine
  <2>. HIDE DEF c
  <2>. QED  BY <1>2, <1>5, <2>1
<1>. QED  BY <1>1, <1>4, <1>5

\* A step of the loop: a round is entered within the limits, and counted.
LEMMA BoundedRound ==
  ASSUME TypeOK, RoundsBounded, NEW t \in Tasks, NEW i \in Slots,
         EvaluateDone(t, i) \/ ImproveDone(t, i)
  PROVE  RoundsBounded'
<1>1. /\ run[t][i] \in Coroutine /\ BoundedLoop(run[t][i])
      /\ run[t][i].iteration \in Nat /\ run[t][i].rewrites \in Nat
  BY DEF TypeOK, RoundsBounded, Coroutine
<1>2. CASE ImproveDone(t, i)
  <2>. DEFINE c == [run[t][i] EXCEPT !.pc = "eval", !.iteration = @ + 1]
  <2>1. BoundedLoop(c)
    BY <1>1, <1>2, LoopAssumption DEF BoundedLoop, Coroutine, ImproveDone, At
  <2>2. run' = [run EXCEPT ![t][i] = c]
    BY <1>2 DEF ImproveDone
  <2>. HIDE DEF c
  <2>. QED  BY <2>1, <2>2, BoundedChange
<1>3. CASE Goto(t, i, "final")
  BY <1>3, BoundedMove DEF Pc, Reflecting
<1>4. ASSUME NEW directive \in BOOLEAN, GoesOn(t, i, directive),
             run' = [run EXCEPT ![t][i].pc = "improve",
                      ![t][i].rewrites = IF directive THEN @ + 1 ELSE @]
      PROVE  RoundsBounded'
  <2>. DEFINE n == IF directive THEN run[t][i].rewrites + 1 ELSE run[t][i].rewrites
              c == [run[t][i] EXCEPT !.pc = "improve", !.rewrites = n]
  <2>1. /\ n \in Nat /\ n <= MaxRewrites
        /\ run[t][i].iteration < MaxIterations + n
    BY <1>1, <1>4, LoopAssumption DEF GoesOn, BoundedLoop
  <2>2. BoundedLoop(c)
    BY <1>1, <2>1, LoopAssumption DEF BoundedLoop, Coroutine
  <2>3. run' = [run EXCEPT ![t][i] = c]
    BY <1>4
  <2>. HIDE DEF c
  <2>. QED  BY <2>2, <2>3, BoundedChange
<1>. QED  BY <1>2, <1>3, <1>4 DEF EvaluateDone

\* A handler starts a coroutine, signals one, or leaves them alone.
LEMMA BoundedHandler ==
  ASSUME TypeOK, RoundsBounded, NEW t \in Tasks, Handler(t) \/ ForceCancel(t)
  PROVE  RoundsBounded'
<1>1. /\ handle[t] \in Slots \cup {NoSlot} /\ orch[t] \in Slots \cup {NoSlot}
      /\ HandleLive(t) => handle[t] # NoSlot
  BY TypedAt DEF HandleLive
<1>2. ASSUME NEW i \in Slots, NEW p \in Scheduled, NEW r, Schedule(t, i, r, p)
      PROVE  RoundsBounded'
  BY <1>2, BoundedMove DEF Schedule
<1>3. CASE \/ GetTask(t) \/ DeadlinePasses(t) \/ PostUnpaid(t) \/ ApproveUnpaid(t)
           \/ McpResume(t)
  <2>1. run' = run
    BY <1>3 DEF GetTask, DeadlinePasses, PostUnpaid, ApproveUnpaid, McpResume
  <2>. QED  BY <1>1, <2>1, BoundedSignal
<1>4. CASE PostSimple(t) \/ PostCompany(t) \/ McpSubmit(t) \/ Approve(t) \/ Resume(t)
  BY <1>2, <1>4 DEF PostSimple, PostCompany, McpSubmit, Approve, Resume, Start, Scheduled
<1>5. CASE Reject(t) \/ ForceCancel(t)
  BY <1>1, <1>5, BoundedSignal DEF Reject, ForceCancel, FuseMayCut
<1>6. CASE Cancel(t) \/ McpCancel(t)
  BY <1>1, <1>6, BoundedSignal DEF Cancel, McpCancel, RequestCancel
<1>. QED  BY <1>3, <1>4, <1>5, <1>6 DEF Handler

\* A step of a coroutine outside the loop.
LEMMA BoundedCoroutine ==
  ASSUME TypeOK, RoundsBounded, NEW t \in Tasks, NEW i \in Slots,
         Enter(t, i) \/ Advance(t, i) \/ Interrupt(t, i)
  PROVE  RoundsBounded'
<1>1. CASE EvaluateDone(t, i) \/ ImproveDone(t, i)
  BY <1>1, BoundedRound
<1>2. CASE Enter(t, i)
  <2>1. End(t, i) \/ \E p \in {"queued", "draft", "ctx", "gen", "exec"} : Goto(t, i, p)
    BY <1>2 DEF Enter, McpStart, DraftStart, RunStart, ResumeStart, EnterExecute, Goto
  <2>. QED  BY <2>1, BoundedMove DEF Pc, Scheduled, Executing
<1>3. CASE DraftApproves(t, i)
  <2>1. PICK j \in Slots :
          run' = [run EXCEPT ![t] = [@ EXCEPT ![i] = Idle, ![j] = NewCoroutine("queued")]]
    BY <1>3 DEF DraftApproves
  <2>2. BoundedLoop(Idle) /\ BoundedLoop(NewCoroutine("queued"))
    BY NewBounded DEF Idle, Pc, Scheduled
  <2>3. ASSUME NEW u \in Tasks, NEW k \in Slots
        PROVE  run'[u][k] \in {Idle, NewCoroutine("queued"), run[u][k]}
    BY <2>1 DEF TypeOK
  <2>4. ASSUME NEW u \in Tasks, NEW k \in Slots
        PROVE  BoundedLoop(run'[u][k])
    BY <2>2, <2>3 DEF RoundsBounded
  <2>5. ASSUME NEW u \in Tasks, NEW k \in Slots
        PROVE  BoundedLoop(run[u][k])'
    BY <2>4 DEF BoundedLoop
  <2>. QED  BY <2>5 DEF RoundsBounded
<1>4. CASE Interrupt(t, i)
  BY <1>4, BoundedMove DEF Interrupt
<1>5. CASE /\ Advance(t, i)
           /\ ~(EvaluateDone(t, i) \/ ImproveDone(t, i) \/ DraftApproves(t, i))
  <2>1. End(t, i) \/ \E p \in {"exec", "review", "final", "eval"} : Goto(t, i, p)
    BY <1>5 DEF Advance, DraftDone, DraftRaises, CtxDone, EnterExecute, Goto, WorkDone,
       ExecRefuses, ExecRaises, ExecSucceedsOff, ExecSucceedsReflect, StopAtCheck,
       GenerateDone, FinalizeDone, StepRaises, Finish
  <2>. QED  BY <2>1, BoundedMove DEF Pc, Executing, Reflecting
<1>. QED  BY <1>1, <1>2, <1>3, <1>4, <1>5

\* The reflection loop of task_manager.py ends after at most MaxIterations
\* plus MaxRewrites rounds, whatever the scores and the lengths of the answers:
\* a length directive overrides the limit of rounds, but not its own.
THEOREM LoopBounded == Spec => []RoundsBounded
<1>1. Init => RoundsBounded
  <2>1. BoundedLoop(Idle)
    BY NewBounded DEF Idle, Pc
  <2>. QED  BY <2>1 DEF Init, RoundsBounded
<1>2. TypeOK /\ RoundsBounded /\ [Next]_vars => RoundsBounded'
  <2>. SUFFICES ASSUME TypeOK, RoundsBounded, [Next]_vars  PROVE RoundsBounded'
    OBVIOUS
  <2>1. CASE Restart
    <3>1. ASSUME NEW t \in Tasks, NEW i \in Slots  PROVE run'[t][i] = Idle
      BY <2>1 DEF Restart
    <3>2. BoundedLoop(Idle)
      BY NewBounded DEF Idle, Pc
    <3>3. ASSUME NEW t \in Tasks, NEW i \in Slots  PROVE BoundedLoop(run[t][i])'
      BY <3>1, <3>2 DEF BoundedLoop
    <3>. QED  BY <3>3 DEF RoundsBounded
  <2>2. CASE UNCHANGED vars
    BY <2>2 DEF vars, RoundsBounded, BoundedLoop
  <2>. QED  BY <2>1, <2>2, BoundedHandler, BoundedCoroutine DEF Next
<1>. QED  BY <1>1, <1>2, TypeCorrect, PTL DEF Spec
=============================================================================
