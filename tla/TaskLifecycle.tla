--------------------------- MODULE TaskLifecycle ---------------------------
(***************************************************************************)
(* The life of a background task in backend/services/task_manager.py with  *)
(* the budget gate of backend/company/execution_gate.py.                   *)
(*                                                                         *)
(* One asyncio event loop serves the HTTP handlers (create, approve,       *)
(* reject, cancel, resume, read) and, per task, the coroutine that drafts  *)
(* the budget or executes the task.  A handler runs without interruption;  *)
(* a coroutine is interrupted only where it awaits.  So every handler is   *)
(* one action, and every stretch of a coroutine from one await to the next *)
(* is one action.                                                          *)
(*                                                                         *)
(* Persistence: every handler and every stretch that writes a field of     *)
(* `task' below also writes the Redis snapshot before it yields, so the    *)
(* record and its snapshot are equal between actions and Restart reads     *)
(* `task' itself.  (The path of a task that has not started is stored with *)
(* its next change only; such a task is not resumable, and Restart asks    *)
(* for the path of no other.)  Redis is assumed to accept its writes.      *)
(***************************************************************************)
EXTENDS Naturals, FiniteSets

CONSTANTS
  Tasks,          \* task identifiers
  Slots,          \* identities of the coroutines one task may have at a time
  NoSlot,         \* "no coroutine": an absent entry of _running_tasks
  MaxTimers,      \* bound: pending call_later timers of one task
  MaxTasks,       \* MAX_TASKS: above it create_task evicts records
  MaxIterations,  \* reflection_max_iterations(): at most so many per task
  MaxRewrites,    \* _max_length_rewrites()
  ReflectModes,   \* modes post_company_reflect_mode() may return
  AutoApprove     \* EVOL_BUDGET_AUTO_APPROVE

\* Below the eviction limit create_task never drops a record.
ASSUME TasksFit == IsFiniteSet(Tasks) /\ Cardinality(Tasks) <= MaxTasks
ASSUME SlotsAssumption == NoSlot \notin Slots
ASSUME TimersAssumption == MaxTimers \in Nat
ASSUME LoopAssumption == MaxIterations \in Nat /\ MaxRewrites \in Nat
ASSUME ModesAssumption ==
  /\ ReflectModes \subseteq {"off", "evaluate", "full"}
  /\ AutoApprove \in BOOLEAN

VARIABLES
  task,     \* TaskRecord: the fields that steer control
  ckpt,     \* is there a checkpoint file on disk
  run,      \* the coroutines of each task
  handle,   \* _running_tasks
  orch,     \* _orchestrators: the coroutine whose orchestrator is registered
  timers    \* pending _force_cancel_if_still_running timers

vars == <<task, ckpt, run, handle, orch, timers>>

-----------------------------------------------------------------------------
(* Types *)

Ended == {"completed", "failed", "cancelled", "interrupted", "rejected", "expired"}
Status == Ended \cup {"none", "pending", "running", "awaiting_confirmation"}
Plan == {"none", "pending_user", "locked", "rejected", "expired"}

\* Where a coroutine is suspended.  "startq" is start_task handed to the loop
\* by a thread; "draftq", "queued" and "resumeq" are coroutines not yet
\* entered; the others await a model or a service.  execute() is in "exec"
\* up to its last look at cancel_requested and in "review" after it.
Scheduled == {"startq", "draftq", "queued", "resumeq"}
Executing == {"exec", "review"}
Reflecting == {"eval", "improve", "final"}
Pc == {"idle", "draft", "gen", "ctx"} \cup Scheduled \cup Executing \cup Reflecting

Record == [status : Status, path : {"", "simple", "company"}, plan : Plan,
           deadline : {"none", "open", "past"},
           cancelReq : BOOLEAN, resumable : BOOLEAN]
Coroutine == [pc : Pc, resumed : BOOLEAN,
              killed : BOOLEAN,   \* Task.cancel() called, not yet delivered
              stop : BOOLEAN,     \* its orchestrator's cancel_requested
              iteration : Nat,    \* of its reflection loop: rounds improved,
              rewrites : Nat]     \* and length_rewrites

TypeOK ==
  /\ task \in [Tasks -> Record]
  /\ ckpt \in [Tasks -> BOOLEAN]
  /\ run \in [Tasks -> [Slots -> Coroutine]]
  /\ handle \in [Tasks -> Slots \cup {NoSlot}]
  /\ orch \in [Tasks -> Slots \cup {NoSlot}]
  /\ timers \in [Tasks -> 0..MaxTimers]

NewRecord(s, p) ==
  [status |-> s, path |-> p, plan |-> "none", deadline |-> "none",
   cancelReq |-> FALSE, resumable |-> FALSE]
NewCoroutine(p) ==
  [pc |-> p, resumed |-> p = "resumeq", killed |-> FALSE, stop |-> FALSE,
   iteration |-> 0, rewrites |-> 0]
Idle == NewCoroutine("idle")

Init ==
  /\ task = [t \in Tasks |-> NewRecord("none", "")]
  /\ ckpt = [t \in Tasks |-> FALSE]
  /\ run = [t \in Tasks |-> [i \in Slots |-> Idle]]
  /\ handle = [t \in Tasks |-> NoSlot]
  /\ orch = [t \in Tasks |-> NoSlot]
  /\ timers = [t \in Tasks |-> 0]

Live(t, i) == run[t][i].pc # "idle"
InExecute(t, i) == run[t][i].pc \in Executing
HandleLive(t) == handle[t] # NoSlot /\ Live(t, handle[t])

\* A slot for a new coroutine; a stale handle must not come to denote it.
Free(t, i) == ~Live(t, i) /\ handle[t] # i

-----------------------------------------------------------------------------
(* The budget gate *)

\* Mutant: a gate that only looks for a refusal.
ApprovalGateUnlessRefused(t) == task[t].plan \notin {"rejected", "expired"}

\* require_user_approved
ApprovalGate(t) == task[t].plan = "locked"

\* Mutant: the expiry does not look at the plan's status.
ExpireDueAnyPlan(t) ==
  /\ task[t].status \in {"awaiting_confirmation", "pending"}
  /\ task[t].deadline = "past"

\* expire_budget_if_needed: every get_task applies it before its caller looks.
ExpireDue(t) ==
  /\ task[t].plan = "pending_user"
  /\ task[t].status \in {"awaiting_confirmation", "pending"}
  /\ task[t].deadline = "past"

Seen(t) ==
  IF ExpireDue(t) THEN [task[t] EXCEPT !.status = "expired", !.plan = "expired"]
                  ELSE task[t]

\* GET /tasks/{id}, and any handler that gives up because of the expiry.
GetTask(t) ==
  /\ ExpireDue(t)
  /\ task' = [task EXCEPT ![t] = Seen(t)]
  /\ UNCHANGED <<ckpt, run, handle, orch, timers>>

DeadlinePasses(t) ==
  /\ task[t].deadline = "open"
  /\ task' = [task EXCEPT ![t].deadline = "past"]
  /\ UNCHANGED <<ckpt, run, handle, orch, timers>>

-----------------------------------------------------------------------------
(* Creation: POST /tasks and the MCP server *)

Schedule(t, i, r, p) ==
  /\ Free(t, i)
  /\ task' = [task EXCEPT ![t] = r]
  /\ run' = [run EXCEPT ![t][i] = NewCoroutine(p)]
  /\ UNCHANGED <<ckpt, orch, timers>>

Start(t, i, r, p) ==
  /\ Schedule(t, i, r, p)
  /\ handle' = [handle EXCEPT ![t] = i]

PostSimple(t) ==
  /\ task[t].status = "none"
  /\ \E i \in Slots : Start(t, i, NewRecord("pending", "simple"), "queued")

PostCompany(t) ==
  /\ task[t].status = "none"
  /\ \E i \in Slots :
       Start(t, i, NewRecord("awaiting_confirmation", "company"), "draftq")

\* Not enough credits: 402, after the record was created and stored.
PostUnpaid(t) ==
  /\ task[t].status = "none"
  /\ \E p \in {"simple", "company"} :
       task' = [task EXCEPT ![t] = NewRecord("pending", p)]
  /\ UNCHANGED <<ckpt, run, handle, orch, timers>>

\* linkin_submit_task runs in a worker thread: the record is stored with its
\* path unresolved and start_task is handed to the event loop.
McpSubmit(t) ==
  /\ task[t].status = "none"
  /\ \E i \in Slots : Schedule(t, i, NewRecord("pending", ""), "startq")
  /\ UNCHANGED handle

-----------------------------------------------------------------------------
(* Decisions of the user *)

\* Mutant: a decision on a task that has ended.
UndecidedUnlessRefused(t) ==
  ~ExpireDue(t) /\ task[t].status \notin {"none", "rejected", "expired"}

Undecided(t) ==
  /\ ~ExpireDue(t)
  /\ task[t].status \notin {"none", "rejected", "expired", "cancelled",
                            "completed", "failed"}

\* decide_budget(approve) up to the billing reservation.
MayApprove(t) == Undecided(t) /\ task[t].plan = "pending_user"

\* Mutant: the plan gets a status of its own.
ApprovedUnlocked(r) == [r EXCEPT !.plan = "approved", !.status = "pending"]

Approved(r) == [r EXCEPT !.plan = "locked", !.status = "pending"]

Approve(t) ==
  /\ MayApprove(t)
  /\ \E i \in Slots : Start(t, i, Approved(task[t]), "queued")

\* begin_billed_task raises: the plan stays locked, nothing is started.
ApproveUnpaid(t) ==
  /\ MayApprove(t)
  /\ task' = [task EXCEPT ![t].plan = "locked"]
  /\ UNCHANGED <<ckpt, run, handle, orch, timers>>

\* Mutant: the draft or the run is not interrupted.
RejectWithoutKill(t) ==
  /\ Undecided(t)
  /\ task' = [task EXCEPT
       ![t].status = "rejected",
       ![t].plan = IF task[t].plan = "none" THEN "none" ELSE "rejected"]
  /\ UNCHANGED <<ckpt, run, handle, orch, timers>>

Reject(t) ==
  /\ Undecided(t)
  /\ task' = [task EXCEPT
       ![t].status = "rejected",
       ![t].plan = IF task[t].plan = "none" THEN "none" ELSE "rejected"]
  /\ run' = IF HandleLive(t) THEN [run EXCEPT ![t][handle[t]].killed = TRUE] ELSE run
  /\ UNCHANGED <<ckpt, handle, orch, timers>>

\* cancel_task: raise the flag and tell the registered orchestrator, ...
RequestCancel(t) ==
  /\ Seen(t).status \notin {"none", "completed", "failed", "cancelled", "interrupted"}
  /\ task' = [task EXCEPT ![t] = [Seen(t) EXCEPT !.cancelReq = TRUE]]
  /\ run' = IF orch[t] # NoSlot THEN [run EXCEPT ![t][orch[t]].stop = TRUE] ELSE run
  /\ UNCHANGED <<ckpt, handle, orch>>

\* ... and arm the fuse if a registered coroutine is alive.
Cancel(t) ==
  /\ RequestCancel(t)
  /\ IF HandleLive(t)
       THEN /\ timers[t] < MaxTimers
            /\ timers' = [timers EXCEPT ![t] = timers[t] + 1]
       ELSE timers' = timers

\* linkin_cancel_task: in a worker thread get_running_loop() raises, so the
\* flag is up and no fuse is armed.
McpCancel(t) ==
  /\ RequestCancel(t)
  /\ HandleLive(t)
  /\ UNCHANGED timers

\* Mutant: a run that is scheduled and not yet running is not cut.
FuseMayCutRunning(t) ==
  /\ HandleLive(t)
  /\ task[t].cancelReq
  /\ task[t].status = "running"

\* _force_cancel_if_still_running, CANCEL_GRACE_SECONDS later.
FuseMayCut(t) ==
  /\ HandleLive(t)
  /\ task[t].cancelReq
  /\ task[t].status \in {"running", "pending"}

ForceCancel(t) ==
  /\ timers[t] > 0
  /\ timers' = [timers EXCEPT ![t] = timers[t] - 1]
  /\ run' = IF FuseMayCut(t) THEN [run EXCEPT ![t][handle[t]].killed = TRUE] ELSE run
  /\ UNCHANGED <<task, ckpt, handle, orch>>

\* Mutant: the resumable flag is not looked at.
MayResumeTwice(t) ==
  /\ task[t].status \notin {"none", "running", "completed"}
  /\ task[t].path = "company"
  /\ ckpt[t]

\* Mutant: the checkpoint file is not looked for.
MayResumeBlind(t) ==
  /\ task[t].status \notin {"none", "running", "completed"}
  /\ task[t].path = "company"
  /\ task[t].resumable

MayResume(t) ==
  /\ Seen(t).status \notin {"none", "running", "completed"}
  /\ Seen(t).path = "company"
  /\ Seen(t).resumable
  /\ ckpt[t]

ResumedRecord(t) == [Seen(t) EXCEPT
  !.status = "pending", !.cancelReq = FALSE, !.resumable = FALSE]

\* resume_task: the coroutine is created but enters _running_tasks only once
\* it runs.
Resume(t) ==
  /\ MayResume(t)
  /\ \E i \in Slots : Schedule(t, i, ResumedRecord(t), "resumeq")
  /\ UNCHANGED handle

\* linkin_resume_task: in a worker thread create_task() raises after the
\* record was reset and stored.
McpResume(t) ==
  /\ MayResume(t)
  /\ task' = [task EXCEPT ![t] = ResumedRecord(t)]
  /\ UNCHANGED <<ckpt, run, handle, orch, timers>>

-----------------------------------------------------------------------------
(* Coroutine stretches.  A stretch runs only while no CancelledError is due. *)

At(t, i, pcs) == run[t][i].pc \in pcs /\ ~run[t][i].killed
Resumed(t, i) == run[t][i].resumed

Goto(t, i, p) == run' = [run EXCEPT ![t][i].pc = p]
End(t, i) == run' = [run EXCEPT ![t][i] = Idle]

\* `finally: self._running_tasks.pop(task_id, None)', whoever registered it.
Unregister(t) == handle' = [handle EXCEPT ![t] = NoSlot]

\* The draft coroutine removes only its own registration.
UnregisterOwn(t, i) ==
  handle' = IF handle[t] = i THEN [handle EXCEPT ![t] = NoSlot] ELSE handle

\* A resumed run unregisters when execute() returns, a fresh one at its end.
LeaveAfterwards(t, i) == IF Resumed(t, i) THEN UNCHANGED handle ELSE Unregister(t)

Close(t, s) == [task[t] EXCEPT !.status = s]

\* _save_company_checkpoint: the file is written or not; `resumable' is set
\* either way, unless building the checkpoint raised.
SaveCheckpoint(t, closed) ==
  \E file, flag \in BOOLEAN :
    /\ file => flag \/ ckpt[t]
    /\ ckpt' = [ckpt EXCEPT ![t] = file]
    /\ task' = [task EXCEPT ![t] = [closed EXCEPT !.resumable = @ \/ flag]]

(* Budget draft: _draft_company_budget *)

DraftStart(t, i) ==
  /\ At(t, i, {"draftq"})
  /\ IF task[t].cancelReq
       THEN End(t, i) /\ UnregisterOwn(t, i)
       ELSE Goto(t, i, "draft") /\ UNCHANGED handle
  /\ UNCHANGED <<task, ckpt, orch, timers>>

\* The deadline is absent when EVOL_BUDGET_CONFIRM_TTL_SEC is 0, and always
\* absent in the plan that stands in for a draft that raised.
Drafted(t, deadline) ==
  [task[t] EXCEPT !.plan = "pending_user", !.deadline = deadline,
                  !.status = "awaiting_confirmation"]

\* With EVOL_BUDGET_AUTO_APPROVE too, if the seats cannot be created.
DraftDone(t, i) ==
  /\ At(t, i, {"draft"})
  /\ \E d \in {"none", "open"} : task' = [task EXCEPT ![t] = Drafted(t, d)]
  /\ End(t, i) /\ UnregisterOwn(t, i)
  /\ UNCHANGED <<ckpt, orch, timers>>

DraftRaises(t, i) ==
  /\ At(t, i, {"draft"})
  /\ task' = [task EXCEPT ![t] = Drafted(t, "none")]
  /\ End(t, i) /\ UnregisterOwn(t, i)
  /\ UNCHANGED <<ckpt, orch, timers>>

\* Mutant: the draft's finally removes the run it has just started.
DraftApprovesPopsAny(t, i) ==
  /\ At(t, i, {"draft"})
  /\ AutoApprove
  /\ \E j \in Slots :
       /\ Free(t, j)
       /\ task' = [task EXCEPT ![t] = Approved(Drafted(t, "none"))]
       /\ run' = [run EXCEPT ![t] = [@ EXCEPT ![i] = Idle, ![j] = NewCoroutine("queued")]]
       /\ handle' = [handle EXCEPT ![t] = NoSlot]
  /\ UNCHANGED <<ckpt, orch, timers>>

\* EVOL_BUDGET_AUTO_APPROVE: decide_budget runs inside the draft coroutine.
DraftApproves(t, i) ==
  /\ At(t, i, {"draft"})
  /\ AutoApprove
  /\ Undecided(t)
  /\ \E d \in {"none", "open"}, j \in Slots :
       /\ Free(t, j)
       /\ task' = [task EXCEPT ![t] = Approved(Drafted(t, d))]
       /\ run' = [run EXCEPT ![t] = [@ EXCEPT ![i] = Idle, ![j] = NewCoroutine("queued")]]
       /\ handle' = [handle EXCEPT ![t] = j]
  /\ UNCHANGED <<ckpt, orch, timers>>

(* Start of a run: start_task, _run_unified_task_inner, _run_company_task *)

McpStart(t, i) ==
  /\ At(t, i, {"startq"})
  /\ Goto(t, i, "queued")
  /\ handle' = [handle EXCEPT ![t] = i]
  /\ UNCHANGED <<task, ckpt, orch, timers>>

\* The path is resolved again from the same query and strategy: only a record
\* the MCP server started unresolved can learn a new one here.
RunStart(t, i) ==
  /\ At(t, i, {"queued"})
  /\ \E p \in IF task[t].path = "" THEN {"simple", "company"} ELSE {task[t].path} :
       /\ task' = [task EXCEPT ![t].status = "running", ![t].path = p]
       /\ Goto(t, i, IF p = "company" THEN "ctx" ELSE "gen")
  /\ UNCHANGED <<ckpt, handle, orch, timers>>

\* execute() behind the gate: the orchestrator is registered while it awaits.
EnterExecute(t, i) ==
  /\ run' = [run EXCEPT ![t][i].pc = "exec"]
  /\ orch' = [orch EXCEPT ![t] = i]

\* ExecutionNotApproved from execute(): the run fails, a fresh one with a
\* checkpoint.
CtxDone(t, i) ==
  /\ At(t, i, {"ctx"})
  /\ \/ /\ ApprovalGate(t)
        /\ EnterExecute(t, i)
        /\ UNCHANGED <<task, ckpt, handle>>
     \/ /\ ~ApprovalGate(t)
        /\ SaveCheckpoint(t, Close(t, "failed"))
        /\ End(t, i) /\ Unregister(t) /\ UNCHANGED orch
  /\ UNCHANGED timers

\* _resume_company_task up to the first await of execute().
ResumeStart(t, i) ==
  /\ At(t, i, {"resumeq"})
  /\ \/ /\ ApprovalGate(t)
        /\ task' = [task EXCEPT ![t].status = "running"]
        /\ EnterExecute(t, i)
        /\ handle' = [handle EXCEPT ![t] = i]
     \/ /\ ~ApprovalGate(t)
        /\ task' = [task EXCEPT ![t].status = "failed", ![t].resumable = ckpt[t]]
        /\ End(t, i) /\ Unregister(t) /\ UNCHANGED orch
  /\ UNCHANGED <<ckpt, timers>>

(* Outcomes of orchestrator.execute() *)

\* Mutant: the orchestrator stays registered.
LeaveExecuteRegistered(t) == orch' = IF task[t].cancelReq THEN orch ELSE [orch EXCEPT ![t] = NoSlot]

LeaveExecute(t) == orch' = [orch EXCEPT ![t] = NoSlot]

\* cancel_requested is read for the last time: the final review is next.
WorkDone(t, i) ==
  /\ At(t, i, {"exec"})
  /\ ~run[t][i].stop
  /\ Goto(t, i, "review")
  /\ UNCHANGED <<task, ckpt, handle, orch, timers>>

\* It returns an error result, because of the cancel or of the planning.
ExecRefuses(t, i) ==
  /\ At(t, i, {"exec"})
  /\ \/ /\ task[t].cancelReq \/ run[t][i].stop
        /\ SaveCheckpoint(t, Close(t, "cancelled"))
     \/ /\ ~task[t].cancelReq
        /\ task' = [task EXCEPT ![t].status = "failed",
             ![t].resumable = IF Resumed(t, i) THEN ckpt[t] ELSE @]
        /\ UNCHANGED ckpt
  /\ End(t, i) /\ Unregister(t) /\ LeaveExecute(t)
  /\ UNCHANGED timers

ExecRaises(t, i) ==
  /\ At(t, i, Executing)
  /\ \/ /\ Resumed(t, i)
        /\ task' = [task EXCEPT ![t].status = "failed", ![t].resumable = ckpt[t]]
        /\ UNCHANGED ckpt
     \/ /\ ~Resumed(t, i)
        /\ SaveCheckpoint(t, Close(t, "failed"))
  /\ End(t, i) /\ Unregister(t) /\ LeaveExecute(t)
  /\ UNCHANGED timers

\* The end of the three paths: completed, unless a cancel is pending.
Completes(t) == task[t].status # "cancelled" /\ ~task[t].cancelReq

Finish(t, i) ==
  /\ task' = IF Completes(t)
               THEN [task EXCEPT ![t].status = "completed",
                      ![t].resumable = IF Resumed(t, i) THEN FALSE ELSE @]
               ELSE task
  /\ ckpt' = IF Completes(t) /\ Resumed(t, i) THEN [ckpt EXCEPT ![t] = FALSE] ELSE ckpt
  /\ End(t, i)

\* Success with post-company reflection off: no further await.
ExecSucceedsOff(t, i) ==
  /\ At(t, i, {"review"})
  /\ "off" \in ReflectModes
  /\ Finish(t, i) /\ Unregister(t) /\ LeaveExecute(t)
  /\ UNCHANGED timers

ExecSucceedsReflect(t, i) ==
  /\ At(t, i, {"review"})
  /\ \/ "evaluate" \in ReflectModes /\ Goto(t, i, "final")
     \/ "full" \in ReflectModes /\ Goto(t, i, "eval")
  /\ IF Resumed(t, i) THEN Unregister(t) ELSE UNCHANGED handle
  /\ LeaveExecute(t)
  /\ UNCHANGED <<task, ckpt, timers>>

(* Generation and the reflection loop *)

\* _check_cancelled
CheckCancelled(t) == task[t].cancelReq /\ task[t].status = "running"

\* reflection_should_continue: a length directive overrides the score and the
\* limit of rounds; enforce_output_length gives as many of them as its own
\* limit allows.  Without one a good score or a small gain ends the loop, so a
\* further round is never forced.
GoesOn(t, i, directive) ==
  IF directive THEN run[t][i].rewrites < MaxRewrites
               ELSE run[t][i].iteration < MaxIterations

\* A checkpoint of the coroutine finds the cancel flag: cancelled, finished.
\* The loop checks after its first evaluation and at the top of each round.
StopAtCheck(t, i) ==
  /\ At(t, i, {"gen", "eval"})
  /\ CheckCancelled(t)
  /\ run[t][i].iteration = 0 \/ \E directive \in BOOLEAN : GoesOn(t, i, directive)
  /\ task' = [task EXCEPT ![t].status = "cancelled"]
  /\ End(t, i) /\ LeaveAfterwards(t, i)
  /\ UNCHANGED <<ckpt, orch, timers>>

GenerateDone(t, i) ==
  /\ At(t, i, {"gen"}) /\ ~CheckCancelled(t)
  /\ Goto(t, i, "eval")
  /\ UNCHANGED <<task, ckpt, handle, orch, timers>>

\* The answer is evaluated and its length enforced: the end of the loop, where
\* nothing checks the flag once a round was made, or a (further) round.
EvaluateDone(t, i) ==
  /\ At(t, i, {"eval"})
  /\ \/ /\ run[t][i].iteration = 0 => ~CheckCancelled(t)
        /\ Goto(t, i, "final")
     \/ /\ ~CheckCancelled(t)
        /\ \E directive \in BOOLEAN :
             /\ GoesOn(t, i, directive)
             /\ run' = [run EXCEPT ![t][i].pc = "improve",
                          ![t][i].rewrites = IF directive THEN @ + 1 ELSE @]
  /\ UNCHANGED <<task, ckpt, handle, orch, timers>>

\* Mutant: improve_answer does not count the round.
ImproveUncounted(t, i) ==
  /\ At(t, i, {"improve"})
  /\ Goto(t, i, "eval")
  /\ UNCHANGED <<task, ckpt, handle, orch, timers>>

\* reflect and improve_answer; the loop then evaluates again.
ImproveDone(t, i) ==
  /\ At(t, i, {"improve"})
  /\ run' = [run EXCEPT ![t][i].pc = "eval", ![t][i].iteration = @ + 1]
  /\ UNCHANGED <<task, ckpt, handle, orch, timers>>

FinalizeDone(t, i) ==
  /\ At(t, i, {"final"})
  /\ Finish(t, i) /\ LeaveAfterwards(t, i)
  /\ UNCHANGED <<orch, timers>>

\* An exception: a simple run fails, a company run keeps its output.
StepRaises(t, i) ==
  /\ At(t, i, {"gen"} \cup Reflecting)
  /\ \/ /\ task[t].path = "company"
        /\ Finish(t, i)
     \/ /\ task[t].path # "company"
        /\ task' = [task EXCEPT ![t].status = "failed"]
        /\ End(t, i) /\ UNCHANGED ckpt
  /\ LeaveAfterwards(t, i)
  /\ UNCHANGED <<orch, timers>>

-----------------------------------------------------------------------------
(* CancelledError and restart *)

\* Before its first step a coroutine is dropped without running any of it:
\* no finally, so its registration stays behind, done.
DropUnentered(t, i) ==
  /\ run[t][i].pc \in Scheduled
  /\ UNCHANGED <<task, ckpt, handle, orch>>

AbandonDraft(t, i) ==
  /\ run[t][i].pc = "draft"
  /\ UnregisterOwn(t, i)
  /\ UNCHANGED <<task, ckpt, orch>>

Closable(t) == task[t].status \in {"running", "pending"}

\* The CancelledError branches of a fresh run: _run_company_task saves a
\* checkpoint, _run_unified_task_inner closes the record if nobody has.
AbortFresh(t, i) ==
  /\ ~Resumed(t, i)
  /\ run[t][i].pc \in {"gen", "ctx"} \cup Executing \cup Reflecting
  /\ LET closed == [Close(t, "cancelled") EXCEPT !.resumable = task[t].path = "company"]
     IN  IF InExecute(t, i)
           THEN /\ SaveCheckpoint(t, IF Closable(t) THEN closed ELSE task[t])
                /\ LeaveExecute(t)
           ELSE /\ task' = IF Closable(t) THEN [task EXCEPT ![t] = closed] ELSE task
                /\ UNCHANGED <<ckpt, orch>>
  /\ Unregister(t)

AbortResumed(t, i) ==
  /\ Resumed(t, i)
  /\ InExecute(t, i)
  /\ task' = IF Closable(t)
               THEN [task EXCEPT ![t].status = "cancelled", ![t].resumable = TRUE]
               ELSE task
  /\ Unregister(t) /\ LeaveExecute(t)
  /\ UNCHANGED ckpt

Interrupt(t, i) ==
  /\ Live(t, i) /\ run[t][i].killed
  /\ \/ DropUnentered(t, i)
     \/ AbandonDraft(t, i)
     \/ AbortFresh(t, i)
     \/ AbortResumed(t, i)
  /\ End(t, i)
  /\ UNCHANGED timers

\* Mutant: only a task that had not begun counts as interrupted.
RehydratedPending(t) ==
  IF task[t].status = "pending" THEN [task[t] EXCEPT !.status = "interrupted"]
                                ELSE task[t]

\* The process dies and comes back: rehydrate() from Redis.
Rehydrated(t) ==
  IF task[t].status \in {"pending", "running"}
    THEN [task[t] EXCEPT !.status = "interrupted",
           !.resumable = IF task[t].path = "company" THEN ckpt[t] ELSE @]
    ELSE task[t]

Restart ==
  /\ \E t \in Tasks : task[t].status # "none"
  /\ task' = [t \in Tasks |-> Rehydrated(t)]
  /\ run' = [t \in Tasks |-> [i \in Slots |-> Idle]]
  /\ handle' = [t \in Tasks |-> NoSlot]
  /\ orch' = [t \in Tasks |-> NoSlot]
  /\ timers' = [t \in Tasks |-> 0]
  /\ UNCHANGED ckpt

-----------------------------------------------------------------------------
(* Specification *)

Handler(t) ==
  \/ PostSimple(t) \/ PostCompany(t) \/ PostUnpaid(t) \/ McpSubmit(t)
  \/ GetTask(t) \/ DeadlinePasses(t)
  \/ Approve(t) \/ ApproveUnpaid(t) \/ Reject(t)
  \/ Cancel(t) \/ McpCancel(t) \/ Resume(t) \/ McpResume(t)

\* A scheduled coroutine takes its first step.
Enter(t, i) ==
  \/ McpStart(t, i) \/ DraftStart(t, i) \/ RunStart(t, i) \/ ResumeStart(t, i)

\* A coroutine goes on after the call it awaits has returned or raised.
Advance(t, i) ==
  \/ DraftDone(t, i) \/ DraftRaises(t, i) \/ DraftApproves(t, i)
  \/ CtxDone(t, i) \/ WorkDone(t, i)
  \/ ExecRefuses(t, i) \/ ExecRaises(t, i)
  \/ ExecSucceedsOff(t, i) \/ ExecSucceedsReflect(t, i)
  \/ StopAtCheck(t, i) \/ GenerateDone(t, i) \/ EvaluateDone(t, i)
  \/ ImproveDone(t, i) \/ FinalizeDone(t, i) \/ StepRaises(t, i)

Next ==
  \/ \E t \in Tasks :
       \/ Handler(t)
       \/ ForceCancel(t)
       \/ \E i \in Slots : Enter(t, i) \/ Advance(t, i) \/ Interrupt(t, i)
  \/ Restart

Spec == Init /\ [][Next]_vars

\* The event loop runs what is ready: timers, first steps, CancelledErrors.
\* It does not promise that a model or a service ever answers.
LoopFairness ==
  \A t \in Tasks :
    /\ WF_vars(ForceCancel(t))
    /\ \A i \in Slots : WF_vars(Enter(t, i)) /\ WF_vars(Interrupt(t, i))

LoopSpec == Spec /\ LoopFairness

\* Additionally, every call a coroutine awaits returns or raises.
CallsReturn == \A t \in Tasks, i \in Slots : WF_vars(Advance(t, i))
AnsweringSpec == LoopSpec /\ CallsReturn

-----------------------------------------------------------------------------
(* Safety *)

\* Seats execute only behind a plan the user has locked, whichever way the
\* run was started (approval, auto-approval, MCP, resume); the exception is a
\* run already told to stop because the plan was rejected under it.
ApprovedExecution ==
  \A t \in Tasks, i \in Slots :
    InExecute(t, i) /\ ~run[t][i].killed => task[t].plan = "locked"

\* One task never has two coroutines at work: no draft beside a run, no
\* resumed run beside the run it resumes, no run started twice.
SingleRunner ==
  \A t \in Tasks, i, j \in Slots : Live(t, i) /\ Live(t, j) => i = j

\* The coroutines _running_tasks cannot reach: start_task still on its way
\* from a thread, and a resumed run before its first and after its last await
\* of execute().
Unreachable(t, i) ==
  \/ run[t][i].pc = "startq"
  \/ Resumed(t, i) /\ ~InExecute(t, i)

\* Every other coroutine is the one in _running_tasks, so that reject and the
\* fuse cut it and not another: in particular the finally of one coroutine
\* never removes the registration of its successor.
RunnersReachable ==
  \A t \in Tasks, i \in Slots :
    Live(t, i) /\ ~Unreachable(t, i) => handle[t] = i

\* The orchestrator cancel_task finds is that of the coroutine inside
\* execute(), and there is one as long as there is such a coroutine.
OrchestratorOwned ==
  \A t \in Tasks, i \in Slots : orch[t] = i <=> InExecute(t, i)

\* A task shown as running, with no cancel requested, has a coroutine that
\* will close it: no exit path, restart included, leaves "running" behind.
NoOrphanedRun ==
  \A t \in Tasks :
    task[t].status = "running" /\ ~task[t].cancelReq => \E i \in Slots : Live(t, i)

\* A run resumed from a checkpoint still has it on disk until the task is
\* complete, so that a crash in the resumed run can be resumed again.
ResumedFromCheckpoint ==
  \A t \in Tasks, i \in Slots : Live(t, i) /\ Resumed(t, i) => ckpt[t]

-----------------------------------------------------------------------------
(* Action properties *)

\* Once the budget plan is decided it is never reopened: neither a late draft
\* nor the expiry touches it, and an approved plan can only be rejected.
PlanDecisionFinal ==
  [][\A t \in Tasks :
       /\ task[t].plan \in {"rejected", "expired"} => task'[t].plan = task[t].plan
       /\ task[t].plan = "locked" => task'[t].plan \in {"locked", "rejected"}]_vars

\* Reject finds every coroutine of the task: none is out of its reach, and
\* none came to be registered only after a rejection (a record without a path).
Within(t) ==
  task[t].path # "" /\ \A i \in Slots : ~(Live(t, i) /\ Unreachable(t, i))

\* The outcome of a task is not overwritten by a coroutine that is still on
\* its way: completed and expired are final, every other outcome ends only by
\* a resume (an interrupted task may still be rejected).  A rejection counts
\* if reject finds every coroutine of the task.
OutcomesFinal ==
  [][\A t \in Tasks :
       LET s == task[t].status  s1 == task'[t].status
       IN  /\ s \in {"completed", "expired"} => s1 = s
           /\ s \in {"failed", "cancelled"} => s1 \in {s, "pending"}
           /\ s = "interrupted" => s1 \in {s, "pending", "rejected"}
           /\ s = "rejected" /\ Within(t) => s1 \in {s, "pending"}]_vars

-----------------------------------------------------------------------------
(* What the user is promised *)

\* Seats execute the task, and nobody has told them to stop.
Working(t) == \E i \in Slots : At(t, i, Executing)

\* A rejection misses a coroutine of the task, as Within says.
Late(t) == \E i \in Slots : Live(t, i) /\ (task[t].path = "" \/ Unreachable(t, i))

Promise == INSTANCE TaskPromise WITH
  status <- [t \in Tasks |-> task[t].status],
  plan <- [t \in Tasks |-> task[t].plan],
  working <- [t \in Tasks |-> Working(t)],
  late <- [t \in Tasks |-> Late(t)]

\* Whatever handlers, threads, timers, interrupted coroutines and restarts do,
\* in whatever order, to the user it is a life of the task as promised: work
\* under a locked plan only, decisions and ends that stand.
KeepsPromise == Promise!Spec

-----------------------------------------------------------------------------
(* Liveness *)

\* The fuse: once it is armed for a registered coroutine of a task that is to
\* be cancelled, that coroutine is gone, whether or not the model answers.
FuseEndsRun ==
  \A t \in Tasks, i \in Slots :
    (/\ timers[t] > 0 /\ task[t].cancelReq
     /\ handle[t] = i /\ Live(t, i)
     /\ task[t].status \in {"running", "pending"})
    ~> ~(handle[t] = i /\ Live(t, i))

\* If models and services answer, a running task nobody cancels is closed.
SettlesIfAnswered ==
  CallsReturn =>
    \A t \in Tasks :
      task[t].status = "running" ~> (task[t].status # "running" \/ task[t].cancelReq)

-----------------------------------------------------------------------------
(* What the documentation says and the code does not do *)

\* cancel_task's docstring: a task never hangs in "cancelling".
CancelSettles ==
  \A t \in Tasks :
    task[t].status = "running" /\ task[t].cancelReq ~> task[t].status # "running"

\* decide_budget's answer to a rejection: "rejected, will not be executed".
RejectedNeverCompletes ==
  [][\A t \in Tasks :
       task[t].status = "rejected" /\ task[t].plan = "rejected"
         => task'[t].status # "completed"]_vars

\* The resumable flag: a checkpoint is available.
ResumableHasCheckpoint == \A t \in Tasks : task[t].resumable => ckpt[t]

\* linkin_resume_task: a company task with a checkpoint is resumed.
AcceptedResumeRuns ==
  \A t \in Tasks :
    task[t].status = "pending" /\ task[t].path = "company" /\ ckpt[t]
      ~> task[t].status # "pending"
=============================================================================
