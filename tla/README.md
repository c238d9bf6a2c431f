# Linkin: models, checks and proofs

TLA+ models of the Linkin backend (`src/backend`): what they cover, which
configurations TLC checks, and what TLAPS proves.  Paths below are relative to
`src/backend/` unless they start with `src/`; `TM` is `services/task_manager.py`,
`EG` is `company/execution_gate.py`.

    tlc -config TaskLifecycle_safety.cfg MCTaskLifecycle.tla
    tlapm TaskLifecycleProofs.tla

`PS` is `billing/pool_store.py`, `CO` is `company/orchestrator.py`, `DM` is
`billing/docker_meter.py`.

| Component | Model | Abstract specification | Proofs |
|---|---|---|---|
| task manager, budget gate | `TaskLifecycle` | `TaskPromise` | `TaskLifecycleProofs`, `TaskPromiseProofs` |
| a run of the company | `CompanyRun` | `RunPromise` | `CompanyRunProofs` |
| credit pools, billed tasks | `CreditPools` | - | `CreditPoolsProofs` |
| metering of Docker services | `DockerMeter` | - | `DockerMeterProofs` |
| contribution locks, appeals | `ContributionLocks` | - | `ContributionLocksProofs` |
| fault pool | `FaultPool` | - | `FaultPoolProofs` |

`SumTheorems` holds the lemmas on sums over finite sets that five of the proof
modules need.  Each model `X` has a module `MCX` with its instances for TLC and configurations
`X_<question>.cfg`.

## 1. Inventory

The backend is one Python process with one asyncio event loop (FastAPI), Redis
for snapshots, SQLite for money, JSON files for checkpoints, and worker threads
(`asyncio.to_thread`) for blocking calls and for the MCP server.

| Part | State | Operations | Hard behaviour | Correct when |
|---|---|---|---|---|
| Task lifecycle (`TM`) | `TaskRecord`, `_running_tasks`, `_orchestrators`, `call_later` timers, Redis snapshot, checkpoint file | create, draft, approve, reject, start, cancel, force-cancel, resume, rehydrate; coroutines that draft, execute, reflect | handlers run between any two awaits of a coroutine; `CancelledError`; a process restart; calls from a thread without a loop | one coroutine per task; the registries name it; nothing executes unapproved; every record is closed; outcomes stand |
| Budget gate (`EG`) | `budget_plan.status`, deadline | require approval, expire on read, compose draft | expiry is lazy: whoever reads first applies it | decided plans stay decided |
| Entry points (`main.py`, `mcp_server.py`) | none | POST/GET tasks, decisions, MCP tools | MCP runs in a worker thread | accepted requests take effect |
| Checkpoints (`services/trace_logger.py`) | one JSON file per task | save, load, delete | a failed write is reported by `None` only | the resumable flag tells the truth |
| Credit pools (`billing/pool_store.py`, `pools_service.py`, `task_lifecycle.py`) | subscription and purchased pools, task billing records, usage events | reserve, settle, finalize, convert, rollover | several transactions per operation; requests of one user in parallel | no credit is created or lost, no pool goes below zero, a refund happens once |
| Company orchestrator (`company/orchestrator.py`, `work_item.py`) | work-item graph, iteration counter, cancel flag | decompose, execute in parallel, review, rework, approve, synthesize | parallel items, dependencies, rework limits, cancel between stages | a run ends, items run after their dependencies, what is done was judged |
| Conversation audit (`company/task_state_machine.py`) | phase machine per conversation | confirm, run, resume | resume may skip the confirmation | phases follow the table |
| Budget ledger (`company/budget.py`) | spent amounts per task, role, day | check, record | check and record are two steps | limits hold |
| Contribution locks (`billing/contribution_service.py`, `contribution_threshold.py`, `contribution_rewards.py`, PS) | unlocked and locked balance per account, rows of `lock_installments`, decay log | earn, convert, decay, lock, pay a period, unlock early, forfeit for a failed key | an operation is several transactions; unrounded doubles compared with rounded amounts; a loop over rows that others change | the locked balance backs every running plan; a plan is settled once and ends |
| Appeals (`billing/appeals.py`) | rows of `billing_appeals` | file, resolve, restore | the amount is copied at filing, paid at resolution, in two transactions | what was forfeited comes back at most once |
| Fault pool (`billing/fault_pool.py`, PS) | ledger of credits and debits, its sum is the balance | credit, disburse for a reward | two reads and a debit in three transactions | the pool pays what it holds, the platform the rest |
| Docker metering (`billing/docker_meter.py`, `docker_api.py`) | owner per service, uptime billed per owner and service, included hours used | tick, start, stop, restart | ticks in threads side by side, each with its own list; the uptime advances before the debit; the age of a container counts on while it is stopped | each interval is charged once, and every interval is |
| Provider pool, API hub (`core/provider_pool.py`, `core/api_router.py`) | keys with cool-downs | pick, report | failover | a cooled key is not picked |
| OPC service (`src/opc_service`), gateways (`src/services`) | their own | guarded writes | separate processes | outside this core |
| Seats, prompts, tools, LLM nodes, memory, tenant filter, frontend, skills, vendored code | none that steers control | - | - | - |

How they interact: an entry point calls the task manager; the task manager asks
the gate, reserves credits, creates a coroutine, and awaits the orchestrator,
which calls seats and tools and charges the ledger; the orchestrator reports by
events to a listener of the task manager; cancel goes from the task manager to
the orchestrator by a flag and, 45 seconds later, by `Task.cancel()`.

`PROJECT.json` lists every component with its status and every hazard at its line.

## 2. Plan

1. `TaskLifecycle` with the budget gate and the entry points, its proofs. Done.
2. `FaultPool` and `ContributionLocks`, their proofs. Done.
3. `CompanyRun`: the loop of execute, review and rework over the work-item
   graph; its proofs. Done.
4. `CreditPools`: reserve, settle, finalize, convert, roll over, as the
   transactions they are; its proofs. Done.
5. `DockerMeter`; its proofs. Done.
6. `TaskPromise`, the abstract life of a task, and the refinement by
   `TaskLifecycle`, proved. Done.
7. `SumTheorems`, and with it the safety properties that add up credits, plans
   and threads; a bound on the steps of a run of the company. Done.
8. `RunPromise`, what a run promises whoever watches its board, and the
   refinement by `CompanyRun`, proved. Done.
9. `TaskLifecycle` with `CreditPools` (one reservation per approved run);
   `ConversationAudit`: an abstract phase specification and the machine that
   implements it; the budget ledger; the key pool.
10. The purge of cancelled tasks, lost Redis writes, exceptions before the `try`
   blocks of the runs.

Every safety property a passing run checks is stated by a theorem.  Theorems worth
adding: that the pools implement one account on which every operation is a
single step (it needs a prophecy of which operations will not be cut short),
and what `IncludedStaysBounded` says of the included hours, for the credits a user
is spared.

Modules are written to be proved about: constants carry named assumptions,
there is one action per operation and no recursive operator.

### Counterexample configurations

A configuration whose property fails, because a document says what the code
does not do, is a run of `PROJECT.json` where it is the clearest case of its
component: `task_reject`, `locks_drift`, `company_stuck`, `credits_rollover`,
`docker_tick`.  Ten further configurations of the same kind are kept beside
them and give TLC's counterexample when run:

| Configuration | Property | What fails |
|---|---|---|
| `TaskLifecycle_cancel.cfg` | `CancelSettles` | a cancel after the last check of the flag leaves the record running for ever |
| `TaskLifecycle_resume.cfg` | `AcceptedResumeRuns` | a resume through MCP leaves a pending task nobody runs |
| `TaskLifecycle_ckpt.cfg` | `ResumableHasCheckpoint` | the flag is set without a file |
| `FaultPool_overdrawn.cfg` | `NeverOverdrawn` | two threads debit one balance |
| `ContributionLocks_appeal.cfg` | `RestoredOnce` | a second resolution pays again |
| `ContributionLocks_keyfail.cfg` | `KeyFailureReachesAll` | a plan that ended meanwhile stops the loop |
| `CompanyRun_resume.cfg` | `ResumeKeepsDone` | `execute()` replaces the restored items by an empty board: what was done is done again |
| `CompanyRun_closed.cfg` | `CancelledRunClosed` | a cancel before the items exist leaves them READY on the board of a cancelled run |
| `CreditPools_refund.cfg` | `RefundWithinTaken` | a reservation that was never charged is given back; only tests call `complete_billed_task` |
| `DockerMeter_twice.cfg` | `ChargedWithinRun` | the age of a stopped container goes on: `docker_restart` of it settles its whole age to whoever asks, and is then refused; a stop that removed the entry lets it be charged again |

## 3. TaskLifecycle

### State

| Variable | Code |
|---|---|
| `task[t]` | the control fields of `TaskRecord` (TM 84-127): `status`, `resolved_path`, `budget_plan["status"]`, the confirmation deadline, `cancel_requested`, `resumable` |
| `ckpt[t]` | a readable checkpoint file exists |
| `run[t][i]` | coroutine `i` of the task: where it is suspended, whether it is `_resume_company_task`, whether `Task.cancel()` was called and not yet delivered, the `cancel_requested` flag of its orchestrator, and the two counters of its reflection loop (`iteration`, `rewrites`) |
| `handle[t]` | `_running_tasks[t]` |
| `orch[t]` | whose orchestrator `_orchestrators[t]` is |
| `timers[t]` | pending `_force_cancel_if_still_running` timers |

`status = "none"` is a task that does not exist yet.  `Slots` are coroutine
identities; a slot is reused once its coroutine ended and no handle names it.

### Actions

A handler never awaits, so it is one action.  A coroutine runs from one await
to the next without interruption, so each such stretch is one action, with
everything it stores on the way.

| Action | Code |
|---|---|
| `PostSimple`, `PostCompany`, `PostUnpaid` | `POST /tasks`: started, drafted, or refused with 402 after the record was stored |
| `McpSubmit`, `McpStart` | `linkin_submit_task` in a thread; `start_task` when the loop runs it |
| `GetTask`, `DeadlinePasses` | the lazy expiry; handlers that begin with `get_task` see `Seen(t)` |
| `Approve`, `ApproveUnpaid`, `Reject` | `decide_budget`, and its failure between locking and starting |
| `Cancel`, `McpCancel`, `ForceCancel` | `cancel_task`, from the loop and from a thread (no fuse there), and the fuse |
| `Resume`, `McpResume`, `ResumeStart` | `resume_task`, the same from a thread, and `_resume_company_task` up to `execute()` |
| `DraftStart`, `DraftDone`, `DraftRaises`, `DraftApproves` | `_draft_company_budget` |
| `RunStart`, `CtxDone`, `WorkDone` | `_run_unified_task_inner` and `_run_company_task` up to `execute()`; the last look at the flag inside it |
| `ExecRefuses`, `ExecRaises`, `ExecSucceedsOff`, `ExecSucceedsReflect` | the outcomes of `execute()` |
| `GenerateDone`, `EvaluateDone`, `ImproveDone`, `FinalizeDone`, `StopAtCheck`, `StepRaises` | the simple path and the reflection loop |
| `GoesOn` (a condition) | `reflection_should_continue`: whether the loop may make a further round |
| `Interrupt` | delivery of `CancelledError`, by the place where the coroutine is suspended; a coroutine that never ran is dropped without its `finally` |
| `Restart` | the process dies; `rehydrate()` |

The reflection loop evaluates, and as long as `reflection_should_continue` says so
reflects, improves and evaluates again (TM 1225-1260).  Scores and lengths are the
model's choice, so a good score, a small gain or a text within its length may end
the loop after any evaluation.  What must end it are two counters:
`reflection_max_iterations` (`MaxIterations`) bounds the rounds made for the
score, and `enforce_output_length` hands out a length directive at most
`MaxRewrites` times; a directive makes the loop go on whatever the iterations
are, so the first limit alone does not hold.  A round counts in `iteration` when
`improve_answer` is done, a directive in `rewrites` when it is followed.  The
loop looks at the cancel flag after the first evaluation and at the top of each
round, not after the last one.

### Runs

| Run | Shows |
|---|---|
| `task_safety` | `ApprovedExecution`, `SingleRunner`, `RunnersReachable`, `OrchestratorOwned`, `NoOrphanedRun`, `ResumedFromCheckpoint`, `PlanDecisionFinal`, `OutcomesFinal` hold; the fuse ends a registered run without any answer of a model (`FuseEndsRun`); with answers a run is closed (`SettlesIfAnswered`) |
| `task_reject` | `RejectedNeverCompletes` fails: a rejected resumed run completes |

`task_safety` also checks `KeepsPromise`, below.  The failing property quotes an
answer of the code; see "findings" in `PROJECT.json`, and the further
configurations in section 2.

### TaskPromise

What the user who submits a task is promised, in four variables: the status
shown, the state of the budget plan, whether seats are `working`, and `late`.
Seats work only under a plan the user locked, while the task is shown as
running; a plan is decided once; a task that ended stays as it ended until it
is resumed; a restart shows as interrupted what was under way.

`late` is the exception the code makes, stated instead of hidden: a rejection
does not reach a start whose path is not known yet (MCP), nor a resumed run
before its first and after its last await of `execute()`.  What is late may
still close a rejected task; nothing else may, and seats still work under a
locked plan only.

`KeepsPromise` is the specification of `TaskPromise` under the mapping
`status`, `plan` from the record, `working` = some coroutine inside
`execute()` that was not told to stop, `late` = some live coroutine that
`_running_tasks` does not reach or whose task has no path.

### Bounds

* `Tasks = {t1}`.  No action reads or writes the state of two tasks, except
  `Restart`, which treats each by itself.
* `Slots`: three in the safety run.  `OneCoroutine` proves that at most one is
  live; one more may be held by a stale handle, one is free for a new one.
* `MaxTimers`: 2, so that one timer may fire for a later run than the one it was
  armed for.  A further cancel while two are pending is not explored; timers
  differ in nothing else.
* `MaxIterations` and `MaxRewrites`: 2 each in the safety run, so that a run may make
  up to four rounds, and the directive carries it beyond the first limit; 1 each
  in the other configurations, whose properties are about a single round or none.
* `MaxTasks` only states that `create_task` does not evict.

### Fairness

`LoopSpec` adds weak fairness of timers, of first steps of scheduled coroutines
and of `CancelledError` delivery: what asyncio's loop does with anything ready.
It promises nothing of models or services.  `CallsReturn` (every awaited call
returns or raises) appears only where a property or run names it:
`SettlesIfAnswered` has it as a hypothesis (it is then the two counters that end
the reflection loop: without the one that `improve_answer` counts, TLC finds a run that
reflects for ever), `AnsweringSpec` uses it for
`TaskLifecycle_cancel.cfg` and `TaskLifecycle_resume.cfg`, so that their
counterexamples do not blame a model that never answers.  Users are never fair.  Each counterexample ends in a state
the fair actions cannot leave.

### Assumptions

* Redis accepts its writes, so record and snapshot agree between actions and
  `Restart` reads `task`.
* The handlers the MCP server runs in a thread are atomic with respect to the
  loop (in CPython they interleave between bytecodes; the window is not modelled).
* An exception outside the `try` blocks of `_run_unified_task_inner` (954-973)
  and `_resume_company_task` (1389-1405) does not happen.
* A reply that contains the word 取消 without a cancel is treated as an error.

## 4. FaultPool

`fault` is the sum of `fault_pool_ledger`; `draw[w]` is where thread `w` stands
in `disburse_for_lock_reward`.  An endpoint runs in a thread, a
`with store._conn()` block is one transaction under a process-wide lock, so the
actions are the transactions: `Quote` (first read, split of the reward),
`ReadForDebit` (second read, cap), `PostDebit` (insert), `PostShortfall` (the
platform's share), `Receive` (`fault_pool_credit`).

| Run | Shows |
|---|---|
| `fault_races` | `OverdraftBounded`: three threads never leave a debt above two rewards, because each debit was read as covered; later shortfalls do not add to it |

Bounds: three threads (two race, one comes later), rewards 1 and 2, credits of 1,
nothing asked or received above a balance of 4; amounts beyond that add
states but no order of steps.  Symmetry over threads; no liveness here.
Left out: `balance_after` and `_maybe_handle_depletion`, which nothing here reads.
`WorkersAssumption`: the threads that disburse are finitely many (one for each
request the thread pool serves) and at least one.

## 5. ContributionLocks

### State

| Variable | Code |
|---|---|
| `unlocked[a]`, `locked[a]` | the two contribution balances of `balances` |
| `residue[a]` | sign of the stored double minus the decimal value of `locked[a]` |
| `plan[i]` | a row of `lock_installments`; `due` and `window` stand for `next_due_at` and `appeal_deadline` against the clock |
| `appeal[q]` | a row of `billing_appeals` |
| `decayed[a]` | `last_decay_at` is within the half-life |
| `job[w]` | where thread `w` stands in `lock_contribution`, `forfeit_installments_for_key_failure` or `resolve_appeal` |
| `restored[i]`, `crashes` | history of restorations; number of restarts |

Amounts are integers of 0.0001 credits, the precision to which the code rounds.
The locked balance itself is a SQLite REAL that no statement rounds, so
`locked` is its decimal value and `residue` the sign of the error.  After an
addition or subtraction the error may have any sign, except where the double
result is exact (nothing or the whole balance taken, or added to zero).  Running
the repository's store shows that the abstraction does not invent errors:
after locking 100 credits and paying two periods the balance is
33.33339999999999, below the last principal of 33.3334, while other amounts
come out even or above.  With `Residues = {0}` the arithmetic is exact.

### Actions

| Action | Code |
|---|---|
| `Earn`, `Convert`, `Decay`, `HalfLifePasses` | `settle_contributor_reward`, `convert_contribution_unlocked`, `run_contribution_decay` |
| `LockRequest`, `LockDebit`, `LockCredit`, `LockInstall` | `lock_contribution`: the check and its three transactions |
| `PayPeriods`, as `Maintain` and `PayOnRequest` | `process_lock_installments`: one transaction pays every due row the balance covers, in any row order; the rows left out are those it no longer covers |
| `EarlyUnlock` | `early_unlock_installment` |
| `KeyFails`, `Forfeit`, `ForfeitRaises` | the list of plans of a failed key, one transaction per plan, and the exception that ends the loop |
| `FileAppeal`, `WindowCloses`, `Resolve`, `Restore` | `create_appeal`; `resolve_appeal` and the restoration after it |
| `DueDatePasses`, `Restart` | the clock; the process dies between two transactions |

### Runs

| Run | Shows |
|---|---|
| `locks_safety` | `LockedBacksPlans`, `ForfeitedInFull`, `AppealsMatchForfeiture`, `EndedIsFinal` hold in every order of transactions and with every residue |
| `locks_liveness` | `PlansEndIfExact`: plans end if sums come out exact |
| `locks_drift` | `PlansEnd` fails: a balance just below the last principal refuses it for ever |

### Bounds

* `locks_safety`: one account (no transaction touches two, except `Maintain`
  and `Decay`, which treat each by itself), two threads, two plans of 4 units
  (periods 1, 1, 2), one key, one appeal, one restart, earnings of 10 up to 10
  so that two plans fit.  Larger amounts occur in the runs of one plan (10 and
  11: one remainder above and one below the other periods).
* The violation runs use the least instance that shows the failure.
* `MaxRestored`: a resolution starts only while no more than this was restored
  for the plan: 0 in `locks_safety` (each thread once), 20 in
  `ContributionLocks_appeal.cfg`.
* Symmetry over plans and threads in `locks_safety`, which has no liveness.

### Fairness

`FairSpec`: threads run (`JobStep`), due dates pass (`DueDatePasses`) and the
maintenance loop, which sleeps and calls `process_due_installments` for as long
as the process lives, comes round (`Maintain`).  Nobody has to make a request.

### Assumptions

* Amounts asked for have at most four decimals.
* `FiniteAssumption`: there are finitely many plans and threads, as in any
  database and process; sums over them are finite.
* The unlocked balance has no residue: an error there only turns a request
  away, which a race does as well.
* `create_appeal` reads the plan and inserts in two transactions; what it reads
  of a forfeited plan does not change (`EndedStaysEnded`), so they are one step.
* Credits to the purchased pool and the fault-pool entries booked after a commit
  are left out: nothing here reads them.

## 6. CompanyRun

### State

| Variable | Code |
|---|---|
| `pc` | where `execute()` is suspended: planning, the loop, the gather of a batch, the steps of a review, synthesis, final review, or how it ended |
| `cancelReq` | `cancel_requested` |
| `status[i]`, `deps[i]`, `seat[i]` | the work item, `depends_on`, its assignee as the distance from the top of the organisation chart |
| `worker[i]`, `attempt[i]` | `_execute_with_semaphore` for the item: waiting for a permit or calling; its retries |
| `verdict[i]`, `forced[i]`, `rounds[i]` | what was said of the latest output; `artifacts["force_completed"]`; review rounds |
| `batch`, `cur` | `ready_items` of the iteration; the item in `_review_item` |
| `parallel`, `free` | `_max_parallel`, the permits left |

### Actions

| Action | Code |
|---|---|
| `Decompose`, `DecomposeEmpty` | planning and `build_work_items`, which checks for no cycle |
| `Dispatch`, `Gathered`, `LoopEnds` | one iteration of `_execute_review_loop`; its deadlock check |
| `Acquire`, `AcquireRaises`, `CallSucceeds`, `CallRetries`, `CallEscalates`, `CallGivesUp` | `_execute_single_item`: a worker takes a permit (an assignee that is no role raises), calls, retries, hands the item to the superior, blocks it |
| `Pick`, `NextRound`, `RoundsOver`, `GatePasses`, `GateSendsBack`, `GateBlocks`, `ReviewerApproves`, `ReviewerSendsBack`, `ReviewerFails`, `BatchReviewed` | `_review_item` with the L1 gate, to the forced completion after the last round |
| `ReworkSucceeds`, `ReworkRetries`, `ReworkGivesUp` | `_rework_item` |
| `Synthesize`, `FinalReview` | the end of `execute()` |
| `RequestCancel`, `Abort`, `Resume` | `request_cancel`, the fuse, `from_checkpoint` and a new `execute()` |

`Move` applies `VALID_TRANSITIONS`: a move the table does not know leaves the
status, as `transition` does, and the caller goes on.

### Runs

| Run | Shows |
|---|---|
| `company_safety` | items come after their dependencies (`DependenciesFirst`), nothing is in flight outside a batch (`SettledOutsideBatch`), nobody writes what is being judged (`ReviewedAtRest`), permits add up through exchanges of the semaphore (`PermitsExact`), DONE means judged or marked as forced (`DoneIsJudged`), after a cancel nothing starts (`NothingStartsAfterCancel`) and to whoever watches the board every step is one of `RunPromise` (`KeepsPromise`); every step uses up some of what the run may still do (`RunsAreFinite`); a cancel ends the run (`CancelEnds`) and a run ends unless it waits behind an item nobody will finish (`EndsOrStuck`), from where it does not recover (`StuckForEver`) |
| `company_stuck` | `StuckIsLeft` fails: the loop's deadlock check counts READY items as active |

### RunPromise

The board (`get_kanban`) shows each item as to do, in hand, done, blocked or
cancelled (`Column`); the run is being planned, under way or over (`Outcome`).
`RunPromise` says over these four variables what a run may do: an item is taken
up once, when all it needs is done and nobody has asked to cancel; from there it is
done or blocked; a cancel closes what is open; a result is delivered when
nothing is to do or in hand; only a run without a result starts anew.  It makes
one exception, because the code does: `gather` hands on the first error and
leaves the other workers of the batch running, so that in a failed run items
may still be taken up and blocked.  Retries, escalations, rounds, reworks,
batches, permits and forced completions are steps nobody sees.  `OverStays`, the
part of it that says that DONE and CANCELLED are final, is also a theorem by
itself.

`StepsLeft` bounds the steps of a run from what its items may still use up: the
attempts at the seat of the item and at those above, the batch that may still
take it up, the reviews it waits for, the rounds and attempts left of the one it
is in, and the stages of `execute()`.  `RunsAreFinite` says that every step but
a resumption makes it smaller.  So what keeps a run from its end is never a
loop of answers: it is `Stuck`, where the loop looks again without a step
(`company_stuck`), or a call that does not return.

### Bounds

Three items in five decompositions (independent items, a fork, a chain, an
unusable seat, a cycle behind a free item): the least that has a batch of two
beside a waiting item, a dependency of a dependency and a cycle.  `Top = 1`:
one escalation and none left.  `MaxRetries = 1`, `MaxRounds = 2`: each limit is
reached after at least one repetition.  `MaxParallel = 1`, so that `_adjust`
moves between one and two permits and workers wait.  Resumptions are not
bounded: they start from scratch.

### Fairness and assumptions

`FairSpec`: `execute()` and its workers go on; every model call returns or raises,
at the latest at the deadline the code gives the calls of seats and of rework.  A cancel, the fuse and a
resumption are never forced.  Escalations to superiors and to the user inside
an attempt are part of the call; the L1 gate's own `inspect` does not raise; what
workers of an abandoned run still write goes to a board nobody holds.

## 7. CreditPools

One account: no transaction touches two.  Every block under `PoolStore._conn`
is a transaction and one action; between two of them an operation is what it
remembers (`pc`, `held`, `entry`, `target`).  Nothing is fair here, so an
operation may stop for ever after any transaction: that is the crash, and the
exception nobody catches.

| Variable | Code |
|---|---|
| `monthly`, `purchased`, `unlocked` | rows of `balances` |
| `month`, `granted`, `rolled`, `grants`, `forfeited` | `_month_key`, the rows of `grants` and of `rollover_records` |
| `ledger`, `entry[p]` | the sum of `pool_ledger` over the two pools that are spent; the entry an operation has still to append |
| `reserved`, `usage`, `settled`, `status` | rows of `tasks`, `pool_usage_events` |
| `paid`, `closes` | history: credits taken for a task and given back; settlements begun |

| Action | Code |
|---|---|
| `EnsurePools` | `ensure_pools`, with the month's grant |
| `ReserveRead`, `CreateTaskRecord`, `ReserveSpend` | `reserve_for_task` with its two tiers |
| `RecordUsage` | `settle_task_usage` |
| `CloseRead`, `CloseRefund`, `CloseCheck`, `CloseSpend`, `CloseMark` | `complete_billed_task`, `finalize_task` |
| `DebitCheck`, `DebitSpend` | `BillingStore.debit` |
| `TopupPurchased`, `ConvertRead`, `ConvertDebit`, `ConvertCredit` | `topup_purchased`, `convert_contribution_unlocked` |
| `SpendFails`, `AppendLedger` | `spend_from_pools` without enough; the ledger entry after its commit |
| `RunMonthlyRollover`, `NextMonth` | the daily rollover job; the calendar |

`ProcsFinite`: the operations under way are finitely many, as the requests of one
process are.

| Run | Shows |
|---|---|
| `credits_safety` | no pool below zero although checks and charges are apart (`Solvent`); grants, forfeitures, ledger and entries still owed explain the balances (`BooksBalance`); the purchased pool is touched only when the grant is used up (`GrantSpentFirst`); a task settled once has paid what it is settled at (`SettledIsPaid`) |
| `credits_rollover` | `FreshGrantKept` fails: the rollover takes a grant of the same month |

Bounds: one task and its settlement, one metered charge, two conversions that
want 3 and 5 of 5, one top-up, two months.  A grant of 5 and an estimate of 4
beside a charge of 2: two askers that each fit and together do not, both
reservation tiers, a charge across both pools.  Half of the rest is rolled, at
most 2, so that the cap and the rounding both occur.  Amounts are integers of
the smallest unit: the rounding of each double to four decimals is exact at
that precision, drift below it is not modelled here (see ContributionLocks,
where it decides).  Key selection, prices, `monthly_used_credits` and the
legacy ledger of `store.py` are left out: no pool depends on them.

`complete_billed_task` has no caller outside tests.  The settlement is modelled
as the code is; that no execution ever closes its billing row is a limit of
the program, not of the model.

## 8. DockerMeter

| Variable | Code |
|---|---|
| `word`, `up`, `age` | what the Docker client reports (external): the word for a running container, whether it runs, the time since `StartedAt`, which goes on while it is stopped; 0 where no start is reported |
| `owner`, `billed`, `included` | `_owners`, `_billed_uptime`, `_included_used_hours` |
| `credits` | what the user's pools hold; the debit is one step, see CreditPools |
| `pc`, `claim` | where a thread stands; its settlement: of which service and user, from which uptime to which |
| `listing`, `todo`, `broke` | a tick's list of containers, what it has still to visit, users found without credits |
| `ran`, `charged`, `refused`, `twice`, `closed` | history, below |

Compose starts the containers and restarts them, and a container may crash; none
of it goes through this code.  So `Init` has each service running at any age or
stopped, and unowned, and `ExternalStart` and `ExternalStop` may happen at any
time.  The code itself acts on running containers only: `stop_service`,
`start_service` and `restart_service` refuse a service that `containers.list()`
does not name, which lists what runs (`services/docker_manager.py:456-464`).  So
`docker_stop` and the stops of a tick need a running container (`Stops`), and
are followed by `on_stop` only then; `docker_start` has an effect only on a
container that runs already, to which it gives an owner; `docker_restart` settles
first, whether or not the container runs, and may then be refused (`StartFails`).
The check of the list and the call after it are one action: a container that
stops between them is an `ExternalStop` before or after it.

Time is counted in units begun; a unit costs one credit after the included
units.  `_lock` guards single reads and writes, so each block under it is an
action: `Advance` (read and move the billed uptime), `Price` and
`CountIncluded`, `Debit`; `ListContainers`, `Scan`, `ScanEnds`, `StopOptional`,
`StopOne`, `StoppingEnds` for a tick; `ReadUptime`, `Pop` for `on_stop`;
`RequestStart`, `RequestStop`, `RequestRestart`, `StartContainer`,
`StartFails`, `AssignOwner` for the endpoints, which the event loop serves one
at a time.

The histories say what became of the units of a service.  Units are numbered by
uptime, as `_billed_uptime` does it.  `ran` is the greatest uptime the container
has run to, or that a stop still read; `charged` are the units that were settled
(charged to the pools or to the included hours), `refused` those whose debit
failed; `twice` holds the services with a unit that was settled again.  A
service is `closed` when the account of its owner ends: the entry or the owner
is removed, a final settlement moves the entry back, somebody else stops it or
becomes its owner, or a restart is asked for while it does not run (its age is
then not the time it ran).  An external restart does not close a service: the
entry stays, and the units below it are not billed again.

| Run | Shows |
|---|---|
| `docker_safety` | two ticks side by side, with lists of different ages, and the owner's stop and restart charge no unit twice and none that was not run (`ChargedOnce`); what lies below the billed uptime was charged, refused or is being charged, and no more was (`UnitsAccounted`) |
| `docker_tick` | `RunningIsBilled` fails: a container that runs gets an owner, the client says "running", the tick looks for "Up" |

The word is a constant of the run: the client of this code says "running"
(`container.status`), the mocks of the tests say "Up 2 minutes".  With "running"
no tick ever settles anything, which is the finding, and only final settlements
do; `docker_safety` explores both words, so the ticks are checked as they are
written and as they would run once the word is right, and the final settlements
under either.  No property promises that ticks bill.

Bounds: one service (a settlement touches one; a user's stop of several is a
loop over `todo`), two users so that a service changes hands, two tickers, which
are symmetric, two requests, age up to 2: an interval that is split and one that
is not.  One credit and one included unit: the second unit is charged, the third
is not affordable.  Fairness, for `docker_tick` only: the background loop ticks
and its threads run; nobody has to make a request.  Left out: the billing calls of
the company's tools (`company/tools.py:281-305`), rates per service, the change
of month of the included hours, containers that were created and never started
(Docker reports the year 1 for them, a huge uptime).
`TickersFinite`: the loop and the company runs that tick are finitely many.

## 9. Proofs

The inductive invariants and the other strengthenings named below were also
model-checked, each on the instance of the component's safety run.

### SumTheorems

Balances, ledgers and bounds add up over sets whose size is a parameter.
`MapThenSumSet` is defined by a recursive function over subsets, and the
library's induction theorems take an operator as a parameter, which the provers
cannot instantiate.  `SubsetInduction` gets around it: that strict inclusion is
well-founded on the subsets of a finite set (`WFMin`, about sets, not operators)
gives induction for a set of subsets.  From it follow that the recursive function
exists (`SumsExist`) and is unique, and then what the other modules cite: that
the order of the elements does not matter (`SumOfRemove`), and how a sum
behaves when one term changes, when terms fall, are added up, bounded, or are
zero outside a part of the set.

### TaskLifecycleProofs

For all tasks, slots and bounds that satisfy the assumptions named in the
module (`TasksFit`, `SlotsAssumption`, `TimersAssumption`, `LoopAssumption`, `ModesAssumption`).

`SingleRunner` is not inductive: it depends on why a second coroutine cannot
start, which depends on the record, the handle and the checkpoint flag.  The
invariant `IInv` says that each task is in one of two modes.

* `Idle`: no coroutine lives, no orchestrator is registered, and the record is
  in a combination in which any handler may start one.
* `Busy` with one coroutine: its place, the status, the plan, the handle, the
  orchestrator and `resumable` agree.

For each action one lemma shows from which mode to which it leads; handlers that
keep the record's shape, coroutine ends and interrupts share lemmas about
the shape.  `Invariance` is `Spec => []IInv`; the other theorems follow from
`IInv`, or, for the two action properties, from `IInv` and one step.

`LoopBounded` is about the reflection loop, for any limits (`LoopAssumption`):
`RoundsBounded` says that the rewrites stay within their limit, and that the
iterations exceed theirs by no more than the rewrites used, with room for the
round that is under way.  So no coroutine makes more rounds than `MaxIterations +
MaxRewrites`, although a directive overrides the first limit.  It is the
safety half of what `SettlesIfAnswered` says of the loop.

### TaskPromiseProofs

`TaskKeepsPromise` is `Spec => KeepsPromise`: `TaskLifecycle` implements
`TaskPromise`.  `OneCoroutine` makes the mapping tractable: of a task with one
coroutine, `working` and `late` are functions of its record and of that coroutine
(`View`, `Works`, `Lags`).  Beside `IInv` the mapping needs `Shown`: which
status a record may show at which place of its coroutine (an undecided plan is
shown as awaiting confirmation, a coroutine about to enter `execute()` as
running).  `PInv`, their conjunction, is inductive.  The lemmas follow the
shapes of steps: a handler writes the record, a coroutine begins, goes on, ends and
leaves the status, or ends and closes it; each says which step of `TaskPromise`
the user sees, and that `Shown` holds again.

### FaultPoolProofs

For all threads, rewards and receipts (`RewardsAssumption`, `WorkersAssumption`).
`PoolTypeCorrect` follows from an invariant that adds to the types that a
disbursement on its way takes something.  `SoleDrawerSolvent`: if there is at
most one thread, `NeverOverdrawn` holds, since nobody debits between its second
read and its insert, and credits only raise the balance.  With the run of two
threads, which fails, this says that the overdraft takes a race.

`RacesOverdrawBoundedly` bounds what a race can do: the debt never exceeds the
largest reward for each thread but one.  The bound is not inductive, since a
thread may have read its cap long ago.  `DebtInv` says what is: no debit on its way
takes more than the largest reward, and all that are on their way together take no
more than the balance and one largest reward for each thread but one.  The thread
that computes its debit last reads a balance that covers its own; each insert
moves one amount from the sum to the balance.

### ContributionLocksProofs

For all accounts, keys, plans, appeals, threads, amounts, residues and bounds,
from the five named assumptions.  `LocksTypeCorrect` contains that no balance
goes below zero.  The invariant `IInv` adds to the types what links the tables:
an existing plan has an owner, a restoration under way belongs to a forfeited
plan, an appeal names a plan and asks for what it forfeited.  It is needed
because `Restore` uses a row that `Resolve` read earlier, and `Resolve` one
that `FileAppeal` copied.  The step proof has two halves: types, with one
lemma per group of actions, and `PlanKept`, which says what any step may do to a
plan; `AppealsAskForForfeiture` and `EndedStaysEnded` follow from it.
`PeriodsExhaustPrincipal` is the arithmetic of the periods: a payment takes
what the plan then claims less, for every total.

`LockedAlwaysBacks` is the balance against the plans: for each account the locked
balance is at least what its running plans still claim and what the locks on
their way have moved but not yet installed.  Its invariant adds that each
running plan has a period left (`PeriodLeft`), so that no payment takes more
than the plan's claim, and `ForfeitedInFull` (`ForfeitsInFull`): the two are
proved together, because a forfeiture takes all of a claim only while the
balance covers it.  `ResidueAloneBlocks` turns this around: a running plan that
the balance does not cover has exactly its last period left of the whole
balance, and a negative residue.  So the counterexample `locks_drift` is the
only way in which a due plan can be refused, for all amounts.

### CompanyRunProofs

For every graph of items, every chart and every bound.  The invariant says, for
each place of `pc`, who holds an item that is in hand: a calling worker, the batch
that waits for its review, or the review itself (`HandShape`), of whose
dependencies nothing is missing (`BatchShape`, `CurShape`), and what a cancel
leaves (`CancelShape`: everything closed, or nothing begun).  `PermitsExact` is
kept by counting callers; a changed bound is safe because `Dispatch` exchanges
the semaphore only when nobody calls.  `StuckForEver` is an action property of
the guards: with nothing ready and nothing in hand no worker, review or dispatch
is enabled that could change a status.

`RunsEnd` is `Spec => RunsAreFinite`, and `RunsBounded` that `StepsLeft` is a natural
number and at the beginning of a run at most
`5 + |Items| * (ReviewSteps + 5 + MaxRetries + Custom * Attempts)`: together a bound
on the length of every run that needs no fairness, for any answers of the models
and any graph.  A step either leads `execute()` to a later stage and takes nothing
back from any item, or uses up something of one item; `Dispatch` alone goes back
(from the loop to a batch), by fewer stages than each item it takes up pays.
The lemmas `StepsFall`, `ReviewFalls` and `WorkFalls` state these three cases; each
action names its own.

`RunKeepsPromise` is `Spec => KeepsPromise`: `CompanyRun` implements `RunPromise`.
Beside `IInv` the mapping needs that no item is left PLANNING (`Undrafted`) and that
none is open while the result is put together (`Closed`).  The guard of the abstract
`Take` is where the invariant does its work: an item was found ready before the
batch, and is taken up when a permit comes; that its dependencies are still
done, and that no cancel has come between, is `BatchShape` and `CancelShape`.

### CreditPoolsProofs

For any number of operations, amounts and any policy.  `Solvent` holds because
one transaction takes all of an amount or none; `SettledIsPaid` needs what each
operation holds at each of its steps (`HeldShape`), that a task closed once has
one closer (`ClosesShape`), and what was paid at each step of that settlement
(`PaidShape`).

`BooksAlwaysBalance` adds up over the operations: an operation between its commit and
its ledger entry (`entry`) owes the books a term, and each step moves a balance, a
record or one such term by the same amount (`BooksKept`).  `RecordsSuffice`: with
no entry outstanding the records alone explain the balances, so a difference
found in the tables is an operation that was cut short and nothing else.
`RefundsFitTaken`: a task that is settled at most once, and whose reservation did
not fail, never has more given back than was taken, which leaves exactly the two
ways of `CreditPools_refund.cfg`.  `ContributionsAccounted`: the contribution pool is
what was earned less what the conversions took, each once.

### DockerMeterProofs

For any number of ticking threads, services, users and requests, and for
containers that run before anybody owns them and stop and start by themselves.  A
settlement claims the units between the uptime billed before and the one it sees,
and moves the billed uptime on in the same block.  So the claims in flight for
one service are intervals that do not meet (`ClaimsNeverMeet`), none reaches
beyond the billed uptime, and what was charged lies outside of them
(`ClaimsApart`).  This holds of a service until it is closed, which is where
`DockerMeter_twice.cfg` begins.

Three parts of `IInv` carry it.  `AgesFit`: an uptime that a tick has listed, or
that a stop is about to read, was run; a container may be stopped before its
uptime is read, and ages on.  `OwnersSettle`: what is settled of an open service is
settled to its owner, by a tick, a stop or a restart.  `Accounted`: the owner's
entry covers exactly the units charged, refused or claimed.  `NeverChargedTwice`
and `NoUnitLost` follow from it.  `Quiet` is the lemma most steps use: a thread
that claims nothing disturbs nothing.

`IncludedStaysBounded`: the included hours are read and counted in two blocks, so
settlements that price at the same time grant the same hours; the counter of a
user never goes beyond one allowance for each thread.  The invariant counts what
each thread has priced and not yet counted.

### What stays with TLC

The liveness properties: fairness and ENABLED are beyond the prover.  (Of
`CompanyRun`, `RunsEnd` proves what of termination is a matter of safety; that a
step is taken is TLC's.)  And, of course, the properties that fail.

## 10. Not modelled

Every part that is left out is a component of `PROJECT.json` with its reason.
In short:

* Text, prompts, roles, model calls, tools and data sources (most of the lines of
  `src/backend/company` and `core`), the frontend, skills and vendored code keep
  no state that steers the components above; where they answer one of them, the
  answer is a choice of outcomes.
* HTTP endpoints other than those of Docker are thin: their calls are the users'
  choices of action.
  Chat streams, authentication and start-up have no model.
* Conversation audit, the budget ledger, the key pool and the OPC service have
  control of their own and are in the plan.
* Not in the models of modelled parts: lost Redis writes, eviction above
  `MAX_TASKS`, the purge of cancelled tasks, the window between bytecodes of
  threads, depletion alerts of the fault pool, administration of balances,
  reports.
