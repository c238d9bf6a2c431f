----------------------------- MODULE CompanyRun -----------------------------
(***************************************************************************)
(* One run of the company: CompanyOrchestrator.execute in                  *)
(* backend/company/orchestrator.py over the work items of                  *)
(* backend/company/work_item.py and the plan of backend/company/           *)
(* decomposer.py.                                                          *)
(*                                                                         *)
(* Everything runs on one event loop: the coroutine of execute() (`pc'),   *)
(* one worker coroutine per work item of the current batch (`worker'),     *)
(* and request_cancel, called from the HTTP handler at any await.  A       *)
(* stretch between two awaits is one action.  A model call that succeeds,  *)
(* fails, times out or answers nonsense is the choice of its outcome;      *)
(* escalations to a superior or to the user inside an attempt are part of  *)
(* the call.                                                               *)
(***************************************************************************)
EXTENDS Naturals, FiniteSets, FiniteSetsExt

CONSTANTS
  Items,          \* work items of the decomposition
  NoItem,         \* no item under review
  Decompositions, \* dependencies and seats a decomposition may answer
  Top,            \* longest chain of superiors above a seat
  MaxRetries,     \* retry_config.max_retries
  MaxRounds,      \* config.max_review_rounds
  MaxParallel     \* config.max_parallel_workers

ASSUME ItemsAssumption == IsFiniteSet(Items) /\ NoItem \notin Items
ASSUME NumbersAssumption ==
  /\ Top \in Nat
  /\ MaxRetries \in Nat
  /\ MaxRounds \in Nat \ {0}
  /\ MaxParallel \in Nat \ {0}

\* A seat is its distance from the top of the organisation chart; a seat of
\* the user's own catalogue, which is no RoleType, comes after all of them.
Custom == Top + 1
Seats == 0..Custom
ASSUME DecompositionsAssumption ==
  Decompositions \subseteq [deps : [Items -> SUBSET Items], seats : [Items -> Seats]]

VARIABLES
  pc,         \* where execute() is suspended
  cancelReq,  \* cancel_requested
  deps,       \* depends_on
  status,     \* WorkItem.status, "none" before it is created
  seat,       \* the assignee's seat
  worker,     \* the coroutine executing the item
  attempt,    \* retries of the item's current execution or rework
  verdict,    \* what was said of the item's latest output
  rounds,     \* review rounds begun
  forced,     \* artifacts["force_completed"]
  batch,      \* ready_items: being gathered, or still to review
  cur,        \* the item in _review_item
  parallel,   \* _max_parallel
  free        \* permits left in _worker_semaphore

itemVars == <<deps, seat>>
loopVars == <<batch, cur, parallel, free>>
vars == <<pc, cancelReq, deps, status, seat, worker, attempt, verdict, rounds,
          forced, batch, cur, parallel, free>>

-----------------------------------------------------------------------------
(* Types *)

Status == {"none", "planning", "ready", "executing", "in_review", "rework",
           "done", "blocked", "cancelled"}
Over == {"done", "cancelled"}
InHand == {"executing", "in_review", "rework"}
Reviewing == {"pick", "top", "gate", "reviewer", "rework"}
Ended == {"success", "cancelled", "failed", "aborted"}
Pc == {"planning", "loop", "gather", "synth", "final"} \cup Reviewing \cup Ended

TypeOK ==
  /\ pc \in Pc
  /\ cancelReq \in BOOLEAN
  /\ deps \in [Items -> SUBSET Items]
  /\ status \in [Items -> Status]
  /\ seat \in [Items -> Seats]
  /\ worker \in [Items -> {"idle", "waiting", "calling"}]
  /\ attempt \in [Items -> 0..MaxRetries]
  /\ verdict \in [Items -> {"none", "unread", "approved", "rejected"}]
  /\ rounds \in [Items -> 0..MaxRounds]
  /\ forced \in [Items -> BOOLEAN]
  /\ batch \subseteq Items
  /\ cur \in Items \cup {NoItem}
  /\ parallel \in 1..(2 * MaxParallel)
  /\ free \in 0..(2 * MaxParallel)

Init ==
  /\ pc = "planning"
  /\ cancelReq = FALSE
  /\ deps = [i \in Items |-> {}]
  /\ status = [i \in Items |-> "none"]
  /\ seat = [i \in Items |-> 0]
  /\ worker = [i \in Items |-> "idle"]
  /\ attempt = [i \in Items |-> 0]
  /\ verdict = [i \in Items |-> "none"]
  /\ rounds = [i \in Items |-> 0]
  /\ forced = [i \in Items |-> FALSE]
  /\ batch = {}
  /\ cur = NoItem
  /\ parallel = MaxParallel
  /\ free = MaxParallel

-----------------------------------------------------------------------------
(* Work items *)

\* VALID_TRANSITIONS
ValidTransitions(s) ==
  CASE s = "planning" -> {"ready", "blocked", "cancelled"}
    [] s \in {"ready", "rework"} -> {"executing", "blocked", "cancelled"}
    [] s = "executing" -> {"in_review", "blocked", "cancelled"}
    [] s = "in_review" -> {"done", "rework", "blocked", "cancelled"}
    [] s = "blocked" -> {"ready", "executing", "in_review", "rework", "cancelled"}
    [] OTHER -> {}

\* WorkItem.transition_to: an illegal transition leaves the item as it is,
\* and none of the callers looks at the answer.
After(s, new) == IF new \in ValidTransitions(s) THEN new ELSE s
Move(i, new) == status' = [status EXCEPT ![i] = After(@, new)]

Done == {i \in Items : status[i] = "done"}

\* Mutant: an item is ready once none of its dependencies is in hand.
ReadyUnlessInHand ==
  {i \in Items : /\ status[i] = "ready"
                 /\ \A d \in deps[i] : status[d] \notin InHand \cup {"ready"}}

\* get_ready_items
Ready == {i \in Items : status[i] = "ready" /\ deps[i] \subseteq Done}

\* has_work_remaining
WorkRemaining == \E i \in Items : status[i] \notin Over \cup {"none"}

\* The deadlock check of the loop counts every READY item as active,
\* get_ready_items only those whose dependencies are done.
HasActive == \E i \in Items : status[i] \in InHand \cup {"ready"}
Stuck == pc = "loop" /\ ~cancelReq /\ Ready = {} /\ HasActive

-----------------------------------------------------------------------------
(* Cancellation *)

\* Mutant: only the items in hand are closed.
RequestCancelInHand ==
  /\ ~cancelReq
  /\ pc \notin Ended
  /\ cancelReq' = TRUE
  /\ status' = [i \in Items |-> IF status[i] \in InHand THEN "cancelled" ELSE status[i]]
  /\ UNCHANGED <<pc, itemVars, worker, attempt, verdict, rounds, forced, loopVars>>

\* request_cancel and cancel_all_pending
RequestCancel ==
  /\ ~cancelReq
  /\ pc \notin Ended
  /\ cancelReq' = TRUE
  /\ status' = [i \in Items |-> After(status[i], "cancelled")]
  /\ UNCHANGED <<pc, itemVars, worker, attempt, verdict, rounds, forced, loopVars>>

\* The fuse of cancel_task cancels the coroutine of the task: at a gather the
\* workers are cancelled with it, and leave the semaphore.
Abort ==
  /\ cancelReq
  /\ pc \notin Ended
  /\ pc' = "aborted"
  /\ worker' = [i \in Items |-> "idle"]
  /\ free' = parallel
  /\ UNCHANGED <<cancelReq, itemVars, status, attempt, verdict, rounds, forced,
                 batch, cur, parallel>>

-----------------------------------------------------------------------------
(* Decomposition *)

\* build_work_items: every item is created READY, its dependencies set after;
\* nothing looks for cycles.
Decompose(plan) ==
  /\ pc = "planning"
  /\ pc' = "loop"
  /\ deps' = plan.deps
  /\ seat' = plan.seats
  /\ status' = [i \in Items |-> "ready"]
  /\ UNCHANGED <<cancelReq, worker, attempt, verdict, rounds, forced, loopVars>>

\* A decomposition without subtasks ends execute() with an error result.
DecomposeEmpty ==
  /\ pc = "planning"
  /\ pc' = "failed"
  /\ UNCHANGED <<cancelReq, itemVars, status, worker, attempt, verdict, rounds,
                 forced, loopVars>>

-----------------------------------------------------------------------------
(* The execute-review loop *)

\* Mutant: the loop does not ask for the cancel flag.
LoopEndsUnasked ==
  /\ pc = "loop"
  /\ ~WorkRemaining \/ (Ready = {} /\ ~HasActive)
  /\ pc' = IF cancelReq THEN "cancelled" ELSE "synth"
  /\ UNCHANGED <<cancelReq, itemVars, status, worker, attempt, verdict, rounds,
                 forced, loopVars>>

\* Mutant: the deadlock check asks only for items that are ready to execute.
LoopEndsWhenNoneReady ==
  /\ pc = "loop"
  /\ cancelReq \/ Ready = {}
  /\ pc' = IF cancelReq THEN "cancelled" ELSE "synth"
  /\ UNCHANGED <<cancelReq, itemVars, status, worker, attempt, verdict, rounds,
                 forced, loopVars>>

\* After the loop execute() looks at the cancel flag before it synthesizes.
LoopEnds ==
  /\ pc = "loop"
  /\ cancelReq \/ ~WorkRemaining \/ (Ready = {} /\ ~HasActive)
  /\ pc' = IF cancelReq THEN "cancelled" ELSE "synth"
  /\ UNCHANGED <<cancelReq, itemVars, status, worker, attempt, verdict, rounds,
                 forced, loopVars>>

\* _adjust_concurrency, at most every 30 seconds: one worker fewer after a
\* rate limit, one more when the answers are quick; a changed bound comes with
\* a new semaphore, all of its permits free.
Adjusted == {parallel, IF parallel > 1 THEN parallel - 1 ELSE 1,
             IF parallel < 2 * MaxParallel THEN parallel + 1 ELSE parallel}

\* Mutant: the loop goes on as soon as one worker of the batch is back.
GatherFirst ==
  /\ pc = "gather"
  /\ \E i \in batch : worker[i] = "idle"
  /\ pc' = IF cancelReq THEN "cancelled" ELSE "pick"
  /\ UNCHANGED <<cancelReq, itemVars, status, worker, attempt, verdict, rounds,
                 forced, loopVars>>

Dispatch(n) ==
  /\ pc = "loop"
  /\ ~cancelReq
  /\ Ready # {}
  /\ pc' = "gather"
  /\ batch' = Ready
  /\ worker' = [i \in Items |-> IF i \in Ready THEN "waiting" ELSE worker[i]]
  /\ parallel' = n
  /\ free' = IF n = parallel THEN free ELSE n
  /\ UNCHANGED <<cancelReq, itemVars, status, attempt, verdict, rounds, forced, cur>>

\* asyncio.gather returns when every worker of the batch has.
Gathered ==
  /\ pc = "gather"
  /\ \A i \in batch : worker[i] = "idle"
  /\ pc' = IF cancelReq THEN "cancelled" ELSE "pick"
  /\ UNCHANGED <<cancelReq, itemVars, status, worker, attempt, verdict, rounds,
                 forced, loopVars>>

-----------------------------------------------------------------------------
(* A worker: _execute_with_semaphore and _execute_single_item *)

\* Mutant: the semaphore is not asked.
AcquireAnyway(i) ==
  /\ worker[i] = "waiting"
  /\ seat[i] # Custom
  /\ worker' = [worker EXCEPT ![i] = "calling"]
  /\ Move(i, "executing")
  /\ attempt' = [attempt EXCEPT ![i] = 0]
  /\ UNCHANGED <<pc, cancelReq, itemVars, verdict, rounds, forced, batch, cur,
                 parallel, free>>

\* The worker enters the semaphore; it does not look at the cancel flag.
Acquire(i) ==
  /\ worker[i] = "waiting"
  /\ seat[i] # Custom
  /\ free > 0
  /\ free' = free - 1
  /\ worker' = [worker EXCEPT ![i] = "calling"]
  /\ Move(i, "executing")
  /\ attempt' = [attempt EXCEPT ![i] = 0]
  /\ UNCHANGED <<pc, cancelReq, itemVars, verdict, rounds, forced, batch, cur,
                 parallel>>

\* role_type.value of a seat that is a str raises: gather passes the error on
\* to execute() at once and leaves the other workers of the batch running.
AcquireRaises(i) ==
  /\ worker[i] = "waiting"
  /\ seat[i] = Custom
  /\ free > 0
  /\ worker' = [worker EXCEPT ![i] = "idle"]
  /\ Move(i, "executing")
  /\ pc' = IF pc = "gather" THEN "failed" ELSE pc
  /\ UNCHANGED <<cancelReq, itemVars, attempt, verdict, rounds, forced, loopVars>>

\* The permit returns when the worker ends.
Leave(i) ==
  /\ worker' = [worker EXCEPT ![i] = "idle"]
  /\ free' = free + 1
  /\ UNCHANGED <<pc, cancelReq, itemVars, rounds, forced, batch, cur, parallel>>

\* The output is written to the item whatever its status is.
CallSucceeds(i) ==
  /\ worker[i] = "calling"
  /\ verdict' = [verdict EXCEPT ![i] = "unread"]
  /\ Move(i, "in_review")
  /\ Leave(i)
  /\ UNCHANGED attempt

CallRetries(i) ==
  /\ worker[i] = "calling"
  /\ attempt[i] < MaxRetries
  /\ attempt' = [attempt EXCEPT ![i] = @ + 1]
  /\ UNCHANGED <<pc, cancelReq, itemVars, status, worker, verdict, rounds, forced,
                 loopVars>>

\* Mutant: the one who failed tries again in the place of the superior.
CallEscalatesInPlace(i) ==
  /\ worker[i] = "calling"
  /\ attempt[i] = MaxRetries
  /\ seat[i] > 0
  /\ attempt' = [attempt EXCEPT ![i] = 0]
  /\ Move(i, "executing")
  /\ UNCHANGED <<pc, cancelReq, itemVars, worker, verdict, rounds, forced, loopVars>>

\* After the last retry the superior takes the item over and starts afresh.
CallEscalates(i) ==
  /\ worker[i] = "calling"
  /\ attempt[i] = MaxRetries
  /\ seat[i] > 0
  /\ seat' = [seat EXCEPT ![i] = @ - 1]
  /\ attempt' = [attempt EXCEPT ![i] = 0]
  /\ Move(i, "executing")
  /\ UNCHANGED <<pc, cancelReq, deps, worker, verdict, rounds, forced, loopVars>>

\* Mutant: the last failure leaves the item executing.
CallGivesUpUnmarked(i) ==
  /\ worker[i] = "calling"
  /\ attempt[i] = MaxRetries
  /\ seat[i] = 0
  /\ Leave(i)
  /\ UNCHANGED <<status, attempt, verdict>>

CallGivesUp(i) ==
  /\ worker[i] = "calling"
  /\ attempt[i] = MaxRetries
  /\ seat[i] = 0
  /\ Move(i, "blocked")
  /\ Leave(i)
  /\ UNCHANGED <<attempt, verdict>>

Work(i) ==
  \/ Acquire(i)
  \/ AcquireRaises(i)
  \/ CallSucceeds(i)
  \/ CallRetries(i)
  \/ CallEscalates(i)
  \/ CallGivesUp(i)

-----------------------------------------------------------------------------
(* The review of a batch, item by item: _review_item and _rework_item *)

StepReview(p) ==
  /\ pc' = p
  /\ UNCHANGED <<cancelReq, itemVars, worker, batch, parallel, free>>

\* Only an item that came back IN_REVIEW is reviewed.
Pick(i) ==
  /\ pc = "pick"
  /\ i \in batch
  /\ batch' = batch \ {i}
  /\ IF status[i] = "in_review"
     THEN pc' = "top" /\ cur' = i
     ELSE UNCHANGED <<pc, cur>>
  /\ UNCHANGED <<cancelReq, itemVars, status, worker, attempt, verdict, rounds,
                 forced, parallel, free>>

BatchReviewed ==
  /\ pc = "pick"
  /\ batch = {}
  /\ pc' = "loop"
  /\ UNCHANGED <<cancelReq, itemVars, status, worker, attempt, verdict, rounds,
                 forced, loopVars>>

\* Mutant: one round too many is begun.
RoundLeftInclusive == rounds[cur] <= MaxRounds /\ status[cur] = "in_review"

RoundLeft == rounds[cur] < MaxRounds /\ status[cur] = "in_review"

\* Mutant: the round is not counted.
NextRoundUncounted ==
  /\ pc = "top"
  /\ RoundLeft
  /\ StepReview("gate")
  /\ UNCHANGED <<status, attempt, verdict, rounds, forced, cur>>

NextRound ==
  /\ pc = "top"
  /\ RoundLeft
  /\ rounds' = [rounds EXCEPT ![cur] = @ + 1]
  /\ StepReview("gate")
  /\ UNCHANGED <<status, attempt, verdict, forced, cur>>

\* What the end of _review_item makes of a status: an item left EXECUTING is
\* put IN_REVIEW first, then complete() is tried.
ForceComplete(s) ==
  After(IF s = "executing" THEN After(s, "in_review") ELSE s, "done")

\* The review of the item is over: an item that is not DONE is marked as
\* completed by force, and completed if its status allows it.
LeaveReview(s) ==
  /\ status' = [status EXCEPT ![cur] = ForceComplete(s)]
  /\ forced' = IF s = "done" THEN forced ELSE [forced EXCEPT ![cur] = TRUE]
  /\ cur' = NoItem
  /\ StepReview("pick")

RoundsOver ==
  /\ pc = "top"
  /\ ~RoundLeft
  /\ LeaveReview(status[cur])
  /\ UNCHANGED <<attempt, verdict, rounds>>

\* The item is sent back: REWORK, then EXECUTING before the next await.
SendBack ==
  /\ status' = [status EXCEPT ![cur] = After(After(@, "rework"), "executing")]
  /\ verdict' = [verdict EXCEPT ![cur] = "rejected"]
  /\ attempt' = [attempt EXCEPT ![cur] = 0]
  /\ StepReview("rework")
  /\ UNCHANGED <<rounds, forced, cur>>

\* _run_l1_inspect: the gate is absent or approves ...
GatePasses ==
  /\ pc = "gate"
  /\ StepReview("reviewer")
  /\ UNCHANGED <<status, attempt, verdict, rounds, forced, cur>>

\* ... or asks for a rework, itself or by the ruling on its escalation ...
GateSendsBack == pc = "gate" /\ SendBack

\* ... or escalates without an answer: the item is blocked.
GateBlocks ==
  /\ pc = "gate"
  /\ LeaveReview(After(status[cur], "blocked"))
  /\ UNCHANGED <<attempt, verdict, rounds>>

\* Mutant: the verdict is not compared with the item it was asked for.
ApprovesUnread ==
  /\ pc = "reviewer"
  /\ LeaveReview(After(status[cur], "done"))
  /\ UNCHANGED <<attempt, verdict, rounds>>

ReviewerApproves ==
  /\ pc = "reviewer"
  /\ verdict' = [verdict EXCEPT ![cur] = "approved"]
  /\ LeaveReview(After(status[cur], "done"))
  /\ UNCHANGED <<attempt, rounds>>

ReviewerSendsBack == pc = "reviewer" /\ SendBack

\* A failed review ends the rounds as if all of them had been used.
ReviewerFails ==
  /\ pc = "reviewer"
  /\ LeaveReview(status[cur])
  /\ UNCHANGED <<attempt, verdict, rounds>>

ReworkSucceeds ==
  /\ pc = "rework"
  /\ verdict' = [verdict EXCEPT ![cur] = "unread"]
  /\ Move(cur, "in_review")
  /\ StepReview("top")
  /\ UNCHANGED <<attempt, rounds, forced, cur>>

ReworkRetries ==
  /\ pc = "rework"
  /\ attempt[cur] < MaxRetries
  /\ attempt' = [attempt EXCEPT ![cur] = @ + 1]
  /\ UNCHANGED <<pc, cancelReq, itemVars, status, worker, verdict, rounds, forced,
                 loopVars>>

ReworkGivesUp ==
  /\ pc = "rework"
  /\ attempt[cur] = MaxRetries
  /\ Move(cur, "blocked")
  /\ StepReview("top")
  /\ UNCHANGED <<attempt, verdict, rounds, forced, cur>>

Review ==
  \/ \E i \in Items : Pick(i)
  \/ BatchReviewed
  \/ NextRound
  \/ RoundsOver
  \/ GatePasses
  \/ GateSendsBack
  \/ GateBlocks
  \/ ReviewerApproves
  \/ ReviewerSendsBack
  \/ ReviewerFails
  \/ ReworkSucceeds
  \/ ReworkRetries
  \/ ReworkGivesUp

-----------------------------------------------------------------------------
(* Synthesis and final review: a failed model call has a fallback *)

Synthesize ==
  /\ pc = "synth"
  /\ pc' = IF cancelReq THEN "cancelled" ELSE "final"
  /\ UNCHANGED <<cancelReq, itemVars, status, worker, attempt, verdict, rounds,
                 forced, loopVars>>

FinalReview ==
  /\ pc = "final"
  /\ pc' = "success"
  /\ UNCHANGED <<cancelReq, itemVars, status, worker, attempt, verdict, rounds,
                 forced, loopVars>>

-----------------------------------------------------------------------------
(* Resumption *)

\* resume_task of a run that did not succeed: from_checkpoint gives a new
\* orchestrator the saved work items, and execute() replaces them by an empty
\* WorkItemManager before it plans again.  What the workers of an abandoned
\* run still do happens to items nobody holds any more.
Resume ==
  /\ pc \in Ended \ {"success"}
  /\ pc' = "planning"
  /\ cancelReq' = FALSE
  /\ status' = [i \in Items |-> "none"]
  /\ deps' = [i \in Items |-> {}]
  /\ seat' = [i \in Items |-> 0]
  /\ worker' = [i \in Items |-> "idle"]
  /\ attempt' = [i \in Items |-> 0]
  /\ verdict' = [i \in Items |-> "none"]
  /\ rounds' = [i \in Items |-> 0]
  /\ forced' = [i \in Items |-> FALSE]
  /\ batch' = {}
  /\ cur' = NoItem
  /\ parallel' = MaxParallel
  /\ free' = MaxParallel

-----------------------------------------------------------------------------
(* Specification *)

Planning == DecomposeEmpty \/ \E plan \in Decompositions : Decompose(plan)
Loop == LoopEnds \/ (\E n \in Adjusted : Dispatch(n)) \/ Gathered
Run == Planning \/ Loop \/ Review \/ Synthesize \/ FinalReview

Next ==
  \/ Run
  \/ \E i \in Items : Work(i)
  \/ RequestCancel
  \/ Abort
  \/ Resume

\* The event loop serves every coroutine whose model call has returned, and
\* every call returns: each is bounded by a deadline.
Fairness == WF_vars(Run) /\ \A i \in Items : WF_vars(Work(i))

Spec == Init /\ [][Next]_vars
FairSpec == Spec /\ Fairness

-----------------------------------------------------------------------------
(* Safety *)

\* No item is executed, reviewed or done before everything it depends on is
\* done, although get_ready_items looks at the dependencies only once, before
\* the batch is gathered, and cancels, failures and reviews interleave.
DependenciesFirst ==
  \A i \in Items : status[i] \in InHand \cup {"done"} => deps[i] \subseteq Done

\* Outside a batch nothing is in flight: when the loop decides, when the
\* deliverables are synthesized and when the run ends, no worker runs and no
\* item is EXECUTING, IN_REVIEW or REWORK.  (A run that an error ended is the
\* exception: gather leaves the rest of its batch running.)
SettledOutsideBatch ==
  pc \notin {"gather", "failed"} \cup Reviewing =>
    \A i \in Items : worker[i] = "idle" /\ status[i] \notin InHand

\* The reviews begin when every worker of the batch is back: no worker writes
\* to an item while its output is being judged.
ReviewedAtRest == pc \in Reviewing => \A i \in Items : worker[i] = "idle"

Calling == {i \in Items : worker[i] = "calling"}

\* A permit of the semaphore is neither lost nor invented by retries,
\* escalations, errors and the exchange of the semaphore, so at most
\* _max_parallel workers call a model.
PermitsExact == free + Cardinality(Calling) = parallel

\* An item is DONE because the reviewer approved the output it now has, or
\* because it was completed by force, which its artifacts say.
DoneIsJudged ==
  \A i \in Items : status[i] = "done" => verdict[i] = "approved" \/ forced[i]

\* A cancel closes every item there is; where it came before the items, they
\* stay READY and none of them is ever taken up.
NothingStartsAfterCancel ==
  cancelReq => \/ \A i \in Items : status[i] \in Over
               \/ \A i \in Items : status[i] \in {"none", "ready"} /\ worker[i] = "idle"

\* During a run DONE and CANCELLED are final, whichever of the late worker, the
\* review, the forced completion and the cancel comes last.
OverStays ==
  [][pc \notin Ended =>
       \A i \in Items : status[i] \in Over => status'[i] = status[i]]_vars

\* A loop that waits for READY items behind unfinished dependencies waits for
\* nothing: no step of the run changes any item again, only a cancel does.
StuckForEver == [][Stuck => status' = status \/ cancelReq']_vars

-----------------------------------------------------------------------------
(* What the run promises *)

\* The outcome, and the column of the board (get_kanban) an item is in.
Outcome == IF pc \in {"planning"} \cup Ended THEN pc ELSE "running"
Column(i) ==
  IF status[i] \in InHand THEN "doing"
  ELSE IF status[i] \in {"planning", "ready"} THEN "todo" ELSE status[i]

Promise == INSTANCE RunPromise WITH
  outcome <- Outcome,
  asked <- cancelReq,
  needs <- deps,
  board <- [i \in Items |-> Column(i)]

\* To whoever watches the board, every step of execute(), of a worker, of a
\* review, of a cancel or of the fuse is a step of RunPromise or none: items are
\* taken up once, behind their dependencies and before a cancel, what is done
\* stays done, and a result comes when nothing is open.
KeepsPromise == Promise!Spec

-----------------------------------------------------------------------------
(* Progress: a bound on the steps of a run, from what its items may still use  *)
(* up.  Every loop of the code has its part: attempts, seats, rounds, batches. *)

Attempts == MaxRetries + 1    \* calls from one seat
RoundSteps == MaxRetries + 5  \* steps of a round: three answers and a rework
ReviewSteps == MaxRounds * RoundSteps + 3

\* The item's worker: the calls left at its seat and at those above.
CallsLeft(i) ==
  CASE worker[i] = "waiting" -> 2 + seat[i] * Attempts + MaxRetries
    [] worker[i] = "calling" -> 1 + seat[i] * Attempts + (MaxRetries - attempt[i])
    [] OTHER -> 0

\* The batch that may still take the item up.
BatchesLeft(i) ==
  IF worker[i] # "idle" \/ status[i] \notin {"none", "ready"} THEN 0
  ELSE ReviewSteps + 5 + MaxRetries
       + (IF status[i] = "none" THEN Custom ELSE seat[i]) * Attempts

\* The review the item waits for, and the rest of the one it is in.
ReviewsLeft(i) == IF i \in batch THEN ReviewSteps ELSE 0

RoundsLeft(i) ==
  IF i # cur \/ pc \notin {"top", "gate", "reviewer", "rework"} THEN 0
  ELSE (MaxRounds - rounds[i]) * RoundSteps
       + CASE pc = "top" -> 1
           [] pc = "gate" -> MaxRetries + 4
           [] pc = "reviewer" -> MaxRetries + 3
           [] pc = "rework" -> 2 + (MaxRetries - attempt[i])

\* An ended run reviews nothing, but gather leaves workers behind.
ItemLeft(i) ==
  CallsLeft(i) + IF pc \in Ended THEN 0
                 ELSE BatchesLeft(i) + ReviewsLeft(i) + RoundsLeft(i)

\* The stages of execute(), and the cancel that may still come.
StageLeft ==
  IF pc \in Ended THEN 0
  ELSE (IF cancelReq THEN 0 ELSE 1)
       + CASE pc = "gather" -> 5
           [] pc \in {"planning"} \cup Reviewing -> 4
           [] pc = "loop" -> 3
           [] pc = "synth" -> 2
           [] pc = "final" -> 1

StepsLeft ==
  LET left == [i \in Items |-> ItemLeft(i)]
  IN  StageLeft + MapThenSumSet(LAMBDA i : left[i], Items)

\* No run goes on for ever: every step uses something up, whatever the models
\* answer, and only a resumption starts anew.  What remains when nothing can
\* be taken up is the loop that looks again without a step (Stuck).
RunsAreFinite ==
  [][StepsLeft' < StepsLeft \/ (pc \in Ended /\ pc' = "planning")]_vars

-----------------------------------------------------------------------------
(* Liveness *)

\* A requested cancel ends the run, wherever it meets it.
CancelEnds == cancelReq ~> pc \in Ended

\* Every run, resumed ones too, ends unless it comes to wait behind an
\* unfinished dependency.
EndsOrStuck == []<>(pc \in Ended) \/ <>[]Stuck

\* The comment of the deadlock check (orchestrator.py:769): when nothing can
\* be advanced, waiting would spin for ever, so the loop is left.
StuckIsLeft == Stuck ~> pc # "loop"

\* The docstring of resume_task (task_manager.py:457) and the comment of
\* _resume_company_task (task_manager.py:1402): the run goes on from the
\* checkpoint, so what was done in it is not to be done again.
ResumeKeepsDone ==
  [][(pc \in Ended /\ pc' = "planning") => Done \subseteq Done']_vars

\* The docstring of request_cancel (orchestrator.py:133): the items that are not
\* finished become CANCELLED, the board shows no cancelled task with open items.
CancelledRunClosed ==
  pc = "cancelled" => \A i \in Items : status[i] \in Over
=============================================================================
