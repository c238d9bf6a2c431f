-------------------------- MODULE CompanyRunProofs --------------------------
(***************************************************************************)
(* Proofs about CompanyRun, for every set of items, every set of           *)
(* decompositions and every bound that satisfy its assumptions: the        *)
(* inductive invariant and what follows from it, the two properties of     *)
(* steps, that every step uses something up (a measure over the items,     *)
(* with SumTheorems), and that the run implements RunPromise.              *)
(***************************************************************************)
EXTENDS CompanyRun, SumTheorems

\* What planning starts from.
Fresh ==
  pc = "planning" =>
    /\ batch = {} /\ cur = NoItem
    /\ \A i \in Items : status[i] = "none" /\ worker[i] = "idle"

Created == pc \notin {"planning"} \cup Ended => \A i \in Items : status[i] # "none"

\* A cancel leaves either nothing open or nothing begun.
CancelShape ==
  cancelReq =>
    \/ \A i \in Items : status[i] \in Over
    \/ /\ pc \in {"planning", "loop"} \cup Ended
       /\ \A i \in Items : status[i] \in {"none", "ready"} /\ worker[i] = "idle"

\* The item under review, by the place where its review stands.
CurShape ==
  /\ pc \in {"top", "gate", "reviewer", "rework"} => cur \in Items
  /\ pc = "top" => status[cur] \in {"in_review", "blocked", "cancelled"}
  /\ pc \in {"gate", "reviewer"} => status[cur] \in {"in_review", "cancelled"}
  /\ pc = "rework" => status[cur] \in {"executing", "cancelled"}
  /\ cur \in Items => deps[cur] \subseteq Done

\* Workers live in a batch, on items of which nothing is missing.
WorkerShape ==
  \A i \in Items :
    /\ worker[i] # "idle" => pc \in {"gather", "failed"} /\ i \in batch
    /\ worker[i] = "waiting" => status[i] \in {"ready", "cancelled"}
    /\ worker[i] = "calling" => status[i] \in {"executing", "cancelled"}

BatchShape == \A i \in batch : deps[i] \subseteq Done

\* Who has an item that is in hand.
HandShape ==
  pc # "failed" =>
    \A i \in Items : status[i] \in InHand =>
      \/ worker[i] = "calling"
      \/ i \in batch /\ status[i] = "in_review" /\ pc \in {"gather"} \cup Reviewing
      \/ i = cur /\ pc \in {"top", "gate", "reviewer", "rework"}

Shape == Fresh /\ Created /\ CancelShape /\ CurShape /\ WorkerShape /\ BatchShape
         /\ HandShape

IInv == TypeOK /\ PermitsExact /\ DependenciesFirst /\ DoneIsJudged /\ Shape

-----------------------------------------------------------------------------
(* Transitions *)

\* What the table makes of the moves the code tries.
LEMMA Transitions ==
  /\ \A s, new \in Status : After(s, new) \in {s, new}
  /\ \A new \in Status : After("cancelled", new) = "cancelled"
  /\ \A new \in Status : After("done", new) = "done"
  /\ After("ready", "executing") = "executing"
  /\ \A new \in {"executing", "in_review", "blocked"} : After("executing", new) = new
  /\ \A new \in {"done", "rework", "blocked"} : After("in_review", new) = new
  /\ After("rework", "executing") = "executing"
  /\ \A s \in {"done", "blocked", "cancelled"} : ForceComplete(s) = s
  /\ ForceComplete("in_review") = "done"
BY DEF After, ValidTransitions, ForceComplete, Status

\* A cancel closes everything that was created.
LEMMA CancelCloses ==
  \A s \in Status \ {"none"} : After(s, "cancelled") \in Over
BY DEF After, ValidTransitions, Status, Over

LEMMA CancelKeeps ==
  /\ After("none", "cancelled") = "none"
  /\ \A s \in Over : After(s, "cancelled") = s
BY DEF After, ValidTransitions, Over

-----------------------------------------------------------------------------
(* The workers that call a model *)

LEMMA CallersFinite == IsFiniteSet(Calling) /\ Cardinality(Calling) \in Nat
<1>1. IsFiniteSet(Calling)
  BY ItemsAssumption, FS_Subset DEF Calling
<1>. QED  BY <1>1, FS_CardinalityType

LEMMA NobodyCalls ==
  ASSUME \A i \in Items : worker[i] # "calling"
  PROVE  Cardinality(Calling) = 0
<1>1. Calling = {}
  BY DEF Calling
<1>. QED  BY <1>1, FS_EmptySet

LEMMA CallerEnters ==
  ASSUME NEW i \in Items, worker[i] = "waiting", worker \in [Items -> {"idle", "waiting", "calling"}],
         worker' = [worker EXCEPT ![i] = "calling"]
  PROVE  Cardinality(Calling') = Cardinality(Calling) + 1
<1>1. Calling' = Calling \cup {i} /\ i \notin Calling
  BY DEF Calling
<1>. QED  BY <1>1, CallersFinite, FS_AddElement

LEMMA CallerLeaves ==
  ASSUME NEW i \in Items, worker[i] = "calling", worker \in [Items -> {"idle", "waiting", "calling"}],
         worker' = [worker EXCEPT ![i] = "idle"]
  PROVE  Cardinality(Calling') = Cardinality(Calling) - 1 /\ Cardinality(Calling) > 0
<1>1. Calling' = Calling \ {i} /\ i \in Calling
  BY DEF Calling
<1>2. Cardinality(Calling') = Cardinality(Calling) - 1
  BY <1>1, CallersFinite, FS_RemoveElement
<1>3. Cardinality(Calling) # 0
  BY <1>1, CallersFinite, FS_EmptySet
<1>. QED  BY <1>2, <1>3, CallersFinite

-----------------------------------------------------------------------------
(* The steps of execute() *)

\* Steps that only move execute() on.
LEMMA PcKeeps ==
  ASSUME IInv, DecomposeEmpty \/ LoopEnds \/ Gathered \/ BatchReviewed \/ GatePasses
             \/ Synthesize \/ FinalReview
  PROVE  IInv'
<1>. USE NumbersAssumption, ItemsAssumption
    DEF DecomposeEmpty, LoopEnds, Gathered, BatchReviewed, GatePasses, Synthesize,
        FinalReview, StepReview, WorkRemaining, Ready, HasActive, itemVars, loopVars, IInv, Shape,
        TypeOK, PermitsExact, DependenciesFirst, DoneIsJudged, Fresh, Created,
        CancelShape, CurShape, WorkerShape, BatchShape, HandShape,
        Status, Over, InHand, Reviewing, Ended, Pc, Done, Seats, Custom
<1>1. TypeOK'
  OBVIOUS
<1>2. DependenciesFirst' /\ DoneIsJudged'
  OBVIOUS
<1>3. Fresh' /\ Created' /\ CancelShape'
  OBVIOUS
<1>4. CurShape'
  OBVIOUS
<1>5. WorkerShape' /\ BatchShape' /\ HandShape'
  OBVIOUS
<1>6. PermitsExact'
  <2>1. Calling' = Calling
    BY DEF Calling
  <2>2. free' = free /\ parallel' = parallel
    OBVIOUS
  <2>. QED  BY <2>1, <2>2
<1>. QED  BY <1>1, <1>2, <1>3, <1>4, <1>5, <1>6

\* The items come into being.
LEMMA DecomposeKeeps ==
  ASSUME IInv, NEW plan \in Decompositions, Decompose(plan)
  PROVE  IInv'
<1>. USE NumbersAssumption, ItemsAssumption, DecompositionsAssumption
    DEF Decompose, itemVars, loopVars, IInv, Shape,
        TypeOK, PermitsExact, DependenciesFirst, DoneIsJudged, Fresh, Created,
        CancelShape, CurShape, WorkerShape, BatchShape, HandShape,
        Status, Over, InHand, Reviewing, Ended, Pc, Done, Seats, Custom
<1>1. TypeOK'
  OBVIOUS
<1>2. DependenciesFirst' /\ DoneIsJudged'
  OBVIOUS
<1>3. Fresh' /\ Created' /\ CancelShape'
  OBVIOUS
<1>4. CurShape'
  OBVIOUS
<1>5. WorkerShape' /\ BatchShape' /\ HandShape'
  OBVIOUS
<1>6. PermitsExact'
  <2>1. Calling' = Calling
    BY DEF Calling
  <2>2. free' = free /\ parallel' = parallel
    OBVIOUS
  <2>. QED  BY <2>1, <2>2
<1>. QED  BY <1>1, <1>2, <1>3, <1>4, <1>5, <1>6

\* A batch is gathered: nobody calls a model yet.
LEMMA DispatchKeeps ==
  ASSUME IInv, NEW n \in Adjusted, Dispatch(n)
  PROVE  IInv'
<1>. USE NumbersAssumption, ItemsAssumption
    DEF Dispatch, Adjusted, Ready, itemVars, loopVars, IInv, Shape,
        TypeOK, PermitsExact, DependenciesFirst, DoneIsJudged, Fresh, Created,
        CancelShape, CurShape, WorkerShape, BatchShape, HandShape,
        Status, Over, InHand, Reviewing, Ended, Pc, Done, Seats, Custom
<1>1. TypeOK'
  OBVIOUS
<1>2. DependenciesFirst' /\ DoneIsJudged'
  OBVIOUS
<1>3. Fresh' /\ Created' /\ CancelShape'
  OBVIOUS
<1>4. CurShape'
  OBVIOUS
<1>5. WorkerShape' /\ BatchShape' /\ HandShape'
  OBVIOUS
<1>6. PermitsExact'
  <2>1. Calling = {} /\ Calling' = {}
    BY DEF Calling
  <2>2. Cardinality(Calling) = 0 /\ Cardinality(Calling') = 0
    BY <2>1, FS_EmptySet
  <2>. QED  BY <2>2, <1>1
<1>. QED  BY <1>1, <1>2, <1>3, <1>4, <1>5, <1>6

\* The next item of the batch, or none.
LEMMA PickKeeps ==
  ASSUME IInv, NEW i \in Items, Pick(i)
  PROVE  IInv'
<1>. USE NumbersAssumption, ItemsAssumption
    DEF Pick, itemVars, loopVars, IInv, Shape,
        TypeOK, PermitsExact, DependenciesFirst, DoneIsJudged, Fresh, Created,
        CancelShape, CurShape, WorkerShape, BatchShape, HandShape,
        Status, Over, InHand, Reviewing, Ended, Pc, Done, Seats, Custom
<1>1. TypeOK'
  OBVIOUS
<1>2. DependenciesFirst' /\ DoneIsJudged'
  OBVIOUS
<1>3. Fresh' /\ Created' /\ CancelShape'
  OBVIOUS
<1>4. CurShape'
  OBVIOUS
<1>5. WorkerShape' /\ BatchShape' /\ HandShape'
  OBVIOUS
<1>6. PermitsExact'
  <2>1. Calling' = Calling
    BY DEF Calling
  <2>2. free' = free /\ parallel' = parallel
    OBVIOUS
  <2>. QED  BY <2>1, <2>2
<1>. QED  BY <1>1, <1>2, <1>3, <1>4, <1>5, <1>6

\* A round begins.
LEMMA RoundKeeps ==
  ASSUME IInv, NextRound
  PROVE  IInv'
<1>. USE NumbersAssumption, ItemsAssumption
    DEF NextRound, StepReview, RoundLeft, itemVars, loopVars, IInv, Shape,
        TypeOK, PermitsExact, DependenciesFirst, DoneIsJudged, Fresh, Created,
        CancelShape, CurShape, WorkerShape, BatchShape, HandShape,
        Status, Over, InHand, Reviewing, Ended, Pc, Done, Seats, Custom
<1>1. TypeOK'
  OBVIOUS
<1>2. DependenciesFirst' /\ DoneIsJudged'
  OBVIOUS
<1>3. Fresh' /\ Created' /\ CancelShape'
  OBVIOUS
<1>4. CurShape'
  OBVIOUS
<1>5. WorkerShape' /\ BatchShape' /\ HandShape'
  OBVIOUS
<1>6. PermitsExact'
  <2>1. Calling' = Calling
    BY DEF Calling
  <2>2. free' = free /\ parallel' = parallel
    OBVIOUS
  <2>. QED  BY <2>1, <2>2
<1>. QED  BY <1>1, <1>2, <1>3, <1>4, <1>5, <1>6

LEMMA MarkType ==
  ASSUME forced \in [Items -> BOOLEAN],
         NEW s, LeaveReview(s)
  PROVE  forced' \in [Items -> BOOLEAN]
<1>1. CASE s = "done"
  BY <1>1 DEF LeaveReview
<1>2. CASE s # "done"
  <2>1. forced' = [forced EXCEPT ![cur] = TRUE]
    BY <1>2 DEF LeaveReview
  <2>. QED  BY <2>1
<1>. QED  BY <1>1, <1>2

\* The four ways out of a review.
LEMMA LeaveKeeps ==
  ASSUME IInv, RoundsOver \/ GateBlocks \/ ReviewerApproves \/ ReviewerFails
  PROVE  IInv'
<1>. USE NumbersAssumption, ItemsAssumption, Transitions
    DEF RoundsOver, GateBlocks, ReviewerApproves, ReviewerFails, LeaveReview,
        StepReview, RoundLeft, itemVars, loopVars, IInv, Shape,
        TypeOK, PermitsExact, DependenciesFirst, DoneIsJudged, Fresh, Created,
        CancelShape, CurShape, WorkerShape, BatchShape, HandShape,
        Status, Over, InHand, Reviewing, Ended, Pc, Done, Seats, Custom
<1>1. TypeOK'
  <2>1. forced' \in [Items -> BOOLEAN]
    BY MarkType
  <2>2. status' \in [Items -> Status]
    OBVIOUS
  <2>. QED  BY <2>1, <2>2
<1>2. DependenciesFirst' /\ DoneIsJudged'
  <2>1. status'[cur] = "done" => verdict'[cur] = "approved" \/ forced'[cur]
    <3>1. CASE ReviewerApproves
      BY <3>1
    <3>2. CASE RoundsOver \/ GateBlocks \/ ReviewerFails
      <4>1. forced'[cur]
        BY <3>2
      <4>. QED  BY <4>1
    <3>. QED  BY <3>1, <3>2
  <2>2. DoneIsJudged'
    BY <2>1
  <2>3. DependenciesFirst'
    OBVIOUS
  <2>. QED  BY <2>2, <2>3
<1>3. Fresh' /\ Created' /\ CancelShape'
  OBVIOUS
<1>4. CurShape'
  OBVIOUS
<1>5. WorkerShape' /\ BatchShape' /\ HandShape'
  OBVIOUS
<1>6. PermitsExact'
  <2>1. Calling' = Calling
    BY DEF Calling
  <2>2. free' = free /\ parallel' = parallel
    OBVIOUS
  <2>. QED  BY <2>1, <2>2
<1>. QED  BY <1>1, <1>2, <1>3, <1>4, <1>5, <1>6

\* The item goes back to its seat.
LEMMA SendBackKeeps ==
  ASSUME IInv, GateSendsBack \/ ReviewerSendsBack
  PROVE  IInv'
<1>. USE NumbersAssumption, ItemsAssumption, Transitions
    DEF GateSendsBack, ReviewerSendsBack, SendBack, StepReview, itemVars, loopVars, IInv, Shape,
        TypeOK, PermitsExact, DependenciesFirst, DoneIsJudged, Fresh, Created,
        CancelShape, CurShape, WorkerShape, BatchShape, HandShape,
        Status, Over, InHand, Reviewing, Ended, Pc, Done, Seats, Custom
<1>1. TypeOK'
  OBVIOUS
<1>2. DependenciesFirst' /\ DoneIsJudged'
  OBVIOUS
<1>3. Fresh' /\ Created' /\ CancelShape'
  OBVIOUS
<1>4. CurShape'
  OBVIOUS
<1>5. WorkerShape' /\ BatchShape' /\ HandShape'
  OBVIOUS
<1>6. PermitsExact'
  <2>1. Calling' = Calling
    BY DEF Calling
  <2>2. free' = free /\ parallel' = parallel
    OBVIOUS
  <2>. QED  BY <2>1, <2>2
<1>. QED  BY <1>1, <1>2, <1>3, <1>4, <1>5, <1>6

\* The rework.
LEMMA ReworkKeeps ==
  ASSUME IInv, ReworkSucceeds \/ ReworkRetries \/ ReworkGivesUp
  PROVE  IInv'
<1>. USE NumbersAssumption, ItemsAssumption, Transitions
    DEF ReworkSucceeds, ReworkRetries, ReworkGivesUp, Move, StepReview, itemVars, loopVars, IInv, Shape,
        TypeOK, PermitsExact, DependenciesFirst, DoneIsJudged, Fresh, Created,
        CancelShape, CurShape, WorkerShape, BatchShape, HandShape,
        Status, Over, InHand, Reviewing, Ended, Pc, Done, Seats, Custom
<1>1. TypeOK'
  OBVIOUS
<1>2. DependenciesFirst' /\ DoneIsJudged'
  OBVIOUS
<1>3. Fresh' /\ Created' /\ CancelShape'
  OBVIOUS
<1>4. CurShape'
  OBVIOUS
<1>5. WorkerShape' /\ BatchShape' /\ HandShape'
  OBVIOUS
<1>6. PermitsExact'
  <2>1. Calling' = Calling
    BY DEF Calling
  <2>2. free' = free /\ parallel' = parallel
    OBVIOUS
  <2>. QED  BY <2>1, <2>2
<1>. QED  BY <1>1, <1>2, <1>3, <1>4, <1>5, <1>6

-----------------------------------------------------------------------------
(* The steps of a worker *)

\* A worker enters the semaphore.
LEMMA AcquireKeeps ==
  ASSUME IInv, NEW i \in Items, Acquire(i)
  PROVE  IInv'
<1>. USE NumbersAssumption, ItemsAssumption, Transitions
    DEF Acquire, Move, itemVars, loopVars, IInv, Shape,
        TypeOK, PermitsExact, DependenciesFirst, DoneIsJudged, Fresh, Created,
        CancelShape, CurShape, WorkerShape, BatchShape, HandShape,
        Status, Over, InHand, Reviewing, Ended, Pc, Done, Seats, Custom
<1>0. worker \in [Items -> {"idle", "waiting", "calling"}]
  OBVIOUS
<1>1. TypeOK'
  BY CallersFinite
<1>2. DependenciesFirst' /\ DoneIsJudged'
  OBVIOUS
<1>3. Fresh' /\ Created' /\ CancelShape'
  OBVIOUS
<1>4. CurShape'
  OBVIOUS
<1>5. WorkerShape' /\ BatchShape' /\ HandShape'
  OBVIOUS
<1>6. PermitsExact'
  <2>1. Cardinality(Calling') = Cardinality(Calling) + 1
    BY <1>0, CallerEnters
  <2>2. free' = free - 1 /\ parallel' = parallel /\ free \in Nat
    OBVIOUS
  <2>. QED  BY <2>1, <2>2, CallersFinite
<1>. QED  BY <1>1, <1>2, <1>3, <1>4, <1>5, <1>6

\* A seat the orchestrator cannot serve.
LEMMA RaisesKeeps ==
  ASSUME IInv, NEW i \in Items, AcquireRaises(i)
  PROVE  IInv'
<1>. USE NumbersAssumption, ItemsAssumption, Transitions
    DEF AcquireRaises, Move, itemVars, loopVars, IInv, Shape,
        TypeOK, PermitsExact, DependenciesFirst, DoneIsJudged, Fresh, Created,
        CancelShape, CurShape, WorkerShape, BatchShape, HandShape,
        Status, Over, InHand, Reviewing, Ended, Pc, Done, Seats, Custom
<1>1. TypeOK'
  OBVIOUS
<1>2. DependenciesFirst' /\ DoneIsJudged'
  OBVIOUS
<1>3. Fresh' /\ Created' /\ CancelShape'
  OBVIOUS
<1>4. CurShape'
  OBVIOUS
<1>5. WorkerShape' /\ BatchShape' /\ HandShape'
  OBVIOUS
<1>6. PermitsExact'
  <2>1. Calling' = Calling
    BY DEF Calling
  <2>. QED  BY <2>1
<1>. QED  BY <1>1, <1>2, <1>3, <1>4, <1>5, <1>6

\* An attempt failed, the worker goes on.
LEMMA RetryKeeps ==
  ASSUME IInv, NEW i \in Items, CallRetries(i) \/ CallEscalates(i)
  PROVE  IInv'
<1>. USE NumbersAssumption, ItemsAssumption, Transitions
    DEF CallRetries, CallEscalates, Move, itemVars, loopVars, IInv, Shape,
        TypeOK, PermitsExact, DependenciesFirst, DoneIsJudged, Fresh, Created,
        CancelShape, CurShape, WorkerShape, BatchShape, HandShape,
        Status, Over, InHand, Reviewing, Ended, Pc, Done, Seats, Custom
<1>1. TypeOK'
  OBVIOUS
<1>2. DependenciesFirst' /\ DoneIsJudged'
  OBVIOUS
<1>3. Fresh' /\ Created' /\ CancelShape'
  OBVIOUS
<1>4. CurShape'
  OBVIOUS
<1>5. WorkerShape' /\ BatchShape' /\ HandShape'
  OBVIOUS
<1>6. PermitsExact'
  <2>1. Calling' = Calling
    BY DEF Calling
  <2>. QED  BY <2>1
<1>. QED  BY <1>1, <1>2, <1>3, <1>4, <1>5, <1>6

\* A worker ends.
LEMMA WorkerLeaves ==
  ASSUME IInv, NEW i \in Items, CallSucceeds(i) \/ CallGivesUp(i)
  PROVE  IInv'
<1>. USE NumbersAssumption, ItemsAssumption, Transitions
    DEF CallSucceeds, CallGivesUp, Move, Leave, itemVars, loopVars, IInv, Shape,
        TypeOK, PermitsExact, DependenciesFirst, DoneIsJudged, Fresh, Created,
        CancelShape, CurShape, WorkerShape, BatchShape, HandShape,
        Status, Over, InHand, Reviewing, Ended, Pc, Done, Seats, Custom
<1>0. worker \in [Items -> {"idle", "waiting", "calling"}]
  OBVIOUS
<1>1. TypeOK'
  BY <1>0, CallerLeaves, CallersFinite
<1>2. DependenciesFirst' /\ DoneIsJudged'
  OBVIOUS
<1>3. Fresh' /\ Created' /\ CancelShape'
  OBVIOUS
<1>4. CurShape'
  OBVIOUS
<1>5. WorkerShape' /\ BatchShape' /\ HandShape'
  OBVIOUS
<1>6. PermitsExact'
  BY <1>0, CallerLeaves, CallersFinite
<1>. QED  BY <1>1, <1>2, <1>3, <1>4, <1>5, <1>6

-----------------------------------------------------------------------------
(* Cancellation and resumption *)

\* The user cancels.
LEMMA CancelKeepsShape ==
  ASSUME IInv, RequestCancel
  PROVE  IInv'
<1>. USE NumbersAssumption, ItemsAssumption, Transitions, CancelCloses, CancelKeeps
    DEF RequestCancel, itemVars, loopVars, IInv, Shape,
        TypeOK, PermitsExact, DependenciesFirst, DoneIsJudged, Fresh, Created,
        CancelShape, CurShape, WorkerShape, BatchShape, HandShape,
        Status, Over, InHand, Reviewing, Ended, Pc, Done, Seats, Custom
<1>1. TypeOK'
  OBVIOUS
<1>2. DependenciesFirst' /\ DoneIsJudged'
  OBVIOUS
<1>3. Fresh' /\ Created' /\ CancelShape'
  OBVIOUS
<1>4. CurShape'
  OBVIOUS
<1>5. WorkerShape' /\ BatchShape' /\ HandShape'
  OBVIOUS
<1>6. PermitsExact'
  <2>1. Calling' = Calling
    BY DEF Calling
  <2>2. free' = free /\ parallel' = parallel
    OBVIOUS
  <2>. QED  BY <2>1, <2>2
<1>. QED  BY <1>1, <1>2, <1>3, <1>4, <1>5, <1>6

\* The fuse.
LEMMA AbortKeeps ==
  ASSUME IInv, Abort
  PROVE  IInv'
<1>. USE NumbersAssumption, ItemsAssumption
    DEF Abort, itemVars, loopVars, IInv, Shape,
        TypeOK, PermitsExact, DependenciesFirst, DoneIsJudged, Fresh, Created,
        CancelShape, CurShape, WorkerShape, BatchShape, HandShape,
        Status, Over, InHand, Reviewing, Ended, Pc, Done, Seats, Custom
<1>1. TypeOK'
  OBVIOUS
<1>2. DependenciesFirst' /\ DoneIsJudged'
  OBVIOUS
<1>3. Fresh' /\ Created' /\ CancelShape'
  OBVIOUS
<1>4. CurShape'
  OBVIOUS
<1>5. WorkerShape' /\ BatchShape' /\ HandShape'
  OBVIOUS
<1>6. PermitsExact'
  <2>1. Calling' = {}
    BY DEF Calling
  <2>2. Cardinality(Calling') = 0
    BY <2>1, FS_EmptySet
  <2>. QED  BY <2>2
<1>. QED  BY <1>1, <1>2, <1>3, <1>4, <1>5, <1>6

\* A new orchestrator.
LEMMA ResumeKeeps ==
  ASSUME IInv, Resume
  PROVE  IInv'
<1>. USE NumbersAssumption, ItemsAssumption
    DEF Resume, itemVars, loopVars, IInv, Shape,
        TypeOK, PermitsExact, DependenciesFirst, DoneIsJudged, Fresh, Created,
        CancelShape, CurShape, WorkerShape, BatchShape, HandShape,
        Status, Over, InHand, Reviewing, Ended, Pc, Done, Seats, Custom
<1>1. TypeOK'
  <2>1. parallel' \in 1..(2 * MaxParallel) /\ free' \in 0..(2 * MaxParallel)
    OBVIOUS
  <2>2. attempt' \in [Items -> 0..MaxRetries] /\ rounds' \in [Items -> 0..MaxRounds]
    OBVIOUS
  <2>3. deps' \in [Items -> SUBSET Items] /\ seat' \in [Items -> Seats]
    OBVIOUS
  <2>. QED  BY <2>1, <2>2, <2>3
<1>2. DependenciesFirst' /\ DoneIsJudged'
  OBVIOUS
<1>3. Fresh' /\ Created' /\ CancelShape'
  OBVIOUS
<1>4. CurShape'
  OBVIOUS
<1>5. WorkerShape' /\ BatchShape' /\ HandShape'
  OBVIOUS
<1>6. PermitsExact'
  <2>1. Calling' = {}
    BY DEF Calling
  <2>2. Cardinality(Calling') = 0
    BY <2>1, FS_EmptySet
  <2>. QED  BY <2>2
<1>. QED  BY <1>1, <1>2, <1>3, <1>4, <1>5, <1>6

-----------------------------------------------------------------------------
(* Invariance *)

LEMMA Initially == Init => IInv
<1>. SUFFICES ASSUME Init PROVE IInv
  OBVIOUS
<1>. USE NumbersAssumption, ItemsAssumption DEF Init
<1>1. TypeOK
  <2>1. parallel \in 1..(2 * MaxParallel) /\ free \in 0..(2 * MaxParallel)
    OBVIOUS
  <2>2. attempt \in [Items -> 0..MaxRetries] /\ rounds \in [Items -> 0..MaxRounds]
    OBVIOUS
  <2>3. deps \in [Items -> SUBSET Items] /\ seat \in [Items -> Seats]
    BY DEF Seats, Custom
  <2>. QED  BY <2>1, <2>2, <2>3 DEF TypeOK, Status, Pc
<1>2. PermitsExact
  <2>1. Calling = {}
    BY DEF Calling
  <2>. QED  BY <2>1, FS_EmptySet DEF PermitsExact
<1>3. DependenciesFirst /\ DoneIsJudged
  BY DEF DependenciesFirst, DoneIsJudged, InHand
<1>4. Shape
  BY DEF Shape, Fresh, Created, CancelShape, CurShape, WorkerShape, BatchShape, HandShape,
         InHand, Ended
<1>. QED  BY <1>1, <1>2, <1>3, <1>4 DEF IInv

LEMMA NextKeeps == IInv /\ [Next]_vars => IInv'
<1>. SUFFICES ASSUME IInv, [Next]_vars PROVE IInv'
  OBVIOUS
<1>1. CASE Planning
  BY <1>1, PcKeeps, DecomposeKeeps DEF Planning
<1>2. CASE Loop
  BY <1>2, PcKeeps, DispatchKeeps DEF Loop
<1>3. CASE Review
  BY <1>3, PcKeeps, PickKeeps, RoundKeeps, LeaveKeeps, SendBackKeeps, ReworkKeeps DEF Review
<1>4. CASE Synthesize \/ FinalReview
  BY <1>4, PcKeeps
<1>5. CASE \E i \in Items : Work(i)
  BY <1>5, AcquireKeeps, RaisesKeeps, RetryKeeps, WorkerLeaves DEF Work
<1>6. CASE RequestCancel \/ Abort \/ Resume
  BY <1>6, CancelKeepsShape, AbortKeeps, ResumeKeeps
<1>7. CASE UNCHANGED vars
  BY <1>7 DEF vars, IInv, Shape, TypeOK, PermitsExact, Calling, DependenciesFirst,
     DoneIsJudged, Fresh, Created, CancelShape, CurShape, WorkerShape, BatchShape,
     HandShape, Done
<1>. QED  BY <1>1, <1>2, <1>3, <1>4, <1>5, <1>6, <1>7 DEF Next, Run

\* The inductive invariant: who holds an item that is in hand, at every place of
\* the loop.
THEOREM RunInvariance == Spec => []IInv
BY Initially, NextKeeps, PTL DEF Spec

\* Types, with the bounds on retries, review rounds and permits.
THEOREM RunTypeCorrect == Spec => []TypeOK
<1>1. IInv => TypeOK
  BY DEF IInv
<1>. QED  BY <1>1, RunInvariance, PTL

\* Nothing is executed, reviewed or done before what it depends on, for every
\* graph of dependencies.
THEOREM DependenciesRespected == Spec => []DependenciesFirst
<1>1. IInv => DependenciesFirst
  BY DEF IInv
<1>. QED  BY <1>1, RunInvariance, PTL

\* No permit of the semaphore is lost or invented.
THEOREM PermitsKept == Spec => []PermitsExact
<1>1. IInv => PermitsExact
  BY DEF IInv
<1>. QED  BY <1>1, RunInvariance, PTL

\* A DONE item was approved as it is, or says that it was forced.
THEOREM DoneWasJudged == Spec => []DoneIsJudged
<1>1. IInv => DoneIsJudged
  BY DEF IInv
<1>. QED  BY <1>1, RunInvariance, PTL

\* Outside a batch nothing is in flight.
THEOREM BatchesSettle == Spec => []SettledOutsideBatch
<1>1. IInv => SettledOutsideBatch
  BY DEF IInv, Shape, TypeOK, WorkerShape, HandShape, CancelShape, SettledOutsideBatch, InHand,
         Over, Reviewing, Ended, Pc
<1>. QED  BY <1>1, RunInvariance, PTL

\* Reviews meet no worker.
THEOREM ReviewsAtRest == Spec => []ReviewedAtRest
<1>1. IInv => ReviewedAtRest
  BY DEF IInv, Shape, WorkerShape, ReviewedAtRest, Reviewing
<1>. QED  BY <1>1, RunInvariance, PTL

\* After a cancel nothing is open, or nothing was begun.
THEOREM CancelStops == Spec => []NothingStartsAfterCancel
<1>1. IInv => NothingStartsAfterCancel
  BY DEF IInv, Shape, CancelShape, NothingStartsAfterCancel
<1>. QED  BY <1>1, RunInvariance, PTL

-----------------------------------------------------------------------------
(* Action properties *)

\* What was decided of an item in a run stays decided.
THEOREM DecidedStays == Spec => OverStays
<1>1. IInv /\ [Next]_vars =>
        [pc \notin Ended => \A i \in Items : status[i] \in Over => status'[i] = status[i]]_vars
  <2>. SUFFICES ASSUME IInv, Next, pc \notin Ended, NEW i \in Items, status[i] \in Over
                PROVE  status'[i] = status[i]
    OBVIOUS
  <2>0. /\ status \in [Items -> Status]
        /\ pc = "planning" => status[i] = "none"
        /\ pc \in {"top", "gate", "reviewer", "rework"} => cur \in Items
        /\ "none" \notin Over
    BY DEF IInv, Shape, TypeOK, Fresh, CurShape, Over
  <2>1. \A new \in Status : After(status[i], new) = status[i]
    BY Transitions, <2>0 DEF Over
  <2>2. ForceComplete(status[i]) = status[i]
    BY Transitions DEF Over
  <2>. USE DEF itemVars, loopVars
  <2>3. CASE Planning
    BY <2>3, <2>0 DEF Planning, Decompose, DecomposeEmpty
  <2>4. CASE Loop \/ Synthesize \/ FinalReview
    BY <2>4 DEF Loop, LoopEnds, Dispatch, Gathered, Synthesize, FinalReview
  <2>5. CASE Review
    BY <2>5, <2>0, <2>1, <2>2
    DEF Review, Pick, BatchReviewed, NextRound, RoundsOver, GatePasses, GateSendsBack,
        GateBlocks, ReviewerApproves, ReviewerSendsBack, ReviewerFails, ReworkSucceeds,
        ReworkRetries, ReworkGivesUp, LeaveReview, SendBack, StepReview, Move, Status
  <2>6. CASE \E j \in Items : Work(j)
    BY <2>6, <2>0, <2>1
    DEF Work, Acquire, AcquireRaises, CallSucceeds, CallRetries, CallEscalates,
        CallGivesUp, Move, Leave, Status
  <2>7. CASE RequestCancel \/ Abort
    BY <2>7, <2>0, <2>1 DEF RequestCancel, Abort, Status
  <2>8. CASE Resume
    BY <2>8 DEF Resume
  <2>. QED  BY <2>3, <2>4, <2>5, <2>6, <2>7, <2>8 DEF Next, Run
<1>. QED  BY <1>1, RunInvariance, PTL DEF Spec, OverStays

\* A loop that waits for items nobody will finish waits until it is cancelled.
THEOREM StuckStays == Spec => StuckForEver
<1>1. IInv /\ [Next]_vars => [Stuck => status' = status \/ cancelReq']_vars
  <2>. SUFFICES ASSUME IInv, Next, Stuck PROVE status' = status \/ cancelReq'
    OBVIOUS
  <2>0. pc = "loop" /\ ~cancelReq /\ Ready = {} /\ \A i \in Items : worker[i] = "idle"
    BY DEF Stuck, IInv, Shape, TypeOK, WorkerShape
  <2>. USE <2>0 DEF itemVars, loopVars
  <2>1. CASE Planning \/ Loop \/ Synthesize \/ FinalReview
    BY <2>1 DEF Planning, Decompose, DecomposeEmpty, Loop, LoopEnds, Dispatch, Gathered,
                Synthesize, FinalReview
  <2>2. CASE Review
    BY <2>2
    DEF Review, Pick, BatchReviewed, NextRound, RoundsOver, GatePasses, GateSendsBack,
        GateBlocks, ReviewerApproves, ReviewerSendsBack, ReviewerFails, ReworkSucceeds,
        ReworkRetries, ReworkGivesUp, SendBack
  <2>3. CASE \E j \in Items : Work(j)
    BY <2>3 DEF Work, Acquire, AcquireRaises, CallSucceeds, CallRetries, CallEscalates,
                CallGivesUp
  <2>4. CASE RequestCancel \/ Abort \/ Resume
    BY <2>4 DEF RequestCancel, Abort, Resume, Ended
  <2>. QED  BY <2>1, <2>2, <2>3, <2>4 DEF Next, Run
<1>. QED  BY <1>1, RunInvariance, PTL DEF Spec, StuckForEver
-----------------------------------------------------------------------------
(* Progress *)

\* The products the measure is made of.
LEMMA Products ==
  /\ Attempts \in Nat /\ RoundSteps \in Nat /\ ReviewSteps \in Nat
  /\ Attempts = MaxRetries + 1 /\ RoundSteps = MaxRetries + 5
  /\ \A s \in Nat : s * Attempts \in Nat
  /\ \A s \in Nat : s > 0 => s - 1 \in Nat /\ s * Attempts = (s - 1) * Attempts + Attempts
  /\ \A s \in Seats : s * Attempts <= Custom * Attempts
  /\ \A r \in 0..MaxRounds : /\ (MaxRounds - r) * RoundSteps \in Nat
                             /\ (MaxRounds - r) * RoundSteps + 3 <= ReviewSteps
  /\ \A r \in 0..MaxRounds : r < MaxRounds =>
       (MaxRounds - r) * RoundSteps = (MaxRounds - (r + 1)) * RoundSteps + RoundSteps
<1>. USE NumbersAssumption
<1>1. Attempts \in Nat /\ RoundSteps \in Nat /\ Attempts = MaxRetries + 1
      /\ RoundSteps = MaxRetries + 5
  BY DEF Attempts, RoundSteps
<1>2. \A k, n \in Nat : k * n \in Nat
  OBVIOUS
<1>3. \A k, m, n \in Nat : k <= m => k * n <= m * n
  OBVIOUS
<1>4. \A k, n \in Nat : (k + 1) * n = k * n + n
  OBVIOUS
<1>5. ReviewSteps \in Nat
  BY <1>1, <1>2 DEF ReviewSteps
<1>6. \A s \in Nat : s > 0 => s - 1 \in Nat /\ s * Attempts = (s - 1) * Attempts + Attempts
  <2>. SUFFICES ASSUME NEW s \in Nat, s > 0
                PROVE  s - 1 \in Nat /\ s * Attempts = (s - 1) * Attempts + Attempts
    OBVIOUS
  <2>1. s - 1 \in Nat /\ (s - 1) + 1 = s
    OBVIOUS
  <2>2. ((s - 1) + 1) * Attempts = (s - 1) * Attempts + Attempts
    BY <1>1, <1>4, <2>1
  <2>. QED  BY <2>1, <2>2
<1>7. \A s \in Seats : s * Attempts <= Custom * Attempts
  BY <1>1, <1>3 DEF Seats, Custom
<1>8. ASSUME NEW r \in 0..MaxRounds
      PROVE  /\ (MaxRounds - r) * RoundSteps \in Nat
             /\ (MaxRounds - r) * RoundSteps + 3 <= ReviewSteps
  <2>1. MaxRounds - r \in Nat /\ MaxRounds - r <= MaxRounds
    OBVIOUS
  <2>2. (MaxRounds - r) * RoundSteps \in Nat /\ MaxRounds * RoundSteps \in Nat
        /\ (MaxRounds - r) * RoundSteps <= MaxRounds * RoundSteps
    BY <1>1, <1>2, <1>3, <2>1
  <2>. QED  BY <2>2 DEF ReviewSteps
<1>9. ASSUME NEW r \in 0..MaxRounds, r < MaxRounds
      PROVE  (MaxRounds - r) * RoundSteps = (MaxRounds - (r + 1)) * RoundSteps + RoundSteps
  <2>1. MaxRounds - (r + 1) \in Nat /\ (MaxRounds - (r + 1)) + 1 = MaxRounds - r
    <3>1. r \in Nat /\ MaxRounds \in Nat
      OBVIOUS
    <3>. QED  BY <1>9, <3>1
  <2>2. ((MaxRounds - (r + 1)) + 1) * RoundSteps = (MaxRounds - (r + 1)) * RoundSteps + RoundSteps
    BY <1>1, <1>4, <2>1
  <2>. QED  BY <2>1, <2>2
<1>10. \A s \in Nat : s * Attempts \in Nat
  BY <1>1, <1>2
<1>. QED  BY <1>1, <1>5, <1>6, <1>7, <1>8, <1>9, <1>10

\* What is left of an item is a natural number, part by part.
LEMMA LeftType ==
  ASSUME IInv, NEW i \in Items
  PROVE  /\ CallsLeft(i) \in Nat /\ BatchesLeft(i) \in Nat
         /\ ReviewsLeft(i) \in Nat /\ RoundsLeft(i) \in Nat
         /\ ItemLeft(i) \in Nat
<1>. USE Products, NumbersAssumption
<1>0. /\ seat[i] \in Nat /\ attempt[i] \in 0..MaxRetries /\ rounds[i] \in 0..MaxRounds
      /\ seat[i] * Attempts \in Nat /\ Custom \in Nat /\ Custom * Attempts \in Nat
      /\ MaxRetries - attempt[i] \in Nat
  BY DEF IInv, TypeOK, Seats, Custom
<1>1. CallsLeft(i) \in Nat
  <2>1. worker[i] \in {"idle", "waiting", "calling"}
    BY DEF IInv, TypeOK
  <2>. QED  BY <1>0, <2>1 DEF CallsLeft
<1>2. BatchesLeft(i) \in Nat
  <2>1. CASE status[i] = "none"
    BY <1>0, <2>1 DEF BatchesLeft
  <2>2. CASE status[i] # "none"
    BY <1>0, <2>2 DEF BatchesLeft
  <2>. QED  BY <2>1, <2>2
<1>3. ReviewsLeft(i) \in Nat
  BY DEF ReviewsLeft
<1>4. RoundsLeft(i) \in Nat
  <2>1. (MaxRounds - rounds[i]) * RoundSteps \in Nat
    BY <1>0
  <2>. QED  BY <1>0, <2>1 DEF RoundsLeft
<1>. QED  BY <1>1, <1>2, <1>3, <1>4 DEF ItemLeft

LEMMA PartsType ==
  IInv => \A i \in Items : /\ CallsLeft(i) \in Nat /\ BatchesLeft(i) \in Nat
                           /\ ReviewsLeft(i) \in Nat /\ RoundsLeft(i) \in Nat
BY LeftType

LEMMA PartsTypeNext ==
  IInv' => \A i \in Items : /\ CallsLeft(i)' \in Nat /\ BatchesLeft(i)' \in Nat
                            /\ ReviewsLeft(i)' \in Nat /\ RoundsLeft(i)' \in Nat
<1>1. (IInv => \A i \in Items : /\ CallsLeft(i) \in Nat /\ BatchesLeft(i) \in Nat
                                /\ ReviewsLeft(i) \in Nat /\ RoundsLeft(i) \in Nat)'
  BY PartsType, PTL
<1>. QED  BY <1>1

LEMMA PartsTyped ==
  ASSUME IInv, NEW i \in Items
  PROVE  /\ CallsLeft(i) <= CallsLeft(i) /\ BatchesLeft(i) <= BatchesLeft(i)
         /\ ReviewsLeft(i) <= ReviewsLeft(i) /\ RoundsLeft(i) <= RoundsLeft(i)
BY LeftType

LEMMA MeasureType == IInv => StageLeft \in Nat /\ \A i \in Items : ItemLeft(i) \in Nat
<1>1. IInv => StageLeft \in Nat
  BY DEF IInv, TypeOK, StageLeft, Pc, Ended, Reviewing
<1>. QED  BY <1>1, LeftType

LEMMA StepsLeftSum == StepsLeft = StageLeft + SumOf([i \in Items |-> ItemLeft(i)], Items)
BY DEF StepsLeft, SumOf

LEMMA MeasureTypeNext ==
  IInv' => StageLeft' \in Nat /\ \A i \in Items : ItemLeft(i)' \in Nat
<1>1. (IInv => StageLeft \in Nat /\ \A i \in Items : ItemLeft(i) \in Nat)'
  BY MeasureType, PTL
<1>. QED  BY <1>1

\* Where nothing is left of no item more than before, a step of execute() uses
\* up a stage, and one about an item something of that item.
LEMMA StepsFall ==
  ASSUME IInv, IInv', \A i \in Items : ItemLeft(i)' <= ItemLeft(i),
         \/ StageLeft' < StageLeft
         \/ \E x \in Items, n \in Nat : /\ ItemLeft(x)' + n <= ItemLeft(x)
                                        /\ StageLeft' < StageLeft + n
  PROVE  StepsLeft' < StepsLeft
<1>. DEFINE f == [i \in Items |-> ItemLeft(i)]
            g == [i \in Items |-> ItemLeft(i)']
<1>1. StepsLeft = StageLeft + SumOf(f, Items) /\ StepsLeft' = StageLeft' + SumOf(g, Items)
  <2>1. StepsLeft = StageLeft + SumOf(f, Items)
    BY StepsLeftSum
  <2>2. StepsLeft' = StageLeft' + SumOf(g, Items)
    <3>1. (StepsLeft = StageLeft + SumOf([i \in Items |-> ItemLeft(i)], Items))'
      BY StepsLeftSum, PTL
    <3>. QED  BY <3>1
  <2>. QED  BY <2>1, <2>2
<1>2. IsFiniteSet(Items)
  BY ItemsAssumption
<1>3. /\ StageLeft \in Nat /\ \A i \in Items : ItemLeft(i) \in Nat
      /\ StageLeft' \in Nat /\ \A i \in Items : ItemLeft(i)' \in Nat
  BY MeasureType, MeasureTypeNext
<1>4. \A i \in Items : f[i] \in Int /\ g[i] \in Int /\ g[i] <= f[i]
  BY <1>3
<1>5. StageLeft \in Nat /\ StageLeft' \in Nat
  BY <1>3
<1>6. \A x \in Items : f[x] = ItemLeft(x) /\ g[x] = ItemLeft(x)'
  OBVIOUS
<1>. HIDE DEF f, g
<1>7. SumOf(f, Items) \in Int /\ SumOf(g, Items) \in Int
  BY <1>2, <1>4, SumOfType
<1>8. CASE StageLeft' < StageLeft
  <2>1. SumOf(g, Items) <= SumOf(f, Items)
    BY <1>2, <1>4, SumOfMonotone
  <2>. QED  BY <1>1, <1>5, <1>7, <1>8, <2>1
<1>9. ASSUME NEW x \in Items, NEW n \in Nat, ItemLeft(x)' + n <= ItemLeft(x),
             StageLeft' < StageLeft + n
      PROVE  StepsLeft' < StepsLeft
  <2>1. SumOf(f, Items) = f[x] + SumOf(f, Items \ {x}) /\ SumOf(g, Items) = g[x] + SumOf(g, Items \ {x})
    BY <1>2, <1>4, SumOfRemove
  <2>2. IsFiniteSet(Items \ {x})
    BY <1>2, FS_Subset
  <2>3. \A i \in Items \ {x} : f[i] \in Int /\ g[i] \in Int /\ g[i] <= f[i]
    BY <1>4
  <2>4. SumOf(g, Items \ {x}) <= SumOf(f, Items \ {x})
    BY <2>2, <2>3, SumOfMonotone
  <2>5. SumOf(f, Items \ {x}) \in Int /\ SumOf(g, Items \ {x}) \in Int
    BY <2>2, <2>3, SumOfType
  <2>. QED  BY <1>1, <1>4, <1>5, <1>6, <1>9, <2>1, <2>4, <2>5
<1>. QED  BY <1>8, <1>9

\* ... for each item the worst of its parts decides.
LEMMA ItemFalls ==
  ASSUME IInv, IInv', NEW i \in Items, CallsLeft(i)' <= CallsLeft(i),
         \/ pc' \in Ended
         \/ /\ pc \notin Ended
            /\ BatchesLeft(i)' <= BatchesLeft(i)
            /\ ReviewsLeft(i)' <= ReviewsLeft(i)
            /\ RoundsLeft(i)' <= RoundsLeft(i)
  PROVE  ItemLeft(i)' <= ItemLeft(i)
<1>1. /\ CallsLeft(i) \in Nat /\ BatchesLeft(i) \in Nat /\ ReviewsLeft(i) \in Nat
      /\ RoundsLeft(i) \in Nat
      /\ CallsLeft(i)' \in Nat /\ BatchesLeft(i)' \in Nat /\ ReviewsLeft(i)' \in Nat
      /\ RoundsLeft(i)' \in Nat
  BY PartsType, PartsTypeNext
<1>. QED  BY <1>1 DEF ItemLeft

\* Steps that change no item.
LEMMA PcFalls ==
  ASSUME IInv, IInv', DecomposeEmpty \/ LoopEnds \/ Gathered \/ BatchReviewed
             \/ Synthesize \/ FinalReview
  PROVE  StepsLeft' < StepsLeft
<1>. USE DEF DecomposeEmpty, LoopEnds, Gathered, BatchReviewed, Synthesize, FinalReview,
             itemVars, loopVars, Ended
<1>1. StageLeft' < StageLeft
  BY DEF IInv, TypeOK, StageLeft, Reviewing
<1>2. ASSUME NEW i \in Items
      PROVE  ItemLeft(i)' <= ItemLeft(i)
  <2>1. CallsLeft(i)' = CallsLeft(i) /\ BatchesLeft(i)' = BatchesLeft(i)
        /\ ReviewsLeft(i)' = ReviewsLeft(i)
    BY DEF CallsLeft, BatchesLeft, ReviewsLeft
  <2>2. RoundsLeft(i)' = RoundsLeft(i) /\ pc \notin Ended
    BY DEF RoundsLeft
  <2>. QED  BY <2>1, <2>2, ItemFalls, PartsTyped
<1>. QED  BY <1>1, <1>2, StepsFall


\* Decomposing: the seats are at most the ones reckoned with.
LEMMA DecomposeFalls ==
  ASSUME IInv, IInv', NEW plan \in Decompositions, Decompose(plan)
  PROVE  StepsLeft' < StepsLeft
<1>. USE DEF Decompose, itemVars, loopVars, Ended
<1>1. StageLeft' < StageLeft
  BY DEF IInv, TypeOK, StageLeft, Reviewing
<1>2. ASSUME NEW i \in Items
      PROVE  ItemLeft(i)' <= ItemLeft(i)
  <2>1. worker[i] = "idle" /\ worker'[i] = "idle" /\ status[i] = "none" /\ status'[i] = "ready"
    BY DEF IInv, Shape, Fresh
  <2>2. seat'[i] * Attempts <= Custom * Attempts /\ seat'[i] * Attempts \in Nat
        /\ Custom * Attempts \in Nat
    <3>1. seat'[i] \in Seats
      BY DEF IInv, TypeOK
    <3>. QED  BY <3>1, Products, NumbersAssumption DEF Seats, Custom
  <2>3. CallsLeft(i)' <= CallsLeft(i)
    BY <2>1 DEF CallsLeft
  <2>4. BatchesLeft(i)' <= BatchesLeft(i)
    BY <2>1, <2>2, Products, NumbersAssumption DEF BatchesLeft
  <2>5. ReviewsLeft(i)' = ReviewsLeft(i) /\ RoundsLeft(i)' = RoundsLeft(i) /\ pc \notin Ended
    BY DEF ReviewsLeft, RoundsLeft
  <2>. QED  BY <2>3, <2>4, <2>5, ItemFalls, PartsTyped
<1>. QED  BY <1>1, <1>2, StepsFall

\* Dispatching: two stages further from the end, but three steps fewer for each
\* item taken up.
LEMMA DispatchFalls ==
  ASSUME IInv, IInv', NEW n \in Adjusted, Dispatch(n)
  PROVE  StepsLeft' < StepsLeft
<1>. USE DEF Dispatch, itemVars, loopVars, Ended
<1>1. StageLeft' = StageLeft + 2
  BY DEF IInv, TypeOK, StageLeft, Reviewing
<1>2. ASSUME NEW i \in Items
      PROVE  ItemLeft(i)' <= ItemLeft(i) /\ (i \in Ready => ItemLeft(i)' + 3 <= ItemLeft(i))
  <2>0. /\ worker[i] = "idle" /\ seat[i] * Attempts \in Nat
        /\ worker' \in [Items -> {"idle", "waiting", "calling"}]
    <3>1. seat[i] \in Nat
      BY NumbersAssumption DEF IInv, TypeOK, Seats, Custom
    <3>2. worker[i] = "idle" /\ worker \in [Items -> {"idle", "waiting", "calling"}]
      BY DEF IInv, Shape, TypeOK, WorkerShape
    <3>. QED  BY <3>1, <3>2, Products
  <2>1. CASE i \in Ready
    <3>1. CallsLeft(i) = 0 /\ CallsLeft(i)' = 2 + seat[i] * Attempts + MaxRetries
      BY <2>0, <2>1 DEF CallsLeft
    <3>2. /\ BatchesLeft(i) = ReviewSteps + 5 + MaxRetries + seat[i] * Attempts
          /\ BatchesLeft(i)' = 0
      BY <2>0, <2>1 DEF BatchesLeft, Ready
    <3>3. ReviewsLeft(i)' = ReviewSteps /\ ReviewsLeft(i) \in Nat
      BY <2>1, PartsType DEF ReviewsLeft
    <3>4. RoundsLeft(i) = 0 /\ RoundsLeft(i)' = 0
      BY DEF RoundsLeft
    <3>. QED  BY <2>0, <3>1, <3>2, <3>3, <3>4, Products, NumbersAssumption DEF ItemLeft
  <2>2. CASE i \notin Ready
    <3>1. CallsLeft(i)' = CallsLeft(i) /\ BatchesLeft(i)' = BatchesLeft(i)
      BY <2>0, <2>2 DEF CallsLeft, BatchesLeft
    <3>2. ReviewsLeft(i)' <= ReviewsLeft(i)
      BY <2>2, Products DEF ReviewsLeft
    <3>3. RoundsLeft(i)' = RoundsLeft(i) /\ pc \notin Ended
      BY DEF RoundsLeft
    <3>. QED  BY <2>2, <3>1, <3>2, <3>3, ItemFalls, PartsTyped
  <2>. QED  BY <2>1, <2>2
<1>3. PICK x \in Items : ItemLeft(x)' + 3 <= ItemLeft(x)
  <2>1. PICK x \in Items : x \in Ready
    BY DEF Ready
  <2>. QED  BY <1>2, <2>1
<1>4. StageLeft' < StageLeft + 3
  BY <1>1, MeasureType
<1>. QED  BY <1>2, <1>3, <1>4, StepsFall

\* Picking: the review that was waited for is begun, or there is none.
LEMMA PickFalls ==
  ASSUME IInv, IInv', NEW x \in Items, Pick(x)
  PROVE  StepsLeft' < StepsLeft
<1>. USE DEF Pick, itemVars, loopVars, Ended
<1>1. StageLeft' = StageLeft
  BY DEF IInv, TypeOK, StageLeft, Reviewing
<1>2. \A i \in Items : CallsLeft(i)' = CallsLeft(i) /\ BatchesLeft(i)' = BatchesLeft(i)
  BY DEF CallsLeft, BatchesLeft
<1>3. \A i \in Items : RoundsLeft(i) = 0
  BY DEF RoundsLeft
<1>4. ASSUME NEW i \in Items, i # x
      PROVE  ItemLeft(i)' <= ItemLeft(i)
  <2>1. RoundsLeft(i)' = 0
    BY <1>4 DEF RoundsLeft
  <2>2. ReviewsLeft(i)' = ReviewsLeft(i) /\ pc \notin Ended
    BY <1>4 DEF ReviewsLeft
  <2>. QED  BY <1>2, <1>3, <2>1, <2>2, ItemFalls, PartsTyped
<1>5. ItemLeft(x)' + 1 <= ItemLeft(x)
  <2>1. ReviewsLeft(x) = ReviewSteps /\ ReviewsLeft(x)' = 0
    BY DEF ReviewsLeft
  <2>2. RoundsLeft(x)' \in Nat /\ RoundsLeft(x)' + 2 <= ReviewSteps
    <3>1. rounds[x] \in 0..MaxRounds /\ rounds' = rounds
      BY DEF IInv, TypeOK
    <3>2. (MaxRounds - rounds[x]) * RoundSteps \in Nat
          /\ (MaxRounds - rounds[x]) * RoundSteps + 3 <= ReviewSteps /\ ReviewSteps \in Nat
      BY <3>1, Products
    <3>3. pc' = "top" \/ pc' = "pick"
      OBVIOUS
    <3>4. CASE pc' = "top"
      BY <3>1, <3>2, <3>4 DEF RoundsLeft
    <3>5. CASE pc' = "pick"
      <4>1. RoundsLeft(x)' = 0
        BY <3>5 DEF RoundsLeft
      <4>. QED  BY <3>2, <4>1
    <3>. QED  BY <3>3, <3>4, <3>5
  <2>3. CallsLeft(x) \in Nat /\ BatchesLeft(x) \in Nat /\ pc \notin Ended /\ pc' \notin Ended
    BY PartsType
  <2>4. /\ ItemLeft(x) = CallsLeft(x) + (BatchesLeft(x) + ReviewsLeft(x) + RoundsLeft(x))
        /\ ItemLeft(x)' = CallsLeft(x)' + (BatchesLeft(x)' + ReviewsLeft(x)' + RoundsLeft(x)')
    BY <2>3 DEF ItemLeft
  <2>5. ReviewSteps \in Nat
    BY Products
  <2>6. CallsLeft(x)' = CallsLeft(x) /\ BatchesLeft(x)' = BatchesLeft(x) /\ RoundsLeft(x) = 0
    BY <1>2, <1>3
  <2>. QED  BY ONLY <2>1, <2>2, <2>3, <2>4, <2>5, <2>6
<1>6. \A i \in Items : ItemLeft(i)' <= ItemLeft(i)
  BY <1>4, <1>5, MeasureType, MeasureTypeNext
<1>7. StageLeft' < StageLeft + 1
  BY <1>1, MeasureType
<1>. QED  BY <1>5, <1>6, <1>7, StepsFall


\* A step of a review that uses up something of its rounds.
LEMMA ReviewFalls ==
  ASSUME IInv, IInv', NEW x \in Items, x = cur, pc \in {"top", "gate", "reviewer", "rework"}, pc' \in Reviewing,
         cur' \in {cur, NoItem}, UNCHANGED <<cancelReq, worker, seat, batch>>,
         \A i \in Items : i # x => status'[i] = status[i],
         status'[x] \notin {"none", "ready"},
         RoundsLeft(x)' + 1 <= RoundsLeft(x)
  PROVE  StepsLeft' < StepsLeft
<1>0. NoItem \notin Items
  BY ItemsAssumption
<1>1. StageLeft' = StageLeft
  BY DEF StageLeft, Reviewing, Ended
<1>2. \A i \in Items : CallsLeft(i) = 0 /\ CallsLeft(i)' = 0
  BY DEF CallsLeft, IInv, Shape, WorkerShape
<1>3. \A i \in Items : ReviewsLeft(i)' = ReviewsLeft(i)
  BY DEF ReviewsLeft
<1>4. pc \notin Ended /\ pc' \notin Ended
  BY DEF Reviewing, Ended
<1>5. ASSUME NEW i \in Items, i # x
      PROVE  ItemLeft(i)' <= ItemLeft(i)
  <2>1. RoundsLeft(i) = 0 /\ RoundsLeft(i)' = 0
    BY <1>0, <1>5 DEF RoundsLeft
  <2>2. BatchesLeft(i)' = BatchesLeft(i)
    BY <1>5 DEF BatchesLeft
  <2>. QED  BY <1>2, <1>3, <1>4, <2>1, <2>2, ItemFalls, PartsTyped
<1>6. ItemLeft(x)' + 1 <= ItemLeft(x)
  <2>1. BatchesLeft(x)' = 0 /\ BatchesLeft(x) \in Nat
    BY PartsType DEF BatchesLeft
  <2>2. ReviewsLeft(x) \in Nat /\ RoundsLeft(x) \in Nat /\ RoundsLeft(x)' \in Nat
    BY PartsType, PartsTypeNext
  <2>. QED  BY <1>2, <1>3, <1>4, <2>1, <2>2 DEF ItemLeft
<1>7. \A i \in Items : ItemLeft(i)' <= ItemLeft(i)
  BY <1>5, <1>6, MeasureType, MeasureTypeNext
<1>8. StageLeft' < StageLeft + 1
  BY <1>1, MeasureType
<1>. QED  BY <1>6, <1>7, <1>8, StepsFall


\* A round is begun.
LEMMA RoundFalls ==
  ASSUME IInv, IInv', NextRound
  PROVE  StepsLeft' < StepsLeft
<1>. USE DEF NextRound, StepReview, RoundLeft, itemVars
<1>1. cur \in Items /\ pc = "top" /\ pc' = "gate" /\ cur' = cur
  BY DEF IInv, Shape, CurShape
<1>2. PICK x \in Items : x = cur
  BY <1>1
<1>3. rounds[x] \in 0..MaxRounds /\ rounds[x] < MaxRounds /\ rounds'[x] = rounds[x] + 1
      /\ rounds'[x] \in 0..MaxRounds
  BY <1>2, NumbersAssumption DEF IInv, TypeOK
<1>4. /\ RoundsLeft(x) = (MaxRounds - rounds[x]) * RoundSteps + 1
      /\ RoundsLeft(x)' = (MaxRounds - rounds'[x]) * RoundSteps + (MaxRetries + 4)
  BY <1>1, <1>2 DEF RoundsLeft
<1>5. RoundsLeft(x)' + 1 <= RoundsLeft(x)
  <2>1. /\ (MaxRounds - rounds[x]) * RoundSteps
             = (MaxRounds - rounds'[x]) * RoundSteps + RoundSteps
        /\ (MaxRounds - rounds'[x]) * RoundSteps \in Nat
        /\ RoundSteps = MaxRetries + 5
    BY <1>3, Products
  <2>. QED  BY <1>4, <2>1, NumbersAssumption
<1>6. status'[x] \notin {"none", "ready"}
  BY <1>2 DEF IInv, Shape, CurShape
<1>. QED  BY <1>1, <1>2, <1>5, <1>6, ReviewFalls DEF Reviewing

\* The gate passes the item on.
LEMMA GateFalls ==
  ASSUME IInv, IInv', GatePasses
  PROVE  StepsLeft' < StepsLeft
<1>. USE DEF GatePasses, StepReview, itemVars
<1>1. cur \in Items /\ pc = "gate" /\ pc' = "reviewer" /\ cur' = cur
  BY DEF IInv, Shape, CurShape
<1>2. PICK x \in Items : x = cur
  BY <1>1
<1>3. /\ RoundsLeft(x) = (MaxRounds - rounds[x]) * RoundSteps + (MaxRetries + 4)
      /\ RoundsLeft(x)' = (MaxRounds - rounds[x]) * RoundSteps + (MaxRetries + 3)
  BY <1>1, <1>2 DEF RoundsLeft
<1>4. RoundsLeft(x)' + 1 <= RoundsLeft(x)
  <2>1. rounds[x] \in 0..MaxRounds
    BY DEF IInv, TypeOK
  <2>2. (MaxRounds - rounds[x]) * RoundSteps \in Nat
    BY <2>1, Products
  <2>. QED  BY <1>3, <2>2, NumbersAssumption
<1>5. status'[x] \notin {"none", "ready"}
  BY <1>1, <1>2 DEF IInv, Shape, CurShape
<1>. QED  BY <1>1, <1>2, <1>4, <1>5, ReviewFalls DEF Reviewing

\* The review of the item is left.
LEMMA LeaveFalls ==
  ASSUME IInv, IInv', RoundsOver \/ GateBlocks \/ ReviewerApproves \/ ReviewerFails
  PROVE  StepsLeft' < StepsLeft
<1>. USE DEF RoundsOver, GateBlocks, ReviewerApproves, ReviewerFails, LeaveReview,
             StepReview, itemVars
<1>1. cur \in Items /\ pc \in {"top", "gate", "reviewer"} /\ pc' = "pick" /\ cur' = NoItem
  BY DEF IInv, Shape, CurShape
<1>2. PICK x \in Items : x = cur
  BY <1>1
<1>3. RoundsLeft(x)' = 0
  BY <1>1 DEF RoundsLeft
<1>4. RoundsLeft(x) \in Nat /\ RoundsLeft(x) >= 1
  <2>1. rounds[x] \in 0..MaxRounds
    BY DEF IInv, TypeOK
  <2>2. (MaxRounds - rounds[x]) * RoundSteps \in Nat
    BY <2>1, Products
  <2>. QED  BY <1>1, <1>2, <2>2, NumbersAssumption DEF RoundsLeft
<1>5. status'[x] \notin {"none", "ready"}
  <2>1. status[x] \in {"in_review", "blocked", "cancelled"} /\ status \in [Items -> Status]
    BY <1>1, <1>2 DEF IInv, Shape, CurShape, TypeOK
  <2>2. \A s \in {"in_review", "blocked", "cancelled"} :
          /\ ForceComplete(s) \in {"done", "blocked", "cancelled"}
          /\ ForceComplete(After(s, "blocked")) \in {"done", "blocked", "cancelled"}
          /\ ForceComplete(After(s, "done")) \in {"done", "blocked", "cancelled"}
    BY DEF ForceComplete, After, ValidTransitions
  <2>3. status'[x] \in {ForceComplete(status[x]), ForceComplete(After(status[x], "blocked")),
                        ForceComplete(After(status[x], "done"))}
    BY <1>2, <2>1
  <2>. QED  BY <2>1, <2>2, <2>3
<1>6. \A i \in Items : i # x => status'[i] = status[i]
  <2>1. status \in [Items -> Status]
    BY DEF IInv, TypeOK
  <2>. QED  BY <1>2, <2>1
<1>. QED  BY <1>1, <1>2, <1>3, <1>4, <1>5, <1>6, ReviewFalls DEF Reviewing

\* The item is sent back: a rework takes no more than what is left of its round.
LEMMA SendBackFalls ==
  ASSUME IInv, IInv', GateSendsBack \/ ReviewerSendsBack
  PROVE  StepsLeft' < StepsLeft
<1>. USE DEF GateSendsBack, ReviewerSendsBack, SendBack, StepReview, itemVars
<1>1. cur \in Items /\ pc \in {"gate", "reviewer"} /\ pc' = "rework" /\ cur' = cur
  BY DEF IInv, Shape, CurShape
<1>2. PICK x \in Items : x = cur
  BY <1>1
<1>3. rounds[x] \in 0..MaxRounds /\ rounds' = rounds /\ attempt'[x] = 0
  BY <1>2 DEF IInv, TypeOK
<1>4. (MaxRounds - rounds[x]) * RoundSteps \in Nat
  BY <1>3, Products
<1>5. RoundsLeft(x)' = (MaxRounds - rounds[x]) * RoundSteps + (2 + (MaxRetries - 0))
  BY <1>1, <1>2, <1>3 DEF RoundsLeft
<1>6. \/ RoundsLeft(x) = (MaxRounds - rounds[x]) * RoundSteps + (MaxRetries + 4)
      \/ RoundsLeft(x) = (MaxRounds - rounds[x]) * RoundSteps + (MaxRetries + 3)
  BY <1>1, <1>2 DEF RoundsLeft
<1>7. RoundsLeft(x)' + 1 <= RoundsLeft(x)
  BY <1>4, <1>5, <1>6, NumbersAssumption
<1>8. status'[x] \notin {"none", "ready"}
  <2>1. status[x] \in {"in_review", "cancelled"} /\ status \in [Items -> Status]
    BY <1>1, <1>2 DEF IInv, Shape, CurShape, TypeOK
  <2>. QED  BY <1>2, <2>1, Transitions DEF Status
<1>9. \A i \in Items : i # x => status'[i] = status[i]
  <2>1. status \in [Items -> Status]
    BY DEF IInv, TypeOK
  <2>. QED  BY <1>2, <2>1
<1>. QED  BY <1>1, <1>2, <1>7, <1>8, <1>9, ReviewFalls DEF Reviewing

\* The rework ends, or begins another attempt.
LEMMA ReworkFalls ==
  ASSUME IInv, IInv', ReworkSucceeds \/ ReworkRetries \/ ReworkGivesUp
  PROVE  StepsLeft' < StepsLeft
<1>. USE DEF ReworkSucceeds, ReworkRetries, ReworkGivesUp, StepReview, Move, itemVars, loopVars
<1>1. cur \in Items /\ pc = "rework" /\ pc' \in {"top", "rework"} /\ cur' = cur
  BY DEF IInv, Shape, CurShape
<1>2. PICK x \in Items : x = cur
  BY <1>1
<1>3. rounds[x] \in 0..MaxRounds /\ rounds' = rounds /\ attempt[x] \in 0..MaxRetries
  BY <1>2 DEF IInv, TypeOK
<1>4. (MaxRounds - rounds[x]) * RoundSteps \in Nat
  BY <1>3, Products
<1>5. RoundsLeft(x) = (MaxRounds - rounds[x]) * RoundSteps + (2 + (MaxRetries - attempt[x]))
  BY <1>1, <1>2 DEF RoundsLeft
<1>6. RoundsLeft(x)' + 1 <= RoundsLeft(x)
  <2>1. CASE ReworkRetries
    <3>1. attempt'[x] = attempt[x] + 1 /\ pc' = "rework"
      BY <1>1, <1>2, <2>1 DEF IInv, TypeOK
    <3>2. RoundsLeft(x)'
            = (MaxRounds - rounds[x]) * RoundSteps + (2 + (MaxRetries - (attempt[x] + 1)))
      BY <1>1, <1>2, <1>3, <3>1 DEF RoundsLeft
    <3>. QED  BY <1>3, <1>4, <1>5, <3>2, NumbersAssumption
  <2>2. CASE ReworkSucceeds \/ ReworkGivesUp
    <3>1. RoundsLeft(x)' = (MaxRounds - rounds[x]) * RoundSteps + 1
      BY <1>1, <1>2, <1>3, <2>2 DEF RoundsLeft
    <3>. QED  BY <1>3, <1>4, <1>5, <3>1, NumbersAssumption
  <2>. QED  BY <2>1, <2>2
<1>7. status'[x] \notin {"none", "ready"}
  <2>1. status[x] \in {"executing", "cancelled"} /\ status \in [Items -> Status]
    BY <1>1, <1>2 DEF IInv, Shape, CurShape, TypeOK
  <2>. QED  BY <1>2, <2>1, Transitions DEF Status
<1>8. \A i \in Items : i # x => status'[i] = status[i]
  <2>1. status \in [Items -> Status]
    BY DEF IInv, TypeOK
  <2>. QED  BY <1>2, <2>1
<1>9. UNCHANGED <<cancelReq, worker, seat, batch>>
  OBVIOUS
<1>. QED  BY <1>1, <1>2, <1>6, <1>7, <1>8, <1>9, ReviewFalls DEF Reviewing


\* A step of a worker that uses up something of its calls.
LEMMA WorkFalls ==
  ASSUME IInv, IInv', NEW x \in Items, worker[x] # "idle", pc' \in {pc, "failed"},
         UNCHANGED <<cancelReq, batch, cur>>,
         \A i \in Items : i # x => /\ worker'[i] = worker[i] /\ status'[i] = status[i]
                                   /\ seat'[i] = seat[i] /\ attempt'[i] = attempt[i],
         status'[x] \notin {"none", "ready"},
         CallsLeft(x)' + 1 <= CallsLeft(x)
  PROVE  StepsLeft' < StepsLeft
<1>1. pc \in {"gather", "failed"} /\ pc' \in {"gather", "failed"}
  BY DEF IInv, Shape, WorkerShape
<1>2. StageLeft' <= StageLeft
  BY <1>1 DEF StageLeft, Reviewing, Ended
<1>3. \A i \in Items : RoundsLeft(i) = 0 /\ RoundsLeft(i)' = 0
  BY <1>1 DEF RoundsLeft
<1>4. \A i \in Items : ReviewsLeft(i)' = ReviewsLeft(i)
  BY DEF ReviewsLeft
<1>5. pc' \in Ended \/ (pc \notin Ended /\ pc' \notin Ended)
  BY <1>1 DEF Ended
<1>6. ASSUME NEW i \in Items, i # x
      PROVE  ItemLeft(i)' <= ItemLeft(i)
  <2>1. CallsLeft(i)' = CallsLeft(i) /\ BatchesLeft(i)' = BatchesLeft(i)
    BY <1>6 DEF CallsLeft, BatchesLeft
  <2>. QED  BY <1>3, <1>4, <1>5, <2>1, ItemFalls, PartsTyped
<1>7. ItemLeft(x)' + 1 <= ItemLeft(x)
  <2>1. BatchesLeft(x) = 0 /\ BatchesLeft(x)' = 0
    BY DEF BatchesLeft
  <2>2. CallsLeft(x) \in Nat /\ CallsLeft(x)' \in Nat /\ ReviewsLeft(x) \in Nat
    BY PartsType, PartsTypeNext
  <2>. QED  BY <1>3, <1>4, <1>5, <2>1, <2>2 DEF ItemLeft
<1>8. \A i \in Items : ItemLeft(i)' <= ItemLeft(i)
  BY <1>6, <1>7, MeasureType, MeasureTypeNext
<1>9. StageLeft' < StageLeft + 1
  BY <1>2, MeasureType, MeasureTypeNext
<1>. QED  BY <1>7, <1>8, <1>9, StepsFall

\* A worker enters the semaphore, or raises at once.
LEMMA AcquireFalls ==
  ASSUME IInv, IInv', NEW x \in Items, Acquire(x) \/ AcquireRaises(x)
  PROVE  StepsLeft' < StepsLeft
<1>. USE DEF Acquire, AcquireRaises, Move, itemVars, loopVars
<1>1. /\ worker \in [Items -> {"idle", "waiting", "calling"}] /\ status \in [Items -> Status]
      /\ attempt \in [Items -> 0..MaxRetries] /\ seat[x] \in Nat
      /\ status[x] \in {"ready", "cancelled"} /\ worker[x] = "waiting"
  BY NumbersAssumption DEF IInv, Shape, WorkerShape, TypeOK, Seats, Custom
<1>2. seat[x] * Attempts \in Nat
  BY <1>1, Products
<1>3. CallsLeft(x) = 2 + seat[x] * Attempts + MaxRetries
  BY <1>1 DEF CallsLeft
<1>4. CallsLeft(x)' + 1 <= CallsLeft(x)
  <2>1. CASE Acquire(x)
    <3>1. worker'[x] = "calling" /\ attempt'[x] = 0 /\ seat' = seat
      BY <1>1, <2>1
    <3>2. CallsLeft(x)' = 1 + seat[x] * Attempts + (MaxRetries - 0)
      BY <3>1 DEF CallsLeft
    <3>. QED  BY <1>2, <1>3, <3>2, NumbersAssumption
  <2>2. CASE AcquireRaises(x)
    <3>1. worker'[x] = "idle"
      BY <1>1, <2>2
    <3>2. CallsLeft(x)' = 0
      BY <3>1 DEF CallsLeft
    <3>. QED  BY <1>2, <1>3, <3>2, NumbersAssumption
  <2>. QED  BY <2>1, <2>2
<1>5. status'[x] \notin {"none", "ready"}
  BY <1>1, Transitions DEF Status
<1>6. \A i \in Items : i # x => /\ worker'[i] = worker[i] /\ status'[i] = status[i]
                                /\ seat'[i] = seat[i] /\ attempt'[i] = attempt[i]
  BY <1>1
<1>7. UNCHANGED <<cancelReq, batch, cur>> /\ pc' \in {pc, "failed"}
  OBVIOUS
<1>. QED  BY <1>1, <1>4, <1>5, <1>6, <1>7, WorkFalls

\* A call ends: the worker retries, hands the item to the superior or ends.
LEMMA CallFalls ==
  ASSUME IInv, IInv', NEW x \in Items,
         CallSucceeds(x) \/ CallRetries(x) \/ CallEscalates(x) \/ CallGivesUp(x)
  PROVE  StepsLeft' < StepsLeft
<1>. USE DEF CallSucceeds, CallRetries, CallEscalates, CallGivesUp, Leave, Move, itemVars, loopVars
<1>1. /\ worker \in [Items -> {"idle", "waiting", "calling"}] /\ status \in [Items -> Status]
      /\ attempt \in [Items -> 0..MaxRetries] /\ seat \in [Items -> Seats] /\ seat[x] \in Nat
      /\ status[x] \in {"executing", "cancelled"} /\ worker[x] = "calling"
  BY NumbersAssumption DEF IInv, Shape, WorkerShape, TypeOK, Seats, Custom
<1>2. seat[x] * Attempts \in Nat /\ attempt[x] \in 0..MaxRetries
  BY <1>1, Products
<1>3. CallsLeft(x) = 1 + seat[x] * Attempts + (MaxRetries - attempt[x])
  BY <1>1 DEF CallsLeft
<1>4. CallsLeft(x)' + 1 <= CallsLeft(x)
  <2>1. CASE CallRetries(x)
    <3>1. worker'[x] = "calling" /\ attempt'[x] = attempt[x] + 1 /\ seat' = seat
      BY <1>1, <2>1
    <3>2. CallsLeft(x)' = 1 + seat[x] * Attempts + (MaxRetries - (attempt[x] + 1))
      BY <3>1 DEF CallsLeft
    <3>. QED  BY <1>2, <1>3, <3>2, NumbersAssumption
  <2>2. CASE CallEscalates(x)
    <3>1. worker'[x] = "calling" /\ attempt'[x] = 0 /\ seat'[x] = seat[x] - 1
          /\ seat[x] > 0 /\ attempt[x] = MaxRetries
      BY <1>1, <2>2
    <3>2. CallsLeft(x)' = 1 + (seat[x] - 1) * Attempts + (MaxRetries - 0)
      BY <3>1 DEF CallsLeft
    <3>3. /\ seat[x] * Attempts = (seat[x] - 1) * Attempts + Attempts
          /\ (seat[x] - 1) * Attempts \in Nat /\ Attempts = MaxRetries + 1
      BY <1>1, <3>1, Products
    <3>. QED  BY <1>2, <1>3, <3>1, <3>2, <3>3, NumbersAssumption
  <2>3. CASE CallSucceeds(x) \/ CallGivesUp(x)
    <3>1. worker'[x] = "idle"
      BY <1>1, <2>3
    <3>2. CallsLeft(x)' = 0
      BY <3>1 DEF CallsLeft
    <3>. QED  BY <1>2, <1>3, <3>2, NumbersAssumption
  <2>. QED  BY <2>1, <2>2, <2>3
<1>5. status'[x] \notin {"none", "ready"}
  BY <1>1, Transitions DEF Status
<1>6. \A i \in Items : i # x => /\ worker'[i] = worker[i] /\ status'[i] = status[i]
                                /\ seat'[i] = seat[i] /\ attempt'[i] = attempt[i]
  BY <1>1
<1>7. UNCHANGED <<cancelReq, batch, cur>> /\ pc' \in {pc, "failed"}
  OBVIOUS
<1>. QED  BY <1>1, <1>4, <1>5, <1>6, <1>7, WorkFalls

\* A cancel comes once, and opens nothing.
LEMMA CancelFalls ==
  ASSUME IInv, IInv', RequestCancel
  PROVE  StepsLeft' < StepsLeft
<1>. USE DEF RequestCancel, itemVars, loopVars
<1>1. StageLeft' < StageLeft
  BY DEF IInv, TypeOK, StageLeft, Reviewing, Ended, Pc
<1>2. ASSUME NEW i \in Items
      PROVE  ItemLeft(i)' <= ItemLeft(i)
  <2>1. CallsLeft(i)' = CallsLeft(i) /\ ReviewsLeft(i)' = ReviewsLeft(i)
        /\ RoundsLeft(i)' = RoundsLeft(i)
    BY DEF CallsLeft, ReviewsLeft, RoundsLeft
  <2>2. status'[i] = status[i] \/ status'[i] \notin {"none", "ready"}
    <3>1. status[i] \in Status
      BY DEF IInv, TypeOK
    <3>. QED  BY <3>1, Transitions DEF Status
  <2>3. BatchesLeft(i)' = BatchesLeft(i) \/ BatchesLeft(i)' = 0
    BY <2>2 DEF BatchesLeft
  <2>. QED  BY <2>1, <2>3, ItemFalls, PartsTyped, PartsType
<1>. QED  BY <1>1, <1>2, StepsFall

\* The fuse ends the run and its workers.
LEMMA AbortFalls ==
  ASSUME IInv, IInv', Abort
  PROVE  StepsLeft' < StepsLeft
<1>. USE DEF Abort, itemVars, loopVars
<1>1. StageLeft' < StageLeft
  BY DEF IInv, TypeOK, StageLeft, Reviewing, Ended, Pc
<1>2. ASSUME NEW i \in Items
      PROVE  ItemLeft(i)' <= ItemLeft(i)
  <2>1. CallsLeft(i)' = 0 /\ CallsLeft(i) \in Nat
    BY PartsType DEF CallsLeft
  <2>. QED  BY <2>1, ItemFalls DEF Ended
<1>. QED  BY <1>1, <1>2, StepsFall

\* Every step of a run uses something up.
LEMMA NextFalls ==
  ASSUME IInv, IInv', Next
  PROVE  StepsLeft' < StepsLeft \/ (pc \in Ended /\ pc' = "planning")
<1>1. CASE Planning
  BY <1>1, PcFalls, DecomposeFalls DEF Planning
<1>2. CASE Loop
  BY <1>2, PcFalls, DispatchFalls DEF Loop
<1>3. CASE Review
  BY <1>3, PcFalls, PickFalls, RoundFalls, GateFalls, LeaveFalls, SendBackFalls, ReworkFalls
  DEF Review
<1>4. CASE Synthesize \/ FinalReview
  BY <1>4, PcFalls
<1>5. CASE \E i \in Items : Work(i)
  BY <1>5, AcquireFalls, CallFalls DEF Work
<1>6. CASE RequestCancel \/ Abort
  BY <1>6, CancelFalls, AbortFalls
<1>7. CASE Resume
  BY <1>7 DEF Resume
<1>. QED  BY <1>1, <1>2, <1>3, <1>4, <1>5, <1>6, <1>7 DEF Next, Run

\* No run goes on for ever: a step of execute(), a worker, a review or the cancel
\* always uses up one of the bounded attempts, seats, rounds and batches, for
\* every decomposition; only a resumption starts anew.
THEOREM RunsEnd == Spec => RunsAreFinite
<1>1. IInv /\ IInv' /\ [Next]_vars =>
        [StepsLeft' < StepsLeft \/ (pc \in Ended /\ pc' = "planning")]_vars
  BY NextFalls
<1>. QED  BY <1>1, RunInvariance, PTL DEF Spec, RunsAreFinite

\* What is left is a number of steps, and known when a run begins.
MostSteps ==
  5 + Cardinality(Items) * (ReviewSteps + 5 + MaxRetries + Custom * Attempts)

\* A run takes at most MostSteps steps: as many it has at its beginning, and
\* none of them gives any back.
THEOREM RunsBounded ==
  Spec => [](StepsLeft \in Nat /\ (pc = "planning" => StepsLeft <= MostSteps))
<1>1. ASSUME IInv
      PROVE  StepsLeft \in Nat /\ (pc = "planning" => StepsLeft <= MostSteps)
  <2>. DEFINE f == [i \in Items |-> ItemLeft(i)]
              most == ReviewSteps + 5 + MaxRetries + Custom * Attempts
  <2>1. StepsLeft = StageLeft + SumOf(f, Items)
    BY StepsLeftSum
  <2>2. IsFiniteSet(Items) /\ \A i \in Items : f[i] \in Nat
    BY <1>1, ItemsAssumption, MeasureType
  <2>3. StageLeft \in Nat /\ (pc = "planning" => StageLeft <= 5)
    <3>1. pc = "planning" => StageLeft \in {4, 5}
      BY DEF StageLeft, Ended, Reviewing
    <3>. QED  BY <1>1, <3>1, MeasureType
  <2>4. most \in Int
    BY Products, NumbersAssumption DEF Custom
  <2>5. ASSUME pc = "planning"
        PROVE  \A i \in Items : f[i] \in Int /\ f[i] <= most
    <3>. SUFFICES ASSUME NEW i \in Items PROVE ItemLeft(i) <= most /\ ItemLeft(i) \in Nat
      OBVIOUS
    <3>1. batch = {} /\ worker[i] = "idle" /\ status[i] = "none"
      BY <1>1, <2>5 DEF IInv, Shape, Fresh
    <3>2. CallsLeft(i) = 0 /\ ReviewsLeft(i) = 0 /\ RoundsLeft(i) = 0 /\ BatchesLeft(i) = most
      BY <2>5, <3>1 DEF CallsLeft, ReviewsLeft, RoundsLeft, BatchesLeft
    <3>3. ItemLeft(i) = most
      BY <2>4, <2>5, <3>2 DEF ItemLeft, Ended
    <3>. QED  BY <1>1, <2>4, <3>3, MeasureType
  <2>6. MostSteps = 5 + Cardinality(Items) * most
    BY DEF MostSteps
  <2>. HIDE DEF f, most
  <2>7. SumOf(f, Items) \in Nat
    BY <2>2, SumOfNat
  <2>8. ASSUME pc = "planning"
        PROVE  StepsLeft <= MostSteps
    <3>1. SumOf(f, Items) <= Cardinality(Items) * most
      BY <2>2, <2>4, <2>5, <2>8, SumOfBound
    <3>2. Cardinality(Items) * most \in Int
      <4>1. Cardinality(Items) \in Nat
        BY <2>2, FS_CardinalityType
      <4>. QED  BY <2>4, <4>1
    <3>. QED  BY <2>1, <2>3, <2>6, <2>7, <2>8, <3>1, <3>2
  <2>. QED  BY <2>1, <2>3, <2>7, <2>8
<1>. QED  BY <1>1, RunInvariance, PTL

-----------------------------------------------------------------------------
(* The promise *)

\* No item is left PLANNING, and none is open when the result is put together.
Undrafted == \A i \in Items : status[i] # "planning"
Closed == pc \in {"synth", "final"} => \A i \in Items : status[i] \in {"done", "blocked", "cancelled"}

PInv == IInv /\ Undrafted /\ Closed

Promised == Promise!Next \/ UNCHANGED Promise!vars

Board == [i \in Items |-> Column(i)]

LEMMA InitClosed == Init => PInv
BY Initially DEF Init, PInv, Undrafted, Closed

LEMMA ClosedKeeps == PInv /\ [Next]_vars => PInv'
<1>. SUFFICES ASSUME PInv, [Next]_vars PROVE PInv'
  OBVIOUS
<1>1. IInv'
  BY NextKeeps DEF PInv
<1>2. /\ status \in [Items -> Status]
      /\ \A i \in Items : status[i] # "planning"
      /\ pc \in {"synth", "final"} =>
           \A i \in Items : status[i] \in {"done", "blocked", "cancelled"} /\ worker[i] = "idle"
      /\ pc \in {"loop"} => \A i \in Items : status[i] # "none"
      /\ pc \in Pc
  BY DEF PInv, Undrafted, Closed, IInv, TypeOK, Shape, Created, WorkerShape, Ended
<1>3. \A s, new \in Status \ {"planning"} : After(s, new) # "planning"
  BY Transitions
<1>4. \A s \in Status \ {"planning"} : ForceComplete(s) # "planning"
  BY DEF ForceComplete, After, ValidTransitions, Status
<1>. USE DEF itemVars, loopVars
<1>5. Undrafted'
  <2>1. CASE Planning \/ Loop \/ Synthesize \/ FinalReview
    BY <1>2, <2>1 DEF Undrafted, Planning, Decompose, DecomposeEmpty, Loop, LoopEnds, Dispatch,
       Gathered, Synthesize, FinalReview
  <2>2. CASE Review
    <3>1. CASE (\E i \in Items : Pick(i)) \/ BatchReviewed \/ NextRound \/ GatePasses \/ ReworkRetries
      BY <1>2, <3>1 DEF Undrafted, Pick, BatchReviewed, NextRound, GatePasses, ReworkRetries
    <3>2. CASE RoundsOver \/ GateBlocks \/ ReviewerApproves \/ ReviewerFails
      <4>1. PICK s \in Status \ {"planning"} : status' = [status EXCEPT ![cur] = ForceComplete(s)]
        <5>1. cur \in Items
          BY <3>2 DEF PInv, IInv, Shape, CurShape, RoundsOver, GateBlocks, ReviewerApproves,
             ReviewerFails
        <5>2. status[cur] \in Status \ {"planning"}
          BY <1>2, <5>1
        <5>3. /\ After(status[cur], "blocked") \in Status \ {"planning"}
              /\ After(status[cur], "done") \in Status \ {"planning"}
          BY <5>2, Transitions DEF Status
        <5>. QED  BY <3>2, <5>2, <5>3
             DEF RoundsOver, GateBlocks, ReviewerApproves, ReviewerFails, LeaveReview
      <4>2. ForceComplete(s) # "planning"
        BY <1>4
      <4>. QED  BY <1>2, <4>1, <4>2 DEF Undrafted
    <3>3. CASE GateSendsBack \/ ReviewerSendsBack \/ ReworkSucceeds \/ ReworkGivesUp
      <4>1. cur \in Items
        BY <3>3 DEF PInv, IInv, Shape, CurShape, GateSendsBack, ReviewerSendsBack, ReworkSucceeds,
           ReworkGivesUp
      <4>2. status[cur] \in Status \ {"planning"}
        BY <1>2, <4>1
      <4>3. \A s \in Status \ {"planning"} :
              /\ After(s, "rework") \in Status \ {"planning"}
              /\ After(After(s, "rework"), "executing") # "planning"
              /\ After(s, "in_review") # "planning" /\ After(s, "blocked") # "planning"
        BY DEF After, ValidTransitions, Status
      <4>. QED  BY <1>2, <3>3, <4>2, <4>3
           DEF Undrafted, GateSendsBack, ReviewerSendsBack, ReworkSucceeds, ReworkGivesUp, SendBack,
               Move
    <3>. QED  BY <2>2, <3>1, <3>2, <3>3 DEF Review
  <2>3. CASE \E j \in Items : Work(j)
    BY <1>2, <1>3, <2>3
    DEF Undrafted, Work, Acquire, AcquireRaises, CallSucceeds, CallRetries, CallEscalates,
        CallGivesUp, Move, Leave, Status
  <2>4. CASE RequestCancel \/ Abort \/ Resume
    BY <1>2, <1>3, <2>4 DEF Undrafted, RequestCancel, Abort, Resume, Status
  <2>5. CASE UNCHANGED vars
    BY <1>2, <2>5 DEF Undrafted, vars
  <2>. QED  BY <2>1, <2>2, <2>3, <2>4, <2>5 DEF Next, Run
<1>6. Closed'
  <2>1. CASE LoopEnds
    BY <1>2, <2>1 DEF Closed, LoopEnds, WorkRemaining, HasActive, Over, InHand, Status
  <2>2. CASE RequestCancel
    <3>1. \A s \in {"done", "blocked", "cancelled"} : After(s, "cancelled") \in {"done", "cancelled"}
      BY DEF After, ValidTransitions
    <3>. QED  BY <1>2, <2>2, <3>1 DEF Closed, RequestCancel
  <2>3. CASE Planning \/ (\E n \in Adjusted : Dispatch(n)) \/ Gathered \/ Synthesize \/ FinalReview
    BY <1>2, <2>3 DEF Closed, Planning, Decompose, DecomposeEmpty, Dispatch, Gathered, Synthesize,
       FinalReview
  <2>4. CASE Review
    BY <2>4
    DEF Closed, Review, Pick, BatchReviewed, NextRound, RoundsOver, GatePasses, GateSendsBack,
        GateBlocks, ReviewerApproves, ReviewerSendsBack, ReviewerFails, ReworkSucceeds,
        ReworkRetries, ReworkGivesUp, LeaveReview, SendBack, StepReview
  <2>5. CASE \E j \in Items : Work(j)
    BY <1>2, <2>5
    DEF Closed, Work, Acquire, AcquireRaises, CallSucceeds, CallRetries, CallEscalates,
        CallGivesUp, Leave
  <2>6. CASE Abort \/ Resume
    BY <2>6 DEF Closed, Abort, Resume
  <2>7. CASE UNCHANGED vars
    BY <1>2, <2>7 DEF Closed, vars
  <2>. QED  BY <2>1, <2>2, <2>3, <2>4, <2>5, <2>6, <2>7 DEF Next, Run, Loop
<1>. QED  BY <1>1, <1>5, <1>6 DEF PInv

\* A column of the board changes with its item alone, and only then.
LEMMA SameBoard ==
  ASSUME \A i \in Items : Column(i)' = Column(i)
  PROVE  Board' = Board
BY DEF Board

LEMMA OneMoves ==
  ASSUME NEW x \in Items, \A i \in Items : i # x => status'[i] = status[i]
  PROVE  Board' = [Board EXCEPT ![x] = Column(x)']
BY DEF Board, Column

\* Steps that move execute() on.
LEMMA PcPromised ==
  ASSUME PInv, DecomposeEmpty \/ LoopEnds \/ (\E n \in Adjusted : Dispatch(n)) \/ Gathered
             \/ BatchReviewed \/ (\E i \in Items : Pick(i)) \/ NextRound \/ GatePasses
             \/ ReworkRetries \/ Synthesize \/ FinalReview
  PROVE  Promised
<1>. USE DEF DecomposeEmpty, LoopEnds, Dispatch, Gathered, BatchReviewed, Pick, NextRound,
             GatePasses, ReworkRetries, Synthesize, FinalReview, StepReview, itemVars, loopVars
<1>1. Board' = Board /\ cancelReq' = cancelReq /\ deps' = deps
  BY SameBoard DEF Column
<1>2. CASE Outcome' = Outcome
  BY <1>1, <1>2 DEF Promised, Promise!vars, Board
<1>3. CASE DecomposeEmpty
  BY <1>1, <1>3 DEF Promised, Promise!Next, Promise!Fail, Promise!UnderWay, Board, Outcome, Ended
<1>4. CASE pc' = "cancelled"
  BY <1>1, <1>4 DEF Promised, Promise!Next, Promise!Stop, Promise!UnderWay, Board, Outcome, Ended
<1>5. CASE FinalReview
  <2>1. \A i \in Items : Column(i) \in {"done", "blocked", "cancelled"}
    BY <1>5 DEF PInv, Closed, Column, InHand
  <2>. QED  BY <1>1, <1>5, <2>1
       DEF Promised, Promise!Next, Promise!Deliver, Board, Outcome, Ended
<1>6. Outcome' = Outcome \/ DecomposeEmpty \/ pc' = "cancelled" \/ FinalReview
  BY DEF Outcome, Ended
<1>. QED  BY <1>2, <1>3, <1>4, <1>5, <1>6

LEMMA DecomposePromised ==
  ASSUME PInv, PInv', NEW plan \in Decompositions, Decompose(plan)
  PROVE  Promised
<1>1. Board' = [i \in Items |-> "todo"]
  BY DEF Board, Column, Decompose, InHand
<1>2. deps' \in [Items -> SUBSET Items]
  BY DEF PInv, IInv, TypeOK
<1>. QED  BY <1>1, <1>2
     DEF Promised, Promise!Next, Promise!Plan, Board, Decompose, Outcome, Ended

\* A step about one item in hand: it is finished or blocked, or stays in hand.
LEMMA HandPromised ==
  ASSUME NEW x \in Items, status[x] \in InHand \cup {"blocked", "cancelled"},
         \/ status'[x] = status[x]
         \/ status[x] \in InHand /\ status'[x] \in InHand \cup {"blocked"}
         \/ status[x] \in InHand /\ status'[x] = "done" /\ Outcome = "running",
         \A i \in Items : i # x => status'[i] = status[i],
         Outcome \in {"running", "failed"},
         Outcome' = Outcome, UNCHANGED <<cancelReq, deps>>
  PROVE  Promised
<1>1. Board' = [Board EXCEPT ![x] = Column(x)']
  BY OneMoves
<1>2. CASE Column(x)' = Column(x)
  <2>1. Board' = Board
    <3>1. \A i \in Items : Column(i)' = Column(i)
      BY <1>2 DEF Column
    <3>. QED  BY <3>1, SameBoard
  <2>. QED  BY <2>1 DEF Promised, Promise!vars, Board
<1>3. CASE Column(x) = "doing" /\ Column(x)' = "done" /\ Outcome = "running"
  <2>1. Board' = [Board EXCEPT ![x] = "done"] /\ Board[x] = "doing"
    BY <1>1, <1>3 DEF Board
  <2>2. Promise!Finish(x)
    BY <1>3, <2>1 DEF Promise!Finish, Board
  <2>. QED  BY <2>2 DEF Promised, Promise!Next
<1>4. CASE Column(x) = "doing" /\ Column(x)' = "blocked"
  <2>1. Board' = [Board EXCEPT ![x] = "blocked"] /\ Board[x] = "doing"
    BY <1>1, <1>4 DEF Board
  <2>2. Promise!Block(x)
    BY <1>4, <2>1 DEF Promise!Block, Board
  <2>. QED  BY <2>2 DEF Promised, Promise!Next
<1>. QED  BY <1>2, <1>3, <1>4 DEF Column, InHand

\* The reviews ...
LEMMA ReviewPromised ==
  ASSUME PInv, RoundsOver \/ GateBlocks \/ ReviewerApproves \/ ReviewerFails \/ GateSendsBack
             \/ ReviewerSendsBack \/ ReworkSucceeds \/ ReworkGivesUp
  PROVE  Promised
<1>. USE DEF RoundsOver, GateBlocks, ReviewerApproves, ReviewerFails, GateSendsBack,
             ReviewerSendsBack, ReworkSucceeds, ReworkGivesUp, LeaveReview, SendBack, StepReview,
             Move, itemVars
<1>1. /\ pc \in {"top", "gate", "reviewer", "rework"} /\ cur \in Items
      /\ pc' \in {"pick", "top", "rework"} /\ UNCHANGED <<cancelReq, deps>>
  BY DEF PInv, IInv, Shape, CurShape
<1>2. PICK x \in Items : x = cur
  BY <1>1
<1>3. /\ status \in [Items -> Status]
      /\ pc = "top" => status[x] \in {"in_review", "blocked", "cancelled"}
      /\ pc \in {"gate", "reviewer"} => status[x] \in {"in_review", "cancelled"}
      /\ pc = "rework" => status[x] \in {"executing", "cancelled"}
  BY <1>2 DEF PInv, IInv, Shape, CurShape, TypeOK
<1>4. \A i \in Items : i # x => status'[i] = status[i]
  BY <1>2, <1>3
<1>5. Outcome = "running" /\ Outcome' = "running"
  BY <1>1 DEF Outcome, Ended
<1>6. \/ status'[x] = status[x]
      \/ status[x] \in InHand /\ status'[x] \in InHand \cup {"blocked", "done"}
  <2>1. CASE RoundsOver \/ GateBlocks \/ ReviewerApproves \/ ReviewerFails
    <3>1. status'[x] \in {ForceComplete(status[x]), ForceComplete(After(status[x], "blocked")),
                          ForceComplete(After(status[x], "done"))}
      BY <1>2, <1>3, <2>1
    <3>2. \A s \in {"blocked", "cancelled"} : /\ ForceComplete(s) = s
                                              /\ ForceComplete(After(s, "done")) = s
                                              /\ ForceComplete(After(s, "blocked")) = s
      BY DEF ForceComplete, After, ValidTransitions
    <3>3. /\ ForceComplete("in_review") = "done"
          /\ ForceComplete(After("in_review", "done")) = "done"
          /\ ForceComplete(After("in_review", "blocked")) = "blocked"
      BY DEF ForceComplete, After, ValidTransitions
    <3>4. status[x] \in {"in_review", "blocked", "cancelled"}
      BY <1>3, <2>1
    <3>. QED  BY <3>1, <3>2, <3>3, <3>4 DEF InHand
  <2>2. CASE GateSendsBack \/ ReviewerSendsBack
    <3>1. status'[x] = After(After(status[x], "rework"), "executing")
      BY <1>2, <1>3, <2>2
    <3>2. /\ After(After("in_review", "rework"), "executing") = "executing"
          /\ After(After("cancelled", "rework"), "executing") = "cancelled"
      BY DEF After, ValidTransitions
    <3>. QED  BY <1>3, <2>2, <3>1, <3>2 DEF InHand
  <2>3. CASE ReworkSucceeds \/ ReworkGivesUp
    <3>1. status'[x] \in {After(status[x], "in_review"), After(status[x], "blocked")}
      BY <1>2, <1>3, <2>3
    <3>2. /\ After("executing", "in_review") = "in_review" /\ After("executing", "blocked") = "blocked"
          /\ After("cancelled", "in_review") = "cancelled" /\ After("cancelled", "blocked") = "cancelled"
      BY DEF After, ValidTransitions
    <3>. QED  BY <1>3, <2>3, <3>1, <3>2 DEF InHand
  <2>. QED  BY <2>1, <2>2, <2>3
<1>7. status[x] \in InHand \cup {"blocked", "cancelled"}
  BY <1>1, <1>3 DEF InHand
<1>8. \/ status'[x] = status[x]
      \/ status[x] \in InHand /\ status'[x] \in InHand \cup {"blocked"}
      \/ status[x] \in InHand /\ status'[x] = "done" /\ Outcome = "running"
  BY <1>5, <1>6
<1>. QED  BY <1>1, <1>4, <1>5, <1>7, <1>8, HandPromised

\* ... the calls ...
LEMMA CallPromised ==
  ASSUME PInv, NEW x \in Items,
         CallSucceeds(x) \/ CallRetries(x) \/ CallEscalates(x) \/ CallGivesUp(x)
  PROVE  Promised
<1>. USE DEF CallSucceeds, CallRetries, CallEscalates, CallGivesUp, Leave, Move, itemVars, loopVars
<1>1. /\ status \in [Items -> Status] /\ status[x] \in {"executing", "cancelled"}
      /\ pc \in {"gather", "failed"} /\ pc' = pc /\ UNCHANGED <<cancelReq, deps>>
  BY DEF PInv, IInv, Shape, WorkerShape, TypeOK
<1>2. \A i \in Items : i # x => status'[i] = status[i]
  BY <1>1
<1>3. \A new \in {"in_review", "executing", "blocked"} :
        After("cancelled", new) = "cancelled" /\ After("executing", new) \in InHand \cup {"blocked"}
  BY DEF After, ValidTransitions, InHand
<1>4. \/ status'[x] = status[x]
      \/ status[x] \in InHand /\ status'[x] \in InHand \cup {"blocked"}
  BY <1>1, <1>3 DEF InHand
<1>5. Outcome \in {"running", "failed"} /\ Outcome' = Outcome
  BY <1>1 DEF Outcome, Ended
<1>6. status[x] \in InHand \cup {"blocked", "cancelled"}
  BY <1>1 DEF InHand
<1>. QED  BY <1>1, <1>2, <1>4, <1>5, <1>6, HandPromised

\* ... and the beginning: the item is taken up, unless a cancel has closed it.
LEMMA AcquirePromised ==
  ASSUME PInv, NEW x \in Items, Acquire(x) \/ AcquireRaises(x)
  PROVE  Promised
<1>. USE DEF Acquire, AcquireRaises, Move, itemVars, loopVars
<1>1. /\ status \in [Items -> Status] /\ status[x] \in {"ready", "cancelled"}
      /\ pc \in {"gather", "failed"} /\ pc' \in {pc, "failed"} /\ UNCHANGED <<cancelReq, deps>>
      /\ worker[x] = "waiting" /\ x \in batch
  BY DEF PInv, IInv, Shape, WorkerShape, TypeOK
<1>2. \A i \in Items : i # x => status'[i] = status[i]
  BY <1>1
<1>3. Board' = [Board EXCEPT ![x] = Column(x)']
  BY <1>2, OneMoves
<1>4. /\ Outcome \in {"running", "failed"}
      /\ Outcome' = Outcome \/ (Outcome = "running" /\ Outcome' = "failed")
  BY <1>1 DEF Outcome, Ended
<1>5. CASE status[x] = "cancelled"
  <2>1. status'[x] = "cancelled"
    BY <1>1, <1>5, Transitions DEF Status
  <2>2. \A i \in Items : Column(i)' = Column(i)
    BY <1>2, <1>5, <2>1 DEF Column
  <2>3. Board' = Board
    BY <2>2, SameBoard
  <2>. QED  BY <1>1, <1>4, <2>3
       DEF Promised, Promise!Next, Promise!Fail, Promise!UnderWay, Promise!vars, Board
<1>6. CASE status[x] = "ready"
  <2>1. status'[x] = "executing"
    BY <1>1, <1>6, Transitions
  <2>2. Board[x] = "todo" /\ Board' = [Board EXCEPT ![x] = "doing"]
    BY <1>3, <1>6, <2>1 DEF Board, Column, InHand
  <2>3. ~cancelReq
    BY <1>1, <1>6 DEF PInv, IInv, Shape, CancelShape, Over
  <2>4. \A j \in deps[x] : j \in Items /\ Board[j] = "done"
    <3>1. deps[x] \subseteq Done
      BY <1>1 DEF PInv, IInv, Shape, BatchShape
    <3>. QED  BY <3>1 DEF Done, Board, Column, InHand
  <2>5. Promise!Take(x)
    BY <2>2, <2>3, <2>4 DEF Promise!Take, Board
  <2>6. Promise!Start(x) \/ Promise!Fail
    BY <1>1, <1>4, <2>5 DEF Promise!Start, Promise!Fail, Promise!UnderWay
  <2>. QED  BY <2>6 DEF Promised, Promise!Next
<1>. QED  BY <1>1, <1>5, <1>6

\* The cancel, the fuse and the resumption.
LEMMA CancelPromised ==
  ASSUME PInv, RequestCancel
  PROVE  Promised
<1>1. \A s \in Status \ {"planning"} :
        After(s, "cancelled") = IF s \in InHand \cup {"ready", "blocked"} THEN "cancelled" ELSE s
  BY DEF After, ValidTransitions, Status, InHand
<1>2. \A i \in Items : Column(i)' = IF Column(i) \in {"todo", "doing", "blocked"}
                                    THEN "cancelled" ELSE Column(i)
  <2>. SUFFICES ASSUME NEW i \in Items
                PROVE  Column(i)' = IF Column(i) \in {"todo", "doing", "blocked"}
                                    THEN "cancelled" ELSE Column(i)
    OBVIOUS
  <2>1. status[i] \in Status \ {"planning"} /\ status'[i] = After(status[i], "cancelled")
    BY DEF PInv, Undrafted, IInv, TypeOK, RequestCancel
  <2>. QED  BY <1>1, <2>1 DEF Column, InHand, Status
<1>3. Board' = [i \in Items |-> IF Board[i] \in {"todo", "doing", "blocked"}
                                THEN "cancelled" ELSE Board[i]]
  BY <1>2 DEF Board
<1>4. Outcome \in {"planning", "running"} /\ Outcome' = Outcome
  BY DEF RequestCancel, Outcome, Ended
<1>. QED  BY <1>3, <1>4
     DEF Promised, Promise!Next, Promise!Ask, Promise!UnderWay, Board, RequestCancel, itemVars

LEMMA AbortPromised ==
  ASSUME PInv, Abort
  PROVE  Promised
<1>1. Board' = Board
  BY SameBoard DEF Column, Abort
<1>2. Outcome \in {"planning", "running"} /\ Outcome' = "aborted"
  BY DEF Abort, Outcome, Ended
<1>. QED  BY <1>1, <1>2
     DEF Promised, Promise!Next, Promise!Stop, Promise!UnderWay, Board, Abort, itemVars

LEMMA ResumePromised ==
  ASSUME PInv, Resume
  PROVE  Promised
<1>1. Board' = [i \in Items |-> "none"]
  BY DEF Board, Column, Resume, InHand
<1>2. Outcome \in {"cancelled", "aborted", "failed"} /\ Outcome' = "planning"
  BY DEF Resume, Outcome, Ended
<1>. QED  BY <1>1, <1>2 DEF Promised, Promise!Next, Promise!Again, Board, Resume

\* Every step of the run is one of the promise, or none.
LEMMA NextPromised == PInv /\ PInv' /\ [Next]_vars => Promised
<1>. SUFFICES ASSUME PInv, PInv', [Next]_vars PROVE Promised
  OBVIOUS
<1>1. CASE Planning
  BY <1>1, PcPromised, DecomposePromised DEF Planning
<1>2. CASE Loop \/ Synthesize \/ FinalReview
  BY <1>2, PcPromised DEF Loop
<1>3. CASE Review
  BY <1>3, PcPromised, ReviewPromised DEF Review
<1>4. CASE \E i \in Items : Work(i)
  BY <1>4, AcquirePromised, CallPromised DEF Work
<1>5. CASE RequestCancel \/ Abort \/ Resume
  BY <1>5, CancelPromised, AbortPromised, ResumePromised
<1>6. CASE UNCHANGED vars
  BY <1>6 DEF vars, Promised, Promise!vars, Outcome, Column
<1>. QED  BY <1>1, <1>2, <1>3, <1>4, <1>5, <1>6 DEF Next, Run

LEMMA InitPromised == Init => Promise!Init
BY DEF Init, Promise!Init, Outcome, Column, InHand

\* CompanyRun implements RunPromise: whatever worker, review, cancel or fuse takes
\* the step, whoever watches the board sees a step of the promised life of the run
\* or none, for every decomposition.
THEOREM RunKeepsPromise == Spec => KeepsPromise
<1>1. Spec => []PInv
  BY InitClosed, ClosedKeeps, PTL DEF Spec
<1>2. PInv /\ PInv' /\ [Next]_vars => [Promise!Next]_(Promise!vars)
  BY NextPromised DEF Promised
<1>. QED  BY <1>1, <1>2, InitPromised, PTL DEF Spec, KeepsPromise, Promise!Spec
=============================================================================
