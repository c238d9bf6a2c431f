----------------------------- MODULE RunPromise -----------------------------
(***************************************************************************)
(* What a run of the company promises whoever watches its board and waits  *)
(* for its result, whichever worker, review, cancel or fuse takes a step.  *)
(*                                                                         *)
(* An item is taken up once, when everything it needs is done and nobody   *)
(* has asked to cancel; from there it is done or blocked, and stays so,    *)
(* done whatever comes and blocked until a cancel closes it.  A result is  *)
(* delivered when no item is to do or in hand.  A run that failed is the   *)
(* exception: items it had set out to take up may still be taken up and    *)
(* blocked, but not done.  Only a run without a result starts anew, with   *)
(* nothing.                                                                *)
(***************************************************************************)
CONSTANT Items

VARIABLES
  outcome,  \* planning, running, or how the run ended
  asked,    \* a cancel was requested
  needs,    \* what each item depends on
  board     \* the column each item is in

vars == <<outcome, asked, needs, board>>

UnderWay == {"planning", "running"}

Init ==
  /\ outcome = "planning"
  /\ asked = FALSE
  /\ needs = [i \in Items |-> {}]
  /\ board = [i \in Items |-> "none"]

Plan ==
  /\ outcome = "planning"
  /\ outcome' = "running"
  /\ needs' \in [Items -> SUBSET Items]
  /\ board' = [i \in Items |-> "todo"]
  /\ UNCHANGED asked

Take(i) ==
  /\ ~asked
  /\ board[i] = "todo"
  /\ \A j \in needs[i] : board[j] = "done"
  /\ board' = [board EXCEPT ![i] = "doing"]

Start(i) ==
  /\ outcome \in {"running", "failed"}
  /\ Take(i)
  /\ UNCHANGED <<outcome, asked, needs>>

Finish(i) ==
  /\ outcome = "running"
  /\ board[i] = "doing"
  /\ board' = [board EXCEPT ![i] = "done"]
  /\ UNCHANGED <<outcome, asked, needs>>

Block(i) ==
  /\ outcome \in {"running", "failed"}
  /\ board[i] = "doing"
  /\ board' = [board EXCEPT ![i] = "blocked"]
  /\ UNCHANGED <<outcome, asked, needs>>

\* A cancel closes what is open.
Ask ==
  /\ outcome \in UnderWay
  /\ ~asked
  /\ asked' = TRUE
  /\ board' = [i \in Items |-> IF board[i] \in {"todo", "doing", "blocked"}
                                 THEN "cancelled" ELSE board[i]]
  /\ UNCHANGED <<outcome, needs>>

Deliver ==
  /\ outcome = "running"
  /\ \A i \in Items : board[i] \in {"done", "blocked", "cancelled"}
  /\ outcome' = "success"
  /\ UNCHANGED <<asked, needs, board>>

Stop ==
  /\ asked
  /\ outcome \in UnderWay
  /\ outcome' \in {"cancelled", "aborted"}
  /\ UNCHANGED <<asked, needs, board>>

\* The item that makes a run fail has just been taken up.
Fail ==
  /\ outcome \in UnderWay
  /\ outcome' = "failed"
  /\ UNCHANGED board \/ \E i \in Items : Take(i)
  /\ UNCHANGED <<asked, needs>>

Again ==
  /\ outcome \in {"cancelled", "aborted", "failed"}
  /\ outcome' = "planning"
  /\ asked' = FALSE
  /\ needs' = [i \in Items |-> {}]
  /\ board' = [i \in Items |-> "none"]

Next ==
  \/ Plan
  \/ \E i \in Items : Start(i) \/ Finish(i) \/ Block(i)
  \/ Ask
  \/ Deliver
  \/ Stop
  \/ Fail
  \/ Again

Spec == Init /\ [][Next]_vars
=============================================================================
