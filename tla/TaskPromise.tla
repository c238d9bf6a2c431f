----------------------------- MODULE TaskPromise -----------------------------
(***************************************************************************)
(* What the task manager promises the user who submits a task, whichever   *)
(* coroutine, thread, timer or restart carries it out.  The user sees the  *)
(* status of the task and the state of its budget plan; `working' says     *)
(* that seats execute it, which is what the plan pays for.                 *)
(*                                                                         *)
(* Seats work only under a plan the user has locked, while the task is     *)
(* shown as running, and not after a rejection.  A plan is decided once.   *)
(* A task that ended stays as it ended until it is resumed.  The code      *)
(* makes one exception, `late': a rejection does not reach a start whose   *)
(* path is not known yet, nor a resumed run before its first and after its *)
(* last await of execute(); what is late may still close the task.         *)
(***************************************************************************)
CONSTANT Tasks

VARIABLES status, plan, working, late

vars == <<status, plan, working, late>>

Init ==
  /\ status = [t \in Tasks |-> "none"]
  /\ plan = [t \in Tasks |-> "none"]
  /\ working = [t \in Tasks |-> FALSE]
  /\ late = [t \in Tasks |-> FALSE]

Becomes(t, s, p, w, l) ==
  /\ status' = [status EXCEPT ![t] = s]
  /\ plan' = [plan EXCEPT ![t] = p]
  /\ working' = [working EXCEPT ![t] = w]
  /\ late' = [late EXCEPT ![t] = l]

Waiting == {"pending", "awaiting_confirmation"}

Submit(t) ==
  /\ status[t] = "none"
  /\ \E s \in Waiting, l \in BOOLEAN : Becomes(t, s, plan[t], FALSE, l)

\* The plan is there for the user to decide.
Ask(t) ==
  /\ status[t] \in Waiting /\ plan[t] = "none" /\ ~late[t]
  /\ Becomes(t, "awaiting_confirmation", "pending_user", FALSE, FALSE)

\* An approval, by the user or automatic at once; one that cannot be paid for
\* leaves the status as it is.
Grant(t) ==
  /\ status[t] \in Waiting /\ plan[t] \in {"none", "pending_user"} /\ ~late[t]
  /\ \E s \in {status[t], "pending"} : Becomes(t, s, "locked", FALSE, FALSE)

Refuse(t) ==
  /\ status[t] \in Waiting \cup {"running", "interrupted"}
  /\ Becomes(t, "rejected", IF plan[t] = "none" THEN "none" ELSE "rejected", FALSE, late[t])

Lapse(t) ==
  /\ status[t] \in Waiting /\ plan[t] = "pending_user"
  /\ Becomes(t, "expired", "expired", FALSE, FALSE)

\* A run is under way and may change the status, though it was rejected if it
\* is late.
Open(t) == status[t] \in {"pending", "running"} \/ (status[t] = "rejected" /\ late[t])

\* A run begins; a resumed one is at work at once.
Begin(t) ==
  /\ Open(t) /\ status[t] # "running"
  /\ \E w \in {FALSE, plan[t] = "locked"} : Becomes(t, "running", plan[t], w, FALSE)

Work(t) ==
  /\ status[t] = "running" /\ plan[t] = "locked" /\ ~late[t]
  /\ Becomes(t, "running", plan[t], TRUE, FALSE)

\* The seats are done, or told to stop.
Rest(t) ==
  /\ working[t]
  /\ \E l \in BOOLEAN : Becomes(t, status[t], plan[t], FALSE, l)

\* The run ends, with its result or without one.
Close(t) ==
  /\ Open(t)
  /\ \E s \in {"completed", "failed", "cancelled"} : Becomes(t, s, plan[t], FALSE, FALSE)

\* A run ends that leaves the status to the rejection or the cancel it found.
Leave(t) == Becomes(t, status[t], plan[t], FALSE, FALSE)

Resume(t) ==
  /\ status[t] \in {"pending", "failed", "cancelled", "interrupted", "rejected"}
  /\ plan[t] \notin {"pending_user", "expired"} /\ ~working[t] /\ ~late[t]
  /\ \E l \in BOOLEAN : Becomes(t, "pending", plan[t], FALSE, l)

\* The process dies and comes back.
Restart ==
  /\ status' = [t \in Tasks |-> IF status[t] \in {"pending", "running"}
                                  THEN "interrupted" ELSE status[t]]
  /\ working' = [t \in Tasks |-> FALSE]
  /\ late' = [t \in Tasks |-> FALSE]
  /\ UNCHANGED plan

Next ==
  \/ \E t \in Tasks :
       \/ Submit(t) \/ Ask(t) \/ Grant(t) \/ Refuse(t) \/ Lapse(t)
       \/ Begin(t) \/ Work(t) \/ Rest(t) \/ Close(t) \/ Leave(t) \/ Resume(t)
  \/ Restart

Spec == Init /\ [][Next]_vars
=============================================================================
