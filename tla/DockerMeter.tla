------------------------------ MODULE DockerMeter ------------------------------
(***************************************************************************)
(* The metering of Docker services to the credits of the user who started  *)
(* them (backend/billing/docker_meter.py, docker_api.py, docker_pricing.py *)
(* and the /docker endpoints of main.py): ticks that scan the running      *)
(* containers in threads of their own, the loop's and those of company     *)
(* runs, and requests that start, stop and restart a service.              *)
(*                                                                         *)
(* The tracker's lock guards single reads and writes of its tables, so one *)
(* action is one block under the lock, one debit (see CreditPools) or one  *)
(* call to the Docker client.  Time is counted in units begun: a container *)
(* that has been started is at least one unit old, and a unit costs one    *)
(* credit once the month's included units are used up.                     *)
(*                                                                         *)
(* Compose starts the containers, and restarts and crashes are no business *)
(* of this code: a service may run before anybody owns it, and stop and    *)
(* start at any time.  The code itself starts and stops running ones only. *)
(***************************************************************************)
EXTENDS Integers, FiniteSets

CONSTANTS
  Services,      \* services with a rate; the others are never metered
  Core,          \* services a user without credits does not lose
  Users,
  Nobody,        \* no owner is recorded
  Tickers,       \* threads that run settle_tick
  Api,           \* the event loop, which serves one request at a time
  Words,         \* what the Docker client may call a running container
  Credits,       \* what each user can spend at the start
  Allowance,     \* the plan's included units of a month
  MaxAge,        \* bound: units since a container's start
  MaxRequests    \* bound: requests served

Procs == Tickers \cup {Api}

ASSUME NamesAssumption ==
  /\ Core \subseteq Services /\ Nobody \notin Users /\ Api \notin Tickers
  /\ Services # {} /\ Users # {}
ASSUME BoundsAssumption ==
  Credits \in Nat /\ Allowance \in Nat /\ MaxAge \in Nat \ {0} /\ MaxRequests \in Nat
ASSUME TickersFinite == IsFiniteSet(Tickers)

VARIABLES
  word,       \* the client's status of a running container (external)
  up,         \* is the container running
  age,        \* units since it was last started, 0 if no start is reported
  ran,        \* history: the greatest uptime it has run to, or a stop has read
  owner,      \* _owners
  billed,     \* _billed_uptime; 0 where there is no entry
  included,   \* _included_used_hours of the month
  credits,    \* what the user's pools hold
  pc,         \* where each thread stands
  claim,      \* a thread's settlement: why (in a tick, for a stop or a restart), of which
              \* service and user, the uptime billed before and now, the units free of it
  listing,    \* a tick's list of containers
  todo,       \* services the tick, or its stopping of services, has still to visit
  broke,      \* users a tick found without credits
  requests,   \* requests served
  charged,    \* history: which units (of uptime) of a service were settled
  refused,    \* history: those whose debit its user could not pay
  twice,      \* history: services with a unit that was settled again
  closed      \* history: services somebody else stopped or took over, that lost their
              \* owner, or whose entry was removed or moved back

world == <<word, up, age, ran>>
tracker == <<owner, billed, included>>
scan == <<listing, todo, broke>>
history == <<charged, refused, twice, closed>>
vars == <<world, tracker, credits, pc, claim, scan, requests, history>>

Pc == {"idle", "scan", "advance", "price", "count", "debit", "owned",
       "stopping", "list", "pop", "start", "assign"}

Lesser(a, b) == IF a <= b THEN a ELSE b
Greater(a, b) == IF a <= b THEN b ELSE a
Listing == [Services -> [up : BOOLEAN, age : 0..MaxAge]]

NoListing == [s \in Services |-> [up |-> FALSE, age |-> 0]]
Modes == {"tick", "stop", "restart", "start"}
Claims == [svc : Services, uid : Users, mode : Modes,
           from : 0..MaxAge, seen : 0..MaxAge, free : 0..MaxAge]
NoClaim == [svc |-> CHOOSE s \in Services : TRUE, uid |-> CHOOSE u \in Users : TRUE,
            mode |-> "tick", from |-> 0, seen |-> 0, free |-> 0]

Init ==
  /\ word \in Words
  /\ up \in [Services -> BOOLEAN]
  /\ age \in {a \in [Services -> 0..MaxAge] : \A s \in Services : up[s] => a[s] > 0}
  /\ ran = [s \in Services |-> IF up[s] THEN age[s] ELSE 0]
  /\ owner = [s \in Services |-> Nobody]
  /\ billed = [u \in Users |-> [s \in Services |-> 0]]
  /\ included = [u \in Users |-> 0]
  /\ credits = [u \in Users |-> Credits]
  /\ pc = [p \in Procs |-> "idle"]
  /\ claim = [p \in Procs |-> NoClaim]
  /\ listing = [k \in Tickers |-> NoListing]
  /\ todo = [k \in Tickers |-> {}]
  /\ broke = [k \in Tickers |-> {}]
  /\ requests = 0
  /\ charged = [s \in Services |-> {}] /\ refused = [s \in Services |-> {}]
  /\ twice = {} /\ closed = {}

Goto(p, next) == pc' = [pc EXCEPT ![p] = next]

\* A service that runs, or whose uptime a final settlement is about to read.
Counted(s) == up[s] \/ \E p \in Procs : pc[p] = "list" /\ claim[p].svc = s

(* A unit of time begins, for stopped containers too: uptime_seconds is    *)
(* the time since StartedAt.                                               *)
Clock ==
  /\ \A s \in Services : age[s] < MaxAge
  /\ age' = [s \in Services |-> IF age[s] = 0 THEN 0 ELSE age[s] + 1]
  /\ ran' = [s \in Services |-> IF Counted(s) THEN Greater(ran[s], age'[s]) ELSE ran[s]]
  /\ UNCHANGED <<word, up, tracker, credits, pc, claim, scan, requests, history>>

\* A container is started.  What was billed of an uptime is not forgotten by
\* that, so the histories of an open service go on.
Begins(s) ==
  /\ up' = [up EXCEPT ![s] = TRUE]
  /\ age' = [age EXCEPT ![s] = 1]
  /\ ran' = [ran EXCEPT ![s] = IF s \in closed THEN 1 ELSE Greater(@, 1)]
  /\ IF s \in closed
       THEN /\ charged' = [charged EXCEPT ![s] = {}]
            /\ refused' = [refused EXCEPT ![s] = {}]
       ELSE UNCHANGED <<charged, refused>>

\* Compose, the restart policy or an operator starts a container.
ExternalStart(s) ==
  /\ ~up[s]
  /\ Begins(s)
  /\ UNCHANGED <<word, tracker, credits, pc, claim, scan, requests, twice, closed>>

\* A container crashes or is stopped without a call of on_stop.
ExternalStop(s) ==
  /\ up[s]
  /\ up' = [up EXCEPT ![s] = FALSE]
  /\ UNCHANGED <<word, age, ran, tracker, credits, pc, claim, scan, requests, history>>

-------------------------------------------------------------------------------
(* settle_service, from the claim of units to their charge.                *)

Claim(p, s, u, uptime, m) ==
  claim' = [claim EXCEPT ![p] = [svc |-> s, uid |-> u, mode |-> m,
                                 from |-> 0, seen |-> uptime, free |-> 0]]

\* A call that returns leaves nothing of its claim.
Forget(p) == claim' = [claim EXCEPT ![p] = NoClaim]

\* The user whose services a ticker stops stays with it.
StillStopping(p) == claim' = [claim EXCEPT ![p] = [NoClaim EXCEPT !.uid = claim[p].uid]]

\* The units between the uptime billed before and the one seen.
Units(p) == claim[p].from + 1 .. claim[p].seen
Delta(p) == claim[p].seen - claim[p].from

Billed(p) == billed[claim[p].uid][claim[p].svc]
BilledBecomes(p, n) == billed' = [billed EXCEPT ![claim[p].uid][claim[p].svc] = n]

\* After a settlement a tick goes on with its list, a stop with its end.
Settled(p) ==
  IF claim[p].mode = "tick" THEN Goto(p, "scan") /\ Forget(p)
  ELSE Goto(p, "pop") /\ Claim(p, claim[p].svc, claim[p].uid, 0, claim[p].mode)

\* After one that failed a stop is over, too.
Failed(p) ==
  \/ claim[p].mode = "tick" /\ Goto(p, "scan") /\ Forget(p)
  \/ claim[p].mode # "tick" /\ p = Api /\ Goto(p, "idle") /\ Forget(p)
  \/ claim[p].mode # "tick" /\ p # Api /\ Goto(p, "stopping") /\ StillStopping(p)

(* The claim of the units beyond those billed.                             *)
ClaimsFrom(p, n) ==
  /\ BilledBecomes(p, claim[p].seen)
  /\ claim' = [claim EXCEPT ![p].from = n]
  /\ Goto(p, "price")

\* Mutant: an uptime that is not beyond the one billed is billed anew.
AdvanceAnyway(p) ==
  /\ pc[p] = "advance"
  /\ ClaimsFrom(p, IF claim[p].seen > Billed(p) THEN Billed(p) ELSE 0)
  /\ UNCHANGED <<world, owner, included, credits, scan, requests, history>>

\* Mutant: any lower uptime is taken for one of a later start.
AdvanceMovesBack(p) ==
  /\ pc[p] = "advance"
  /\ \/ claim[p].seen > Billed(p) /\ ClaimsFrom(p, Billed(p))
     \/ /\ claim[p].seen <= Billed(p)
        /\ BilledBecomes(p, claim[p].seen)
        /\ Settled(p)
  /\ UNCHANGED <<world, owner, included, credits, scan, requests, history>>

(* The block under the lock that compares the uptime with the billed one   *)
(* and moves the latter on, before anything is charged.  A tick that comes *)
(* with an older uptime finds nothing to bill; a final settlement moves an *)
(* entry of an earlier start back.                                         *)
Advance(p) ==
  /\ pc[p] = "advance"
  /\ \/ /\ claim[p].seen > Billed(p)
        /\ ClaimsFrom(p, Billed(p))
        /\ UNCHANGED closed
     \/ /\ claim[p].seen <= Billed(p)
        /\ claim[p].mode = "tick" \/ claim[p].seen = Billed(p)
        /\ Settled(p)
        /\ UNCHANGED <<billed, closed>>
     \/ /\ claim[p].seen < Billed(p) /\ claim[p].mode # "tick"
        /\ BilledBecomes(p, claim[p].seen)
        /\ closed' = closed \cup {claim[p].svc}
        /\ Settled(p)
  /\ UNCHANGED <<world, owner, included, credits, scan, requests, charged, refused, twice>>

(* _included_used and split_docker_runtime.                                *)
Price(p) ==
  LET used == included[claim[p].uid] IN
  /\ pc[p] = "price"
  /\ claim' = [claim EXCEPT ![p].free =
                 IF used >= Allowance THEN 0 ELSE Lesser(Delta(p), Allowance - used)]
  /\ Goto(p, "count")
  /\ UNCHANGED <<world, tracker, credits, scan, requests, history>>

(* _add_included_used.                                                     *)
CountIncluded(p) ==
  /\ pc[p] = "count"
  /\ included' = [included EXCEPT ![claim[p].uid] = @ + claim[p].free]
  /\ Goto(p, "debit")
  /\ UNCHANGED <<world, owner, billed, credits, claim, scan, requests, history>>

Charge(p) ==
  /\ credits' = [credits EXCEPT ![claim[p].uid] = @ - (Delta(p) - claim[p].free)]
  /\ charged' = [charged EXCEPT ![claim[p].svc] = @ \cup Units(p)]
  /\ twice' = IF Units(p) \cap charged[claim[p].svc] = {} THEN twice
               ELSE twice \cup {claim[p].svc}
  /\ Settled(p)
  /\ UNCHANGED <<broke, refused>>

\* Mutant: the units are debited whatever the user has.
DebitUnchecked(p) ==
  /\ pc[p] = "debit"
  /\ Charge(p)
  /\ UNCHANGED <<world, tracker, listing, todo, requests, closed>>

(* meter_docker: the units beyond the included ones are debited, or        *)
(* InsufficientCreditsError leaves settle_service with the claim standing. *)
Debit(p) ==
  LET due == Delta(p) - claim[p].free IN
  /\ pc[p] = "debit"
  /\ \/ due <= credits[claim[p].uid] /\ Charge(p)
     \/ /\ due > credits[claim[p].uid]
        /\ broke' = IF claim[p].mode = "tick"
                      THEN [broke EXCEPT ![p] = @ \cup {claim[p].uid}] ELSE broke
        /\ refused' = [refused EXCEPT ![claim[p].svc] = @ \cup Units(p)]
        /\ Failed(p)
        /\ UNCHANGED <<credits, charged, twice>>
  /\ UNCHANGED <<world, tracker, listing, todo, requests, closed>>

\* A stop is carried out only on a service the client lists as running.
Stops(s) == up[s] /\ up' = [up EXCEPT ![s] = FALSE]

\* A service closes unless the user concerned is still its owner.
ClosedUnless(s, still) == closed' = IF still THEN closed ELSE closed \cup {s}

-------------------------------------------------------------------------------
(* settle_tick                                                             *)

ListContainers(k) ==
  /\ k \in Tickers /\ pc[k] = "idle"
  /\ listing' = [listing EXCEPT ![k] = [s \in Services |-> [up |-> up[s], age |-> age[s]]]]
  /\ todo' = [todo EXCEPT ![k] = Services]
  /\ broke' = [broke EXCEPT ![k] = {}]
  /\ Goto(k, "scan")
  /\ UNCHANGED <<world, tracker, credits, claim, requests, history>>

Scanned(k, s) == todo' = [todo EXCEPT ![k] = @ \ {s}]

(* One container of the list: without an owner, or in a status that does   *)
(* not begin with "Up", it is passed over; one without an uptime loses its *)
(* owner and its entry.                                                    *)
Scan(k, s) ==
  /\ k \in Tickers /\ pc[k] = "scan" /\ s \in todo[k]
  /\ Scanned(k, s)
  /\ \/ /\ owner[s] # Nobody /\ listing[k][s].up /\ word = "Up"
        /\ Claim(k, s, owner[s], listing[k][s].age, "tick")
        /\ Goto(k, "advance")
        /\ UNCHANGED <<owner, billed, closed>>
     \/ /\ owner[s] # Nobody /\ ~(listing[k][s].up /\ word = "Up")
        /\ IF listing[k][s].age = 0
             THEN /\ owner' = [owner EXCEPT ![s] = Nobody]
                  /\ billed' = [billed EXCEPT ![owner[s]][s] = 0]
                  /\ closed' = closed \cup {s}
             ELSE UNCHANGED <<owner, billed, closed>>
        /\ UNCHANGED <<pc, claim>>
     \/ owner[s] = Nobody /\ UNCHANGED <<owner, billed, pc, claim, closed>>
  /\ UNCHANGED <<world, included, credits, listing, broke, requests, charged, refused,
                 twice>>

ScanEnds(k) ==
  /\ k \in Tickers /\ pc[k] = "scan" /\ todo[k] = {}
  /\ Goto(k, IF broke[k] = {} THEN "idle" ELSE "owned")
  /\ listing' = [listing EXCEPT ![k] = NoListing]
  /\ UNCHANGED <<world, tracker, credits, claim, todo, broke, requests, history>>

(* _stop_optional_for_user: which services the user owns now.              *)
StopOptional(k) ==
  /\ k \in Tickers /\ pc[k] = "owned"
  /\ \E u \in broke[k] :
       /\ claim' = [claim EXCEPT ![k].uid = u]
       /\ todo' = [todo EXCEPT ![k] = {s \in Services \ Core : owner[s] = u}]
       /\ broke' = [broke EXCEPT ![k] = @ \ {u}]
  /\ Goto(k, "stopping")
  /\ UNCHANGED <<world, tracker, credits, listing, requests, history>>

(* stop_service of one of them, then on_stop for the user; a call that     *)
(* fails, or is refused because the container does not run, leaves both    *)
(* undone.                                                                 *)
StopOne(k, s) ==
  /\ k \in Tickers /\ pc[k] = "stopping" /\ s \in todo[k]
  /\ Scanned(k, s)
  /\ \/ /\ Stops(s)
        /\ Claim(k, s, claim[k].uid, 0, "stop")
        /\ ClosedUnless(s, owner[s] = claim[k].uid)
        /\ Goto(k, "list")
     \/ UNCHANGED <<up, claim, closed, pc>>
  /\ UNCHANGED <<word, age, ran, tracker, credits, listing, broke, requests, charged,
                 refused, twice>>

StoppingEnds(k) ==
  /\ k \in Tickers /\ pc[k] = "stopping" /\ todo[k] = {}
  /\ Forget(k)
  /\ Goto(k, IF broke[k] = {} THEN "idle" ELSE "owned")
  /\ UNCHANGED <<world, tracker, credits, scan, requests, history>>

-------------------------------------------------------------------------------
(* on_stop: the uptime is read, settled to the user who asks, and the      *)
(* entry and the owner are removed.                                        *)

ReadUptime(p) ==
  /\ pc[p] = "list"
  /\ claim' = [claim EXCEPT ![p].seen = age[claim[p].svc]]
  /\ Goto(p, "advance")
  /\ UNCHANGED <<world, tracker, credits, scan, requests, history>>

Pop(p) ==
  /\ pc[p] = "pop"
  /\ BilledBecomes(p, 0)
  /\ owner' = [owner EXCEPT ![claim[p].svc] = Nobody]
  /\ closed' = closed \cup {claim[p].svc}
  /\ \/ p # Api /\ Goto(p, "stopping") /\ StillStopping(p)
     \/ p = Api /\ claim[p].mode = "restart" /\ Goto(p, "start") /\ UNCHANGED claim
     \/ p = Api /\ claim[p].mode # "restart" /\ Goto(p, "idle") /\ Forget(p)
  /\ UNCHANGED <<world, included, credits, scan, requests, charged, refused, twice>>

-------------------------------------------------------------------------------
(* The endpoints.  None of them awaits: one request at a time.             *)

Request == pc[Api] = "idle" /\ requests < MaxRequests /\ requests' = requests + 1

(* docker_stop: stop_service refuses a service that does not run; after a  *)
(* stop on_stop is called for the user who asks.                           *)
RequestStop(s, u) ==
  /\ Request
  /\ Stops(s)
  /\ Claim(Api, s, u, 0, "stop")
  /\ ClosedUnless(s, owner[s] = u)
  /\ Goto(Api, "list")
  /\ UNCHANGED <<word, age, ran, tracker, credits, scan, charged, refused, twice>>

(* docker_restart: on_stop first, whether or not the service runs; the     *)
(* container after it.                                                     *)
RequestRestart(s, u) ==
  /\ Request
  /\ Claim(Api, s, u, 0, "restart")
  /\ ClosedUnless(s, up[s] /\ owner[s] = u)
  /\ Goto(Api, "list")
  /\ UNCHANGED <<world, tracker, credits, scan, charged, refused, twice>>

(* docker_start                                                            *)
RequestStart(s, u) ==
  /\ Request
  /\ Claim(Api, s, u, 0, "start")
  /\ Goto(Api, "start")
  /\ UNCHANGED <<world, tracker, credits, scan, history>>

(* start_service and restart_service act on a service that runs: to the    *)
(* former nothing is left to do, the latter starts the container anew.     *)
StartContainer ==
  LET s == claim[Api].svc IN
  /\ pc[Api] = "start"
  /\ up[s]
  /\ IF claim[Api].mode = "restart" THEN Begins(s)
       ELSE UNCHANGED <<up, age, ran, charged, refused>>
  /\ Goto(Api, "assign")
  /\ UNCHANGED <<word, tracker, credits, claim, scan, requests, twice, closed>>

(* A start or a restart that fails, or is refused: a restart has settled   *)
(* the service by then, and nobody owns it.                                *)
StartFails ==
  /\ pc[Api] = "start"
  /\ Goto(Api, "idle") /\ Forget(Api)
  /\ UNCHANGED <<world, tracker, credits, scan, requests, history>>

(* on_docker_started: assign_owner.                                        *)
AssignOwner ==
  LET s == claim[Api].svc IN
  /\ pc[Api] = "assign"
  /\ owner' = [owner EXCEPT ![s] = claim[Api].uid]
  /\ ClosedUnless(s, owner[s] \in {Nobody, claim[Api].uid})
  /\ Goto(Api, "idle") /\ Forget(Api)
  /\ UNCHANGED <<world, billed, included, credits, scan, requests, charged, refused, twice>>

Settle(p) == \/ Advance(p) \/ Price(p) \/ CountIncluded(p) \/ Debit(p)
             \/ ReadUptime(p) \/ Pop(p)
Tick(k) == \/ ListContainers(k) \/ ScanEnds(k) \/ StopOptional(k) \/ StoppingEnds(k)
           \/ \E s \in Services : Scan(k, s) \/ StopOne(k, s)

Next ==
  \/ Clock
  \/ \E s \in Services : ExternalStart(s) \/ ExternalStop(s)
  \/ \E p \in Procs : Settle(p)
  \/ \E k \in Tickers : Tick(k)
  \/ \E s \in Services, u \in Users : RequestStop(s, u) \/ RequestRestart(s, u)
                                      \/ RequestStart(s, u)
  \/ StartContainer \/ StartFails
  \/ AssignOwner

(* The loop ticks for ever and its threads run; nobody has to make a       *)
(* request, and time is bounded here.                                      *)
Fairness ==
  /\ \A k \in Tickers : WF_vars(Tick(k))
  /\ \A p \in Procs : WF_vars(Settle(p))
  /\ WF_vars(StartContainer \/ StartFails) /\ WF_vars(AssignOwner)

Spec == Init /\ [][Next]_vars
FairSpec == Spec /\ Fairness

-------------------------------------------------------------------------------
(* The types of the variables. *)
TypeOK ==
  /\ word \in Words /\ up \in [Services -> BOOLEAN]
  /\ age \in [Services -> 0..MaxAge] /\ ran \in [Services -> 0..MaxAge]
  /\ owner \in [Services -> Users \cup {Nobody}]
  /\ billed \in [Users -> [Services -> 0..MaxAge]]
  /\ included \in [Users -> Nat] /\ credits \in [Users -> Nat]
  /\ pc \in [Procs -> Pc] /\ claim \in [Procs -> Claims]
  /\ listing \in [Tickers -> Listing]
  /\ todo \in [Tickers -> SUBSET Services] /\ broke \in [Tickers -> SUBSET Users]
  /\ requests \in 0..MaxRequests
  /\ charged \in [Services -> SUBSET (1..MaxAge)]
  /\ refused \in [Services -> SUBSET (1..MaxAge)]
  /\ twice \subseteq Services /\ closed \subseteq Services

(* Ticks that run side by side, each with a list of containers of its own  *)
(* age, and the stop by the owner or for the owner charge no unit twice,   *)
(* and none the service has not run: until its entry is removed, or it     *)
(* passes to somebody else.                                                *)
ChargedOnce ==
  \A s \in Services \ closed : s \notin twice /\ charged[s] \subseteq 1..ran[s]

\* The units of a service that were claimed and are not yet charged.
InFlight(s) ==
  UNION {Units(p) : p \in {q \in Procs : pc[q] \in {"price", "count", "debit"}
                                        /\ claim[q].svc = s}}

(* The entry is moved on before anything is charged, and never says more   *)
(* than what became of the units: every unit below the billed uptime was   *)
(* charged, was refused for want of credits, or is being charged.          *)
UnitsAccounted ==
  \A s \in Services \ closed :
    owner[s] # Nobody =>
      1..billed[owner[s]][s] = charged[s] \cup refused[s] \cup InFlight(s)

\* A running service of an owner is billed up to any age it reaches, unless it
\* is stopped or passes to somebody else.
CaughtUp(s) ==
  \A a \in 1..MaxAge :
    (up[s] /\ owner[s] # Nobody /\ age[s] = a)
      ~> ((owner[s] # Nobody /\ billed[owner[s]][s] >= a) \/ ~up[s] \/ s \in closed)

(* docker_meter.py, "background ticks settle by the uptime gained".        *)
RunningIsBilled == \A s \in Services : CaughtUp(s)

(* docker_meter.py, "settle the increment since the last tick" and "a      *)
(* final settlement at the stop": nothing is settled beyond what was run.  *)
ChargedWithinRun ==
  \A s \in Services : s \notin twice /\ charged[s] \subseteq 1..ran[s]
===============================================================================
