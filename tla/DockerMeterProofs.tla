--------------------------- MODULE DockerMeterProofs ---------------------------
(***************************************************************************)
(* No unit is charged twice and none is lost, for any number of ticking    *)
(* threads, users, services and requests, and whatever the containers do.  *)
(*                                                                         *)
(* The argument: a settlement claims the units between the uptime billed   *)
(* before and the one it sees, and moves the billed uptime on in the same  *)
(* block.  So the claims in flight for one service are intervals that do   *)
(* not meet, none reaches beyond the billed uptime, what was charged lies  *)
(* outside of them, and nothing lies below the billed uptime that was not  *)
(* claimed.  This holds of a service as long as its entry and its owner    *)
(* stay: until it is `closed'.                                             *)
(***************************************************************************)
EXTENDS DockerMeter, SumTheorems

Claiming == {"price", "count", "debit"}
Settling == Claiming \cup {"advance"}

\* A uptime that is listed, or about to be read for a stop, has been run.
AgesFit ==
  \A s \in Services \ closed :
    /\ Counted(s) => age[s] <= ran[s]
    /\ \A k \in Tickers : listing[k][s].up => listing[k][s].age <= ran[s]

\* A thread that claims has units to charge.
StepsFit == \A p \in Procs : pc[p] \in Claiming => claim[p].from < claim[p].seen

\* What is settled of an open service is settled to its owner, and was run.
SettlesOwners(p) ==
  /\ pc[p] \in Settling \cup {"list"} => owner[claim[p].svc] = claim[p].uid
  /\ pc[p] \in Settling => claim[p].seen <= ran[claim[p].svc]
OwnersSettle == \A p \in Procs : claim[p].svc \notin closed => SettlesOwners(p)

\* Only the owner has an entry, and none reaches beyond what was run.
EntriesFit ==
  \A s \in Services \ closed, u \in Users :
    billed[u][s] <= ran[s] /\ (u # owner[s] => billed[u][s] = 0)

\* The owner's entry covers what was charged, refused or claimed, and no more.
Entry(s) == IF owner[s] = Nobody THEN 0 ELSE billed[owner[s]][s]
Takes(p, s, m) == pc[p] \in Claiming /\ claim[p].svc = s /\ m \in Units(p)
Accounted ==
  \A s \in Services \ closed, m \in 1..MaxAge :
    m <= Entry(s) <=>
      m \in charged[s] \/ m \in refused[s] \/ \E p \in Procs : Takes(p, s, m)

\* Claims in flight lie below the billed uptime, apart from each other and
\* from what was charged.
Apart(p) ==
  /\ claim[p].seen <= billed[claim[p].uid][claim[p].svc]
  /\ \A n \in charged[claim[p].svc] : n <= claim[p].from \/ n > claim[p].seen
  /\ \A q \in Procs \ {p} :
       pc[q] \in Claiming /\ claim[q].svc = claim[p].svc =>
         claim[p].seen <= claim[q].from \/ claim[q].seen <= claim[p].from

ClaimsApart ==
  \A p \in Procs : pc[p] \in Claiming /\ claim[p].svc \notin closed => Apart(p)

\* What the inductive invariant says beyond the types.
Accounts == /\ AgesFit /\ StepsFit /\ OwnersSettle /\ EntriesFit /\ Accounted /\ ClaimsApart
            /\ twice \subseteq closed

IInv == TypeOK /\ Accounts

\* The other threads stand where they stood.
OthersStay(p) ==
  \A q \in Procs \ {p} : pc'[q] = pc[q] /\ claim'[q] = claim[q]

-------------------------------------------------------------------------------
(* Types *)

LEMMA Kinds == Api \in Procs /\ (\A k \in Tickers : k \in Procs /\ k # Api)
BY NamesAssumption DEF Procs

LEMMA NoClaimType == NoClaim \in Claims
BY NamesAssumption, BoundsAssumption DEF NoClaim, Claims, Modes

\* An entry is moved to a place of the same type.
LEMMA MoveType ==
  ASSUME NEW p \in Procs, pc \in [Procs -> Pc], NEW l \in Pc, Goto(p, l)
  PROVE  /\ pc' \in [Procs -> Pc] /\ pc'[p] = l
         /\ \A q \in Procs \ {p} : pc'[q] = pc[q]
BY DEF Goto

LEMMA ClaimType ==
  ASSUME NEW p \in Procs, claim \in [Procs -> Claims], NEW c \in Claims,
         claim' = [claim EXCEPT ![p] = c]
  PROVE  /\ claim' \in [Procs -> Claims] /\ claim'[p] = c
         /\ \A q \in Procs \ {p} : claim'[q] = claim[q]
OBVIOUS

LEMMA BilledType ==
  ASSUME TypeOK, NEW p \in Procs, NEW n \in 0..MaxAge, BilledBecomes(p, n)
  PROVE  /\ billed' \in [Users -> [Services -> 0..MaxAge]]
         /\ billed'[claim[p].uid][claim[p].svc] = n
         /\ \A u \in Users, s \in Services :
              u # claim[p].uid \/ s # claim[p].svc => billed'[u][s] = billed[u][s]
<1>1. claim[p].uid \in Users /\ claim[p].svc \in Services
  BY DEF TypeOK, Claims
<1> QED BY <1>1 DEF TypeOK, BilledBecomes

\* What the types say of numbers.
LEMMA Numbers ==
  ASSUME TypeOK
  PROVE  /\ \A q \in Procs : /\ claim[q] \in Claims
                             /\ claim[q].svc \in Services /\ claim[q].uid \in Users
                             /\ claim[q].seen \in 0..MaxAge /\ claim[q].from \in 0..MaxAge
                             /\ claim[q].seen \in Int /\ claim[q].from \in Int
         /\ \A s \in Services : age[s] \in Nat /\ ran[s] \in Nat
         /\ \A s \in Services, u \in Users : billed[u][s] \in Nat
         /\ \A s \in Services : \A m \in charged[s] : m \in Nat
         /\ \A s \in Services, k \in Tickers : listing[k][s].age \in Nat
<1>1. \A q \in Procs : claim[q] \in Claims
  BY DEF TypeOK
<1>2. \A q \in Procs : /\ claim[q].svc \in Services /\ claim[q].uid \in Users
                       /\ claim[q].seen \in 0..MaxAge /\ claim[q].from \in 0..MaxAge
  BY <1>1 DEF Claims
<1>3. \A m \in 0..MaxAge : m \in Nat
  BY BoundsAssumption
<1>4. \A s \in Services, k \in Tickers : listing[k][s].age \in Nat
  BY <1>3 DEF TypeOK, Listing
<1>5. \A s \in Services, u \in Users : billed[u][s] \in Nat
  BY <1>3 DEF TypeOK
<1>6. \A s \in Services : \A m \in charged[s] : m \in Nat
  BY BoundsAssumption DEF TypeOK
<1> QED BY <1>1, <1>2, <1>3, <1>4, <1>5, <1>6 DEF TypeOK

\* Nothing runs that did not, and what is listed anew is what runs.
LEMMA AgesKeep ==
  ASSUME AgesFit, NEW p \in Procs, OthersStay(p), UNCHANGED <<age, ran>>,
         closed \subseteq closed', \A r \in Services : up'[r] => up[r],
         pc'[p] = "list" => claim'[p].svc \in closed' \/ up[claim'[p].svc],
         \A k \in Tickers, r \in Services :
           \/ listing'[k][r] = listing[k][r]
           \/ listing'[k][r].up => up[r] /\ listing'[k][r].age = age[r]
  PROVE  AgesFit'
<1> SUFFICES ASSUME NEW r \in Services \ closed'
             PROVE  /\ Counted(r)' => age[r] <= ran[r]
                    /\ \A k \in Tickers : listing'[k][r].up => listing'[k][r].age <= ran[r]
  BY DEF AgesFit
<1>1. Counted(r) => age[r] <= ran[r]
  BY DEF AgesFit
<1>2. Counted(r)' => Counted(r)
  BY DEF Counted, OthersStay
<1>3. ASSUME NEW k \in Tickers, listing'[k][r].up PROVE listing'[k][r].age <= ran[r]
  BY <1>1, <1>3 DEF AgesFit, Counted
<1> QED BY <1>1, <1>2, <1>3

-------------------------------------------------------------------------------
(* A thread that claims nothing of an open service disturbs nothing. *)

\* What may change of a service that stays open: it runs on, and somebody becomes
\* the owner of one that nobody owns.
OpenStays ==
  \A r \in Services \ closed' :
    /\ ran[r] <= ran'[r]
    /\ owner'[r] = owner[r] \/ owner[r] = Nobody
    /\ charged'[r] = charged[r] /\ refused'[r] = refused[r]
    /\ \A v \in Users : billed'[v][r] = billed[v][r]

\* Where a thread that claims nothing may stand.
StandsAside(p) ==
  /\ pc[p] \notin Claiming
  /\ claim[p].svc \notin closed => SettlesOwners(p)

LEMMA Quiet ==
  ASSUME TypeOK, TypeOK', Accounts, NEW p \in Procs, OthersStay(p), AgesFit', OpenStays,
         closed \subseteq closed', twice' \subseteq closed',
         \/ pc[p] \notin Claiming /\ StandsAside(p)'
         \/ pc'[p] = pc[p] /\ claim'[p] = claim[p]
  PROVE  Accounts'
<1>1. /\ \A q \in Procs : pc'[q] \in Claiming => /\ pc[q] \in Claiming /\ claim'[q] = claim[q]
                                                 /\ pc'[q] = pc[q]
      /\ \A q \in Procs : pc[q] \in Claiming => pc'[q] = pc[q] /\ claim'[q] = claim[q]
  BY DEF OthersStay, StandsAside
<1>2. /\ \A q \in Procs : claim[q].svc \in Services /\ claim[q].uid \in Users
      /\ \A q \in Procs : claim'[q].svc \in Services /\ claim'[q].uid \in Users
      /\ \A q \in Procs : claim[q].seen \in Int
      /\ \A r \in Services : ran[r] \in Int /\ ran'[r] \in Int
      /\ \A r \in Services, v \in Users : billed[v][r] \in Int
  <2>1. \A q \in Procs : claim'[q].svc \in Services /\ claim'[q].uid \in Users
    BY DEF TypeOK, Claims
  <2>2. \A r \in Services : ran'[r] \in Int
    BY BoundsAssumption DEF TypeOK
  <2> QED BY <2>1, <2>2, Numbers
<1>3. StepsFit'
  BY <1>1 DEF Accounts, StepsFit
<1>4. OwnersSettle'
  <2> SUFFICES ASSUME NEW q \in Procs, claim'[q].svc \notin closed'
               PROVE  SettlesOwners(q)'
    BY DEF OwnersSettle
  <2>1. CASE q = p /\ StandsAside(p)'
    BY <2>1 DEF StandsAside
  <2>2. CASE pc'[q] = pc[q] /\ claim'[q] = claim[q]
    <3>1. claim[q].svc \in Services \ closed' /\ SettlesOwners(q)
      BY <1>2, <2>2 DEF Accounts, OwnersSettle
    <3>2. /\ ran[claim[q].svc] <= ran'[claim[q].svc]
          /\ owner'[claim[q].svc] = owner[claim[q].svc] \/ owner[claim[q].svc] = Nobody
      BY <3>1 DEF OpenStays
    <3> QED BY <1>2, <2>2, <3>1, <3>2, NamesAssumption DEF SettlesOwners
  <2> QED BY <2>1, <2>2 DEF OthersStay
<1>5. EntriesFit'
  <2> SUFFICES ASSUME NEW r \in Services \ closed', NEW v \in Users
               PROVE  billed'[v][r] <= ran'[r] /\ (v # owner'[r] => billed'[v][r] = 0)
    BY DEF EntriesFit
  <2>1. billed[v][r] <= ran[r] /\ (v # owner[r] => billed[v][r] = 0)
    BY DEF Accounts, EntriesFit
  <2>2. /\ ran[r] <= ran'[r] /\ (owner'[r] = owner[r] \/ owner[r] = Nobody)
        /\ billed'[v][r] = billed[v][r]
    BY DEF OpenStays
  <2> QED BY <1>2, <2>1, <2>2, NamesAssumption
<1>6. Accounted'
  <2> SUFFICES ASSUME NEW r \in Services \ closed', NEW m \in 1..MaxAge
               PROVE  m <= Entry(r)' <=> \/ m \in charged'[r] \/ m \in refused'[r]
                                         \/ \E q \in Procs : Takes(q, r, m)'
    BY DEF Accounted
  <2>1. Entry(r)' = Entry(r)
    <3>1. /\ owner[r] \in Users \cup {Nobody} /\ owner'[r] \in Users \cup {Nobody}
          /\ owner'[r] = owner[r] \/ owner[r] = Nobody
          /\ \A v \in Users : billed'[v][r] = billed[v][r]
      BY DEF TypeOK, OpenStays
    <3>2. \A v \in Users : v # owner[r] => billed[v][r] = 0
      BY DEF Accounts, EntriesFit
    <3> QED BY <3>1, <3>2, NamesAssumption DEF Entry
  <2>2. \A q \in Procs : Takes(q, r, m)' <=> Takes(q, r, m)
    BY <1>1 DEF Takes, Units
  <2>3. charged'[r] = charged[r] /\ refused'[r] = refused[r]
    BY DEF OpenStays
  <2> QED BY <2>1, <2>2, <2>3 DEF Accounts, Accounted
<1>7. ClaimsApart'
  <2> SUFFICES ASSUME NEW q \in Procs, pc'[q] \in Claiming, claim'[q].svc \notin closed'
               PROVE  Apart(q)'
    BY DEF ClaimsApart
  <2>1. /\ claim'[q] = claim[q] /\ claim[q].svc \in Services \ closed' /\ Apart(q)
    BY <1>1, <1>2 DEF Accounts, ClaimsApart
  <2>2. /\ charged'[claim[q].svc] = charged[claim[q].svc]
        /\ billed'[claim[q].uid][claim[q].svc] = billed[claim[q].uid][claim[q].svc]
    BY <1>2, <2>1 DEF OpenStays
  <2> QED BY <1>1, <2>1, <2>2 DEF Apart
<1> QED BY <1>3, <1>4, <1>5, <1>6, <1>7 DEF Accounts

-------------------------------------------------------------------------------
(* settle_service *)

\* How a settlement ends: the thread no longer settles anything of an open
\* service, and its claim keeps its service if it goes on to remove the entry.
LEMMA SettledMoves ==
  ASSUME TypeOK, NEW p \in Procs, Settled(p)
  PROVE  /\ pc' \in [Procs -> Pc] /\ claim' \in [Procs -> Claims] /\ OthersStay(p)
         /\ \/ claim[p].mode = "tick" /\ pc'[p] = "scan"
            \/ claim[p].mode # "tick" /\ pc'[p] = "pop" /\ claim'[p].svc = claim[p].svc
<1>1. pc \in [Procs -> Pc] /\ claim \in [Procs -> Claims]
  BY DEF TypeOK
<1>2. CASE claim[p].mode = "tick"
  <2>1. Goto(p, "scan") /\ claim' = [claim EXCEPT ![p] = NoClaim]
    BY <1>2 DEF Settled, Forget
  <2> QED
    BY <1>1, <1>2, <2>1, NoClaimType, MoveType, ClaimType DEF Pc, OthersStay
<1>3. CASE claim[p].mode # "tick"
  <2> DEFINE c == [svc |-> claim[p].svc, uid |-> claim[p].uid, mode |-> claim[p].mode,
                   from |-> 0, seen |-> 0, free |-> 0]
  <2>1. Goto(p, "pop") /\ claim' = [claim EXCEPT ![p] = c]
    BY <1>3 DEF Settled, Claim
  <2>2. c \in Claims
    BY <1>1, BoundsAssumption DEF Claims
  <2> QED
    BY <1>1, <1>3, <2>1, <2>2, MoveType, ClaimType DEF Pc, OthersStay
<1> QED BY <1>2, <1>3

LEMMA FailedMoves ==
  ASSUME TypeOK, NEW p \in Procs, Failed(p)
  PROVE  /\ pc' \in [Procs -> Pc] /\ claim' \in [Procs -> Claims] /\ OthersStay(p)
         /\ pc'[p] \in {"scan", "idle", "stopping"}
<1>1. pc \in [Procs -> Pc] /\ claim \in [Procs -> Claims]
  BY DEF TypeOK
<1>2. \E l \in {"scan", "idle", "stopping"} : Goto(p, l)
  BY DEF Failed
<1>3. \E c \in Claims : claim' = [claim EXCEPT ![p] = c]
  <2>1. CASE Forget(p)
    BY <2>1, NoClaimType DEF Forget
  <2>2. CASE StillStopping(p)
    <3>1. [NoClaim EXCEPT !.uid = claim[p].uid] \in Claims
      BY <1>1, NoClaimType DEF Claims
    <3> QED BY <2>2, <3>1 DEF StillStopping
  <2> QED BY <2>1, <2>2 DEF Failed
<1> QED
  BY <1>1, <1>2, <1>3, MoveType, ClaimType DEF Pc, OthersStay

\* A claim opens: the owner's entry is moved on to the uptime seen, beyond all that
\* was charged or claimed before.
LEMMA ClaimKeeps ==
  ASSUME IInv, NEW p \in Procs, pc[p] = "advance",
         claim[p].seen > Billed(p), ClaimsFrom(p, Billed(p)),
         UNCHANGED <<world, owner, included, credits, scan, requests, history>>
  PROVE  IInv'
<1> DEFINE s == claim[p].svc
           u == claim[p].uid
           n == claim[p].seen
           b == billed[u][s]
<1>1. TypeOK /\ Accounts
  BY DEF IInv
<1>2. /\ s \in Services /\ u \in Users /\ n \in 0..MaxAge /\ claim[p] \in Claims
      /\ pc \in [Procs -> Pc] /\ claim \in [Procs -> Claims] /\ b \in 0..MaxAge
      /\ n \in Nat /\ b \in Nat /\ n > b
  BY <1>1, BoundsAssumption DEF TypeOK, Claims, Billed
<1>3. BilledBecomes(p, n) /\ Goto(p, "price")
  BY DEF ClaimsFrom
<1>4. /\ claim' \in [Procs -> Claims] /\ OthersStay(p) /\ pc' \in [Procs -> Pc]
      /\ claim'[p] = [claim[p] EXCEPT !.from = b] /\ pc'[p] = "price"
  <2>1. [claim[p] EXCEPT !.from = b] \in Claims
    BY <1>2 DEF Claims
  <2>2. claim' = [claim EXCEPT ![p] = [claim[p] EXCEPT !.from = b]]
    BY <1>2 DEF ClaimsFrom, Billed
  <2> QED BY <1>2, <1>3, <2>1, <2>2, ClaimType, MoveType DEF Pc, OthersStay
<1>5. /\ claim'[p].svc = s /\ claim'[p].uid = u /\ claim'[p].seen = n
      /\ claim'[p].from = b
  BY <1>2, <1>4 DEF Claims
<1>6. /\ billed' \in [Users -> [Services -> 0..MaxAge]] /\ billed'[u][s] = n
      /\ \A v \in Users, r \in Services :
           v # u \/ r # s => billed'[v][r] = billed[v][r]
  BY <1>1, <1>2, <1>3, BilledType
<1>7. TypeOK'
  BY <1>1, <1>4, <1>6 DEF TypeOK, world, scan, history
<1>8. AgesFit' /\ (twice \subseteq closed)'
  BY <1>1, <1>4, AgesKeep DEF Accounts, world, scan, history
<1>9. StepsFit'
  BY <1>1, <1>2, <1>4, <1>5 DEF Accounts, StepsFit, OthersStay
<1>10. s \notin closed => SettlesOwners(p) /\ owner[s] = u /\ n <= ran[s]
  BY <1>1 DEF Accounts, OwnersSettle, SettlesOwners, Settling
<1>11. OwnersSettle'
  <2> SUFFICES ASSUME NEW q \in Procs, claim'[q].svc \notin closed
               PROVE  SettlesOwners(q)'
    BY DEF OwnersSettle, history
  <2>1. CASE q = p
    BY <1>4, <1>5, <1>10, <2>1 DEF SettlesOwners, Settling, world
  <2>2. CASE q # p
    BY <1>1, <1>4, <2>2 DEF Accounts, OwnersSettle, SettlesOwners, OthersStay, world
  <2> QED BY <2>1, <2>2
<1>12. EntriesFit'
  <2> SUFFICES ASSUME NEW r \in Services \ closed, NEW v \in Users
               PROVE  billed'[v][r] <= ran[r] /\ (v # owner[r] => billed'[v][r] = 0)
    BY DEF EntriesFit, world, history
  <2>1. CASE r = s /\ v = u
    BY <1>6, <1>10, <2>1
  <2>2. CASE r # s \/ v # u
    BY <1>1, <1>6, <2>2 DEF Accounts, EntriesFit
  <2> QED BY <2>1, <2>2
<1>13. Accounted'
  <2> SUFFICES ASSUME NEW r \in Services \ closed, NEW m \in 1..MaxAge
               PROVE  m <= Entry(r)' <=> \/ m \in charged[r] \/ m \in refused[r]
                                         \/ \E q \in Procs : Takes(q, r, m)'
    BY DEF Accounted, history
  <2>1. m <= Entry(r) <=> \/ m \in charged[r] \/ m \in refused[r]
                          \/ \E q \in Procs : Takes(q, r, m)
    BY <1>1 DEF Accounts, Accounted
  <2>2. \A q \in Procs \ {p} : Takes(q, r, m)' <=> Takes(q, r, m)
    BY <1>4 DEF Takes, Units, OthersStay
  <2>3. ~Takes(p, r, m)
    BY DEF Takes, Claiming
  <2>4. CASE r # s
    <3>1. ~Takes(p, r, m)'
      BY <1>5, <2>4 DEF Takes
    <3>2. Entry(r)' = Entry(r)
      <4>1. owner[r] \in Users \cup {Nobody}
        BY <1>1 DEF TypeOK
      <4> QED BY <1>6, <2>4, <4>1 DEF Entry
    <3> QED BY <2>1, <2>2, <2>3, <3>1, <3>2
  <2>5. CASE r = s
    <3>1. Entry(r) = b /\ Entry(r)' = n
      BY <1>2, <1>6, <1>10, <2>5, NamesAssumption DEF Entry
    <3>2. Takes(p, r, m)' <=> m \in b + 1 .. n
      BY <1>4, <1>5, <2>5 DEF Takes, Units, Claiming
    <3>3. m \in Int
      OBVIOUS
    <3>4. m <= n <=> m <= b \/ m \in b + 1 .. n
      BY <1>2, <3>3
    <3> QED BY <2>1, <2>2, <2>3, <3>1, <3>2, <3>4
  <2> QED BY <2>4, <2>5
<1>14. s \notin closed => \A m \in charged[s] : m <= b
  <2> SUFFICES ASSUME s \notin closed, NEW m \in charged[s] PROVE m <= b
    OBVIOUS
  <2>1. m \in 1..MaxAge
    BY <1>1, <1>2 DEF TypeOK
  <2>2. Entry(s) = b
    BY <1>2, <1>10, NamesAssumption DEF Entry
  <2> QED BY <1>1, <1>2, <2>1, <2>2 DEF Accounts, Accounted
<1>15. ClaimsApart'
  <2> SUFFICES ASSUME NEW q \in Procs, pc'[q] \in Claiming, claim'[q].svc \notin closed
               PROVE  Apart(q)'
    BY DEF ClaimsApart, history
  <2>1. \A r \in Procs \ {p} : pc'[r] = pc[r] /\ claim'[r] = claim[r]
    BY <1>4 DEF OthersStay
  <2>2. ASSUME NEW r \in Procs \ {p}, pc[r] \in Claiming, claim[r].svc = s, s \notin closed
        PROVE  claim[r].uid = u /\ claim[r].seen <= b /\ Apart(r)
    BY <1>1, <1>10, <2>2
       DEF Accounts, OwnersSettle, SettlesOwners, ClaimsApart, Apart, Settling
  <2>3. CASE q = p
    <3>1. s \notin closed
      BY <1>5, <2>3
    <3>2. claim'[p].seen <= billed'[u][s] /\ \A m \in charged[s] : m <= claim'[p].from
      BY <1>2, <1>5, <1>6, <1>14, <3>1
    <3>3. \A r \in Procs \ {p} :
            pc'[r] \in Claiming /\ claim'[r].svc = s => claim'[r].seen <= claim'[p].from
      BY <1>5, <2>1, <2>2, <3>1
    <3> QED BY <1>5, <2>3, <3>2, <3>3 DEF Apart, history
  <2>4. CASE q # p
    <3>1. /\ pc[q] \in Claiming /\ claim'[q] = claim[q] /\ claim[q].svc \notin closed
          /\ Apart(q) /\ claim[q].uid \in Users /\ claim[q].svc \in Services
          /\ claim[q].seen \in Int
      BY <1>1, <2>1, <2>4, Numbers DEF Accounts, ClaimsApart
    <3>2. CASE claim[q].svc = s
      <4>1. claim[q].uid = u /\ claim[q].seen <= b
        BY <2>2, <2>4, <3>1, <3>2
      <4>2. claim[q].seen <= claim'[p].from /\ claim'[q].seen <= billed'[u][s]
        BY <1>2, <1>5, <1>6, <3>1, <4>1
      <4> QED BY <1>5, <2>1, <2>4, <3>1, <3>2, <4>1, <4>2 DEF Apart, history
    <3>3. CASE claim[q].svc # s
      <4>1. billed'[claim[q].uid][claim[q].svc] = billed[claim[q].uid][claim[q].svc]
        BY <1>6, <3>1, <3>3
      <4> QED BY <1>5, <2>1, <2>4, <3>1, <3>3, <4>1 DEF Apart, history
    <3> QED BY <3>2, <3>3
  <2> QED BY <2>3, <2>4
<1> QED BY <1>7, <1>8, <1>9, <1>11, <1>12, <1>13, <1>15 DEF IInv, Accounts

LEMMA AdvanceKeeps ==
  ASSUME IInv, NEW p \in Procs, Advance(p)
  PROVE  IInv'
<1> DEFINE s == claim[p].svc
           n == claim[p].seen
<1>1. /\ TypeOK /\ Accounts /\ pc[p] = "advance"
      /\ UNCHANGED <<world, owner, included, credits, scan, requests, charged, refused, twice>>
  BY DEF IInv, Advance
<1>2. CASE n > Billed(p) /\ ClaimsFrom(p, Billed(p)) /\ UNCHANGED closed
  BY <1>1, <1>2, ClaimKeeps DEF history
<1>3. CASE /\ Settled(p)
           /\ \/ UNCHANGED <<billed, closed>>
              \/ BilledBecomes(p, n) /\ closed' = closed \cup {s}
  <2>1. /\ pc' \in [Procs -> Pc] /\ claim' \in [Procs -> Claims] /\ OthersStay(p)
        /\ pc'[p] \in {"scan", "pop"}
    BY <1>1, <1>3, SettledMoves
  <2>2. /\ billed' \in [Users -> [Services -> 0..MaxAge]]
        /\ \A v \in Users, r \in Services \ closed' : billed'[v][r] = billed[v][r]
        /\ closed \subseteq closed' /\ closed' \subseteq Services
    <3>1. s \in Services /\ n \in 0..MaxAge
      BY <1>1, Numbers
    <3> QED BY <1>1, <1>3, <3>1, BilledType DEF TypeOK
  <2>3. TypeOK'
    BY <1>1, <2>1, <2>2 DEF TypeOK, world, scan
  <2>4. OpenStays /\ twice' \subseteq closed'
    BY <1>1, <2>2, Numbers DEF OpenStays, Accounts, world
  <2>5. pc[p] \notin Claiming /\ StandsAside(p)'
    BY <1>1, <2>1 DEF StandsAside, SettlesOwners, Settling, Claiming
  <2>6. AgesFit'
    BY <1>1, <2>1, <2>2, AgesKeep DEF Accounts, world, scan
  <2> QED BY <1>1, <2>1, <2>2, <2>3, <2>4, <2>5, <2>6, Quiet DEF IInv
<1> QED BY <1>2, <1>3 DEF Advance

\* A thread that goes on with its claim disturbs nothing, either.
LEMMA Continue ==
  ASSUME TypeOK, TypeOK', Accounts, NEW p \in Procs, OthersStay(p),
         pc[p] \in Claiming, pc'[p] \in Claiming,
         claim'[p].svc = claim[p].svc, claim'[p].uid = claim[p].uid,
         claim'[p].from = claim[p].from, claim'[p].seen = claim[p].seen,
         UNCHANGED <<world, owner, billed, listing, history>>
  PROVE  Accounts'
<1>1. /\ \A q \in Procs : pc'[q] \in Claiming <=> pc[q] \in Claiming
      /\ \A q \in Procs : pc'[q] \in Settling <=> pc[q] \in Settling
      /\ \A q \in Procs : pc'[q] = "list" <=> pc[q] = "list"
      /\ \A q \in Procs : /\ claim'[q].svc = claim[q].svc /\ claim'[q].uid = claim[q].uid
                          /\ claim'[q].from = claim[q].from /\ claim'[q].seen = claim[q].seen
  BY DEF OthersStay, Settling, Claiming
<1>2. AgesFit' /\ twice' \subseteq closed'
  BY <1>1, AgesKeep DEF Accounts, world, history, Claiming
<1>3. StepsFit'
  BY <1>1 DEF Accounts, StepsFit
<1>4. OwnersSettle'
  BY <1>1 DEF Accounts, OwnersSettle, SettlesOwners, world, history
<1>5. EntriesFit'
  BY DEF Accounts, EntriesFit, world, history
<1>6. Accounted'
  <2>1. \A q \in Procs, r \in Services, m \in 1..MaxAge : Takes(q, r, m)' <=> Takes(q, r, m)
    BY <1>1 DEF Takes, Units
  <2>2. \A r \in Services : Entry(r)' = Entry(r)
    BY DEF Entry
  <2> QED BY <2>1, <2>2 DEF Accounts, Accounted, history
<1>7. ClaimsApart'
  BY <1>1 DEF Accounts, ClaimsApart, Apart, history
<1> QED BY <1>2, <1>3, <1>4, <1>5, <1>6, <1>7 DEF Accounts

LEMMA PriceKeeps ==
  ASSUME IInv, NEW p \in Procs, Price(p)
  PROVE  IInv'
<1> DEFINE used == included[claim[p].uid]
           n == IF used >= Allowance THEN 0 ELSE Lesser(Delta(p), Allowance - used)
<1>1. /\ TypeOK /\ Accounts /\ pc[p] = "price" /\ Goto(p, "count")
      /\ claim' = [claim EXCEPT ![p].free = n]
      /\ UNCHANGED <<world, tracker, credits, scan, requests, history>>
  BY DEF IInv, Accounts, Price
<1>2. claim[p] \in Claims /\ pc \in [Procs -> Pc] /\ claim \in [Procs -> Claims]
  BY <1>1 DEF TypeOK
<1>3. n \in 0..MaxAge
  <2>1. claim[p].from < claim[p].seen
    BY <1>1 DEF Accounts, StepsFit, Claiming
  <2>2. Delta(p) \in 0..MaxAge /\ used \in Nat
    BY <1>1, <1>2, <2>1, BoundsAssumption DEF Delta, Claims, TypeOK
  <2> QED BY <2>2, BoundsAssumption DEF Lesser
<1> HIDE DEF n
<1>4. [claim[p] EXCEPT !.free = n] \in Claims
  BY <1>2, <1>3 DEF Claims
<1>5. claim' = [claim EXCEPT ![p] = [claim[p] EXCEPT !.free = n]]
  BY <1>1, <1>2
<1>6. /\ claim' \in [Procs -> Claims] /\ OthersStay(p) /\ pc' \in [Procs -> Pc]
      /\ claim'[p] = [claim[p] EXCEPT !.free = n] /\ pc'[p] = "count"
  BY <1>1, <1>2, <1>4, <1>5, ClaimType, MoveType DEF Pc, OthersStay
<1>7. TypeOK'
  BY <1>1, <1>6 DEF TypeOK, world, tracker, scan, history
<1>8. /\ claim'[p].svc = claim[p].svc /\ claim'[p].uid = claim[p].uid
      /\ claim'[p].from = claim[p].from /\ claim'[p].seen = claim[p].seen
  BY <1>2, <1>6 DEF Claims
<1>9. Accounts'
  BY <1>1, <1>6, <1>7, <1>8, Continue DEF Claiming, tracker, scan
<1> QED BY <1>7, <1>9 DEF IInv, Accounts

LEMMA CountKeeps ==
  ASSUME IInv, NEW p \in Procs, CountIncluded(p)
  PROVE  IInv'
<1>1. /\ TypeOK /\ Accounts /\ pc[p] = "count" /\ Goto(p, "debit")
      /\ included' = [included EXCEPT ![claim[p].uid] = @ + claim[p].free]
      /\ UNCHANGED <<world, owner, billed, credits, claim, scan, requests, history>>
  BY DEF IInv, Accounts, CountIncluded
<1>2. claim[p] \in Claims /\ pc \in [Procs -> Pc]
  BY <1>1 DEF TypeOK
<1>3. OthersStay(p) /\ pc' \in [Procs -> Pc] /\ pc'[p] = "debit"
  BY <1>1, <1>2, MoveType DEF Pc, OthersStay
<1>4. included' \in [Users -> Nat]
  BY <1>1, <1>2, BoundsAssumption DEF TypeOK, Claims
<1>5. TypeOK'
  BY <1>1, <1>3, <1>4 DEF TypeOK, world, scan, history
<1>6. Accounts'
  BY <1>1, <1>3, <1>5, Continue DEF Claiming, scan
<1> QED BY <1>5, <1>6 DEF IInv, Accounts

\* A claim ends: its units are charged or refused, and were charged never before.
LEMMA ClaimEnds ==
  ASSUME TypeOK, TypeOK', Accounts, NEW p \in Procs, OthersStay(p), pc[p] \in Claiming,
         pc'[p] \notin Settling \cup {"list"},
         UNCHANGED <<world, owner, billed, listing, closed>>, twice' \subseteq closed,
         \A r \in Services \ {claim[p].svc} :
           charged'[r] = charged[r] /\ refused'[r] = refused[r],
         charged'[claim[p].svc] \subseteq charged[claim[p].svc] \cup Units(p),
         charged'[claim[p].svc] \cup refused'[claim[p].svc] =
           charged[claim[p].svc] \cup refused[claim[p].svc] \cup Units(p)
  PROVE  Accounts'
<1> DEFINE s == claim[p].svc
<1>1. /\ \A q \in Procs \ {p} : pc'[q] = pc[q] /\ claim'[q] = claim[q]
      /\ pc'[p] \notin Claiming /\ pc'[p] \notin Settling /\ pc'[p] # "list"
  BY DEF OthersStay, Settling
<1>2. AgesFit'
  BY <1>1, AgesKeep DEF Accounts, world
<1>3. StepsFit'
  BY <1>1 DEF Accounts, StepsFit
<1>4. OwnersSettle'
  BY <1>1 DEF Accounts, OwnersSettle, SettlesOwners, world
<1>5. EntriesFit'
  BY DEF Accounts, EntriesFit, world
<1>6. Accounted'
  <2> SUFFICES ASSUME NEW r \in Services \ closed, NEW m \in 1..MaxAge
               PROVE  m <= Entry(r)' <=> \/ m \in charged'[r] \/ m \in refused'[r]
                                         \/ \E q \in Procs : Takes(q, r, m)'
    BY DEF Accounted
  <2>1. m <= Entry(r) <=> \/ m \in charged[r] \/ m \in refused[r]
                          \/ \E q \in Procs : Takes(q, r, m)
    BY DEF Accounts, Accounted
  <2>2. Entry(r)' = Entry(r)
    BY DEF Entry
  <2>3. \A q \in Procs \ {p} : Takes(q, r, m)' <=> Takes(q, r, m)
    BY <1>1 DEF Takes, Units
  <2>4. ~Takes(p, r, m)' /\ (Takes(p, r, m) <=> r = s /\ m \in Units(p))
    BY <1>1 DEF Takes
  <2>5. \/ m \in charged'[r] \/ m \in refused'[r]
        <=> \/ m \in charged[r] \/ m \in refused[r] \/ (r = s /\ m \in Units(p))
    BY <2>3
  <2> QED BY <2>1, <2>2, <2>3, <2>4, <2>5
<1>7. ClaimsApart'
  <2> SUFFICES ASSUME NEW q \in Procs, pc'[q] \in Claiming, claim'[q].svc \notin closed
               PROVE  Apart(q)'
    BY DEF ClaimsApart
  <2>1. /\ q # p /\ pc[q] \in Claiming /\ claim'[q] = claim[q] /\ claim[q].svc \notin closed
        /\ Apart(q)
    BY <1>1 DEF Accounts, ClaimsApart
  <2>2. \A m \in charged'[claim[q].svc] : m <= claim[q].from \/ m > claim[q].seen
    <3>1. CASE claim[q].svc # s
      BY <2>1, <3>1, Numbers DEF Apart
    <3>2. CASE claim[q].svc = s
      <4>1. claim[p].seen <= claim[q].from \/ claim[q].seen <= claim[p].from
        BY <2>1, <3>2 DEF Apart
      <4>2. \A m \in Units(p) : m <= claim[q].from \/ m > claim[q].seen
        BY <4>1, Numbers DEF Units
      <4> QED BY <2>1, <3>2, <4>2 DEF Apart
    <3> QED BY <3>1, <3>2
  <2> QED BY <1>1, <2>1, <2>2 DEF Apart
<1> QED BY <1>2, <1>3, <1>4, <1>5, <1>6, <1>7 DEF Accounts

LEMMA ChargeKeeps ==
  ASSUME IInv, NEW p \in Procs, pc[p] = "debit", Charge(p),
         Delta(p) - claim[p].free <= credits[claim[p].uid],
         UNCHANGED <<world, tracker, listing, todo, requests, closed>>
  PROVE  IInv'
<1> DEFINE s == claim[p].svc
           u == claim[p].uid
<1>1. /\ TypeOK /\ Accounts /\ Settled(p)
      /\ credits' = [credits EXCEPT ![u] = @ - (Delta(p) - claim[p].free)]
      /\ charged' = [charged EXCEPT ![s] = @ \cup Units(p)]
      /\ twice' = IF Units(p) \cap charged[s] = {} THEN twice ELSE twice \cup {s}
      /\ UNCHANGED <<broke, refused>>
  BY DEF IInv, Charge
<1>2. /\ s \in Services /\ u \in Users /\ claim[p].seen \in 0..MaxAge
      /\ claim[p].from \in 0..MaxAge /\ claim[p].free \in 0..MaxAge
  BY <1>1 DEF TypeOK, Claims
<1>3. /\ pc' \in [Procs -> Pc] /\ claim' \in [Procs -> Claims] /\ OthersStay(p)
      /\ pc'[p] \in {"scan", "pop"}
  BY <1>1, SettledMoves
<1>4. Units(p) \subseteq 1..MaxAge /\ \A m \in Units(p) : m > claim[p].from /\ m <= claim[p].seen
  BY <1>2, BoundsAssumption DEF Units
<1>5. /\ charged' \in [Services -> SUBSET (1..MaxAge)]
      /\ charged'[s] = charged[s] \cup Units(p)
      /\ \A r \in Services \ {s} : charged'[r] = charged[r]
  BY <1>1, <1>2, <1>4 DEF TypeOK
<1>6. TypeOK'
  <2>1. twice' \subseteq Services
    BY <1>1, <1>2 DEF TypeOK
  <2>2. credits' \in [Users -> Nat]
    <3>1. credits[u] - (Delta(p) - claim[p].free) \in Nat
      BY <1>1, <1>2, BoundsAssumption DEF TypeOK, Delta
    <3> QED BY <1>1, <1>2, <3>1 DEF TypeOK
  <2> QED BY <1>1, <1>3, <1>5, <2>1, <2>2 DEF TypeOK, world, tracker
<1>7. twice' \subseteq closed
  <2>1. CASE s \in closed
    BY <1>1, <2>1 DEF Accounts
  <2>2. CASE s \notin closed
    <3>1. Apart(p)
      BY <1>1, <2>2 DEF Accounts, ClaimsApart, Claiming
    <3>2. Units(p) \cap charged[s] = {}
      BY <1>1, <1>2, <1>4, <3>1, Numbers DEF Apart
    <3> QED BY <1>1, <3>2 DEF Accounts
  <2> QED BY <2>1, <2>2
<1>8. pc[p] \in Claiming /\ pc'[p] \notin Settling \cup {"list"}
  BY <1>3 DEF Settling, Claiming
<1>9. charged'[s] \cup refused'[s] = charged[s] \cup refused[s] \cup Units(p)
  BY <1>1, <1>5
<1>10. Accounts'
  BY <1>1, <1>3, <1>5, <1>6, <1>7, <1>8, <1>9, ClaimEnds DEF tracker
<1> QED BY <1>6, <1>10 DEF IInv

LEMMA DebitKeeps ==
  ASSUME IInv, NEW p \in Procs, Debit(p)
  PROVE  IInv'
<1> DEFINE s == claim[p].svc
<1>1. CASE Delta(p) - claim[p].free <= credits[claim[p].uid] /\ Charge(p)
  BY <1>1, ChargeKeeps DEF Debit
<1>2. CASE /\ broke' = IF claim[p].mode = "tick"
                         THEN [broke EXCEPT ![p] = @ \cup {claim[p].uid}] ELSE broke
           /\ refused' = [refused EXCEPT ![s] = @ \cup Units(p)]
           /\ Failed(p) /\ UNCHANGED <<credits, charged, twice>>
  <2>1. /\ TypeOK /\ Accounts /\ pc[p] = "debit"
        /\ UNCHANGED <<world, tracker, listing, todo, requests, closed>>
    BY <1>2 DEF IInv, Debit
  <2>2. /\ pc' \in [Procs -> Pc] /\ claim' \in [Procs -> Claims] /\ OthersStay(p)
        /\ pc'[p] \in {"scan", "idle", "stopping"}
    BY <1>2, <2>1, FailedMoves
  <2>3. broke' \in [Tickers -> SUBSET Users]
    <3>1. claim[p].uid \in Users /\ broke \in [Tickers -> SUBSET Users]
      BY <2>1, Numbers DEF TypeOK
    <3> QED BY <1>2, <3>1
  <2>4. Units(p) \subseteq 1..MaxAge
    BY <2>1, Numbers, BoundsAssumption DEF Units
  <2>5. /\ refused' \in [Services -> SUBSET (1..MaxAge)]
        /\ refused'[s] = refused[s] \cup Units(p)
        /\ \A r \in Services \ {s} : refused'[r] = refused[r]
    BY <1>2, <2>1, <2>4, Numbers DEF TypeOK
  <2>6. TypeOK'
    BY <1>2, <2>1, <2>2, <2>3, <2>5 DEF TypeOK, world, tracker
  <2>7. /\ pc[p] \in Claiming /\ pc'[p] \notin Settling \cup {"list"}
        /\ twice' \subseteq closed
    BY <1>2, <2>1, <2>2 DEF Settling, Claiming, Accounts
  <2>8. /\ charged'[s] \subseteq charged[s] \cup Units(p)
        /\ charged'[s] \cup refused'[s] = charged[s] \cup refused[s] \cup Units(p)
        /\ \A r \in Services \ {s} : charged'[r] = charged[r] /\ refused'[r] = refused[r]
    BY <1>2, <2>5
  <2>9. Accounts'
    BY <2>1, <2>2, <2>6, <2>7, <2>8, ClaimEnds DEF tracker
  <2> QED BY <2>6, <2>9 DEF IInv
<1> QED BY <1>1, <1>2 DEF Debit

-------------------------------------------------------------------------------
(* settle_tick *)

\* A thread moves between places at which it settles nothing.
LEMMA Elsewhere ==
  ASSUME TypeOK, TypeOK', Accounts, NEW p \in Procs, OthersStay(p),
         UNCHANGED <<world, owner, billed, history>>,
         pc[p] \notin Claiming, pc'[p] \notin Settling \cup {"list"},
         \A k \in Tickers, r \in Services :
           \/ listing'[k][r] = listing[k][r]
           \/ listing'[k][r].up => up[r] /\ listing'[k][r].age = age[r]
  PROVE  Accounts'
<1>1. AgesFit'
  BY AgesKeep DEF Accounts, world, history
<1>2. OpenStays /\ closed \subseteq closed' /\ twice' \subseteq closed'
  BY Numbers DEF OpenStays, Accounts, world, history
<1>3. StandsAside(p)'
  BY DEF StandsAside, SettlesOwners, Settling
<1> QED BY <1>1, <1>2, <1>3, Quiet

LEMMA ListKeeps ==
  ASSUME IInv, NEW k \in Tickers, ListContainers(k)
  PROVE  IInv'
<1> DEFINE l == [s \in Services |-> [up |-> up[s], age |-> age[s]]]
<1>1. /\ TypeOK /\ Accounts /\ k \in Procs /\ Goto(k, "scan") /\ pc \in [Procs -> Pc]
      /\ pc[k] = "idle" /\ listing' = [listing EXCEPT ![k] = l]
      /\ UNCHANGED <<world, tracker, credits, claim, requests, history>>
  BY Kinds DEF IInv, ListContainers, TypeOK
<1>2. l \in Listing /\ \A s \in Services : l[s].age = age[s] /\ (l[s].up <=> up[s])
  BY <1>1 DEF TypeOK, Listing
<1> HIDE DEF l
<1>3. /\ listing' \in [Tickers -> Listing] /\ listing'[k] = l
      /\ \A j \in Tickers \ {k} : listing'[j] = listing[j]
  BY <1>1, <1>2 DEF TypeOK
<1>4. OthersStay(k) /\ pc' \in [Procs -> Pc] /\ pc'[k] = "scan"
  BY <1>1, MoveType DEF Pc, OthersStay
<1>5. todo' \in [Tickers -> SUBSET Services] /\ broke' \in [Tickers -> SUBSET Users]
  BY <1>1 DEF TypeOK, ListContainers
<1>6. TypeOK'
  BY <1>1, <1>3, <1>4, <1>5 DEF TypeOK, world, tracker, history
<1>7. \A j \in Tickers, r \in Services :
        \/ listing'[j][r] = listing[j][r]
        \/ listing'[j][r].up => up[r] /\ listing'[j][r].age = age[r]
  BY <1>2, <1>3
<1>8. pc[k] \notin Claiming /\ pc'[k] \notin Settling \cup {"list"}
  BY <1>1, <1>4 DEF Settling, Claiming
<1>9. Accounts'
  BY <1>1, <1>4, <1>6, <1>7, <1>8, Elsewhere DEF tracker
<1> QED BY <1>6, <1>9 DEF IInv

\* What a tick settles is of a container that was listed as running.
LEMMA ScanKeeps ==
  ASSUME IInv, NEW k \in Tickers, NEW s \in Services, Scan(k, s)
  PROVE  IInv'
<1>1. /\ TypeOK /\ Accounts /\ k \in Procs /\ k # Api /\ pc[k] = "scan"
      /\ pc \in [Procs -> Pc] /\ claim \in [Procs -> Claims]
      /\ UNCHANGED <<world, included, credits, listing, broke, requests, charged, refused,
                     twice>>
  BY Kinds DEF IInv, Scan, TypeOK
<1>2. todo' \in [Tickers -> SUBSET Services]
  BY <1>1 DEF Scan, Scanned, TypeOK
<1>3. pc[k] \notin Claiming /\ \A r \in Services : ran[r] \in Nat
  BY <1>1, Numbers DEF Claiming
<1>4. CASE /\ owner[s] # Nobody /\ listing[k][s].up
           /\ Claim(k, s, owner[s], listing[k][s].age, "tick")
           /\ Goto(k, "advance") /\ UNCHANGED <<owner, billed, closed>>
  <2> DEFINE c == [svc |-> s, uid |-> owner[s], mode |-> "tick",
                   from |-> 0, seen |-> listing[k][s].age, free |-> 0]
  <2>1. c \in Claims
    BY <1>1, <1>4, BoundsAssumption DEF TypeOK, Listing, Claims, Modes
  <2>2. claim' = [claim EXCEPT ![k] = c]
    BY <1>4 DEF Claim
  <2>3. c.svc = s /\ c.uid = owner[s] /\ c.seen = listing[k][s].age
    OBVIOUS
  <2> HIDE DEF c
  <2>4. /\ claim' \in [Procs -> Claims] /\ claim'[k] = c /\ OthersStay(k)
        /\ pc' \in [Procs -> Pc] /\ pc'[k] = "advance"
    BY <1>1, <1>4, <2>1, <2>2, ClaimType, MoveType DEF Pc, OthersStay
  <2>5. TypeOK'
    BY <1>1, <1>2, <1>4, <2>4 DEF TypeOK, world
  <2>6. OpenStays /\ closed \subseteq closed' /\ twice' \subseteq closed'
    BY <1>1, <1>3, <1>4 DEF Accounts, OpenStays, world
  <2>7. AgesFit'
    BY <1>1, <1>4, <2>4, AgesKeep DEF Accounts, world
  <2>8. StandsAside(k)'
    BY <1>1, <1>4, <2>3, <2>4
       DEF StandsAside, SettlesOwners, AgesFit, Accounts, Claiming, world
  <2> QED BY <1>1, <1>3, <2>4, <2>5, <2>6, <2>7, <2>8, Quiet DEF IInv
<1>5. CASE /\ owner[s] # Nobody /\ owner' = [owner EXCEPT ![s] = Nobody]
           /\ billed' = [billed EXCEPT ![owner[s]][s] = 0]
           /\ closed' = closed \cup {s} /\ UNCHANGED <<pc, claim>>
  <2>1. /\ owner' \in [Services -> Users \cup {Nobody}]
        /\ \A r \in Services \ {s} : owner'[r] = owner[r]
    BY <1>1, <1>5 DEF TypeOK
  <2>2. /\ billed' \in [Users -> [Services -> 0..MaxAge]]
        /\ \A u \in Users, r \in Services \ {s} : billed'[u][r] = billed[u][r]
    <3>1. owner[s] \in Users /\ 0 \in 0..MaxAge
      BY <1>1, <1>5, BoundsAssumption DEF TypeOK
    <3> QED BY <1>1, <1>5, <3>1 DEF TypeOK
  <2>3. TypeOK'
    BY <1>1, <1>2, <1>5, <2>1, <2>2 DEF TypeOK, world
  <2>4. OpenStays /\ closed \subseteq closed' /\ twice' \subseteq closed' /\ OthersStay(k)
    BY <1>1, <1>3, <1>5, <2>1, <2>2 DEF Accounts, OpenStays, OthersStay, world
  <2>5. AgesFit'
    BY <1>1, <1>5, <2>4, AgesKeep DEF Accounts, world
  <2> QED BY <1>1, <1>5, <2>3, <2>4, <2>5, Quiet DEF IInv
<1>6. CASE UNCHANGED <<owner, billed, pc, claim, closed>>
  <2>1. TypeOK'
    BY <1>1, <1>2, <1>6 DEF TypeOK, world
  <2>2. OthersStay(k) /\ pc'[k] \notin Settling \cup {"list"}
    BY <1>1, <1>6 DEF OthersStay, Settling, Claiming
  <2>3. Accounts'
    BY <1>1, <1>3, <1>6, <2>1, <2>2, Elsewhere DEF history
  <2> QED BY <2>1, <2>3 DEF IInv
<1> QED BY <1>4, <1>5, <1>6 DEF Scan

LEMMA ScanEndsKeeps ==
  ASSUME IInv, NEW k \in Tickers, ScanEnds(k)
  PROVE  IInv'
<1>1. /\ TypeOK /\ Accounts /\ k \in Procs /\ pc \in [Procs -> Pc] /\ pc[k] = "scan"
      /\ \E l \in {"idle", "owned"} : Goto(k, l)
      /\ listing' = [listing EXCEPT ![k] = NoListing]
      /\ UNCHANGED <<world, tracker, credits, claim, todo, broke, requests, history>>
  BY Kinds DEF IInv, ScanEnds, TypeOK
<1>2. NoListing \in Listing /\ \A s \in Services : ~NoListing[s].up
  BY BoundsAssumption DEF NoListing, Listing
<1>3. /\ listing' \in [Tickers -> Listing] /\ listing'[k] = NoListing
      /\ \A j \in Tickers \ {k} : listing'[j] = listing[j]
  BY <1>1, <1>2 DEF TypeOK
<1>4. OthersStay(k) /\ pc' \in [Procs -> Pc] /\ pc'[k] \in {"idle", "owned"}
  BY <1>1, MoveType DEF Pc, OthersStay
<1>5. TypeOK'
  BY <1>1, <1>3, <1>4 DEF TypeOK, world, tracker, history
<1>6. \A j \in Tickers, r \in Services :
        listing'[j][r] = listing[j][r] \/ ~listing'[j][r].up
  BY <1>2, <1>3
<1>7. pc[k] \notin Claiming /\ pc'[k] \notin Settling \cup {"list"}
  BY <1>1, <1>4 DEF Settling, Claiming
<1>8. Accounts'
  BY <1>1, <1>4, <1>5, <1>6, <1>7, Elsewhere DEF tracker
<1> QED BY <1>5, <1>8 DEF IInv

LEMMA StopOptionalKeeps ==
  ASSUME IInv, NEW k \in Tickers, StopOptional(k)
  PROVE  IInv'
<1>1. /\ TypeOK /\ Accounts /\ k \in Procs /\ pc \in [Procs -> Pc] /\ pc[k] = "owned"
      /\ claim \in [Procs -> Claims] /\ Goto(k, "stopping")
      /\ UNCHANGED <<world, tracker, credits, listing, requests, history>>
  BY Kinds DEF IInv, StopOptional, TypeOK
<1>2. PICK u \in broke[k] :
        /\ claim' = [claim EXCEPT ![k].uid = u]
        /\ todo' = [todo EXCEPT ![k] = {s \in Services \ Core : owner[s] = u}]
        /\ broke' = [broke EXCEPT ![k] = @ \ {u}]
  BY DEF StopOptional
<1>3. /\ todo' \in [Tickers -> SUBSET Services] /\ broke' \in [Tickers -> SUBSET Users]
      /\ u \in Users
  BY <1>1, <1>2 DEF TypeOK
<1>4. [claim[k] EXCEPT !.uid = u] \in Claims
  BY <1>1, <1>3 DEF Claims
<1>5. claim' = [claim EXCEPT ![k] = [claim[k] EXCEPT !.uid = u]]
  BY <1>1, <1>2
<1>6. /\ OthersStay(k) /\ claim' \in [Procs -> Claims]
      /\ pc' \in [Procs -> Pc] /\ pc'[k] = "stopping"
  BY <1>1, <1>4, <1>5, ClaimType, MoveType DEF Pc, OthersStay
<1>7. TypeOK'
  BY <1>1, <1>3, <1>6 DEF TypeOK, world, tracker, history
<1>8. pc[k] \notin Claiming /\ pc'[k] \notin Settling \cup {"list"}
  BY <1>1, <1>6 DEF Settling, Claiming
<1>9. Accounts'
  BY <1>1, <1>6, <1>7, <1>8, Elsewhere DEF tracker
<1> QED BY <1>7, <1>9 DEF IInv

\* The claim of a stop, a restart or a start, before its uptime is read.
LEMMA OpenClaim ==
  ASSUME TypeOK, NEW p \in Procs, NEW s \in Services, NEW u \in Users, NEW m \in Modes,
         NEW l \in Pc, Claim(p, s, u, 0, m), Goto(p, l)
  PROVE  /\ claim' \in [Procs -> Claims] /\ OthersStay(p) /\ pc' \in [Procs -> Pc]
         /\ pc'[p] = l /\ claim'[p].svc = s /\ claim'[p].uid = u
<1> DEFINE c == [svc |-> s, uid |-> u, mode |-> m, from |-> 0, seen |-> 0, free |-> 0]
<1>1. c \in Claims /\ c.svc = s /\ c.uid = u
  BY BoundsAssumption DEF Claims
<1>2. claim' = [claim EXCEPT ![p] = c] /\ claim \in [Procs -> Claims] /\ pc \in [Procs -> Pc]
  BY DEF Claim, TypeOK
<1> HIDE DEF c
<1> QED BY <1>1, <1>2, ClaimType, MoveType DEF OthersStay

\* A final settlement begins: of a service that runs, for its owner, or of one that
\* is closed with that.
LEMMA StopBegins ==
  ASSUME TypeOK, TypeOK', Accounts, NEW p \in Procs, NEW s \in Services, NEW u \in Users,
         OthersStay(p), pc[p] \notin Claiming, pc'[p] = "list",
         claim'[p].svc = s, claim'[p].uid = u, ClosedUnless(s, up[s] /\ owner[s] = u),
         \A r \in Services : up'[r] => up[r],
         UNCHANGED <<age, ran, tracker, listing, charged, refused, twice>>
  PROVE  Accounts'
<1>1. /\ closed \subseteq closed' /\ twice' \subseteq closed'
      /\ s \notin closed' => up[s] /\ owner[s] = u
  BY DEF ClosedUnless, Accounts
<1>2. AgesFit'
  BY <1>1, AgesKeep DEF Accounts
<1>3. OpenStays
  BY Numbers DEF OpenStays, tracker
<1>4. StandsAside(p)'
  BY <1>1 DEF StandsAside, SettlesOwners, Settling, Claiming, tracker
<1> QED BY <1>1, <1>2, <1>3, <1>4, Quiet

LEMMA StopOneKeeps ==
  ASSUME IInv, NEW k \in Tickers, NEW s \in Services, StopOne(k, s)
  PROVE  IInv'
<1>1. /\ TypeOK /\ Accounts /\ k \in Procs /\ pc[k] = "stopping" /\ claim[k].uid \in Users
      /\ UNCHANGED <<word, age, ran, tracker, credits, listing, broke, requests, charged,
                     refused, twice>>
  BY Kinds, Numbers DEF IInv, StopOne
<1>2. todo' \in [Tickers -> SUBSET Services] /\ pc[k] \notin Claiming
  BY <1>1 DEF StopOne, Scanned, TypeOK, Claiming
<1>3. CASE /\ Stops(s) /\ Claim(k, s, claim[k].uid, 0, "stop")
           /\ ClosedUnless(s, owner[s] = claim[k].uid) /\ Goto(k, "list")
  <2>1. /\ claim' \in [Procs -> Claims] /\ OthersStay(k) /\ pc' \in [Procs -> Pc]
        /\ pc'[k] = "list" /\ claim'[k].svc = s /\ claim'[k].uid = claim[k].uid
    BY <1>1, <1>3, OpenClaim DEF Modes, Pc
  <2>2. /\ up' \in [Services -> BOOLEAN] /\ closed' \subseteq Services
        /\ up[s] /\ \A r \in Services : up'[r] => up[r]
    BY <1>1, <1>3 DEF TypeOK, Stops, ClosedUnless
  <2>3. TypeOK'
    BY <1>1, <1>2, <2>1, <2>2 DEF TypeOK, tracker
  <2>4. ClosedUnless(s, up[s] /\ owner[s] = claim[k].uid)
    BY <1>3, <2>2 DEF ClosedUnless
  <2>5. Accounts'
    BY <1>1, <1>2, <2>1, <2>2, <2>3, <2>4, StopBegins
  <2> QED BY <2>3, <2>5 DEF IInv
<1>4. CASE UNCHANGED <<up, claim, closed, pc>>
  <2>1. TypeOK'
    BY <1>1, <1>2, <1>4 DEF TypeOK, tracker
  <2>2. OthersStay(k) /\ pc'[k] \notin Settling \cup {"list"}
    BY <1>1, <1>4 DEF OthersStay, Settling, Claiming
  <2>3. Accounts'
    BY <1>1, <1>2, <1>4, <2>1, <2>2, Elsewhere DEF world, tracker, history
  <2> QED BY <2>1, <2>3 DEF IInv
<1> QED BY <1>3, <1>4 DEF StopOne

\* A call returns: the thread keeps no claim, or the user whose services it stops.
LEMMA Returns ==
  ASSUME TypeOK, NEW p \in Procs, NEW l \in Pc, Goto(p, l), Forget(p) \/ StillStopping(p)
  PROVE  /\ claim' \in [Procs -> Claims] /\ OthersStay(p)
         /\ pc' \in [Procs -> Pc] /\ pc'[p] = l
<1>1. pc \in [Procs -> Pc] /\ claim \in [Procs -> Claims]
  BY DEF TypeOK
<1>2. \E c \in Claims : claim' = [claim EXCEPT ![p] = c]
  <2>1. [NoClaim EXCEPT !.uid = claim[p].uid] \in Claims
    BY <1>1, NoClaimType DEF Claims
  <2> QED BY <2>1, NoClaimType DEF Forget, StillStopping
<1> QED BY <1>1, <1>2, MoveType, ClaimType DEF OthersStay

LEMMA StoppingEndsKeeps ==
  ASSUME IInv, NEW k \in Tickers, StoppingEnds(k)
  PROVE  IInv'
<1>1. /\ TypeOK /\ Accounts /\ k \in Procs /\ Forget(k) /\ pc[k] = "stopping"
      /\ \E l \in {"idle", "owned"} : Goto(k, l)
      /\ UNCHANGED <<world, tracker, credits, scan, requests, history>>
  BY Kinds DEF IInv, StoppingEnds
<1>2. /\ claim' \in [Procs -> Claims] /\ OthersStay(k)
      /\ pc' \in [Procs -> Pc] /\ pc'[k] \in {"idle", "owned"}
  BY <1>1, Returns DEF Pc
<1>3. TypeOK'
  BY <1>1, <1>2 DEF TypeOK, world, tracker, scan, history
<1>4. pc[k] \notin Claiming /\ pc'[k] \notin Settling \cup {"list"}
  BY <1>1, <1>2 DEF Settling, Claiming
<1>5. Accounts'
  BY <1>1, <1>2, <1>3, <1>4, Elsewhere DEF tracker, scan
<1> QED BY <1>3, <1>5 DEF IInv

-------------------------------------------------------------------------------
(* on_stop *)

\* The uptime read has been run, for the container ran on until it was read.
LEMMA ReadKeeps ==
  ASSUME IInv, NEW p \in Procs, ReadUptime(p)
  PROVE  IInv'
<1>1. /\ TypeOK /\ Accounts /\ pc[p] = "list" /\ Goto(p, "advance")
      /\ claim' = [claim EXCEPT ![p].seen = age[claim[p].svc]]
      /\ claim \in [Procs -> Claims] /\ pc \in [Procs -> Pc]
      /\ UNCHANGED <<world, tracker, credits, scan, requests, history>>
  BY DEF IInv, ReadUptime, TypeOK
<1> DEFINE c == [claim[p] EXCEPT !.seen = age[claim[p].svc]]
<1>2. /\ c \in Claims /\ c.svc = claim[p].svc /\ c.uid = claim[p].uid
      /\ c.seen = age[claim[p].svc]
  BY <1>1 DEF TypeOK, Claims
<1>3. claim' = [claim EXCEPT ![p] = c]
  BY <1>1
<1> HIDE DEF c
<1>4. /\ claim' \in [Procs -> Claims] /\ OthersStay(p) /\ claim'[p] = c
      /\ pc' \in [Procs -> Pc] /\ pc'[p] = "advance"
  BY <1>1, <1>2, <1>3, ClaimType, MoveType DEF Pc, OthersStay
<1>5. TypeOK'
  BY <1>1, <1>4 DEF TypeOK, world, tracker, scan, history
<1>6. OpenStays /\ closed \subseteq closed' /\ twice' \subseteq closed'
  BY <1>1, Numbers DEF OpenStays, Accounts, world, tracker, history
<1>7. AgesFit'
  BY <1>1, <1>4, AgesKeep DEF Accounts, world, scan, history
<1>8. pc[p] \notin Claiming /\ StandsAside(p)'
  <2>1. ASSUME claim[p].svc \notin closed
        PROVE  owner[claim[p].svc] = claim[p].uid /\ age[claim[p].svc] <= ran[claim[p].svc]
    <3>1. claim[p].svc \in Services /\ Counted(claim[p].svc)
      BY <1>1, Numbers DEF Counted
    <3> QED BY <1>1, <2>1, <3>1 DEF Accounts, AgesFit, OwnersSettle, SettlesOwners
  <2> QED
    BY <1>1, <1>2, <1>4, <2>1
       DEF StandsAside, SettlesOwners, Claiming, world, tracker, history
<1> QED BY <1>1, <1>4, <1>5, <1>6, <1>7, <1>8, Quiet DEF IInv

LEMMA PopKeeps ==
  ASSUME IInv, NEW p \in Procs, Pop(p)
  PROVE  IInv'
<1> DEFINE s == claim[p].svc
<1>1. /\ TypeOK /\ Accounts /\ pc[p] = "pop" /\ BilledBecomes(p, 0) /\ s \in Services
      /\ owner' = [owner EXCEPT ![s] = Nobody] /\ claim \in [Procs -> Claims]
      /\ closed' = closed \cup {s}
      /\ UNCHANGED <<world, included, credits, scan, requests, charged, refused, twice>>
  BY DEF IInv, Pop, TypeOK, Claims
<1>2. /\ claim' \in [Procs -> Claims] /\ OthersStay(p) /\ pc' \in [Procs -> Pc]
      /\ pc'[p] \in {"stopping", "idle", "start"}
  <2>1. CASE Goto(p, "stopping") /\ StillStopping(p)
    BY <1>1, <2>1, Returns DEF Pc
  <2>2. CASE Goto(p, "start") /\ UNCHANGED claim
    BY <1>1, <2>2, MoveType DEF Pc, OthersStay, TypeOK
  <2>3. CASE Goto(p, "idle") /\ Forget(p)
    BY <1>1, <2>3, Returns DEF Pc
  <2> QED BY <2>1, <2>2, <2>3 DEF Pop
<1>3. /\ owner' \in [Services -> Users \cup {Nobody}]
      /\ \A r \in Services \ {s} : owner'[r] = owner[r]
  BY <1>1 DEF TypeOK
<1>4. /\ billed' \in [Users -> [Services -> 0..MaxAge]]
      /\ \A v \in Users, r \in Services \ {s} : billed'[v][r] = billed[v][r]
  BY <1>1, BilledType, BoundsAssumption
<1>5. TypeOK'
  BY <1>1, <1>2, <1>3, <1>4 DEF TypeOK, world, scan
<1>6. OpenStays /\ closed \subseteq closed' /\ twice' \subseteq closed'
  BY <1>1, <1>3, <1>4, Numbers DEF OpenStays, Accounts, world
<1>7. AgesFit'
  BY <1>1, <1>2, <1>6, AgesKeep DEF Accounts, world, scan
<1>8. pc[p] \notin Claiming /\ StandsAside(p)'
  BY <1>1, <1>2 DEF StandsAside, SettlesOwners, Settling, Claiming
<1> QED BY <1>1, <1>2, <1>5, <1>6, <1>7, <1>8, Quiet DEF IInv

-------------------------------------------------------------------------------
(* The endpoints *)

LEMMA RequestKeeps ==
  ASSUME IInv, NEW s \in Services, NEW u \in Users,
         RequestStop(s, u) \/ RequestRestart(s, u) \/ RequestStart(s, u)
  PROVE  IInv'
<1>1. /\ TypeOK /\ Accounts /\ Api \in Procs /\ requests' \in 0..MaxRequests
      /\ pc[Api] \notin Claiming
      /\ UNCHANGED <<word, age, ran, tracker, credits, scan, charged, refused, twice>>
  BY Kinds, BoundsAssumption
     DEF IInv, TypeOK, Request, RequestStop, RequestRestart, RequestStart, world, history,
         Claiming
<1>2. CASE RequestStop(s, u)
  <2>1. /\ claim' \in [Procs -> Claims] /\ OthersStay(Api) /\ pc' \in [Procs -> Pc]
        /\ pc'[Api] = "list" /\ claim'[Api].svc = s /\ claim'[Api].uid = u
    BY <1>1, <1>2, OpenClaim DEF RequestStop, Modes, Pc
  <2>2. /\ up' \in [Services -> BOOLEAN] /\ closed' \subseteq Services
        /\ up[s] /\ \A r \in Services : up'[r] => up[r]
    BY <1>1, <1>2 DEF RequestStop, TypeOK, Stops, ClosedUnless
  <2>3. TypeOK'
    BY <1>1, <2>1, <2>2 DEF TypeOK, tracker, scan
  <2>4. ClosedUnless(s, up[s] /\ owner[s] = u)
    BY <1>2, <2>2 DEF RequestStop, ClosedUnless
  <2>5. Accounts'
    BY <1>1, <2>1, <2>2, <2>3, <2>4, StopBegins DEF scan
  <2> QED BY <2>3, <2>5 DEF IInv
<1>3. CASE RequestRestart(s, u)
  <2>1. /\ claim' \in [Procs -> Claims] /\ OthersStay(Api) /\ pc' \in [Procs -> Pc]
        /\ pc'[Api] = "list" /\ claim'[Api].svc = s /\ claim'[Api].uid = u
    BY <1>1, <1>3, OpenClaim DEF RequestRestart, Modes, Pc
  <2>2. /\ UNCHANGED world /\ closed' \subseteq Services
        /\ ClosedUnless(s, up[s] /\ owner[s] = u)
    BY <1>1, <1>3 DEF RequestRestart, ClosedUnless, TypeOK
  <2>3. TypeOK'
    BY <1>1, <2>1, <2>2 DEF TypeOK, world, tracker, scan
  <2>4. Accounts'
    BY <1>1, <2>1, <2>2, <2>3, StopBegins DEF world, scan
  <2> QED BY <2>3, <2>4 DEF IInv
<1>4. CASE RequestStart(s, u)
  <2>1. /\ claim' \in [Procs -> Claims] /\ OthersStay(Api) /\ pc' \in [Procs -> Pc]
        /\ pc'[Api] = "start"
    BY <1>1, <1>4, OpenClaim DEF RequestStart, Modes, Pc
  <2>2. UNCHANGED <<world, history>>
    BY <1>4 DEF RequestStart
  <2>3. TypeOK'
    BY <1>1, <2>1, <2>2 DEF TypeOK, world, tracker, scan, history
  <2>4. pc'[Api] \notin Settling \cup {"list"}
    BY <2>1 DEF Settling, Claiming
  <2>5. Accounts'
    BY <1>1, <2>1, <2>2, <2>3, <2>4, Elsewhere DEF tracker, scan
  <2> QED BY <2>3, <2>5 DEF IInv
<1> QED BY <1>2, <1>3, <1>4

\* A container that is started is one unit old.
LEMMA BeginsKeeps ==
  ASSUME TypeOK, Accounts, NEW p \in Procs, OthersStay(p),
         pc'[p] = "list" => pc[p] = "list" /\ claim'[p] = claim[p],
         NEW s \in Services, Begins(s), UNCHANGED <<owner, billed, listing, twice, closed>>
  PROVE  /\ up' \in [Services -> BOOLEAN] /\ age' \in [Services -> 0..MaxAge]
         /\ ran' \in [Services -> 0..MaxAge]
         /\ charged' \in [Services -> SUBSET (1..MaxAge)]
         /\ refused' \in [Services -> SUBSET (1..MaxAge)]
         /\ AgesFit' /\ OpenStays
<1>1. \A r \in Services : ran[r] \in Nat /\ age[r] \in Nat
  BY Numbers
<1>2. /\ up' \in [Services -> BOOLEAN] /\ age' \in [Services -> 0..MaxAge]
      /\ ran' \in [Services -> 0..MaxAge]
  BY <1>1, BoundsAssumption DEF TypeOK, Begins, Greater
<1>3. /\ charged' \in [Services -> SUBSET (1..MaxAge)]
      /\ refused' \in [Services -> SUBSET (1..MaxAge)]
      /\ \A r \in Services \ closed : charged'[r] = charged[r] /\ refused'[r] = refused[r]
  <2>1. CASE s \in closed
    BY <2>1 DEF TypeOK, Begins
  <2>2. CASE s \notin closed
    BY <2>2 DEF TypeOK, Begins
  <2> QED BY <2>1, <2>2
<1>4. /\ age'[s] = 1
      /\ s \notin closed => ran'[s] = Greater(ran[s], 1)
      /\ \A r \in Services \ {s} : up'[r] = up[r] /\ age'[r] = age[r] /\ ran'[r] = ran[r]
  BY DEF Begins, TypeOK
<1>5. \A r \in Services \ closed : ran[r] <= ran'[r] /\ (r = s => 1 <= ran'[r])
  BY <1>1, <1>4 DEF Greater
<1>6. AgesFit'
  <2> SUFFICES ASSUME NEW r \in Services \ closed
               PROVE  /\ Counted(r)' => age'[r] <= ran'[r]
                      /\ \A k \in Tickers : listing[k][r].up => listing[k][r].age <= ran'[r]
    BY DEF AgesFit
  <2>1. /\ Counted(r) => age[r] <= ran[r]
        /\ \A k \in Tickers : listing[k][r].up => listing[k][r].age <= ran[r]
    BY DEF Accounts, AgesFit
  <2>2. r # s /\ Counted(r)' => Counted(r)
    BY <1>4 DEF Counted, OthersStay
  <2>3. ran'[r] \in Nat /\ \A k \in Tickers : listing[k][r].age \in Nat
    BY <1>2, Numbers, BoundsAssumption
  <2> QED BY <1>1, <1>4, <1>5, <2>1, <2>2, <2>3
<1>7. OpenStays
  BY <1>3, <1>5 DEF OpenStays
<1> QED BY <1>2, <1>3, <1>6, <1>7

LEMMA StartKeeps ==
  ASSUME IInv, StartContainer
  PROVE  IInv'
<1> DEFINE s == claim[Api].svc
<1>1. /\ TypeOK /\ Accounts /\ Api \in Procs /\ pc[Api] = "start" /\ Goto(Api, "assign")
      /\ s \in Services /\ pc \in [Procs -> Pc]
      /\ UNCHANGED <<word, tracker, credits, claim, scan, requests, twice, closed>>
  BY Kinds, Numbers DEF IInv, StartContainer, TypeOK
<1>2. OthersStay(Api) /\ pc' \in [Procs -> Pc] /\ pc'[Api] = "assign"
  BY <1>1, MoveType DEF Pc, OthersStay
<1>3. /\ pc[Api] \notin Claiming /\ StandsAside(Api)'
      /\ pc'[Api] \notin Settling \cup {"list"}
  BY <1>1, <1>2 DEF StandsAside, SettlesOwners, Settling, Claiming
<1>4. CASE UNCHANGED <<up, age, ran, charged, refused>>
  <2>1. TypeOK'
    BY <1>1, <1>2, <1>4 DEF TypeOK, tracker, scan
  <2>2. Accounts'
    BY <1>1, <1>2, <1>3, <1>4, <2>1, Elsewhere DEF world, tracker, scan, history
  <2> QED BY <2>1, <2>2 DEF IInv
<1>5. CASE Begins(s)
  <2>1. /\ up' \in [Services -> BOOLEAN] /\ age' \in [Services -> 0..MaxAge]
        /\ ran' \in [Services -> 0..MaxAge]
        /\ charged' \in [Services -> SUBSET (1..MaxAge)]
        /\ refused' \in [Services -> SUBSET (1..MaxAge)]
        /\ AgesFit' /\ OpenStays
    BY <1>1, <1>2, <1>5, BeginsKeeps DEF tracker, scan
  <2>2. TypeOK'
    BY <1>1, <1>2, <2>1 DEF TypeOK, tracker, scan
  <2>3. closed \subseteq closed' /\ twice' \subseteq closed'
    BY <1>1 DEF Accounts
  <2> QED BY <1>1, <1>2, <1>3, <2>1, <2>2, <2>3, Quiet DEF IInv
<1> QED BY <1>4, <1>5 DEF StartContainer

LEMMA StartFailsKeeps ==
  ASSUME IInv, StartFails
  PROVE  IInv'
<1>1. /\ TypeOK /\ Accounts /\ Api \in Procs /\ Goto(Api, "idle") /\ Forget(Api)
      /\ pc[Api] = "start"
      /\ UNCHANGED <<world, tracker, credits, scan, requests, history>>
  BY Kinds DEF IInv, StartFails
<1>2. /\ claim' \in [Procs -> Claims] /\ OthersStay(Api)
      /\ pc' \in [Procs -> Pc] /\ pc'[Api] = "idle"
  BY <1>1, Returns DEF Pc
<1>3. TypeOK'
  BY <1>1, <1>2 DEF TypeOK, world, tracker, scan, history
<1>4. pc[Api] \notin Claiming /\ pc'[Api] \notin Settling \cup {"list"}
  BY <1>1, <1>2 DEF Settling, Claiming
<1>5. Accounts'
  BY <1>1, <1>2, <1>3, <1>4, Elsewhere DEF tracker, scan
<1> QED BY <1>3, <1>5 DEF IInv

LEMMA AssignKeeps ==
  ASSUME IInv, AssignOwner
  PROVE  IInv'
<1> DEFINE s == claim[Api].svc
<1>1. /\ TypeOK /\ Accounts /\ Api \in Procs /\ Goto(Api, "idle") /\ Forget(Api)
      /\ s \in Services /\ claim[Api].uid \in Users /\ pc[Api] = "assign"
      /\ owner' = [owner EXCEPT ![s] = claim[Api].uid]
      /\ closed' = IF owner[s] \in {Nobody, claim[Api].uid} THEN closed ELSE closed \cup {s}
      /\ UNCHANGED <<world, billed, included, credits, scan, requests, charged, refused, twice>>
  BY Kinds, Numbers DEF IInv, AssignOwner, ClosedUnless
<1>2. /\ claim' \in [Procs -> Claims] /\ OthersStay(Api)
      /\ pc' \in [Procs -> Pc] /\ pc'[Api] = "idle"
  BY <1>1, Returns DEF Pc
<1>3. /\ owner' \in [Services -> Users \cup {Nobody}] /\ owner'[s] = claim[Api].uid
      /\ \A r \in Services \ {s} : owner'[r] = owner[r]
  BY <1>1 DEF TypeOK
<1>4. closed \subseteq closed' /\ closed' \subseteq Services
  BY <1>1 DEF TypeOK
<1>5. TypeOK'
  BY <1>1, <1>2, <1>3, <1>4 DEF TypeOK, world, scan
<1>6. AgesFit' /\ twice' \subseteq closed'
  BY <1>1, <1>2, <1>4, AgesKeep DEF Accounts, world, scan
<1>7. OpenStays
  BY <1>1, <1>3, Numbers DEF OpenStays, world
<1>8. pc[Api] \notin Claiming /\ StandsAside(Api)'
  BY <1>1, <1>2 DEF StandsAside, SettlesOwners, Settling, Claiming
<1> QED BY <1>1, <1>2, <1>4, <1>5, <1>6, <1>7, <1>8, Quiet DEF IInv

-------------------------------------------------------------------------------
(* Time, the containers, the initial states and the theorems *)

\* A uptime grows, and what was run with it.
LEMMA ClockKeeps ==
  ASSUME IInv, Clock
  PROVE  IInv'
<1>1. /\ TypeOK /\ Accounts /\ Api \in Procs
      /\ age' = [r \in Services |-> IF age[r] = 0 THEN 0 ELSE age[r] + 1]
      /\ ran' = [r \in Services |-> IF Counted(r) THEN Greater(ran[r], age'[r]) ELSE ran[r]]
      /\ \A r \in Services : age[r] < MaxAge
      /\ UNCHANGED <<word, up, tracker, credits, pc, claim, scan, requests, history>>
  BY Kinds DEF IInv, Clock
<1>2. /\ \A r \in Services : age[r] \in Nat /\ ran[r] \in Nat
      /\ \A r \in Services, k \in Tickers : listing[k][r].age \in Nat
  BY <1>1, Numbers
<1>3. /\ age' \in [Services -> 0..MaxAge]
      /\ \A r \in Services : age'[r] \in Nat
      /\ \A r \in Services :
           ran'[r] = IF Counted(r) THEN Greater(ran[r], age'[r]) ELSE ran[r]
  BY <1>1, <1>2, BoundsAssumption
<1>4. ran' \in [Services -> 0..MaxAge]
  <2>1. \A r \in Services : ran[r] \in 0..MaxAge /\ age'[r] \in 0..MaxAge
    BY <1>1, <1>3 DEF TypeOK
  <2>2. \A r \in Services : Greater(ran[r], age'[r]) \in 0..MaxAge
    BY <2>1 DEF Greater
  <2> QED BY <1>1, <2>1, <2>2
<1>5. TypeOK'
  BY <1>1, <1>3, <1>4 DEF TypeOK, tracker, scan, history
<1>6. \A r \in Services : ran[r] <= ran'[r] /\ (Counted(r) => age'[r] <= ran'[r])
  BY <1>2, <1>3 DEF Greater
<1>7. \A r \in Services : ran'[r] \in Nat
  BY <1>4, BoundsAssumption
<1>8. AgesFit'
  <2> SUFFICES ASSUME NEW r \in Services \ closed
               PROVE  /\ Counted(r)' => age'[r] <= ran'[r]
                      /\ \A k \in Tickers : listing[k][r].up => listing[k][r].age <= ran'[r]
    BY <1>1 DEF AgesFit, scan, history
  <2>1. Counted(r)' => Counted(r)
    BY <1>1 DEF Counted
  <2> QED BY <1>1, <1>2, <1>6, <1>7, <2>1 DEF Accounts, AgesFit
<1>9. OpenStays /\ closed \subseteq closed' /\ twice' \subseteq closed' /\ OthersStay(Api)
  BY <1>1, <1>6 DEF OpenStays, OthersStay, Accounts, tracker, history
<1> QED BY <1>1, <1>5, <1>8, <1>9, Quiet DEF IInv

\* Containers come and go without the code.
LEMMA ExternalKeeps ==
  ASSUME IInv, NEW s \in Services, ExternalStart(s) \/ ExternalStop(s)
  PROVE  IInv'
<1>1. /\ TypeOK /\ Accounts /\ Api \in Procs
      /\ UNCHANGED <<word, tracker, credits, pc, claim, scan, requests, twice, closed>>
  BY Kinds DEF IInv, ExternalStart, ExternalStop, history
<1>2. OthersStay(Api) /\ closed \subseteq closed' /\ twice' \subseteq closed'
  BY <1>1 DEF OthersStay, Accounts
<1>3. CASE ExternalStart(s)
  <2>1. pc'[Api] = pc[Api] /\ claim'[Api] = claim[Api]
    BY <1>1
  <2>2. /\ up' \in [Services -> BOOLEAN] /\ age' \in [Services -> 0..MaxAge]
        /\ ran' \in [Services -> 0..MaxAge]
        /\ charged' \in [Services -> SUBSET (1..MaxAge)]
        /\ refused' \in [Services -> SUBSET (1..MaxAge)]
        /\ AgesFit' /\ OpenStays
    BY <1>1, <1>2, <1>3, <2>1, BeginsKeeps DEF ExternalStart, tracker, scan
  <2>3. TypeOK'
    BY <1>1, <2>2 DEF TypeOK, tracker, scan
  <2> QED BY <1>1, <1>2, <2>1, <2>2, <2>3, Quiet DEF IInv
<1>4. CASE ExternalStop(s)
  <2>1. /\ up' \in [Services -> BOOLEAN] /\ \A r \in Services : up'[r] => up[r]
        /\ UNCHANGED <<age, ran, history>>
    BY <1>1, <1>4 DEF ExternalStop, TypeOK
  <2>2. TypeOK'
    BY <1>1, <2>1 DEF TypeOK, tracker, scan, history
  <2>3. AgesFit'
    <3> SUFFICES ASSUME NEW r \in Services \ closed
                 PROVE  Counted(r)' => Counted(r)
      BY <1>1, <2>1 DEF Accounts, AgesFit, scan
    <3> QED BY <1>1, <2>1 DEF Counted
  <2>4. OpenStays
    BY <1>1, <2>1, Numbers DEF OpenStays, tracker, history
  <2> QED BY <1>1, <1>2, <2>2, <2>3, <2>4, Quiet DEF IInv
<1> QED BY <1>3, <1>4

LEMMA InitIInv == Init => IInv
<1> SUFFICES ASSUME Init PROVE IInv
  OBVIOUS
<1>1. /\ NoListing \in Listing
      /\ \A s \in Services, k \in Tickers : ~listing[k][s].up
  BY BoundsAssumption DEF NoListing, Listing, Init
<1>2. \A p \in Procs : pc[p] = "idle"
  BY DEF Init
<1>3. TypeOK
  BY <1>1, NoClaimType, BoundsAssumption DEF Init, TypeOK, Pc
<1>4. AgesFit
  <2>1. \A s \in Services : (Counted(s) <=> up[s]) /\ age[s] \in Nat
    BY <1>2, <1>3, Numbers DEF Counted
  <2>2. \A s \in Services : up[s] => ran[s] = age[s]
    BY DEF Init
  <2> QED BY <1>1, <2>1, <2>2 DEF AgesFit
<1>5. StepsFit /\ OwnersSettle /\ ClaimsApart
  BY <1>2 DEF StepsFit, OwnersSettle, SettlesOwners, ClaimsApart, Claiming, Settling
<1>6. EntriesFit /\ twice \subseteq closed
  BY <1>3, Numbers DEF Init, EntriesFit
<1>7. Accounted
  <2>1. \A s \in Services, p \in Procs, m \in 1..MaxAge : ~Takes(p, s, m)
    BY <1>2 DEF Takes, Claiming
  <2>2. \A s \in Services : Entry(s) = 0 /\ charged[s] = {} /\ refused[s] = {}
    BY DEF Entry, Init
  <2>3. \A m \in 1..MaxAge : ~(m <= 0)
    OBVIOUS
  <2> QED BY <2>1, <2>2, <2>3 DEF Accounted
<1> QED BY <1>3, <1>4, <1>5, <1>6, <1>7 DEF IInv, Accounts

LEMMA NextKeeps == IInv /\ [Next]_vars => IInv'
<1> SUFFICES ASSUME IInv, [Next]_vars PROVE IInv'
  OBVIOUS
<1>1. ASSUME NEW p \in Procs, Settle(p) PROVE IInv'
  BY <1>1, AdvanceKeeps, PriceKeeps, CountKeeps, DebitKeeps, ReadKeeps, PopKeeps DEF Settle
<1>2. ASSUME NEW k \in Tickers, Tick(k) PROVE IInv'
  BY <1>2, ListKeeps, ScanEndsKeeps, StopOptionalKeeps, StoppingEndsKeeps, ScanKeeps,
     StopOneKeeps DEF Tick
<1>3. ASSUME NEW s \in Services, NEW u \in Users,
             RequestStop(s, u) \/ RequestRestart(s, u) \/ RequestStart(s, u)
      PROVE  IInv'
  BY <1>3, RequestKeeps
<1>4. ASSUME NEW s \in Services, ExternalStart(s) \/ ExternalStop(s) PROVE IInv'
  BY <1>4, ExternalKeeps
<1>5. CASE UNCHANGED vars
  <2>1. TypeOK'
    BY <1>5 DEF vars, IInv, TypeOK, world, tracker, scan, history
  <2>2. /\ OpenStays /\ OthersStay(Api) /\ closed \subseteq closed' /\ twice' \subseteq closed'
        /\ pc'[Api] = pc[Api] /\ claim'[Api] = claim[Api]
    BY <1>5, Numbers
       DEF vars, IInv, Accounts, OpenStays, OthersStay, world, tracker, history
  <2>3. AgesFit'
    BY <1>5 DEF vars, IInv, Accounts, AgesFit, Counted, world, scan, history
  <2> QED BY <2>1, <2>2, <2>3, Kinds, Quiet DEF IInv
<1> QED
  BY <1>1, <1>2, <1>3, <1>4, <1>5, ClockKeeps, StartKeeps, StartFailsKeeps, AssignKeeps
     DEF Next

(* The inductive invariant of the metering holds in every reachable state, *)
(* from containers that run before anybody owns them.                      *)
THEOREM MeterInvariance == Spec => []IInv
BY InitIInv, NextKeeps, PTL DEF Spec

(* docker_meter.py keeps its tables within their types: no user's credits  *)
(* go below zero for a service, whatever the threads do.                   *)
THEOREM MeterTypeCorrect == Spec => []TypeOK
<1>1. IInv => TypeOK
  BY DEF IInv
<1> QED BY <1>1, MeterInvariance, PTL

\* What was charged of an open service lies below its owner's entry.
LEMMA ChargedBelow ==
  ASSUME IInv, NEW s \in Services \ closed
  PROVE  Entry(s) \in Nat /\ Entry(s) <= ran[s] /\ charged[s] \subseteq 1..Entry(s)
<1>1. /\ \A u \in Users : billed[u][s] <= ran[s] /\ billed[u][s] \in Nat
      /\ ran[s] \in Nat /\ owner[s] \in Users \cup {Nobody}
      /\ charged[s] \subseteq 1..MaxAge
  BY Numbers DEF IInv, Accounts, EntriesFit, TypeOK
<1>2. Entry(s) \in Nat /\ Entry(s) <= ran[s]
  BY <1>1 DEF Entry
<1>3. \A m \in charged[s] : m <= Entry(s)
  BY <1>1 DEF IInv, Accounts, Accounted
<1> QED BY <1>1, <1>2, <1>3, BoundsAssumption

(* settle_service: ticks that run side by side, and the stop by the owner  *)
(* or for the owner, charge no unit of a service twice, and none that it   *)
(* has not run, until its entry is removed or it passes to somebody else.  *)
THEOREM NeverChargedTwice == Spec => []ChargedOnce
<1>1. IInv => ChargedOnce
  <2> SUFFICES ASSUME IInv, NEW s \in Services \ closed
               PROVE  s \notin twice /\ charged[s] \subseteq 1..ran[s]
    BY DEF ChargedOnce
  <2>1. ran[s] \in Nat
    BY Numbers DEF IInv
  <2> QED BY <2>1, ChargedBelow DEF IInv, Accounts
<1> QED BY <1>1, MeterInvariance, PTL

(* settle_service moves the entry on before it charges: no unit below the  *)
(* billed uptime is lost, it was charged, was refused for want of credits  *)
(* or is being charged, however many threads settle the service.           *)
THEOREM NoUnitLost == Spec => []UnitsAccounted
<1>1. IInv => UnitsAccounted
  <2> SUFFICES ASSUME IInv, NEW s \in Services \ closed, owner[s] # Nobody
               PROVE  1..billed[owner[s]][s] = charged[s] \cup refused[s] \cup InFlight(s)
    BY DEF UnitsAccounted
  <2>1. /\ owner[s] \in Users /\ billed[owner[s]][s] \in 0..MaxAge
        /\ Entry(s) = billed[owner[s]][s]
        /\ charged[s] \subseteq 1..MaxAge /\ refused[s] \subseteq 1..MaxAge
    BY DEF IInv, TypeOK, Entry
  <2>2. \A m : m \in InFlight(s) <=> \E p \in Procs : Takes(p, s, m)
    BY DEF InFlight, Takes, Claiming
  <2>3. \A p \in Procs : Units(p) \subseteq 1..MaxAge
    BY Numbers, BoundsAssumption DEF IInv, Units
  <2>4. InFlight(s) \subseteq 1..MaxAge
    BY <2>2, <2>3 DEF Takes
  <2>5. 1..billed[owner[s]][s] \subseteq 1..MaxAge
    BY <2>1, BoundsAssumption
  <2>6. ASSUME NEW m \in 1..MaxAge
        PROVE  m \in 1..billed[owner[s]][s] <=>
                 m \in charged[s] \/ m \in refused[s] \/ m \in InFlight(s)
    <3>1. m <= Entry(s) <=> m \in charged[s] \/ m \in refused[s] \/ m \in InFlight(s)
      BY <2>2 DEF IInv, Accounts, Accounted
    <3>2. m \in 1..billed[owner[s]][s] <=> m <= billed[owner[s]][s]
      BY <2>1, BoundsAssumption
    <3> QED BY <2>1, <3>1, <3>2
  <2> QED BY <2>1, <2>4, <2>5, <2>6
<1> QED BY <1>1, MeterInvariance, PTL

(* docker_meter.py, no debit or settlement is lost to another thread: two  *)
(* claims of one open service in flight at the same time never share a     *)
(* unit, a tick's and a stop's included, nor one that was charged.         *)
THEOREM ClaimsNeverMeet == Spec => []ClaimsApart
<1>1. IInv => ClaimsApart
  BY DEF IInv, Accounts
<1> QED BY <1>1, MeterInvariance, PTL

-------------------------------------------------------------------------------
(* Included units *)

\* The included units a thread has granted to a user and not yet counted.
Granting(p, u) == IF pc[p] = "count" /\ claim[p].uid = u THEN claim[p].free ELSE 0
Granted(u) == SumOf([p \in Procs |-> Granting(p, u)], Procs)

FreeFits == \A p \in Procs : pc[p] = "count" => claim[p].free <= Allowance

\* One allowance for each thread that may price at the same time.
Limit == Cardinality(Procs) * Allowance
GrantsFit == \A u \in Users : included[u] + Granted(u) <= Limit

LEMMA ProcsFinite == IsFiniteSet(Procs)
BY TickersFinite, FS_AddElement DEF Procs

LEMMA LimitType == Limit \in Nat /\ Cardinality(Procs) \in Nat \ {0}
<1>1. Cardinality(Procs) \in Nat /\ Cardinality(Procs) # 0
  BY ProcsFinite, Kinds, FS_CardinalityType, FS_EmptySet
<1>2. \A m \in Nat, n \in Nat : m * n \in Nat
  OBVIOUS
<1> QED BY <1>1, <1>2, BoundsAssumption DEF Limit

LEMMA GrantingType ==
  ASSUME TypeOK, NEW u
  PROVE  /\ \A p \in Procs : Granting(p, u) \in Nat
         /\ Granted(u) \in Nat
<1> DEFINE f == [p \in Procs |-> Granting(p, u)]
<1>1. \A p \in Procs : f[p] \in Nat
  BY BoundsAssumption DEF TypeOK, Claims, Granting
<1>2. Granted(u) = SumOf(f, Procs)
  BY DEF Granted
<1>3. \A p \in Procs : Granting(p, u) \in Nat
  BY <1>1
<1> HIDE DEF f
<1>4. SumOf(f, Procs) \in Nat
  BY <1>1, ProcsFinite, SumOfNat
<1> QED BY <1>2, <1>3, <1>4

\* What moves between the two sides when one thread moves.
LEMMA GrantMoves ==
  ASSUME TypeOK, TypeOK', NEW p \in Procs, OthersStay(p), NEW u
  PROVE  Granted(u)' = Granted(u) - Granting(p, u) + Granting(p, u)'
<1> DEFINE f == [q \in Procs |-> Granting(q, u)]
           g == [q \in Procs |-> Granting(q, u)']
<1>1. \A q \in Procs : f[q] \in Int
  BY GrantingType
<1>2. \A q \in Procs : g[q] \in Int
  BY BoundsAssumption DEF TypeOK, Claims, Granting
<1>3. \A q \in Procs \ {p} : g[q] = f[q]
  BY DEF OthersStay, Granting
<1>4. /\ Granted(u) = SumOf(f, Procs) /\ Granted(u)' = SumOf(g, Procs)
      /\ f[p] = Granting(p, u) /\ g[p] = Granting(p, u)'
  BY DEF Granted
<1> HIDE DEF f, g
<1>5. SumOf(g, Procs) = SumOf(f, Procs) - f[p] + g[p]
  <2>1. \A q \in Procs : f[q] \in Int /\ g[q] \in Int
    BY <1>1, <1>2
  <2> QED BY <1>3, <2>1, ProcsFinite, SumOfChange
<1> QED BY <1>4, <1>5

\* A step of a thread that neither grants nor counts.
LEMMA NoGrant ==
  ASSUME TypeOK, TypeOK', FreeFits, GrantsFit, UNCHANGED included,
         NEW p \in Procs, OthersStay(p), pc[p] # "count", pc'[p] # "count"
  PROVE  FreeFits' /\ GrantsFit'
<1>1. FreeFits'
  BY DEF FreeFits, OthersStay
<1>2. ASSUME NEW u \in Users PROVE Granted(u)' = Granted(u)
  <2>1. Granting(p, u) = 0 /\ Granting(p, u)' = 0
    BY DEF Granting
  <2>2. Granted(u) \in Nat
    BY GrantingType
  <2> QED BY <2>1, <2>2, GrantMoves
<1> QED BY <1>1, <1>2 DEF GrantsFit, Limit

\* _included_used reads the month's units: what the reader grants fits beside
\* them, and what the others have granted meanwhile is one allowance each.
LEMMA PriceGrants ==
  ASSUME TypeOK, TypeOK', FreeFits, GrantsFit, NEW p \in Procs, Price(p)
  PROVE  FreeFits' /\ GrantsFit'
<1> DEFINE used == included[claim[p].uid]
           n == IF used >= Allowance THEN 0 ELSE Lesser(Delta(p), Allowance - used)
<1>1. /\ pc[p] = "price" /\ Goto(p, "count") /\ included' = included
      /\ claim' = [claim EXCEPT ![p].free = n]
  BY DEF Price, tracker
<1>2. /\ claim[p] \in Claims /\ pc \in [Procs -> Pc] /\ claim \in [Procs -> Claims]
      /\ claim[p].uid \in Users /\ included \in [Users -> Nat] /\ used \in Nat
      /\ Delta(p) \in Int
  BY BoundsAssumption DEF TypeOK, Claims, Delta
<1>3. /\ n \in Int /\ n <= Allowance
      /\ used >= Allowance => n = 0
      /\ used < Allowance => used + n <= Allowance
  BY <1>2, BoundsAssumption DEF Lesser
<1> HIDE DEF n
<1>4. /\ OthersStay(p) /\ pc'[p] = "count" /\ claim'[p].free = n
      /\ claim'[p].uid = claim[p].uid
  BY <1>1, <1>2 DEF OthersStay, Goto, Claims
<1>5. FreeFits'
  BY <1>3, <1>4 DEF FreeFits, OthersStay
<1>6. ASSUME NEW u \in Users PROVE included'[u] + Granted(u)' <= Limit
  <2>1. Granting(p, u) = 0 /\ Granting(p, u)' = IF claim[p].uid = u THEN n ELSE 0
    BY <1>1, <1>4 DEF Granting
  <2>2. Granted(u) \in Nat /\ Granted(u)' = Granted(u) + Granting(p, u)'
    BY <1>3, <1>4, <2>1, GrantingType, GrantMoves
  <2>3. included[u] + Granted(u) <= Limit /\ included[u] \in Nat /\ included'[u] = included[u]
    BY <1>1, <1>2 DEF GrantsFit
  <2>4. CASE claim[p].uid # u \/ used >= Allowance
    <3>1. Granted(u)' = Granted(u)
      BY <1>3, <2>1, <2>2, <2>4
    <3> QED BY <2>3, <3>1
  <2>5. CASE claim[p].uid = u /\ used < Allowance
    <3> DEFINE g == [q \in Procs |-> Granting(q, u)']
    <3>1. \A q \in Procs : g[q] \in Int
      BY BoundsAssumption DEF TypeOK, Claims, Granting
    <3>2. \A q \in Procs : g[q] <= Allowance
      BY <1>5, BoundsAssumption DEF FreeFits, Granting
    <3>3. Granted(u)' = SumOf(g, Procs) /\ g[p] = n
      BY <2>1, <2>5 DEF Granted
    <3>4. IsFiniteSet(Procs \ {p}) /\ Cardinality(Procs \ {p}) = Cardinality(Procs) - 1
      BY ProcsFinite, FS_RemoveElement
    <3> HIDE DEF g
    <3>5. SumOf(g, Procs) = g[p] + SumOf(g, Procs \ {p})
      BY <3>1, ProcsFinite, SumOfRemove
    <3>6. SumOf(g, Procs \ {p}) <= Cardinality(Procs \ {p}) * Allowance
      <4>1. \A q \in Procs \ {p} : g[q] \in Int /\ g[q] <= Allowance
        BY <3>1, <3>2
      <4>2. Allowance \in Int
        BY BoundsAssumption
      <4>3. IsFiniteSet(Procs \ {p})
        BY <3>4
      <4> QED BY ONLY <4>1, <4>2, <4>3, SumOfBound
    <3>7. SumOf(g, Procs \ {p}) \in Int
      BY <3>1, <3>4, SumOfType
    <3>8. /\ (Cardinality(Procs) - 1) * Allowance = Limit - Allowance
          /\ Limit \in Int /\ Allowance \in Nat
      BY LimitType, BoundsAssumption DEF Limit
    <3>9. SumOf(g, Procs \ {p}) <= Limit - Allowance
      BY <3>4, <3>6, <3>8
    <3>10. used + n <= Allowance /\ included[u] = used /\ n \in Int /\ used \in Nat
      BY <1>2, <1>3, <2>5
    <3> QED BY <2>3, <3>3, <3>5, <3>7, <3>8, <3>9, <3>10
  <2> QED BY <1>2, <2>4, <2>5, BoundsAssumption
<1> QED BY <1>5, <1>6 DEF GrantsFit, Limit

\* _add_included_used counts what was granted.
LEMMA CountGrants ==
  ASSUME TypeOK, TypeOK', FreeFits, GrantsFit, NEW p \in Procs, CountIncluded(p)
  PROVE  FreeFits' /\ GrantsFit'
<1>1. /\ pc[p] = "count" /\ Goto(p, "debit") /\ claim' = claim
      /\ included' = [included EXCEPT ![claim[p].uid] = @ + claim[p].free]
  BY DEF CountIncluded
<1>2. /\ pc \in [Procs -> Pc] /\ included \in [Users -> Nat]
      /\ claim[p].uid \in Users /\ claim[p].free \in Nat
  BY BoundsAssumption DEF TypeOK, Claims
<1>3. OthersStay(p) /\ pc'[p] = "debit"
  BY <1>1, <1>2 DEF OthersStay, Goto
<1>4. FreeFits'
  BY <1>1, <1>3 DEF FreeFits, OthersStay
<1>5. ASSUME NEW u \in Users PROVE included'[u] + Granted(u)' <= Limit
  <2>1. /\ Granting(p, u) = IF claim[p].uid = u THEN claim[p].free ELSE 0
        /\ Granting(p, u)' = 0
    BY <1>1, <1>3 DEF Granting
  <2>2. Granted(u) \in Nat /\ Granted(u)' = Granted(u) - Granting(p, u)
    BY <1>2, <1>3, <2>1, GrantingType, GrantMoves
  <2>3. included'[u] = included[u] + Granting(p, u)
    BY <1>1, <1>2, <2>1
  <2>4. included[u] + Granted(u) <= Limit /\ included[u] \in Nat
    BY <1>2 DEF GrantsFit
  <2> QED BY <1>2, <2>1, <2>2, <2>3, <2>4
<1> QED BY <1>4, <1>5 DEF GrantsFit, Limit

LEMMA GrantsStep ==
  ASSUME IInv, FreeFits, GrantsFit, [Next]_vars
  PROVE  FreeFits' /\ GrantsFit'
<1>0. TypeOK /\ TypeOK' /\ pc \in [Procs -> Pc] /\ claim \in [Procs -> Claims]
  BY NextKeeps DEF IInv, TypeOK
<1>1. ASSUME NEW p \in Procs, Settle(p) PROVE FreeFits' /\ GrantsFit'
  <2>1. CASE Price(p)
    BY <1>0, <2>1, PriceGrants
  <2>2. CASE CountIncluded(p)
    BY <1>0, <2>2, CountGrants
  <2>3. CASE Advance(p)
    <3>1. pc[p] = "advance" /\ included' = included
      BY <2>3 DEF Advance
    <3>2. OthersStay(p) /\ pc'[p] # "count"
      <4>1. CASE Settled(p)
        BY <1>0, <4>1, SettledMoves
      <4>2. CASE \E n : ClaimsFrom(p, n)
        BY <1>0, <4>2 DEF ClaimsFrom, Goto, OthersStay
      <4> QED BY <2>3, <4>1, <4>2 DEF Advance
    <3> QED BY <1>0, <3>1, <3>2, NoGrant
  <2>4. CASE Debit(p)
    <3>1. pc[p] = "debit" /\ included' = included
      BY <2>4 DEF Debit, tracker
    <3>2. OthersStay(p) /\ pc'[p] # "count"
      BY <1>0, <2>4, SettledMoves, FailedMoves DEF Debit, Charge
    <3> QED BY <1>0, <3>1, <3>2, NoGrant
  <2>5. CASE ReadUptime(p)
    <3>1. pc[p] = "list" /\ pc'[p] = "advance" /\ included' = included /\ OthersStay(p)
      BY <1>0, <2>5 DEF ReadUptime, Goto, OthersStay, tracker
    <3> QED BY <1>0, <3>1, NoGrant
  <2>6. CASE Pop(p)
    <3>1. /\ pc[p] = "pop" /\ pc'[p] \in {"stopping", "start", "idle"} /\ included' = included
          /\ OthersStay(p)
      BY <1>0, <2>6 DEF Pop, Goto, StillStopping, Forget, OthersStay
    <3> QED BY <1>0, <3>1, NoGrant
  <2> QED BY <1>1, <2>1, <2>2, <2>3, <2>4, <2>5, <2>6 DEF Settle
<1>2. ASSUME NEW k \in Tickers, Tick(k) PROVE FreeFits' /\ GrantsFit'
  <2>0. k \in Procs
    BY Kinds
  <2>1. included' = included
    BY <1>2 DEF Tick, ListContainers, ScanEnds, StopOptional, StoppingEnds, Scan, StopOne, tracker
  <2>2. pc[k] # "count" /\ pc'[k] # "count" /\ OthersStay(k)
    <3>1. CASE ListContainers(k) \/ ScanEnds(k)
      BY <1>0, <2>0, <3>1 DEF ListContainers, ScanEnds, Goto, OthersStay
    <3>2. CASE StopOptional(k) \/ StoppingEnds(k)
      BY <1>0, <2>0, <3>2 DEF StopOptional, StoppingEnds, Goto, Forget, OthersStay
    <3>3. ASSUME NEW s \in Services, Scan(k, s)
          PROVE  pc[k] # "count" /\ pc'[k] # "count" /\ OthersStay(k)
      BY <1>0, <2>0, <3>3 DEF Scan, Claim, Goto, OthersStay
    <3>4. ASSUME NEW s \in Services, StopOne(k, s)
          PROVE  pc[k] # "count" /\ pc'[k] # "count" /\ OthersStay(k)
      BY <1>0, <2>0, <3>4 DEF StopOne, Claim, Goto, OthersStay
    <3> QED BY <1>2, <3>1, <3>2, <3>3, <3>4 DEF Tick
  <2> QED BY <1>0, <2>0, <2>1, <2>2, NoGrant
<1>3. ASSUME \/ \E s \in Services, u \in Users :
                  RequestStop(s, u) \/ RequestRestart(s, u) \/ RequestStart(s, u)
             \/ StartContainer \/ StartFails \/ AssignOwner
      PROVE  FreeFits' /\ GrantsFit'
  <2>0. Api \in Procs
    BY Kinds
  <2>1. included' = included
    BY <1>3 DEF RequestStop, RequestRestart, RequestStart, StartContainer, StartFails,
                AssignOwner, tracker
  <2>2. pc[Api] # "count" /\ pc'[Api] # "count" /\ OthersStay(Api)
    BY <1>0, <1>3, <2>0
       DEF RequestStop, RequestRestart, RequestStart, Request, StartContainer, StartFails,
           AssignOwner, Claim, Forget, Goto, OthersStay
  <2> QED BY <1>0, <2>0, <2>1, <2>2, NoGrant
<1>4. CASE \/ Clock \/ UNCHANGED vars
           \/ \E s \in Services : ExternalStart(s) \/ ExternalStop(s)
  <2>1. UNCHANGED <<pc, claim, included>>
    BY <1>4 DEF Clock, ExternalStart, ExternalStop, vars, tracker
  <2>2. \A u : Granted(u)' = Granted(u)
    BY <2>1 DEF Granted, Granting
  <2> QED BY <2>1, <2>2 DEF FreeFits, GrantsFit, Limit
<1> QED BY <1>1, <1>2, <1>3, <1>4 DEF Next

LEMMA InitGrants == Init => FreeFits /\ GrantsFit
<1> SUFFICES ASSUME Init PROVE FreeFits /\ GrantsFit
  OBVIOUS
<1>1. \A p \in Procs : pc[p] = "idle"
  BY DEF Init
<1>2. ASSUME NEW u \in Users PROVE included[u] + Granted(u) <= Limit
  <2> DEFINE f == [p \in Procs |-> Granting(p, u)]
  <2>1. \A p \in Procs : f[p] = 0
    BY <1>1 DEF Granting
  <2>2. Granted(u) = SumOf(f, Procs)
    BY DEF Granted
  <2> HIDE DEF f
  <2>3. Granted(u) = 0
    BY <2>1, <2>2, ProcsFinite, SumOfZeros
  <2> QED BY <2>3, LimitType DEF Init
<1> QED BY <1>1, <1>2 DEF FreeFits, GrantsFit

\* The included units counted for a user in a month.
IncludedBounded == \A u \in Users : included[u] <= Cardinality(Procs) * Allowance

(* split_docker_runtime, between _included_used and _add_included_used:    *)
(* threads that price at the same time each grant what is left of the      *)
(* month's allowance, so a user gets at most one allowance for each thread *)
(* for nothing, for however long the service runs.                         *)
THEOREM IncludedStaysBounded == Spec => []IncludedBounded
<1>1. IInv /\ GrantsFit => IncludedBounded
  <2> SUFFICES ASSUME IInv, GrantsFit, NEW u \in Users PROVE included[u] <= Limit
    BY DEF IncludedBounded, Limit
  <2>1. Granted(u) \in Nat /\ included[u] \in Nat /\ included[u] + Granted(u) <= Limit
    BY GrantingType DEF IInv, TypeOK, GrantsFit
  <2> QED BY <2>1, LimitType
<1>2. IInv /\ FreeFits /\ GrantsFit /\ [Next]_vars => (FreeFits /\ GrantsFit)'
  BY GrantsStep
<1> QED BY <1>1, <1>2, InitGrants, MeterInvariance, PTL DEF Spec
===============================================================================
