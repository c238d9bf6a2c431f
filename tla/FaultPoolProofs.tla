--------------------------- MODULE FaultPoolProofs ---------------------------
(***************************************************************************)
(* Proofs about FaultPool: its types, that a single thread never overdraws *)
(* the pool, and how far threads that race overdraw it.                    *)
(***************************************************************************)
EXTENDS FaultPool, SumTheorems

(* A disbursement on its way never gives anything back to the pool that is  *)
(* not a shortfall, and takes something once it debits.                     *)
PInv ==
    /\ fault \in Int
    /\ draw \in [Workers -> Draw]
    /\ \A w \in Workers : draw[w].at \in {"quoted", "debiting"} => draw[w].take > 0

LEMMA RemainderType ==
    ASSUME NEW d \in Draw
    PROVE  Remainder(d) \in Draw /\ Remainder(d).at \in {"idle", "short"}
  <1>1. NoDraw \in Draw /\ NoDraw.at = "idle"
    BY DEF NoDraw, Draw
  <1>2. /\ [at |-> "short", take |-> 0, short |-> d.short] \in Draw
        /\ [at |-> "short", take |-> 0, short |-> d.short].at = "short"
    BY DEF Draw
  <1> QED
    BY <1>1, <1>2 DEF Remainder

LEMMA QuoteStep ==
    ASSUME PInv, NEW w \in Workers, NEW r \in Rewards, Quote(w, r)
    PROVE  PInv'
  <1> DEFINE share == Lesser(r, fault)
             d == [at |-> IF share > 0 THEN "quoted" ELSE "short",
                   take |-> IF share > 0 THEN share ELSE 0,
                   short |-> Shortfall(r, share)]
  <1>1. r \in Nat /\ fault \in Int
    BY RewardsAssumption DEF PInv
  <1>2. share \in Int /\ share <= r
    BY <1>1 DEF Lesser
  <1>3. d \in Draw /\ (d.at = "quoted" => d.take > 0) /\ d.at # "debiting"
    BY <1>1, <1>2 DEF Draw, Shortfall
  <1>4. draw' = [draw EXCEPT ![w] = d] /\ UNCHANGED fault
    BY DEF Quote
  <1> HIDE DEF d
  <1> QED
    BY <1>3, <1>4 DEF PInv

LEMMA ReadStep ==
    ASSUME PInv, NEW w \in Workers, ReadForDebit(w)
    PROVE  PInv'
  <1> DEFINE disbursed == Lesser(draw[w].take, fault)
             d == IF disbursed > 0 THEN [draw[w] EXCEPT !.at = "debiting", !.take = disbursed]
                                   ELSE Remainder(draw[w])
  <1>1. draw[w] \in Draw /\ draw[w].take \in Int /\ fault \in Int
    BY DEF PInv, Draw
  <1>2. disbursed \in Int
    BY <1>1 DEF Lesser
  <1>3. d \in Draw /\ (d.at \in {"quoted", "debiting"} => d.take > 0)
    <2>1. CASE disbursed > 0
      <3>1. [draw[w] EXCEPT !.at = "debiting", !.take = disbursed] \in Draw
        BY <1>1, <1>2 DEF Draw
      <3>2. [draw[w] EXCEPT !.at = "debiting", !.take = disbursed].take = disbursed
        BY <1>1 DEF Draw
      <3> QED
        BY <2>1, <3>1, <3>2
    <2>2. CASE ~(disbursed > 0)
      BY <1>1, <2>2, RemainderType
    <2> QED
      BY <2>1, <2>2
  <1>4. draw' = [draw EXCEPT ![w] = d] /\ UNCHANGED fault
    BY DEF ReadForDebit
  <1> HIDE DEF d
  <1> QED
    BY <1>3, <1>4 DEF PInv

LEMMA PostSteps ==
    ASSUME PInv, NEW w \in Workers, PostDebit(w) \/ PostShortfall(w)
    PROVE  PInv'
  <1>1. draw[w] \in Draw /\ draw[w].take \in Int /\ draw[w].short \in Nat /\ fault \in Int
    BY DEF PInv, Draw
  <1>2. NoDraw \in Draw /\ NoDraw.at = "idle"
    BY DEF NoDraw, Draw
  <1>3. CASE PostDebit(w)
    BY <1>1, <1>3, RemainderType DEF PostDebit, Debit, PInv
  <1>4. CASE PostShortfall(w)
    BY <1>1, <1>2, <1>4 DEF PostShortfall, PInv
  <1> QED
    BY <1>3, <1>4

LEMMA PoolInitPInv == PoolInit => PInv
  BY DEF PoolInit, PInv, NoDraw, Draw

LEMMA PoolNextPInv == PInv /\ [PoolNext]_poolVars => PInv'
  <1> SUFFICES ASSUME PInv, [PoolNext]_poolVars PROVE PInv'
    OBVIOUS
  <1>1. CASE \E w \in Workers : DrawStep(w)
    BY <1>1, ReadStep, PostSteps DEF DrawStep
  <1>2. CASE \E w \in Workers, r \in Rewards : Quote(w, r)
    BY <1>2, QuoteStep
  <1>3. CASE \E c \in Receipts : Receive(c) /\ UNCHANGED draw
    BY <1>3, RewardsAssumption DEF Receive, PInv
  <1>4. CASE UNCHANGED poolVars
    BY <1>4 DEF poolVars, PInv
  <1> QED
    BY <1>1, <1>2, <1>3, <1>4 DEF PoolNext

(* The ledger and every disbursement keep their types; a shortfall is never *)
(* negative although the balance may be (disburse_for_lock_reward).         *)
THEOREM PoolTypeCorrect == PoolSpec => []PoolTypeOK
  <1>1. PInv => PoolTypeOK
    BY DEF PInv, PoolTypeOK
  <1> QED
    BY <1>1, PoolInitPInv, PoolNextPInv, PTL DEF PoolSpec

-----------------------------------------------------------------------------
(* With one thread, the balance that fault_pool_debit has read is still     *)
(* there when it inserts its debit.                                         *)
SoleInv ==
    /\ PInv
    /\ NeverOverdrawn
    /\ \A w \in Workers : draw[w].at = "debiting" => draw[w].take <= fault

(* As long as at most one thread disburses, the pool pays only what it      *)
(* holds (disburse_for_lock_reward, fault_pool_debit): the overdraft that   *)
(* the run of two threads finds takes a race, and nothing else.             *)
THEOREM SoleDrawerSolvent ==
    ASSUME NEW sole, Workers \subseteq {sole}
    PROVE  PoolSpec => []NeverOverdrawn
  <1>1. PoolInit => SoleInv
    BY PoolInitPInv DEF PoolInit, SoleInv, NoDraw, NeverOverdrawn
  <1>2. SoleInv /\ [PoolNext]_poolVars => SoleInv'
    <2> SUFFICES ASSUME SoleInv, [PoolNext]_poolVars
                 PROVE  (NeverOverdrawn /\ \A w \in Workers :
                            draw[w].at = "debiting" => draw[w].take <= fault)'
      BY PoolNextPInv DEF SoleInv
    <2>0. /\ PInv /\ fault \in Int /\ fault >= 0
          /\ draw \in [Workers -> Draw]
      BY DEF SoleInv, PInv, NeverOverdrawn
    <2>1. ASSUME NEW w \in Workers, ReadForDebit(w)
          PROVE  (NeverOverdrawn /\ \A v \in Workers :
                            draw[v].at = "debiting" => draw[v].take <= fault)'
      <3>1. draw[w] \in Draw /\ draw[w].take \in Int
        BY <2>0 DEF Draw
      <3>2. Lesser(draw[w].take, fault) <= fault
        BY <2>0, <3>1 DEF Lesser
      <3>3. CASE Lesser(draw[w].take, fault) > 0
        <4>1. draw'[w].take = Lesser(draw[w].take, fault)
          BY <2>0, <2>1, <3>1, <3>3 DEF ReadForDebit, Draw
        <4> QED
          BY <2>0, <2>1, <3>2, <4>1 DEF ReadForDebit, NeverOverdrawn
      <3>4. CASE ~(Lesser(draw[w].take, fault) > 0)
        <4>1. draw'[w].at # "debiting"
          BY <2>0, <2>1, <3>1, <3>4, RemainderType DEF ReadForDebit
        <4> QED
          BY <2>0, <2>1, <4>1 DEF ReadForDebit, NeverOverdrawn
      <3> QED
        BY <3>3, <3>4
    <2>2. ASSUME NEW w \in Workers, PostDebit(w)
          PROVE  (NeverOverdrawn /\ \A v \in Workers :
                            draw[v].at = "debiting" => draw[v].take <= fault)'
      <3>1. draw[w] \in Draw /\ draw[w].take \in Int /\ draw[w].take <= fault
        BY <2>0, <2>2 DEF SoleInv, PostDebit, Draw
      <3>2. draw'[w].at # "debiting"
        BY <2>0, <2>2, <3>1, RemainderType DEF PostDebit
      <3> QED
        BY <2>0, <2>2, <3>1, <3>2 DEF PostDebit, Debit, NeverOverdrawn
    <2>3. ASSUME NEW w \in Workers, PostShortfall(w)
          PROVE  (NeverOverdrawn /\ \A v \in Workers :
                            draw[v].at = "debiting" => draw[v].take <= fault)'
      <3>1. draw[w].short \in Nat /\ draw'[w].at = "idle"
        BY <2>0, <2>3 DEF PostShortfall, Draw, NoDraw
      <3> QED
        BY <2>0, <2>3, <3>1 DEF PostShortfall, NeverOverdrawn
    <2>4. ASSUME NEW w \in Workers, NEW r \in Rewards, Quote(w, r)
          PROVE  (NeverOverdrawn /\ \A v \in Workers :
                            draw[v].at = "debiting" => draw[v].take <= fault)'
      <3>1. draw'[w].at # "debiting"
        BY <2>0, <2>4 DEF Quote
      <3> QED
        BY <2>0, <2>4, <3>1 DEF Quote, NeverOverdrawn
    <2>5. ASSUME NEW c \in Receipts, Receive(c), UNCHANGED draw
          PROVE  (NeverOverdrawn /\ \A v \in Workers :
                            draw[v].at = "debiting" => draw[v].take <= fault)'
      <3>1. c \in Nat /\ fault' = fault + c
        BY <2>5, RewardsAssumption DEF Receive
      <3>2. \A v \in Workers : draw[v].take \in Int
        BY <2>0 DEF Draw
      <3> QED
        BY <2>0, <2>5, <3>1, <3>2 DEF NeverOverdrawn, SoleInv
    <2>6. CASE UNCHANGED poolVars
      BY <2>6 DEF poolVars, SoleInv, NeverOverdrawn
    <2> QED
      BY <2>1, <2>2, <2>3, <2>4, <2>5, <2>6 DEF PoolNext, DrawStep
  <1>3. SoleInv => NeverOverdrawn
    BY DEF SoleInv
  <1> QED
    BY <1>1, <1>2, <1>3, PTL DEF PoolSpec

-----------------------------------------------------------------------------
(* Debits on their way                                                     *)

(* What a disbursement is about to insert, and what all of them are.        *)
Spent(d) == IF d.at = "debiting" THEN d.take ELSE 0
OnTheWay == SumOf([w \in Workers |-> Spent(draw[w])], Workers)

TakesBounded(most) ==
    \A w \in Workers : draw[w].at \in {"quoted", "debiting"} => draw[w].take <= most

Covered(most) == OnTheWay <= fault + (Cardinality(Workers) - 1) * most

(* The debt counts the debits that threads have computed and not inserted:  *)
(* the thread that read last read a balance that covers its own, and each   *)
(* of the others takes one reward at most.                                  *)
DebtInv ==
    \A most \in Rewards : (\A r \in Rewards : r <= most) => TakesBounded(most) /\ Covered(most)

LEMMA SpentType ==
    ASSUME PInv, NEW w \in Workers
    PROVE  Spent(draw[w]) \in Nat
  BY DEF PInv, Draw, Spent

(* An insert moves its amount from the sum of what is on its way to the    *)
(* balance, and anything but a read that computes a new debit adds none.    *)
LEMMA SumMoves ==
    ASSUME PInv, PInv', NEW w \in Workers, \A v \in Workers \ {w} : draw'[v] = draw[v]
    PROVE  /\ OnTheWay \in Int /\ OnTheWay' \in Int
           /\ OnTheWay' = OnTheWay - Spent(draw[w]) + Spent(draw'[w])
  <1> DEFINE f == [v \in Workers |-> Spent(draw[v])]
             g == [v \in Workers |-> Spent(draw'[v])]
  <1>1. \A v \in Workers : f[v] \in Int /\ g[v] \in Int
    <2>1. \A v \in Workers : Spent(draw[v]) \in Nat
      BY SpentType
    <2>2. \A v \in Workers : Spent(draw'[v]) \in Nat
      BY DEF PInv, Draw, Spent
    <2> QED
      BY <2>1, <2>2
  <1>2. \A v \in Workers \ {w} : g[v] = f[v]
    OBVIOUS
  <1>3. OnTheWay = SumOf(f, Workers) /\ OnTheWay' = SumOf(g, Workers)
    BY DEF OnTheWay
  <1>4. f[w] = Spent(draw[w]) /\ g[w] = Spent(draw'[w])
    OBVIOUS
  <1>5. IsFiniteSet(Workers)
    BY WorkersAssumption
  <1> HIDE DEF f, g
  <1>6. SumOf(f, Workers) \in Int /\ SumOf(g, Workers) \in Int
    BY <1>1, <1>5, SumOfType
  <1>7. SumOf(g, Workers) = SumOf(f, Workers) - f[w] + g[w]
    BY <1>1, <1>2, <1>5, SumOfChange
  <1> QED
    BY <1>3, <1>4, <1>6, <1>7

(* A thread that has just read a balance that covers its debit.             *)
LEMMA LastReaderCovers ==
    ASSUME PInv', NEW most \in Int, most >= 0, TakesBounded(most)', NEW w \in Workers,
           Spent(draw'[w]) <= fault'
    PROVE  Covered(most)'
  <1> DEFINE g == [v \in Workers |-> Spent(draw'[v])]
  <1>1. \A v \in Workers : g[v] \in Int /\ g[v] <= most
    BY DEF PInv, Draw, Spent, TakesBounded
  <1>2. OnTheWay' = SumOf(g, Workers)
    BY DEF OnTheWay
  <1>3. g[w] <= fault' /\ fault' \in Int
    BY DEF PInv
  <1>4. IsFiniteSet(Workers)
    BY WorkersAssumption
  <1>5. /\ IsFiniteSet(Workers \ {w})
        /\ Cardinality(Workers \ {w}) = Cardinality(Workers) - 1
    BY <1>4, FS_RemoveElement
  <1> HIDE DEF g
  <1>6. SumOf(g, Workers) = g[w] + SumOf(g, Workers \ {w})
    BY <1>1, <1>4, SumOfRemove
  <1>7. SumOf(g, Workers \ {w}) <= Cardinality(Workers \ {w}) * most
    BY <1>1, <1>5, SumOfBound
  <1>8. SumOf(g, Workers \ {w}) \in Int
    BY <1>1, <1>5, SumOfType
  <1>9. (Cardinality(Workers) - 1) * most \in Int
    BY <1>4, FS_CardinalityType
  <1> QED
    BY <1>1, <1>2, <1>3, <1>5, <1>6, <1>7, <1>8, <1>9 DEF Covered

LEMMA DebtStep ==
    ASSUME PInv, DebtInv, [PoolNext]_poolVars
    PROVE  DebtInv'
  <1> SUFFICES ASSUME NEW most \in Rewards, \A r \in Rewards : r <= most
               PROVE  TakesBounded(most)' /\ Covered(most)'
    BY DEF DebtInv
  <1>0. /\ PInv' /\ most \in Nat /\ fault \in Int /\ fault' \in Int
        /\ TakesBounded(most) /\ Covered(most)
        /\ draw \in [Workers -> Draw] /\ draw' \in [Workers -> Draw]
    BY PoolNextPInv, RewardsAssumption DEF DebtInv, PInv
  <1>a. (Cardinality(Workers) - 1) * most \in Int
    BY <1>0, WorkersAssumption, FS_CardinalityType
  <1>1. ASSUME NEW w \in Workers, ReadForDebit(w) PROVE TakesBounded(most)' /\ Covered(most)'
    <2> DEFINE disbursed == Lesser(draw[w].take, fault)
    <2>1. /\ draw[w] \in Draw /\ draw[w].take \in Int /\ draw[w].take <= most
          /\ fault' = fault /\ \A v \in Workers \ {w} : draw'[v] = draw[v]
      BY <1>0, <1>1 DEF ReadForDebit, Draw, TakesBounded
    <2>2. disbursed \in Int /\ disbursed <= fault /\ disbursed <= most
      BY <1>0, <2>1 DEF Lesser
    <2>3. CASE disbursed > 0
      <3>1. draw'[w].at = "debiting" /\ draw'[w].take = disbursed
        BY <1>0, <1>1, <2>1, <2>3 DEF ReadForDebit, Draw
      <3>2. TakesBounded(most)'
        BY <1>0, <2>1, <2>2, <3>1 DEF TakesBounded
      <3>3. Spent(draw'[w]) <= fault'
        BY <2>1, <2>2, <3>1 DEF Spent
      <3> QED
        BY <1>0, <3>2, <3>3, LastReaderCovers
    <2>4. CASE ~(disbursed > 0)
      <3>1. draw'[w] = Remainder(draw[w]) /\ draw[w].at = "quoted"
        BY <1>0, <1>1, <2>4 DEF ReadForDebit
      <3>2. draw'[w].at \in {"idle", "short"}
        BY <2>1, <3>1, RemainderType
      <3>3. TakesBounded(most)'
        BY <1>0, <2>1, <3>2 DEF TakesBounded
      <3>4. Spent(draw'[w]) = 0 /\ Spent(draw[w]) = 0
        BY <3>1, <3>2 DEF Spent
      <3>5. OnTheWay' = OnTheWay /\ OnTheWay \in Int
        BY <1>0, <2>1, <3>4, SumMoves
      <3> QED
        BY <1>0, <2>1, <3>3, <3>5 DEF Covered
    <2> QED
      BY <2>3, <2>4
  <1>2. ASSUME NEW w \in Workers, PostDebit(w) PROVE TakesBounded(most)' /\ Covered(most)'
    <2>1. /\ draw[w] \in Draw /\ draw[w].take \in Int
          /\ draw[w].at = "debiting" /\ fault' = fault - draw[w].take
          /\ draw'[w] = Remainder(draw[w])
          /\ \A v \in Workers \ {w} : draw'[v] = draw[v]
      BY <1>0, <1>2 DEF PostDebit, Debit, Draw
    <2>2. draw'[w].at \in {"idle", "short"}
      BY <2>1, RemainderType
    <2>3. TakesBounded(most)'
      BY <1>0, <2>1, <2>2 DEF TakesBounded
    <2>4. Spent(draw'[w]) = 0 /\ Spent(draw[w]) = draw[w].take
      BY <2>1, <2>2 DEF Spent
    <2>5. OnTheWay' = OnTheWay - draw[w].take /\ OnTheWay \in Int
      BY <1>0, <2>1, <2>4, SumMoves
    <2> QED
      BY <1>0, <1>a, <2>1, <2>3, <2>5 DEF Covered
  <1>3. ASSUME NEW w \in Workers, PostShortfall(w) PROVE TakesBounded(most)' /\ Covered(most)'
    <2>1. /\ draw[w].short \in Nat /\ draw[w].at = "short" /\ fault' = fault + draw[w].short
          /\ draw'[w].at = "idle"
          /\ \A v \in Workers \ {w} : draw'[v] = draw[v]
      BY <1>0, <1>3 DEF PostShortfall, Draw, NoDraw
    <2>2. TakesBounded(most)'
      BY <1>0, <2>1 DEF TakesBounded
    <2>3. Spent(draw'[w]) = 0 /\ Spent(draw[w]) = 0
      BY <2>1 DEF Spent
    <2>4. OnTheWay' = OnTheWay /\ OnTheWay \in Int
      BY <1>0, <2>1, <2>3, SumMoves
    <2> QED
      BY <1>0, <1>a, <2>1, <2>2, <2>4 DEF Covered
  <1>4. ASSUME NEW w \in Workers, NEW r \in Rewards, Quote(w, r)
        PROVE  TakesBounded(most)' /\ Covered(most)'
    <2>1. r \in Nat /\ r <= most /\ Lesser(r, fault) \in Int /\ Lesser(r, fault) <= r
      BY <1>0, RewardsAssumption DEF Lesser
    <2>2. /\ fault' = fault /\ draw[w].at = "idle" /\ draw'[w].at \in {"quoted", "short"}
          /\ (draw'[w].at = "quoted" => draw'[w].take = Lesser(r, fault))
          /\ \A v \in Workers \ {w} : draw'[v] = draw[v]
      BY <1>0, <1>4 DEF Quote, NoDraw
    <2>3. TakesBounded(most)'
      BY <1>0, <2>1, <2>2 DEF TakesBounded
    <2>4. Spent(draw'[w]) = 0 /\ Spent(draw[w]) = 0
      BY <2>2 DEF Spent
    <2>5. OnTheWay' = OnTheWay /\ OnTheWay \in Int
      BY <1>0, <2>2, <2>4, SumMoves
    <2> QED
      BY <1>0, <2>2, <2>3, <2>5 DEF Covered
  <1>5. ASSUME NEW c \in Receipts, Receive(c), UNCHANGED draw
        PROVE  TakesBounded(most)' /\ Covered(most)'
    <2>1. c \in Nat /\ fault' = fault + c
      BY <1>5, RewardsAssumption DEF Receive
    <2>2. PICK w : w \in Workers
      BY WorkersAssumption
    <2>3. OnTheWay' = OnTheWay /\ TakesBounded(most)'
      BY <1>0, <1>5 DEF OnTheWay, TakesBounded
    <2>4. OnTheWay \in Int
      BY <1>0, <1>5, <2>2, SumMoves
    <2> QED
      BY <1>0, <1>a, <2>1, <2>3, <2>4 DEF Covered
  <1>6. CASE UNCHANGED poolVars
    BY <1>0, <1>6 DEF poolVars, Covered, OnTheWay, TakesBounded
  <1> QED
    BY <1>1, <1>2, <1>3, <1>4, <1>5, <1>6 DEF PoolNext, DrawStep

LEMMA InitDebtInv == PoolInit => DebtInv
  <1> SUFFICES ASSUME PoolInit, NEW most \in Rewards
               PROVE  TakesBounded(most) /\ Covered(most)
    BY DEF DebtInv
  <1> DEFINE f == [w \in Workers |-> Spent(draw[w])]
  <1>1. \A w \in Workers : draw[w].at = "idle" /\ f[w] = 0
    BY DEF PoolInit, NoDraw, Spent
  <1>2. OnTheWay = SumOf(f, Workers)
    BY DEF OnTheWay
  <1>3. IsFiniteSet(Workers)
    BY WorkersAssumption
  <1> HIDE DEF f
  <1>4. OnTheWay = 0
    BY <1>1, <1>2, <1>3, SumOfZeros
  <1>5. Cardinality(Workers) \in Nat /\ Cardinality(Workers) # 0
    BY <1>3, WorkersAssumption, FS_CardinalityType, FS_EmptySet
  <1>6. most \in Nat
    BY RewardsAssumption
  <1>7. \A n \in Nat, m \in Nat : n * m >= 0
    OBVIOUS
  <1>8. (Cardinality(Workers) - 1) * most >= 0 /\ (Cardinality(Workers) - 1) * most \in Int
    BY <1>5, <1>6, <1>7
  <1> QED
    BY <1>1, <1>4, <1>8 DEF TakesBounded, Covered, PoolInit

LEMMA DebtInvBounds == PInv /\ DebtInv => OverdraftBounded
  <1> SUFFICES ASSUME PInv, NEW most \in Rewards, Covered(most)
               PROVE  fault >= -((Cardinality(Workers) - 1) * most)
    BY DEF DebtInv, OverdraftBounded
  <1> DEFINE f == [w \in Workers |-> Spent(draw[w])]
  <1>1. \A w \in Workers : f[w] \in Nat
    BY SpentType
  <1>2. OnTheWay = SumOf(f, Workers)
    BY DEF OnTheWay
  <1>3. IsFiniteSet(Workers)
    BY WorkersAssumption
  <1> HIDE DEF f
  <1>4. OnTheWay \in Nat
    BY <1>1, <1>2, <1>3, SumOfNat
  <1>5. fault \in Int /\ (Cardinality(Workers) - 1) * most \in Int
    BY <1>3, FS_CardinalityType, RewardsAssumption DEF PInv
  <1> QED
    BY <1>4, <1>5 DEF Covered

(* Threads that race overdraw the pool by no more than one reward for each  *)
(* thread but the first, whatever they do and for however long              *)
(* (disburse_for_lock_reward, fault_pool_debit): the second read of the     *)
(* balance is what keeps the debt from growing.                             *)
THEOREM RacesOverdrawBoundedly == PoolSpec => []OverdraftBounded
  <1>1. PInv /\ DebtInv /\ [PoolNext]_poolVars => (PInv /\ DebtInv)'
    BY PoolNextPInv, DebtStep
  <1> QED
    BY <1>1, PoolInitPInv, InitDebtInv, DebtInvBounds, PTL DEF PoolSpec
=============================================================================
