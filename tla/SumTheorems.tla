------------------------------ MODULE SumTheorems ------------------------------
(***************************************************************************)
(* Facts about sums over finite sets, for the balances and ledgers of the  *)
(* other modules.  What MapThenSumSet adds up is an operator; the lemmas   *)
(* here are about SumOf, which adds up a function, so that they can be     *)
(* cited for any function.                                                 *)
(***************************************************************************)
EXTENDS Integers, FiniteSetsExt, FiniteSetTheorems, WellFoundedInduction, TLAPS

SumOf(f, S) == MapThenSumSet(LAMBDA x : f[x], S)

(* The order in which MapThenSumSet takes the elements of a set.            *)
Chosen(s) == CHOOSE x \in s : TRUE

(* g is what MapThenSumSet computes for every subset of S.                  *)
Sums(g, f, S) ==
    g = [s \in SUBSET S |-> IF s = {} THEN 0 ELSE f[Chosen(s)] + g[s \ {Chosen(s)}]]

-----------------------------------------------------------------------------
(* Induction over the subsets of a finite set, for a set of subsets. *)
LEMMA SubsetInduction ==
    ASSUME NEW S, IsFiniteSet(S), NEW A,
           \A T \in SUBSET S : (\A x \in T : T \ {x} \in A) => T \in A
    PROVE  SUBSET S \subseteq A
  <1> SUFFICES ASSUME (SUBSET S) \ A # {} PROVE FALSE
    OBVIOUS
  <1> DEFINE R == StrictSubsetOrdering(S)
             B == (SUBSET S) \ A
  <1>1. IsWellFoundedOn(R, SUBSET S)
    <2>1. IsWellFoundedOn(R, FiniteSubsetsOf(S))
      BY FS_StrictSubsetOrderingWellFounded
    <2>2. FiniteSubsetsOf(S) = SUBSET S
      BY FS_FiniteSubsetsOfFinite
    <2> QED
      BY <2>1, <2>2
  <1>2. PICK T \in B : \A U \in B : <<U, T>> \notin R
    <2> HIDE DEF R
    <2> QED
      BY <1>1, WFMin
  <1>3. PICK x \in T : T \ {x} \notin A
    BY <1>2
  <1>4. T \ {x} \in B
    BY <1>3
  <1>5. <<T \ {x}, T>> \in R
    BY <1>3, <1>4 DEF StrictSubsetOrdering
  <1> QED
    BY <1>2, <1>4, <1>5

(* The naturals are exhausted by a set that is closed under successor. *)
LEMMA NatSetInduction ==
    ASSUME NEW A, 0 \in A, \A n \in Nat : n \in A => n + 1 \in A
    PROVE  Nat \subseteq A
  <1> SUFFICES ASSUME Nat \ A # {} PROVE FALSE
    OBVIOUS
  <1> DEFINE R == OpToRel(<, Nat)
             B == Nat \ A
  <1>2. PICK n \in B : \A m \in B : <<m, n>> \notin R
    <2>1. IsWellFoundedOn(R, Nat)
      BY NatLessThanWellFounded
    <2> HIDE DEF R
    <2> QED
      BY <2>1, WFMin
  <1>3. n \in Nat /\ n \notin A
    BY <1>2
  <1>4. n - 1 \in B
    BY <1>3
  <1>5. <<n - 1, n>> \in R
    BY <1>3, <1>4 DEF OpToRel
  <1> QED
    BY <1>2, <1>4, <1>5
-----------------------------------------------------------------------------
(* The recursive function inside MapThenSumSet exists ...                   *)
LEMMA SumsExist ==
    ASSUME NEW f, NEW S, IsFiniteSet(S)
    PROVE  \E g : Sums(g, f, S)
  <1> DEFINE Step(g, s) == IF s = {} THEN 0 ELSE f[Chosen(s)] + g[s \ {Chosen(s)}]
             Upto(n) == \E g : /\ g = [s \in SUBSET S |-> g[s]]
                               /\ \A s \in SUBSET S : Cardinality(s) <= n => g[s] = Step(g, s)
             A == {n \in Nat : Upto(n)}
  <1>1. \A s \in SUBSET S : /\ IsFiniteSet(s) /\ Cardinality(s) \in Nat
                            /\ Cardinality(s) <= Cardinality(S)
                            /\ Cardinality(s) = 0 <=> s = {}
    BY FS_Subset, FS_CardinalityType, FS_EmptySet
  <1>2. \A s \in SUBSET S : s # {} => /\ s \ {Chosen(s)} \in SUBSET S
                                      /\ Cardinality(s \ {Chosen(s)}) = Cardinality(s) - 1
    BY <1>1, FS_RemoveElement DEF Chosen
  <1>3. 0 \in A
    <2> DEFINE g == [s \in SUBSET S |-> 0]
    <2>1. \A s \in SUBSET S : Cardinality(s) <= 0 => g[s] = Step(g, s)
      BY <1>1
    <2>2. g = [s \in SUBSET S |-> g[s]]
      OBVIOUS
    <2> QED
      BY <2>1, <2>2
  <1>4. ASSUME NEW n \in Nat, n \in A
        PROVE  n + 1 \in A
    <2>1. PICK g : /\ g = [s \in SUBSET S |-> g[s]]
                   /\ \A s \in SUBSET S : Cardinality(s) <= n => g[s] = Step(g, s)
      BY <1>4
    <2> DEFINE h == [s \in SUBSET S |-> Step(g, s)]
    <2>2. h = [s \in SUBSET S |-> h[s]]
      OBVIOUS
    <2>3. ASSUME NEW s \in SUBSET S, Cardinality(s) <= n + 1
          PROVE  h[s] = Step(h, s)
      <3>1. CASE s = {}
        BY <3>1
      <3>2. CASE s # {}
        <4> DEFINE r == s \ {Chosen(s)}
        <4>1. r \in SUBSET S /\ Cardinality(r) <= n
          BY <1>1, <1>2, <2>3, <3>2
        <4>2. h[r] = g[r]
          BY <2>1, <4>1
        <4> QED
          BY <3>2, <4>2
      <3> QED
        BY <3>1, <3>2
    <2>4. Upto(n + 1)
      <3> HIDE DEF h, Step
      <3> QED
        BY <2>2, <2>3
    <2> HIDE DEF Upto
    <2> QED
      BY <2>4
  <1>5. Cardinality(S) \in A
    <2> HIDE DEF A
    <2>1. \A n \in Nat : n \in A => n + 1 \in A
      BY <1>4
    <2>2. Nat \subseteq A
      BY <1>3, <2>1, NatSetInduction
    <2>3. Cardinality(S) \in Nat
      BY FS_CardinalityType
    <2> QED
      BY <2>2, <2>3
  <1>6. PICK g : /\ g = [s \in SUBSET S |-> g[s]]
                 /\ \A s \in SUBSET S : Cardinality(s) <= Cardinality(S) => g[s] = Step(g, s)
    BY <1>5
  <1>7. \A s \in SUBSET S : g[s] = Step(g, s)
    BY <1>1, <1>6
  <1>8. g = [s \in SUBSET S |-> Step(g, s)]
    <2> HIDE DEF Step
    <2> QED
      BY <1>6, <1>7
  <1> QED
    BY <1>8 DEF Sums

(* ... and is what SumOf evaluates.                                         *)
LEMMA SumOfSums ==
    ASSUME NEW f, NEW S, IsFiniteSet(S)
    PROVE  \E g : Sums(g, f, S) /\ SumOf(f, S) = g[S]
  <1> DEFINE g == CHOOSE h : Sums(h, f, S)
  <1>1. Sums(g, f, S)
    BY SumsExist
  <1>2. SumOf(f, S) = g[S]
    BY DEF SumOf, MapThenSumSet, MapThenFoldSet, Sums, Chosen
  <1> HIDE DEF g
  <1> QED
    BY <1>1, <1>2

(* A function that satisfies the equation is what SumOf evaluates. *)
LEMMA SumsUnique ==
    ASSUME NEW f, NEW S, IsFiniteSet(S), NEW g, Sums(g, f, S), NEW T \in SUBSET S
    PROVE  SumOf(f, T) = g[T]
  <1>1. PICK h : Sums(h, f, T) /\ SumOf(f, T) = h[T]
    BY SumOfSums, FS_Subset
  <1> DEFINE A == {U \in SUBSET T : g[U] = h[U]}
  <1>2. ASSUME NEW U \in SUBSET T, \A x \in U : U \ {x} \in A
        PROVE  U \in A
    <2>1. /\ g[U] = IF U = {} THEN 0 ELSE f[Chosen(U)] + g[U \ {Chosen(U)}]
          /\ h[U] = IF U = {} THEN 0 ELSE f[Chosen(U)] + h[U \ {Chosen(U)}]
      BY <1>1 DEF Sums
    <2>2. CASE U = {}
      BY <2>1, <2>2
    <2>3. CASE U # {}
      <3>1. Chosen(U) \in U
        BY <2>3 DEF Chosen
      <3> QED
        BY <1>2, <2>1, <2>3, <3>1
    <2> QED
      BY <2>2, <2>3
  <1>3. \A U \in SUBSET T : (\A x \in U : U \ {x} \in A) => U \in A
    BY <1>2
  <1>4. SUBSET T \subseteq A
    <2> HIDE DEF A
    <2> QED
      BY <1>3, SubsetInduction, FS_Subset
  <1> QED
    BY <1>1, <1>4

(* The defining equation of a sum. *)
LEMMA SumOfEmpty ==
    ASSUME NEW f
    PROVE  SumOf(f, {}) = 0
  <1>1. PICK g : Sums(g, f, {}) /\ SumOf(f, {}) = g[{}]
    BY SumOfSums, FS_EmptySet
  <1> QED
    BY <1>1 DEF Sums

LEMMA SumOfPick ==
    ASSUME NEW f, NEW S, IsFiniteSet(S), S # {}
    PROVE  Chosen(S) \in S /\ SumOf(f, S) = f[Chosen(S)] + SumOf(f, S \ {Chosen(S)})
  <1>1. PICK g : Sums(g, f, S) /\ SumOf(f, S) = g[S]
    BY SumOfSums
  <1>2. Chosen(S) \in S
    BY DEF Chosen
  <1>3. SumOf(f, S \ {Chosen(S)}) = g[S \ {Chosen(S)}]
    BY <1>1, SumsUnique
  <1> QED
    BY <1>1, <1>2, <1>3 DEF Sums

(* A sum of integers is an integer; of naturals, a natural. *)
LEMMA SumOfType ==
    ASSUME NEW S, IsFiniteSet(S), NEW f, \A x \in S : f[x] \in Int
    PROVE  SumOf(f, S) \in Int
  <1> DEFINE A == {T \in SUBSET S : SumOf(f, T) \in Int}
  <1>1. \A T \in SUBSET S : (\A x \in T : T \ {x} \in A) => T \in A
    <2> SUFFICES ASSUME NEW T \in SUBSET S, \A x \in T : T \ {x} \in A
                 PROVE  SumOf(f, T) \in Int
      OBVIOUS
    <2>1. CASE T = {}
      BY <2>1, SumOfEmpty
    <2>2. CASE T # {}
      <3>1. Chosen(T) \in T /\ SumOf(f, T) = f[Chosen(T)] + SumOf(f, T \ {Chosen(T)})
        BY <2>2, SumOfPick, FS_Subset
      <3> QED
        BY <3>1
    <2> QED
      BY <2>1, <2>2
  <1>2. SUBSET S \subseteq A
    <2> HIDE DEF A
    <2> QED
      BY <1>1, SubsetInduction
  <1> QED
    BY <1>2

(* The order of the elements does not matter. *)
LEMMA SumOfRemove ==
    ASSUME NEW S, IsFiniteSet(S), NEW f, \A x \in S : f[x] \in Int, NEW x \in S
    PROVE  SumOf(f, S) = f[x] + SumOf(f, S \ {x})
  <1> DEFINE Removes(T) == \A y \in T : SumOf(f, T) = f[y] + SumOf(f, T \ {y})
             A == {T \in SUBSET S : Removes(T)}
  <1>1. \A T \in SUBSET S : /\ IsFiniteSet(T) /\ SumOf(f, T) \in Int
                            /\ \A y \in T : T \ {y} \in SUBSET S
    BY FS_Subset, SumOfType
  <1>2. \A T \in SUBSET S : (\A y \in T : T \ {y} \in A) => T \in A
    <2> SUFFICES ASSUME NEW T \in SUBSET S, \A y \in T : T \ {y} \in A,
                        NEW y \in T
                 PROVE  SumOf(f, T) = f[y] + SumOf(f, T \ {y})
      OBVIOUS
    <2> DEFINE z == Chosen(T)
    <2>1. z \in T /\ SumOf(f, T) = f[z] + SumOf(f, T \ {z})
      BY <1>1, SumOfPick
    <2> HIDE DEF z
    <2>2. CASE y = z
      BY <2>1, <2>2
    <2>3. CASE y # z
      <3>1. Removes(T \ {z}) /\ Removes(T \ {y})
        BY <2>1
      <3>2. SumOf(f, T \ {z}) = f[y] + SumOf(f, (T \ {z}) \ {y})
        BY <2>3, <3>1
      <3>3. SumOf(f, T \ {y}) = f[z] + SumOf(f, (T \ {y}) \ {z})
        BY <2>1, <2>3, <3>1
      <3>4. SumOf(f, (T \ {z}) \ {y}) = SumOf(f, (T \ {y}) \ {z})
        <4>1. (T \ {z}) \ {y} = (T \ {y}) \ {z}
          OBVIOUS
        <4> QED
          BY <4>1
      <3>5. SumOf(f, (T \ {y}) \ {z}) \in Int
        BY <1>1
      <3>6. f[y] \in Int /\ f[z] \in Int
        BY <2>1
      <3> HIDE DEF A
      <3> QED
        BY <2>1, <3>2, <3>3, <3>4, <3>5, <3>6
    <2> QED
      BY <2>2, <2>3
  <1>3. SUBSET S \subseteq A
    <2> HIDE DEF A
    <2> QED
      BY <1>2, SubsetInduction
  <1> QED
    BY <1>3

(* Two functions that agree on a set have the same sum over it. *)
LEMMA SumOfEqual ==
    ASSUME NEW S, IsFiniteSet(S), NEW f, NEW g, \A x \in S : f[x] = g[x]
    PROVE  SumOf(f, S) = SumOf(g, S)
  <1> DEFINE A == {T \in SUBSET S : SumOf(f, T) = SumOf(g, T)}
  <1>1. \A T \in SUBSET S : (\A x \in T : T \ {x} \in A) => T \in A
    <2> SUFFICES ASSUME NEW T \in SUBSET S, \A x \in T : T \ {x} \in A
                 PROVE  SumOf(f, T) = SumOf(g, T)
      OBVIOUS
    <2>1. CASE T = {}
      BY <2>1, SumOfEmpty
    <2>2. CASE T # {}
      <3>1. /\ Chosen(T) \in T
            /\ SumOf(f, T) = f[Chosen(T)] + SumOf(f, T \ {Chosen(T)})
            /\ SumOf(g, T) = g[Chosen(T)] + SumOf(g, T \ {Chosen(T)})
        BY <2>2, SumOfPick, FS_Subset
      <3> QED
        BY <3>1
    <2> QED
      BY <2>1, <2>2
  <1>2. SUBSET S \subseteq A
    <2> HIDE DEF A
    <2> QED
      BY <1>1, SubsetInduction
  <1> QED
    BY <1>2

(* A sum is monotonic in its terms. *)
LEMMA SumOfMonotone ==
    ASSUME NEW S, IsFiniteSet(S), NEW f, NEW g,
           \A x \in S : f[x] \in Int /\ g[x] \in Int /\ f[x] <= g[x]
    PROVE  SumOf(f, S) <= SumOf(g, S)
  <1> DEFINE A == {T \in SUBSET S : SumOf(f, T) <= SumOf(g, T)}
  <1>1. \A T \in SUBSET S : (\A x \in T : T \ {x} \in A) => T \in A
    <2> SUFFICES ASSUME NEW T \in SUBSET S, \A x \in T : T \ {x} \in A
                 PROVE  SumOf(f, T) <= SumOf(g, T)
      OBVIOUS
    <2>1. CASE T = {}
      BY <2>1, SumOfEmpty
    <2>2. CASE T # {}
      <3>1. /\ Chosen(T) \in T
            /\ SumOf(f, T) = f[Chosen(T)] + SumOf(f, T \ {Chosen(T)})
            /\ SumOf(g, T) = g[Chosen(T)] + SumOf(g, T \ {Chosen(T)})
        BY <2>2, SumOfPick, FS_Subset
      <3>2. SumOf(f, T \ {Chosen(T)}) \in Int /\ SumOf(g, T \ {Chosen(T)}) \in Int
        BY SumOfType, FS_Subset
      <3> QED
        BY <3>1, <3>2
    <2> QED
      BY <2>1, <2>2
  <1>2. SUBSET S \subseteq A
    <2> HIDE DEF A
    <2> QED
      BY <1>1, SubsetInduction
  <1> QED
    BY <1>2

(* No term above a bound: no sum above so many times the bound.             *)
LEMMA SumOfBound ==
    ASSUME NEW S, IsFiniteSet(S), NEW f, NEW most \in Int,
           \A x \in S : f[x] \in Int /\ f[x] <= most
    PROVE  SumOf(f, S) <= Cardinality(S) * most
  <1> DEFINE A == {T \in SUBSET S : SumOf(f, T) <= Cardinality(T) * most}
  <1>1. \A T \in SUBSET S : (\A x \in T : T \ {x} \in A) => T \in A
    <2> SUFFICES ASSUME NEW T \in SUBSET S, \A x \in T : T \ {x} \in A
                 PROVE  SumOf(f, T) <= Cardinality(T) * most
      OBVIOUS
    <2>1. CASE T = {}
      BY <2>1, SumOfEmpty, FS_EmptySet
    <2>2. CASE T # {}
      <3> DEFINE R == T \ {Chosen(T)}
      <3>1. Chosen(T) \in T /\ SumOf(f, T) = f[Chosen(T)] + SumOf(f, R)
        BY <2>2, SumOfPick, FS_Subset
      <3>2. SumOf(f, R) \in Int /\ Cardinality(R) \in Nat
        BY SumOfType, FS_Subset, FS_CardinalityType
      <3>3. Cardinality(T) = Cardinality(R) + 1
        <4>1. IsFiniteSet(T) /\ Cardinality(T) \in Nat
          BY FS_Subset, FS_CardinalityType
        <4>2. Cardinality(R) = Cardinality(T) - 1
          BY <3>1, <4>1, FS_RemoveElement
        <4> QED
          BY <4>1, <4>2
      <3>4. SumOf(f, R) <= Cardinality(R) * most /\ f[Chosen(T)] \in Int /\ f[Chosen(T)] <= most
        BY <3>1
      <3> HIDE DEF R
      <3>5. \A n \in Nat : (n + 1) * most = n * most + most /\ n * most \in Int
        OBVIOUS
      <3> QED
        BY <3>1, <3>2, <3>3, <3>4, <3>5
    <2> QED
      BY <2>1, <2>2
  <1>2. SUBSET S \subseteq A
    <2> HIDE DEF A
    <2> QED
      BY <1>1, SubsetInduction
  <1> QED
    BY <1>2

(* Sums add up term by term. *)
LEMMA SumOfPlus ==
    ASSUME NEW S, IsFiniteSet(S), NEW f, NEW g, NEW h,
           \A x \in S : f[x] \in Int /\ g[x] \in Int /\ h[x] = f[x] + g[x]
    PROVE  SumOf(h, S) = SumOf(f, S) + SumOf(g, S)
  <1> DEFINE A == {T \in SUBSET S : SumOf(h, T) = SumOf(f, T) + SumOf(g, T)}
  <1>1. \A T \in SUBSET S : (\A x \in T : T \ {x} \in A) => T \in A
    <2> SUFFICES ASSUME NEW T \in SUBSET S, \A x \in T : T \ {x} \in A
                 PROVE  SumOf(h, T) = SumOf(f, T) + SumOf(g, T)
      OBVIOUS
    <2>1. CASE T = {}
      BY <2>1, SumOfEmpty
    <2>2. CASE T # {}
      <3>1. /\ Chosen(T) \in T
            /\ SumOf(f, T) = f[Chosen(T)] + SumOf(f, T \ {Chosen(T)})
            /\ SumOf(g, T) = g[Chosen(T)] + SumOf(g, T \ {Chosen(T)})
            /\ SumOf(h, T) = h[Chosen(T)] + SumOf(h, T \ {Chosen(T)})
        BY <2>2, SumOfPick, FS_Subset
      <3>2. SumOf(f, T \ {Chosen(T)}) \in Int /\ SumOf(g, T \ {Chosen(T)}) \in Int
        BY SumOfType, FS_Subset
      <3> QED
        BY <3>1, <3>2
    <2> QED
      BY <2>1, <2>2
  <1>2. SUBSET S \subseteq A
    <2> HIDE DEF A
    <2> QED
      BY <1>1, SubsetInduction
  <1> QED
    BY <1>2

(* A sum of zeros is zero. *)
LEMMA SumOfZeros ==
    ASSUME NEW S, IsFiniteSet(S), NEW f, \A x \in S : f[x] = 0
    PROVE  SumOf(f, S) = 0
  <1>1. \A x \in S : f[x] \in Int /\ f[x] = f[x] + f[x]
    OBVIOUS
  <1>2. SumOf(f, S) \in Int
    BY <1>1, SumOfType
  <1>3. SumOf(f, S) = SumOf(f, S) + SumOf(f, S)
    BY <1>1, SumOfPlus
  <1>4. \A n \in Int : n = n + n => n = 0
    OBVIOUS
  <1> QED
    BY <1>2, <1>3, <1>4

(* A sum of naturals is a natural. *)
LEMMA SumOfNat ==
    ASSUME NEW S, IsFiniteSet(S), NEW f, \A x \in S : f[x] \in Nat
    PROVE  SumOf(f, S) \in Nat
  <1> DEFINE zero == [y \in S |-> 0]
  <1>1. \A y \in S : zero[y] \in Int /\ zero[y] = 0 /\ f[y] \in Int /\ zero[y] <= f[y]
    OBVIOUS
  <1> HIDE DEF zero
  <1>2. SumOf(zero, S) <= SumOf(f, S) /\ SumOf(zero, S) = 0
    BY <1>1, SumOfMonotone, SumOfZeros
  <1>3. SumOf(f, S) \in Int
    BY <1>1, SumOfType
  <1> QED
    BY <1>2, <1>3

(* A sum of naturals is no less than any of them. *)
LEMMA SumOfTerm ==
    ASSUME NEW S, IsFiniteSet(S), NEW f, \A x \in S : f[x] \in Nat, NEW x \in S
    PROVE  f[x] <= SumOf(f, S)
  <1>1. SumOf(f, S) = f[x] + SumOf(f, S \ {x})
    BY SumOfRemove
  <1>2. SumOf(f, S \ {x}) \in Nat
    BY SumOfNat, FS_Subset
  <1> QED
    BY <1>1, <1>2

(* One term changes. *)
LEMMA SumOfChange ==
    ASSUME NEW S, IsFiniteSet(S), NEW f, NEW g, NEW x \in S,
           \A y \in S : f[y] \in Int /\ g[y] \in Int,
           \A y \in S \ {x} : g[y] = f[y]
    PROVE  SumOf(g, S) = SumOf(f, S) - f[x] + g[x]
  <1>1. SumOf(f, S) = f[x] + SumOf(f, S \ {x}) /\ SumOf(g, S) = g[x] + SumOf(g, S \ {x})
    BY SumOfRemove
  <1>2. SumOf(f, S \ {x}) = SumOf(g, S \ {x})
    BY SumOfEqual, FS_Subset
  <1>3. SumOf(f, S \ {x}) \in Int
    BY SumOfType, FS_Subset
  <1> QED
    BY <1>1, <1>2, <1>3

(* The sum over a part of a set is a sum over the set in which the other     *)
(* terms are zero.                                                          *)
LEMMA SumOfPart ==
    ASSUME NEW S, IsFiniteSet(S), NEW P \in SUBSET S, NEW f, NEW g,
           \A x \in S : f[x] \in Int /\ g[x] = IF x \in P THEN f[x] ELSE 0
    PROVE  SumOf(f, P) = SumOf(g, S)
  <1> DEFINE A == {T \in SUBSET S : SumOf(f, T \cap P) = SumOf(g, T)}
  <1>1. \A T \in SUBSET S : (\A x \in T : T \ {x} \in A) => T \in A
    <2> SUFFICES ASSUME NEW T \in SUBSET S, \A x \in T : T \ {x} \in A
                 PROVE  SumOf(f, T \cap P) = SumOf(g, T)
      OBVIOUS
    <2>1. CASE T = {}
      <3>1. T \cap P = {}
        BY <2>1
      <3> QED
        BY <2>1, <3>1, SumOfEmpty
    <2>2. CASE T # {}
      <3>1. PICK x \in T : TRUE
        BY <2>2
      <3>2. IsFiniteSet(T) /\ IsFiniteSet(T \cap P)
        BY FS_Subset
      <3>3. SumOf(g, T) = g[x] + SumOf(g, T \ {x})
        BY <3>2, SumOfRemove
      <3>4. SumOf(f, (T \ {x}) \cap P) = SumOf(g, T \ {x})
        OBVIOUS
      <3>5. SumOf(g, T \ {x}) \in Int
        BY SumOfType, FS_Subset
      <3>6. CASE x \in P
        <4>1. SumOf(f, T \cap P) = f[x] + SumOf(f, (T \cap P) \ {x})
          BY <3>2, <3>6, SumOfRemove
        <4>2. (T \cap P) \ {x} = (T \ {x}) \cap P
          OBVIOUS
        <4>3. SumOf(f, (T \cap P) \ {x}) = SumOf(g, T \ {x})
          BY <3>4, <4>2
        <4> HIDE DEF A
        <4> QED
          BY <3>3, <3>6, <4>1, <4>3
      <3>7. CASE x \notin P
        <4>1. T \cap P = (T \ {x}) \cap P
          BY <3>7
        <4>2. SumOf(f, T \cap P) = SumOf(g, T \ {x})
          BY <3>4, <4>1
        <4> HIDE DEF A
        <4> QED
          BY <3>3, <3>5, <3>7, <4>2
      <3> QED
        BY <3>6, <3>7
    <2> QED
      BY <2>1, <2>2
  <1>2. SUBSET S \subseteq A
    <2> HIDE DEF A
    <2> QED
      BY <1>1, SubsetInduction
  <1>3. S \cap P = P
    OBVIOUS
  <1> QED
    BY <1>2, <1>3

================================================================================
