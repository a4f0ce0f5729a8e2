---------------------------- MODULE FiniteFacts ----------------------------
(***************************************************************************)
(* Facts about finite sets and numbers that the proofs of several modules  *)
(* share.  The library's induction theorems take an operator as parameter, *)
(* which the provers cannot instantiate: induction is stated here about    *)
(* sets instead.                                                           *)
(***************************************************************************)
EXTENDS Naturals, FiniteSetTheorems, WellFoundedInduction, TLAPS

\* A set of numbers that is not empty has a least one.
LEMMA LeastNumber ==
  ASSUME NEW T, T \subseteq Nat, T # {}
  PROVE  \E n \in T : \A m \in T : n <= m
  <1> DEFINE Less == OpToRel(<, Nat)
  <1>1. \A m, n \in Nat : m < n => <<m, n>> \in Less
    BY Zenon DEF OpToRel
  <1>2. IsWellFoundedOn(Less, Nat)
    BY NatLessThanWellFounded
  <1> HIDE DEF Less
  <1>3. \E n \in T : \A m \in T : ~(<<m, n>> \in Less)
    BY <1>2, WFMin
  <1>4. \A m, n \in Nat : m < n \/ n <= m
    OBVIOUS
  <1>5. QED
    BY <1>1, <1>3, <1>4

\* A property of the subsets of a finite set, given as the set good of those
\* that have it, is one of them all if it passes from the smaller ones to
\* each: the smallest set without it would have it.
LEMMA SubsetInduction ==
    ASSUME NEW S, IsFiniteSet(S), NEW good,
           \A T \in SUBSET S : (\A U \in SUBSET T : U # T => U \in good) => T \in good
    PROVE  SUBSET S \subseteq good
  <1> DEFINE bad == (SUBSET S) \ good
             sizes == {Cardinality(T) : T \in bad}
  <1> SUFFICES ASSUME bad # {} PROVE FALSE
    OBVIOUS
  <1>1. \A T \in SUBSET S : IsFiniteSet(T) /\ Cardinality(T) \in Nat
    BY FS_Subset, FS_CardinalityType
  <1>2. sizes \subseteq Nat /\ sizes # {}
    BY <1>1
  <1>3. PICK n \in sizes : \A m \in sizes : n <= m
    <2> HIDE DEF sizes
    <2>1. QED
      BY <1>2, LeastNumber
  <1>4. PICK T \in bad : Cardinality(T) = n
    BY <1>3
  <1>5. PICK U \in SUBSET T : U # T /\ U \notin good
    BY <1>4
  <1>6. Cardinality(U) < Cardinality(T)
    <2>1. IsFiniteSet(T) /\ U \subseteq T /\ U # T
      BY <1>1, <1>4, <1>5
    <2>2. Cardinality(U) <= Cardinality(T) /\ (Cardinality(U) = Cardinality(T) => U = T)
      BY <2>1, FS_Subset
    <2>3. QED
      BY <1>1, <1>4, <1>5, <2>1, <2>2
  <1>7. Cardinality(U) \in sizes /\ Cardinality(U) \in Nat /\ n \in Nat
    BY <1>1, <1>4, <1>5
  <1>8. QED
    BY <1>3, <1>4, <1>6, <1>7

\* Modules number the queries that are under way, so that equal ones are told
\* apart, by the lowest number that no query of a finite set has: one of the
\* numbers from 0 to the set's size is free.
THEOREM FreshNumberExists ==
  ASSUME NEW S, IsFiniteSet(S)
  PROVE  \E n \in 0..Cardinality(S) : \A s \in S : s.n # n
  <1> DEFINE N == 0..Cardinality(S)
             f == [n \in N |-> CHOOSE s \in S : s.n = n]
  <1>1. Cardinality(S) \in Nat
    BY FS_CardinalityType
  <1>2. IsFiniteSet(N) /\ Cardinality(N) = Cardinality(S) + 1
    BY <1>1, FS_Interval
  <1>3. SUFFICES ASSUME \A n \in N : \E s \in S : s.n = n PROVE FALSE
    OBVIOUS
  <1>4. \A n \in N : f[n] \in S /\ f[n].n = n
    BY <1>3
  <1>5. f \in [N -> S]
    BY <1>4
  <1> HIDE DEF f
  <1>6. PICK x, y \in N : x # y /\ f[x] = f[y]
    <2>1. Cardinality(S) < Cardinality(N)
      BY <1>1, <1>2
    <2> HIDE DEF N
    <2>2. QED
      BY <1>2, <1>5, <2>1, FS_PigeonHole
  <1>7. QED
    BY <1>4, <1>6
=============================================================================
