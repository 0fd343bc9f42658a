----------------------------- MODULE Induction ------------------------------
(***************************************************************************)
(* Induction over the natural numbers as a statement about sets, which the *)
(* provers can instantiate: the library's induction theorems take an       *)
(* operator.  It rests on the library's theorem that finite sets are well  *)
(* founded under strict inclusion.                                         *)
(***************************************************************************)
EXTENDS Integers, FiniteSetTheorems, TLAPS

LEMMA LeastNumber ==
  ASSUME NEW T \in SUBSET Nat, T # {}
  PROVE  \E n \in T : \A m \in T : n <= m
<1> DEFINE U == {1..n : n \in T}
           R == StrictSubsetOrdering(Nat)
<1>1. IsWellFoundedOn(R, FiniteSubsetsOf(Nat))
  BY FS_StrictSubsetOrderingWellFounded
<1>2. \A n \in T : 1..n \in SUBSET Nat /\ IsFiniteSet(1..n)
  BY FS_Interval
<1>3. U \subseteq FiniteSubsetsOf(Nat) /\ U # {}
  BY <1>2 DEF FiniteSubsetsOf
<1>4. PICK x \in U : \A y \in U : <<y, x>> \notin R
  <2> HIDE DEF U, R
  <2> QED
    BY <1>1, <1>3, WFMin
<1>5. PICK n \in T : x = 1..n
  BY <1>4
<1>6. ASSUME NEW m \in T, ~(n <= m)
      PROVE  FALSE
  <2>1. 1..m \subseteq 1..n /\ n \in 1..n /\ n \notin 1..m
    BY <1>6
  <2>2. <<1..m, 1..n>> \in R
    BY <2>1 DEF StrictSubsetOrdering
  <2> QED
    BY <1>4, <1>5, <2>2
<1> QED
  BY <1>6

LEMMA NatSetInduction ==
  ASSUME NEW T \in SUBSET Nat, 0 \in T, \A n \in T : n + 1 \in T
  PROVE  T = Nat
<1> SUFFICES ASSUME T # Nat PROVE FALSE
  OBVIOUS
<1>1. PICK n \in Nat \ T : \A m \in Nat \ T : n <= m
  BY LeastNumber
<1>2. n - 1 \in T
  BY <1>1
<1> QED
  BY <1>1, <1>2

\* The same up to a bound.
LEMMA IntervalSetInduction ==
  ASSUME NEW k \in Nat, NEW T, 0 \in T, \A n \in 0..(k - 1) : n \in T => n + 1 \in T
  PROVE  0..k \subseteq T
<1> DEFINE U == {n \in Nat : n <= k => n \in T}
<1>1. U \in SUBSET Nat /\ 0 \in U /\ \A n \in U : n + 1 \in U
  OBVIOUS
<1>2. U = Nat
  <2> HIDE DEF U
  <2> QED
    BY <1>1, NatSetInduction
<1> QED
  BY <1>2

=============================================================================
