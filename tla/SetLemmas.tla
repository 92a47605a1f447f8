------------------------------- MODULE SetLemmas -------------------------------
(***************************************************************************)
(* Facts about finite sets that the proofs of several components cite.     *)
(* The provers cannot instantiate the induction theorems of the library;   *)
(* where induction is needed it goes through a minimal counterexample,     *)
(* which strict inclusion on the finite subsets of a set provides.         *)
(***************************************************************************)
EXTENDS Integers, FiniteSets, FiniteSetsExt, FiniteSetTheorems,
        WellFoundedInduction, TLAPS

\* A nonempty family of finite sets has a member that includes no other.
LEMMA MinimalMember ==
  ASSUME NEW S, IsFiniteSet(S), NEW F, \A T \in F : T \subseteq S, F # {}
  PROVE  \E T \in F : \A U \in F : U \subseteq T => U = T
<1>1. IsWellFoundedOn(StrictSubsetOrdering(S), FiniteSubsetsOf(S))
  BY FS_StrictSubsetOrderingWellFounded
<1>2. F \subseteq FiniteSubsetsOf(S)
  BY FS_FiniteSubsetsOfFinite
<1>3. \E T \in F : \A U \in F : ~(<<U, T>> \in StrictSubsetOrdering(S))
  BY <1>1, <1>2, WFMin
<1> QED
  BY <1>3 DEF StrictSubsetOrdering

\* A finite nonempty set of integers has a largest element, and Max finds it.
LEMMA MaxOfFinite ==
  ASSUME NEW S \in SUBSET Int, IsFiniteSet(S), S # {}
  PROVE  /\ Max(S) \in S
         /\ \A x \in S : x <= Max(S)
<1> DEFINE HasMax(T) == \E x \in T : \A y \in T : x >= y
           F == {T \in SUBSET S : T # {} /\ ~HasMax(T)}
<1>1. ASSUME F # {} PROVE FALSE
  <2>1. PICK T \in F : \A U \in F : U \subseteq T => U = T
    <3>1. \A T \in F : T \subseteq S
      OBVIOUS
    <3> HIDE DEF F
    <3> QED
      BY <1>1, <3>1, MinimalMember
  <2>2. PICK x \in T : TRUE
    OBVIOUS
  <2>3. T \ {x} \notin F
    BY <2>1, <2>2
  <2>4. CASE T \ {x} = {}
    BY <2>2, <2>4
  <2>5. CASE HasMax(T \ {x})
    <3>1. PICK m \in T \ {x} : \A y \in T \ {x} : m >= y
      BY <2>5
    <3>2. \A y \in T : (IF m >= x THEN m ELSE x) >= y
      BY <3>1, <2>2
    <3> QED
      BY <3>1, <3>2, <2>2
  <2> QED
    BY <2>3, <2>4, <2>5
<1>2. HasMax(S)
  BY <1>1
<1> QED
  BY <1>2 DEF Max

\* What a function maps a finite set to is finite.
LEMMA ImageFinite ==
  ASSUME NEW S, IsFiniteSet(S), NEW f, DOMAIN f = S
  PROVE  IsFiniteSet({f[x] : x \in S})
<1> DEFINE T == {f[x] : x \in S}
<1>1. [x \in S |-> f[x]] \in Surjection(S, T)
  BY DEF Surjection
<1> HIDE DEF T
<1>2. IsFiniteSet(T)
  BY <1>1, FS_Surjection
<1> QED
  BY <1>2 DEF T

\* A finite nonempty set of integers has a smallest element, and Min finds it.
LEMMA MinOfFinite ==
  ASSUME NEW S \in SUBSET Int, IsFiniteSet(S), S # {}
  PROVE  /\ Min(S) \in S
         /\ \A x \in S : Min(S) <= x
<1> DEFINE minus == [x \in S |-> -x]
           negated == {minus[x] : x \in S}
<1>1. negated \in SUBSET Int /\ negated # {}
  <2>1. \A x \in S : minus[x] \in Int
    OBVIOUS
  <2> HIDE DEF minus
  <2> QED
    BY <2>1
<1>2. IsFiniteSet(negated)
  BY ImageFinite
<1>3. PICK m \in negated : \A y \in negated : y <= m
  <2> HIDE DEF negated
  <2> QED
    BY <1>1, <1>2, MaxOfFinite
<1>4. -m \in S /\ \A y \in S : -m <= y
  BY <1>3
<1> QED
  BY <1>4 DEF Min

\* Both hold of a nonempty set of numbers up to some bound, which is finite.
LEMMA ExtremaUpTo ==
  ASSUME NEW n \in Nat, NEW S \in SUBSET (0..n), S # {}
  PROVE  /\ IsFiniteSet(S)
         /\ Max(S) \in S /\ \A x \in S : x <= Max(S)
         /\ Min(S) \in S /\ \A x \in S : Min(S) <= x
<1>1. IsFiniteSet(S)
  <2>1. IsFiniteSet(0..n)
    BY FS_Interval
  <2> QED
    BY <2>1, FS_Subset
<1>2. S \in SUBSET Int
  OBVIOUS
<1> QED
  BY <1>1, <1>2, MaxOfFinite, MinOfFinite
===============================================================================
