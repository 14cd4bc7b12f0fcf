----------------------------- MODULE SetInduction -----------------------------
(* Induction over the natural numbers, stated with a set: the theorems of the *)
(* library take an operator.                                                  *)
EXTENDS Naturals, FiniteSetTheorems, WellFoundedInduction, TLAPS

LEMMA LeastNatural ==
    ASSUME NEW T \in SUBSET Nat, T # {}
    PROVE  \E m \in T : \A k \in T : m <= k
<1>1. PICK t \in T : TRUE OBVIOUS
<1> DEFINE S == 0..t
           F == {0..i : i \in {j \in T : j <= t}}
           R == StrictSubsetOrdering(S)
<1>2. IsWellFoundedOn(R, FiniteSubsetsOf(S)) BY FS_StrictSubsetOrderingWellFounded
<1>3. F \subseteq FiniteSubsetsOf(S)
  <2> SUFFICES ASSUME NEW i \in T, i <= t PROVE 0..i \in FiniteSubsetsOf(S)
    OBVIOUS
  <2>1. IsFiniteSet(0..i) BY FS_Interval
  <2>2. 0..i \subseteq 0..t OBVIOUS
  <2> QED BY <2>1, <2>2 DEF FiniteSubsetsOf
<1>4. 0..t \in F OBVIOUS
<1>5. \E x \in F : \A y \in F : ~ (<<y, x>> \in R)
  <2> HIDE DEF R, F
  <2>1. F # {} BY <1>4
  <2> QED BY <1>2, <1>3, <2>1, WFMin
<1>6. PICK m \in T : m <= t /\ \A y \in F : ~ (<<y, 0..m>> \in R) BY <1>5
<1>7. ASSUME NEW k \in T, k < m PROVE FALSE
  <2>1. 0..k \in F BY <1>6, <1>7
  <2>2. 0..k \subseteq 0..m /\ m \in 0..m /\ m \notin 0..k BY <1>7
  <2>3. 0..k \in SUBSET S /\ 0..m \in SUBSET S BY <1>6, <1>7
  <2>4. <<0..k, 0..m>> \in R BY <2>2, <2>3 DEF StrictSubsetOrdering
  <2> QED BY <1>6, <2>1, <2>4
<1> QED BY <1>6, <1>7

LEMMA InductionSet ==
    ASSUME NEW S, 0 \in S, \A n \in Nat : n \in S => n + 1 \in S
    PROVE  Nat \subseteq S
<1> SUFFICES ASSUME Nat \ S # {} PROVE FALSE OBVIOUS
<1>1. PICK m \in Nat \ S : \A k \in Nat \ S : m <= k BY LeastNatural
<1>2. m # 0 BY <1>1
<1>3. m - 1 \in Nat /\ m - 1 \notin S BY <1>1, <1>2
<1> QED BY <1>1, <1>3
==============================================================================
