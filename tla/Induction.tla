----------------------------- MODULE Induction -----------------------------
(***************************************************************************)
(* The least-number principle and induction over the naturals, stated with *)
(* sets.  What a recursive function computes, and what CHOOSE finds as the *)
(* first position of something, is proved from them.                       *)
(***************************************************************************)
EXTENDS Integers, WellFoundedInduction, TLAPS

\* Every set of naturals that is not empty has a least element.
LEMMA LeastNatural ==
    ASSUME NEW T \in SUBSET Nat, T # {}
    PROVE  \E x \in T : \A y \in T : x <= y
<1>1. PICK R : IsWellFoundedOn(R, Nat) /\ \A x, y \in Nat : y < x => <<y, x>> \in R
  BY NatLessThanWellFounded DEF OpToRel
<1>2. PICK x \in T : \A y \in T : <<y, x>> \notin R
  BY <1>1, WFMin
<1>3. \A y \in T : ~ (y < x)
  BY <1>1, <1>2
<1>4. \A y \in T : x <= y
  BY <1>3
<1> QED BY <1>4

\* A set that holds 0, and n + 1 whenever it holds n, holds every natural.
LEMMA NaturalInduction ==
    ASSUME NEW S, 0 \in S, \A n \in Nat : n \in S => n + 1 \in S
    PROVE  Nat \subseteq S
<1> SUFFICES ASSUME Nat \ S # {} PROVE FALSE
  OBVIOUS
<1>1. PICK x \in Nat \ S : \A y \in Nat \ S : x <= y
  BY LeastNatural
<1>2. x - 1 \in Nat /\ x - 1 \notin Nat \ S
  BY <1>1
<1> QED BY <1>2

\* The same over an interval.
LEMMA IntervalInduction ==
    ASSUME NEW k \in Nat, NEW m \in Nat, NEW S,
           k \in S, \A n \in k..(m - 1) : n \in S => n + 1 \in S
    PROVE  k..m \subseteq S
<1> DEFINE T == {n \in Nat : n \in k..m => n \in S}
<1>1. 0 \in T
  OBVIOUS
<1>2. \A n \in Nat : n \in T => n + 1 \in T
  <2> SUFFICES ASSUME NEW n \in Nat, n \in T, n + 1 \in k..m PROVE n + 1 \in S
    OBVIOUS
  <2>1. CASE n + 1 = k
    BY <2>1
  <2>2. CASE n + 1 # k
    <3>1. n \in k..(m - 1) /\ n \in k..m
      BY <2>2
    <3> QED BY <3>1
  <2> QED BY <2>1, <2>2
<1>3. Nat \subseteq T
  <2> HIDE DEF T
  <2> QED BY <1>1, <1>2, NaturalInduction
<1> QED BY <1>3
=============================================================================
