------------------------------ MODULE Extremes ------------------------------
(***************************************************************************)
(* What Min and Max of FiniteSetsExt are, for the sets of numbers that the *)
(* models take them of: induction over the naturals, put as the existence  *)
(* of a least member.                                                      *)
(***************************************************************************)
EXTENDS Integers, FiniteSetsExt, WellFoundedInduction, TLAPS

\* A set of naturals that has a member has a least one.
LEMMA LeastMember ==
  ASSUME NEW S, S \subseteq Nat, S # {}
  PROVE  Min(S) \in S /\ \A y \in S : Min(S) <= y
<1> DEFINE Least(x) == \A y \in S : x <= y
<1>1. PICK x \in S : \A y \in S : ~(<<y, x>> \in OpToRel(<, Nat))
  BY WFMin, NatLessThanWellFounded
<1>2. \A y \in S : ~(y < x)
  BY <1>1 DEF OpToRel
<1>3. Least(x)
  BY <1>2
<1>4. Min(S) = CHOOSE m \in S : Least(m)
  BY DEF Min
<1> HIDE DEF Least
<1>5. Min(S) \in S /\ Least(Min(S))
  BY <1>3, <1>4
<1> QED BY <1>5 DEF Least

\* A set of naturals that has a member and a bound has a greatest one.
LEMMA GreatestMember ==
  ASSUME NEW S, NEW n \in Nat, S \subseteq 0..n, S # {}
  PROVE  Max(S) \in S /\ \A y \in S : y <= Max(S)
<1> DEFINE T == {n - x : x \in S}
           Greatest(x) == \A y \in S : x >= y
<1>1. T \subseteq Nat /\ T # {}
  <2>1. \A x \in S : n - x \in Nat
    <3>1. \A x \in S : x \in 0..n
      OBVIOUS
    <3> QED BY <3>1
  <2> QED BY <2>1
<1>2. PICK x \in S : Min(T) = n - x
  <2>1. Min(T) \in T
    <3> HIDE DEF T
    <3> QED BY <1>1, LeastMember
  <2> QED BY <2>1
<1>3. \A y \in S : Min(T) <= n - y
  <2>1. \A z \in T : Min(T) <= z
    <3> HIDE DEF T
    <3> QED BY <1>1, LeastMember
  <2> QED BY <2>1
<1> HIDE DEF T
<1>4. \A y \in S : x >= y
  <2> TAKE y \in S
  <2>1. n - x <= n - y /\ x \in Nat /\ y \in Nat
    BY <1>2, <1>3
  <2> QED BY <2>1
<1>5. Max(S) = CHOOSE m \in S : Greatest(m)
  BY DEF Max
<1>6. Greatest(x)
  BY <1>4
<1> HIDE DEF Greatest
<1>7. Max(S) \in S /\ Greatest(Max(S))
  BY <1>5, <1>6
<1>8. \A y \in S : Max(S) >= y
  BY <1>7 DEF Greatest
<1> QED
  <2>1. \A y \in S : y \in Nat
    OBVIOUS
  <2> QED BY <1>7, <1>8, <2>1
=============================================================================
