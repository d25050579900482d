------------------------------ MODULE NatBounds ------------------------------
(* The least and the greatest element of a set of naturals. *)
EXTENDS Integers, WellFoundedInduction, TLAPS

\* A set of naturals that is not empty has a least element: it makes the
\* CHOOSE of a first entry, file or index well defined.
LEMMA LeastExists ==
    ASSUME NEW S, S \subseteq Nat, S # {}
    PROVE  \E x \in S : \A y \in S : x <= y
<1>  DEFINE R == OpToRel(<, Nat)
<1>1. IsWellFoundedOn(R, Nat)
      BY NatLessThanWellFounded
<1>2. \E x \in S : \A y \in S : ~(<<y, x>> \in R)
  <2>  HIDE DEF R
  <2>  QED BY <1>1, WFMin
<1>3. PICK x \in S : \A y \in S : ~(<<y, x>> \in R)
      BY <1>2
<1>4. ASSUME NEW y \in S, y < x PROVE FALSE
  <2>1. <<y, x>> \in Nat \X Nat
        OBVIOUS
  <2>2. <<y, x>> \in R
        BY <2>1, <1>4 DEF OpToRel
  <2>  QED BY <2>2, <1>3
<1>5. \A y \in S : x <= y
      BY <1>4
<1>  QED BY <1>5

\* A bounded set of naturals that is not empty has a greatest element.
LEMMA GreatestExists ==
    ASSUME NEW S, S \subseteq Nat, S # {}, NEW b \in Nat, \A x \in S : x <= b
    PROVE  \E x \in S : \A y \in S : x >= y
<1>  DEFINE T == {i \in Nat : \E x \in S : i = b - x}
<1>1. T \subseteq Nat /\ T # {}
  <2>1. PICK x \in S : TRUE
        OBVIOUS
  <2>2. b - x \in T
        BY <2>1
  <2>  QED BY <2>2
<1>2. PICK i \in T : \A j \in T : i <= j
      BY <1>1, LeastExists
<1>3. PICK x \in S : i = b - x
      BY <1>2
<1>4. ASSUME NEW y \in S PROVE x >= y
  <2>1. b - y \in T
        BY <1>4
  <2>  QED BY <2>1, <1>2, <1>3
<1>  QED BY <1>3, <1>4
==============================================================================
