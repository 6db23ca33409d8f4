---------------------------- MODULE LeastElement ----------------------------
(* Every non-empty set of natural numbers has a least element.             *)
EXTENDS Naturals, WellFoundedInduction, TLAPS

\* The well-order of Nat, in the form in which proofs by contradiction use it.
THEOREM Least ==
  ASSUME NEW T, T \subseteq Nat, T # {}
  PROVE  \E x \in T : \A y \in T : x <= y
<1> DEFINE R == OpToRel(<, Nat)
<1>1. IsWellFoundedOn(R, Nat)
  BY NatLessThanWellFounded
<1>2. \A y \in T, x \in T : y < x => <<y, x>> \in R
  BY DEF OpToRel
<1> HIDE DEF R
<1>3. PICK x \in T : \A y \in T : ~(<<y, x>> \in R)
  BY <1>1, WFMin
<1>4. \A y \in T : ~(y < x)
  BY <1>2, <1>3
<1> QED
  BY <1>4
=============================================================================
