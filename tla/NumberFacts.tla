------------------------------ MODULE NumberFacts ------------------------------
(***************************************************************************)
(* Least elements and induction, stated with sets of numbers instead of    *)
(* predicates, for the theorems about urls and command lines.              *)
(***************************************************************************)
EXTENDS Integers, FiniteSetTheorems, TLAPS

(* A nonempty set of natural numbers has a least element.                  *)
LEMMA LeastNumber ==
  ASSUME NEW S \in SUBSET Nat, S # {}
  PROVE  \E m \in S : \A k \in S : m <= k
<1> DEFINE R == {pair \in Nat \X Nat : pair[1] < pair[2]}
<1>1. IsWellFoundedOn(R, Nat)
  BY NatLessThanWellFounded DEF OpToRel
<1> HIDE DEF R
<1>2. \E m \in S : \A k \in S : <<k, m>> \notin R
  BY <1>1, WFMin
<1>3. \A k, m \in Nat : <<k, m>> \notin R => m <= k
  BY DEF R
<1> QED  BY <1>2, <1>3

(* A set with a, and with k + 1 for each of its k below b, has a..b.       *)
LEMMA SetInduction ==
  ASSUME NEW S, NEW a \in Nat, NEW b \in Nat, a \in S,
         \A k \in a..b : k \in S /\ k < b => k + 1 \in S
  PROVE  a..b \subseteq S
<1> SUFFICES ASSUME (a..b) \ S # {} PROVE FALSE
  OBVIOUS
<1>1. PICK m \in (a..b) \ S : \A k \in (a..b) \ S : m <= k
  <2>1. (a..b) \ S \in SUBSET Nat
    OBVIOUS
  <2> QED  BY <2>1, LeastNumber
<1>2. m # a /\ m - 1 \in a..b
  BY <1>1
<1>3. m - 1 \in S
  BY <1>1, <1>2
<1> QED  BY <1>1, <1>2, <1>3
=============================================================================
