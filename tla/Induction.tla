------------------------------ MODULE Induction ------------------------------
(***************************************************************************)
(* Induction over the natural numbers for a set instead of a predicate:    *)
(* the theorems of the library take the predicate as a parameter, which    *)
(* only a higher-order prover can instantiate.  What a recursive function  *)
(* computes for every input follows from it.                               *)
(***************************************************************************)
EXTENDS Integers, WellFoundedInduction, TLAPS

(* A nonempty set of natural numbers has a smallest member: the order of the  *)
(* natural numbers is well founded.                                           *)
LEMMA SmallestMember ==
  ASSUME NEW S, S \subseteq Nat, S # {}
  PROVE  \E m \in S : \A k \in S : m <= k
<1> DEFINE R == OpToRel(<, Nat)
<1>1. \E x \in S : \A y \in S : ~(<<y, x>> \in R)
  BY NatLessThanWellFounded, WFMin
<1>2. R = {ss \in Nat \X Nat : ss[1] < ss[2]}
  BY Zenon DEF OpToRel
<1>3. \A y, x \in Nat : y < x => <<y, x>> \in R
  BY <1>2
<1> HIDE DEF R
<1>4. PICK m \in S : \A k \in S : ~(<<k, m>> \in R)
  BY <1>1
<1>5. ASSUME NEW k \in S
      PROVE  m <= k
  <2>1. ~(k < m) /\ k \in Nat /\ m \in Nat
    BY <1>3, <1>4, <1>5
  <2> QED
    BY <2>1
<1> QED
  BY <1>5

(* A set with 0 that has the successor of each natural number in it has all   *)
(* natural numbers.                                                           *)
LEMMA SuccessorInduction ==
  ASSUME NEW T, 0 \in T, \A i \in Nat : i \in T => i + 1 \in T
  PROVE  Nat \subseteq T
<1> SUFFICES ASSUME Nat \ T # {}
             PROVE  FALSE
  OBVIOUS
<1>1. PICK m \in Nat \ T : \A k \in Nat \ T : m <= k
  BY SmallestMember
<1>2. m # 0 /\ m - 1 \in Nat /\ m - 1 \in T
  BY <1>1
<1> QED
  BY <1>1, <1>2

(* A set that has each natural number whose predecessors it all has.          *)
LEMMA CompleteInduction ==
  ASSUME NEW T, \A i \in Nat : (\A k \in Nat : k < i => k \in T) => i \in T
  PROVE  Nat \subseteq T
<1> SUFFICES ASSUME Nat \ T # {}
             PROVE  FALSE
  OBVIOUS
<1>1. PICK m \in Nat \ T : \A k \in Nat \ T : m <= k
  BY SmallestMember
<1>2. \A k \in Nat : k < m => k \in T
  BY <1>1
<1> QED
  BY <1>1, <1>2
=============================================================================
