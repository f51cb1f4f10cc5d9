------------------------------ MODULE Induction ------------------------------
(***************************************************************************)
(* Induction over the natural numbers for a set instead of a predicate:    *)
(* the library's induction theorems take an operator, which the provers    *)
(* cannot instantiate; a set they can.  It rests on the least element of   *)
(* a nonempty set under a well-founded relation (WFMin).                   *)
(***************************************************************************)
EXTENDS Integers, WellFoundedInduction, TLAPS

\* A set of natural numbers that holds zero and every successor of its
\* elements holds them all.
LEMMA NatSetInduction ==
  ASSUME NEW T, T \subseteq Nat, 0 \in T, \A n \in T : n + 1 \in T
  PROVE  T = Nat
  <1> SUFFICES ASSUME T # Nat PROVE FALSE
    OBVIOUS
  <1> DEFINE missing == Nat \ T
             less == OpToRel(<, Nat)
  <1>1. missing \subseteq Nat /\ missing # {}
    OBVIOUS
  <1>2. PICK least \in missing : \A n \in missing : ~(<<n, least>> \in less)
    <2>1. IsWellFoundedOn(less, Nat)
      BY NatLessThanWellFounded
    <2> HIDE DEF missing, less
    <2> QED
      BY <1>1, <2>1, WFMin
  <1>3. \A n \in missing : ~(n < least)
    BY <1>2 DEF OpToRel
  <1>4. least \in Nat /\ least - 1 \in Nat
    OBVIOUS
  <1>5. least - 1 \in T
    BY <1>3, <1>4
  <1> QED
    BY <1>4, <1>5
=============================================================================
