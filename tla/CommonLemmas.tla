---------------------------- MODULE CommonLemmas ----------------------------
(***************************************************************************)
(* Facts about numbers that the proofs of several components need.         *)
(***************************************************************************)
EXTENDS Integers, WellFoundedInduction, TLAPS

(***************************************************************************)
(* A set of natural numbers that is not empty has a least element.         *)
(***************************************************************************)
LEMMA Least ==
  ASSUME NEW T, T \subseteq Nat, T # {}
  PROVE  \E x \in T : \A y \in T : x <= y
<1> DEFINE Smaller == {ss \in Nat \X Nat : ss[1] < ss[2]}
<1>1. IsWellFoundedOn(Smaller, Nat)
  BY NatLessThanWellFounded, Zenon DEF OpToRel
<1>2. PICK x \in T : \A y \in T : <<y, x>> \notin Smaller
  BY <1>1, WFMin, Zenon
<1>3. ASSUME NEW y \in T
      PROVE  x <= y
  <2>1. x \in Nat /\ y \in Nat
    OBVIOUS
  <2>2. ~(y < x)
    BY <1>2, <2>1
  <2>3. QED
    BY <2>1, <2>2
<1>4. QED
  BY <1>3

(***************************************************************************)
(* Induction up to n: what holds of 0 and passes from i - 1 to i holds of  *)
(* all the numbers up to n.                                                *)
(***************************************************************************)
LEMMA Induction ==
  ASSUME NEW n \in Nat, NEW T, 0 \in T, \A i \in 1 .. n : i - 1 \in T => i \in T
  PROVE  \A i \in 0 .. n : i \in T
<1> DEFINE Out == {i \in 0 .. n : i \notin T}
<1>1. SUFFICES ASSUME Out # {}
               PROVE  FALSE
  OBVIOUS
<1>2. PICK m \in Out : \A i \in Out : m <= i
  <2>1. Out \subseteq Nat
    OBVIOUS
  <2>2. QED
    BY <1>1, <2>1, Least
<1>3. m \in 0 .. n /\ m \notin T
  OBVIOUS
<1>4. m \in 1 .. n /\ m - 1 \in 0 .. n
  BY <1>3
<1>5. m - 1 \notin Out
  BY <1>2, <1>4
<1>6. QED
  BY <1>3, <1>4, <1>5

(***************************************************************************)
(* The remainder of a number that goes at most once around a ring.         *)
(***************************************************************************)
LEMMA Wrap ==
  ASSUME NEW N \in Nat, N > 0, NEW a \in Nat, NEW b \in Nat, a + b < 2 * N
  PROVE  (a + b) % N = IF a + b < N THEN a + b ELSE a + b - N
<1>1. CASE a + b < N
  BY <1>1
<1>2. CASE a + b >= N
  BY <1>2
<1>3. QED
  BY <1>1, <1>2
=============================================================================
