----------------------------- MODULE CommonLemmas -----------------------------
(***************************************************************************)
(* Facts the other proofs share.  About places in a hash table, for the    *)
(* tables of logics of net/corelogic.c and net/logic_store.cpp: a handle   *)
(* goes to the place handle % size, a search from any handle on passes     *)
(* every place, and a place splits in two when the table doubles.  About   *)
(* the size of a set of threads, for counters.                             *)
(***************************************************************************)
EXTENDS Integers, FiniteSetTheorems, WellFoundedInduction, TLAPS

(* Division with remainder. *)
LEMMA ModDef ==
    ASSUME NEW n \in Nat \ {0}, NEW i \in Nat
    PROVE  i % n \in 0 .. n - 1 /\ i \div n \in Nat /\ i = (i \div n) * n + (i % n)
BY Z3

LEMMA ModAdd ==
    ASSUME NEW n \in Nat \ {0}, NEW q \in Nat, NEW k \in 0 .. n - 1
    PROVE  (q * n + k) % n = k
BY Z3

LEMMA ModSmall ==
    ASSUME NEW n \in Nat \ {0}, NEW k \in 0 .. n - 1
    PROVE  k % n = k
BY Z3

(* The place in the doubled table determines the place in the old one.     *)
LEMMA ModDouble ==
    ASSUME NEW n \in Nat \ {0}, NEW i \in Nat
    PROVE  (i % (2 * n)) % n = i % n
<1> DEFINE r == i % (2 * n)
           q == i \div (2 * n)
           p == r \div n
<1>1. 2 * n \in Nat \ {0}
  OBVIOUS
<1>2. r \in Nat /\ q \in Nat /\ i = q * (2 * n) + r
  <2>1. \A m \in Nat \ {0} : i % m \in 0 .. m - 1 /\ i \div m \in Nat /\ i = (i \div m) * m + (i % m)
    BY ModDef
  <2>2. r \in 0 .. 2 * n - 1 /\ q \in Nat /\ i = q * (2 * n) + r
    BY <1>1, <2>1
  <2>3. QED  BY <2>2
<1>3. r % n \in 0 .. n - 1 /\ p \in Nat /\ r = p * n + (r % n)
  BY <1>2, ModDef
<1> HIDE DEF r, q, p
<1>4. i = (2 * q + p) * n + (r % n) /\ 2 * q + p \in Nat
  BY <1>2, <1>3, Z3
<1>5. i % n = r % n
  BY <1>3, <1>4, ModAdd
<1>6. QED  BY <1>5 DEF r

(* n handles in a row pass every one of n places. *)
LEMMA EveryPlacePassed ==
    ASSUME NEW n \in Nat \ {0}, NEW a \in Nat, NEW k \in 0 .. n - 1
    PROVE  \E i \in 0 .. n - 1 : (i + a) % n = k
<1> DEFINE q == a \div n
           r == a % n
<1>1. r \in 0 .. n - 1 /\ q \in Nat /\ a = q * n + r
  BY ModDef
<1> HIDE DEF q, r
<1>2. CASE k >= r
  <2>1. (k - r) + a = q * n + k /\ k - r \in 0 .. n - 1
    BY <1>1, <1>2
  <2>2. QED  BY <2>1, <1>1, ModAdd
<1>3. CASE k < r
  <2>1. (k - r + n) + a = (q + 1) * n + k /\ k - r + n \in 0 .. n - 1 /\ q + 1 \in Nat
    BY <1>1, <1>3, Z3
  <2>2. ((q + 1) * n + k) % n = k
    BY <2>1, ModAdd
  <2>3. QED  BY <2>1, <2>2
<1>4. QED  BY <1>1, <1>2, <1>3

(* A set of natural numbers that is not empty has a least element. *)
LEMMA LeastNatural ==
    ASSUME NEW T \in SUBSET Nat, T # {}
    PROVE  \E x \in T : \A y \in T : x <= y
<1> DEFINE R == OpToRel(<, Nat)
<1>0. IsWellFoundedOn(R, Nat)
  BY NatLessThanWellFounded, Zenon
<1> HIDE DEF R
<1>1. PICK x \in T : \A y \in T : ~(<<y, x>> \in R)
  BY <1>0, WFMin
<1>2. \A y \in T : ~(y < x)
  BY <1>1 DEF R, OpToRel
<1>3. QED  BY <1>2

(* How the size of a set changes when at most one element comes or goes.   *)
LEMMA OneChanges ==
  ASSUME NEW S, NEW R, NEW t, IsFiniteSet(S), R \ {t} = S \ {t}
  PROVE  /\ IsFiniteSet(R) /\ Cardinality(S) \in Nat /\ Cardinality(R) \in Nat
         /\ t \in S /\ t \in R => Cardinality(R) = Cardinality(S)
         /\ t \notin S /\ t \notin R => Cardinality(R) = Cardinality(S)
         /\ t \in S /\ t \notin R => Cardinality(R) = Cardinality(S) - 1
         /\ t \notin S /\ t \in R => Cardinality(R) = Cardinality(S) + 1
<1>1. CASE t \in S /\ t \in R
  <2>1. R = S
    BY <1>1
  <2> QED
    BY <1>1, <2>1, FS_CardinalityType
<1>2. CASE t \notin S /\ t \notin R
  <2>1. R = S
    BY <1>2
  <2> QED
    BY <1>2, <2>1, FS_CardinalityType
<1>3. CASE t \in S /\ t \notin R
  <2>1. R = S \ {t}
    BY <1>3
  <2> QED
    BY <1>3, <2>1, FS_RemoveElement, FS_CardinalityType
<1>4. CASE t \notin S /\ t \in R
  <2>1. R = S \cup {t}
    BY <1>4
  <2> QED
    BY <1>4, <2>1, FS_AddElement, FS_CardinalityType
<1> QED
  BY <1>1, <1>2, <1>3, <1>4
===============================================================================
