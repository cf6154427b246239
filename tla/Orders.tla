------------------------------- MODULE Orders -------------------------------
(***************************************************************************)
(* Least elements, largest elements and enumerations in order: the facts   *)
(* about finite sets that the proofs about the server's log need.          *)
(*                                                                         *)
(* The library's induction principles take a predicate as a parameter;     *)
(* here an induction is a set of counterexamples with its least element.   *)
(***************************************************************************)
EXTENDS Integers, Sequences, FiniteSetTheorems, WellFoundedInduction, TLAPS

(* Every non-empty set of naturals has a least element. *)
LEMMA LeastNatural ==
    ASSUME NEW T \in SUBSET Nat, T # {}
    PROVE  \E x \in T : \A y \in T : x <= y
  <1> DEFINE R == OpToRel(<, Nat)
  <1>1. R = {ss \in Nat \X Nat : ss[1] < ss[2]}
    BY DEF OpToRel
  <1>2. IsWellFoundedOn(R, Nat)
    BY NatLessThanWellFounded
  <1> HIDE DEF R
  <1>3. PICK x \in T : \A y \in T : ~(<<y, x>> \in R)
    BY <1>2, WFMin
  <1>4. ASSUME NEW y \in T PROVE x <= y
    <2>1. x \in Nat /\ y \in Nat /\ ~(<<y, x>> \in R)
      BY <1>3
    <2> QED BY <2>1, <1>1
  <1> QED BY <1>4

(* A bounded set of naturals has a largest element. *)
LEMMA LargestNatural ==
    ASSUME NEW T \in SUBSET Nat, T # {}, NEW n \in Nat, \A y \in T : y <= n
    PROVE  \E x \in T : \A y \in T : y <= x
  <1> DEFINE B == {b \in Nat : \A y \in T : y <= b}
  <1>1. PICK b \in B : \A c \in B : b <= c
    BY LeastNatural
  <1>2. CASE b \in T
    BY <1>1, <1>2
  <1>3. CASE b \notin T
    <2>1. \A y \in T : y < b
      BY <1>1, <1>3
    <2>2. PICK y0 \in T : TRUE
      OBVIOUS
    <2>3. b \in Nat /\ b # 0 /\ b - 1 \in Nat
      BY <1>1, <2>1, <2>2
    <2>4. \A y \in T : y <= b - 1
      BY <2>1, <2>3
    <2>5. b - 1 \in B
      BY <2>3, <2>4
    <2> QED BY <1>1, <2>3, <2>5
  <1> QED BY <1>2, <1>3

-----------------------------------------------------------------------------
(* Any two elements of S are ordered by R. *)
Linear(S, R) ==
    /\ \A x, y \in S : x # y => <<x, y>> \in R \/ <<y, x>> \in R
    /\ \A x, y, z \in S : <<x, y>> \in R /\ <<y, z>> \in R => <<x, z>> \in R

Irreflexive(S, R) == \A x \in S : <<x, x>> \notin R

Enumerates(q, S, R) ==
    /\ q \in [1..Cardinality(S) -> S]
    /\ \A i, j \in 1..Cardinality(S) : i < j => <<q[i], q[j]>> \in R

Covers(q, S) == \A x \in S : \E i \in 1..Cardinality(S) : q[i] = x

(* A finite ordered set has a last element. *)
LEMMA LastElement ==
    ASSUME NEW U, NEW R, IsFiniteSet(U), U # {}, Linear(U, R)
    PROVE  \E m \in U : \A y \in U \ {m} : <<y, m>> \in R
  <1> DEFINE Bad(S) == S # {} /\ ~\E m \in S : \A y \in S \ {m} : <<y, m>> \in R
             T == {n \in Nat : \E S \in SUBSET U : Cardinality(S) = n /\ Bad(S)}
  <1> SUFFICES ASSUME T # {} PROVE FALSE
    <2>1. Cardinality(U) \in Nat
      BY FS_CardinalityType
    <2> QED BY <2>1
  <1>1. PICK n \in T : \A k \in T : n <= k
    BY LeastNatural
  <1>2. PICK S \in SUBSET U : Cardinality(S) = n /\ Bad(S)
    BY <1>1
  <1>3. IsFiniteSet(S)
    BY FS_Subset
  <1>4. PICK x \in S : TRUE
    BY <1>2
  <1> DEFINE S0 == S \ {x}
  <1>5. Cardinality(S0) = n - 1 /\ n - 1 \in Nat /\ IsFiniteSet(S0)
    <2>1. Cardinality(S0) = n - 1 /\ IsFiniteSet(S0)
      BY <1>2, <1>3, <1>4, FS_RemoveElement
    <2>2. Cardinality(S0) \in Nat
      BY <2>1, FS_CardinalityType
    <2> QED BY <2>1, <2>2
  <1>6. ~Bad(S0)
    <2>1. n - 1 \notin T
      BY <1>1, <1>5
    <2> QED BY <2>1, <1>5
  <1>7. CASE S0 = {}
    BY <1>2, <1>4, <1>7
  <1>8. CASE S0 # {}
    <2>1. PICK m \in S0 : \A y \in S0 \ {m} : <<y, m>> \in R
      BY <1>6, <1>8
    <2>2. CASE <<x, m>> \in R
      BY <1>2, <1>4, <2>1, <2>2
    <2>3. CASE <<m, x>> \in R
      <3>1. ASSUME NEW y \in S \ {x} PROVE <<y, x>> \in R
        BY <1>4, <2>1, <2>3 DEF Linear
      <3> QED BY <1>2, <1>4, <3>1
    <2> QED BY <1>4, <2>1, <2>2, <2>3 DEF Linear
  <1> QED BY <1>7, <1>8

(* A finite ordered set can be listed in its order. *)
LEMMA Enumeration ==
    ASSUME NEW U, NEW R, IsFiniteSet(U), Linear(U, R)
    PROVE  \E q : Enumerates(q, U, R)
  <1> DEFINE T == {n \in Nat : \E S \in SUBSET U : Cardinality(S) = n /\ ~\E q : Enumerates(q, S, R)}
  <1> SUFFICES ASSUME T # {} PROVE FALSE
    <2>1. Cardinality(U) \in Nat
      BY FS_CardinalityType
    <2> QED BY <2>1
  <1>1. PICK n \in T : \A k \in T : n <= k
    BY LeastNatural
  <1>2. PICK S \in SUBSET U : Cardinality(S) = n /\ ~\E q : Enumerates(q, S, R)
    BY <1>1
  <1>3. IsFiniteSet(S)
    BY FS_Subset
  <1>4. S # {}
    <2> SUFFICES ASSUME S = {} PROVE FALSE
      OBVIOUS
    <2>1. Cardinality(S) = 0
      BY FS_EmptySet
    <2>2. Enumerates(<<>>, S, R)
      BY <2>1 DEF Enumerates
    <2> QED BY <1>2, <2>2
  <1>5. PICK m \in S : \A y \in S \ {m} : <<y, m>> \in R
    <2>1. Linear(S, R)
      BY DEF Linear
    <2> QED BY <1>3, <1>4, <2>1, LastElement
  <1> DEFINE S0 == S \ {m}
             k == Cardinality(S0)
  <1>6. k = n - 1 /\ k \in Nat
    <2>1. k = n - 1 /\ IsFiniteSet(S0)
      BY <1>2, <1>3, <1>5, FS_RemoveElement
    <2>2. k \in Nat
      BY <2>1, FS_CardinalityType
    <2> QED BY <2>1, <2>2
  <1>7. PICK q : Enumerates(q, S0, R)
    <2>1. n - 1 \notin T
      BY <1>1, <1>6
    <2> QED BY <2>1, <1>6
  <1>8. q \in [1..k -> S0] /\ \A i, j \in 1..k : i < j => <<q[i], q[j]>> \in R
    BY <1>7 DEF Enumerates
  <1>9. PICK p : p = [i \in 1..n |-> IF i = n THEN m ELSE q[i]]
    OBVIOUS
  <1> HIDE DEF k
  <1>10. p \in [1..n -> S]
    BY <1>5, <1>6, <1>8, <1>9
  <1>11. ASSUME NEW i \in 1..n, NEW j \in 1..n, i < j PROVE <<p[i], p[j]>> \in R
    <2>1. i \in 1..k /\ p[i] = q[i] /\ q[i] \in S0
      BY <1>6, <1>8, <1>9, <1>11
    <2>2. CASE j = n
      BY <1>5, <1>9, <2>1, <2>2
    <2>3. CASE j # n
      BY <1>6, <1>8, <1>9, <1>11, <2>1, <2>3
    <2> QED BY <2>2, <2>3
  <1>12. Enumerates(p, S, R)
    BY <1>2, <1>10, <1>11 DEF Enumerates
  <1> QED BY <1>2, <1>12

(* An enumeration lists every element. *)
LEMMA EnumerationCovers ==
    ASSUME NEW S, NEW R, NEW q, IsFiniteSet(S), Enumerates(q, S, R), Irreflexive(S, R)
    PROVE  Covers(q, S)
  <1> DEFINE n == Cardinality(S)
  <1>1. n \in Nat
    BY FS_CardinalityType
  <1>2. IsFiniteSet(1..n) /\ Cardinality(1..n) = n
    BY <1>1, FS_Interval
  <1> HIDE DEF n
  <1>3. q \in [1..n -> S] /\ \A i, j \in 1..n : i < j => <<q[i], q[j]>> \in R
    BY DEF Enumerates, n
  <1>4. ASSUME NEW i \in 1..n, NEW j \in 1..n, q[i] = q[j] PROVE i = j
    <2>1. q[i] \in S
      BY <1>3
    <2>2. ~(i < j) /\ ~(j < i)
      BY <1>3, <1>4, <2>1 DEF Irreflexive
    <2> QED BY <1>1, <2>2
  <1>5. q \in Injection(1..n, S)
    BY <1>3, <1>4 DEF Injection, IsInjective
  <1>6. q \in Surjection(1..n, S)
    BY <1>2, <1>5, FS_Injection DEF n
  <1> QED BY <1>6 DEF Surjection, Covers, n

(* The element at place k of an enumeration has k - 1 others before it. *)
LEMMA EnumerationRank ==
    ASSUME NEW S, NEW R, NEW q, IsFiniteSet(S), Linear(S, R), Irreflexive(S, R), Enumerates(q, S, R),
           NEW k \in 1..Cardinality(S)
    PROVE  Cardinality({x \in S : <<x, q[k]>> \in R}) = k - 1
  <1>1. PICK n \in Nat : n = Cardinality(S)
    BY FS_CardinalityType
  <1>2. q \in [1..n -> S] /\ \A i, j \in 1..n : i < j => <<q[i], q[j]>> \in R
    BY <1>1 DEF Enumerates
  <1>3. \A x \in S : \E i \in 1..n : q[i] = x
    BY <1>1, EnumerationCovers DEF Covers
  <1>4. k \in 1..n /\ k - 1 \in Nat /\ q[k] \in S
    BY <1>1, <1>2
  <1>5. ASSUME NEW x \in S, NEW y \in S, <<x, y>> \in R PROVE <<y, x>> \notin R
    BY <1>5 DEF Linear, Irreflexive
  <1> DEFINE B == {x \in S : <<x, q[k]>> \in R}
             f == [i \in 1..(k - 1) |-> q[i]]
  <1>6. \A x \in B : \E i \in 1..(k - 1) : q[i] = x
    <2> SUFFICES ASSUME NEW x \in B PROVE \E i \in 1..(k - 1) : q[i] = x
      OBVIOUS
    <2>1. PICK i \in 1..n : q[i] = x
      BY <1>3
    <2>2. i # k
      BY <2>1, <1>4 DEF Irreflexive
    <2>3. ~(k < i)
      BY <1>2, <1>4, <1>5, <2>1
    <2> QED BY <1>4, <2>1, <2>2, <2>3
  <1>7. f \in [1..(k - 1) -> B]
    BY <1>2, <1>4
  <1>8. ASSUME NEW i \in 1..(k - 1), NEW j \in 1..(k - 1), f[i] = f[j] PROVE i = j
    <2>1. i \in 1..n /\ j \in 1..n /\ q[i] = q[j] /\ q[i] \in S
      BY <1>2, <1>4, <1>8
    <2>2. ~(i < j) /\ ~(j < i)
      BY <1>2, <2>1 DEF Irreflexive
    <2> QED BY <1>4, <2>2
  <1>9. f \in Injection(1..(k - 1), B)
    BY <1>7, <1>8 DEF Injection, IsInjective
  <1>10. f \in Surjection(1..(k - 1), B)
    BY <1>6, <1>7 DEF Surjection
  <1>11. IsFiniteSet(B)
    BY FS_Subset
  <1>12. Cardinality(1..(k - 1)) = k - 1
    BY <1>4, FS_Interval
  <1> HIDE DEF B, f
  <1>13. Cardinality(1..(k - 1)) = Cardinality(B)
    BY <1>9, <1>10, <1>11, FS_Injection
  <1> QED BY <1>12, <1>13 DEF B

-----------------------------------------------------------------------------
(* Increasing sequences of naturals *)

(* A finite set of naturals can be listed in increasing order. *)
LEMMA IncreasingExists ==
    ASSUME NEW S \in SUBSET Nat, IsFiniteSet(S)
    PROVE  \E q \in [1..Cardinality(S) -> S] :
            \A i, j \in 1..Cardinality(S) : i < j => q[i] < q[j]
  <1> DEFINE R == {ss \in S \X S : ss[1] < ss[2]}
  <1>1. \A x, y \in S : <<x, y>> \in R <=> x < y
    OBVIOUS
  <1> HIDE DEF R
  <1>2. Linear(S, R)
    BY <1>1 DEF Linear
  <1>3. PICK q : Enumerates(q, S, R)
    BY <1>2, Enumeration
  <1>4. q \in [1..Cardinality(S) -> S]
    BY <1>3 DEF Enumerates
  <1>5. \A i, j \in 1..Cardinality(S) : i < j => q[i] < q[j]
    BY <1>1, <1>3, <1>4 DEF Enumerates
  <1> QED BY <1>4, <1>5

(* Such a list has every element. *)
LEMMA IncreasingCovers ==
    ASSUME NEW S \in SUBSET Nat, IsFiniteSet(S), NEW q \in [1..Cardinality(S) -> S],
           \A i, j \in 1..Cardinality(S) : i < j => q[i] < q[j]
    PROVE  Covers(q, S)
  <1> DEFINE R == {ss \in S \X S : ss[1] < ss[2]}
  <1>1. \A x, y \in S : <<x, y>> \in R <=> x < y
    OBVIOUS
  <1> HIDE DEF R
  <1>2. Enumerates(q, S, R)
    BY <1>1 DEF Enumerates
  <1>3. Irreflexive(S, R)
    BY <1>1 DEF Irreflexive
  <1> QED BY <1>2, <1>3, EnumerationCovers

=============================================================================
