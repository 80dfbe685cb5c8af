---------------------------- MODULE ExtremumTheorems ----------------------------
(***************************************************************************)
(* Least and greatest elements of sets of natural numbers and of finite     *)
(* sets with a measure, for the proofs of the other modules.                *)
(***************************************************************************)
EXTENDS Integers, FiniteSetTheorems, WellFoundedInduction, TLAPS

\* A set of natural numbers has a least element.
LEMMA LeastExists ==
  ASSUME NEW T \in SUBSET Nat, T # {}
  PROVE  \E m \in T : \A n \in T : m <= n
<1> DEFINE R == {ss \in Nat \X Nat : ss[1] < ss[2]}
<1>1. R = OpToRel(<, Nat)
  BY Zenon DEF OpToRel
<1>2. IsWellFoundedOn(R, Nat)
  BY <1>1, NatLessThanWellFounded, Zenon
<1>3. \E m \in T : \A n \in T : ~(<<n, m>> \in R)
  <2> HIDE DEF R
  <2> QED BY <1>2, WFMin
<1>4. PICK m \in T : \A n \in T : ~(<<n, m>> \in R)
  BY <1>3
<1>5. ASSUME NEW n \in T PROVE m <= n
  <2>1. n \in Nat /\ m \in Nat
    OBVIOUS
  <2>2. <<n, m>> \in Nat \X Nat /\ <<n, m>>[1] = n /\ <<n, m>>[2] = m
    BY <2>1
  <2>3. ~(n < m)
    BY <1>4, <2>2
  <2> QED BY <2>1, <2>3
<1> QED BY <1>5

\* A listing of numbers is bounded: of the lengths at which it is not, none is
\* the least.
LEMMA ListingIsBounded ==
  ASSUME NEW n \in Nat, NEW h \in [1..n -> Nat]
  PROVE  \E b \in Nat : \A i \in 1..n : h[i] <= b
<1> DEFINE Bounded(k) == \E b \in Nat : \A i \in 1..k : h[i] <= b
           T == {k \in 0..n : ~Bounded(k)}
<1>1. T \in SUBSET Nat
  OBVIOUS
<1>2. ASSUME NEW k \in 0..n, ~Bounded(k)
      PROVE  \E j \in 0..n : ~Bounded(j) /\ j < k
  <2>1. CASE k = 0
    <3>1. 0 \in Nat /\ 1..0 = {}
      OBVIOUS
    <3> QED BY <1>2, <2>1, <3>1
  <2>2. CASE k # 0
    <3>1. k \in Nat /\ k \in 1..n /\ k - 1 \in 0..n /\ k - 1 < k
      BY <2>2
    <3>2. SUFFICES ASSUME NEW b \in Nat, \A i \in 1..(k-1) : h[i] <= b PROVE FALSE
      BY <3>1
    <3>3. h[k] \in Nat
      BY <3>1
    <3>4. PICK c \in Nat : b <= c /\ h[k] <= c
      <4>1. b <= b + h[k] /\ h[k] <= b + h[k] /\ b + h[k] \in Nat
        BY <3>3
      <4> QED BY <4>1
    <3>5. ASSUME NEW i \in 1..k PROVE h[i] <= c
      <4>1. CASE i = k
        BY <3>4, <4>1
      <4>2. CASE i # k
        <5>1. i \in 1..(k-1) /\ i \in 1..n
          BY <3>1, <4>2
        <5>2. h[i] \in Nat /\ h[i] <= b
          BY <3>2, <5>1
        <5> QED BY <3>4, <5>2
      <4> QED BY <4>1, <4>2
    <3> QED BY <1>2, <3>5
  <2> QED BY <2>1, <2>2
<1> HIDE DEF Bounded
<1>3. T = {}
  <2> SUFFICES ASSUME T # {} PROVE FALSE
    OBVIOUS
  <2>1. \E k \in T : \A j \in T : k <= j
    <3> HIDE DEF T
    <3> QED BY <1>1, LeastExists
  <2>2. PICK k \in T : \A j \in T : k <= j
    BY <2>1
  <2>3. k \in 0..n /\ ~Bounded(k)
    OBVIOUS
  <2>4. PICK j \in 0..n : ~Bounded(j) /\ j < k
    BY <1>2, <2>3
  <2>5. j \in T
    BY <2>4
  <2>6. k <= j /\ j \in Nat /\ k \in Nat
    BY <2>2, <2>3, <2>5
  <2> QED BY <2>4, <2>6
<1>4. Bounded(n)
  BY <1>3
<1> QED BY <1>4 DEF Bounded

\* The elements of a finite set have a bounded measure.
LEMMA FiniteIsBounded ==
  ASSUME NEW S, IsFiniteSet(S), NEW f \in [S -> Nat]
  PROVE  \E b \in Nat : \A x \in S : f[x] <= b
<1>1. PICK n \in Nat : ExistsSurjection(1..n, S)
  BY FS_NatSurjection
<1>2. PICK g \in Surjection(1..n, S) : TRUE
  BY <1>1 DEF ExistsSurjection
<1>3. /\ g \in [1..n -> S]
      /\ \A x \in S : \E i \in 1..n : g[i] = x
  BY <1>2 DEF Surjection
<1> DEFINE h == [i \in 1..n |-> f[g[i]]]
<1>4. h \in [1..n -> Nat]
  BY <1>3
<1>5. PICK b \in Nat : \A i \in 1..n : h[i] <= b
  <2> HIDE DEF h
  <2> QED BY <1>4, ListingIsBounded
<1> QED BY <1>3, <1>5

\* A finite set has an element of greatest measure, and so has every part of it.
LEMMA GreatestExists ==
  ASSUME NEW S, IsFiniteSet(S), NEW f \in [S -> Nat],
         NEW A \in SUBSET S, A # {}
  PROVE  \E e \in A : \A x \in A : f[x] <= f[e]
<1>1. PICK b \in Nat : \A x \in S : f[x] <= b
  BY FiniteIsBounded
<1> DEFINE T == {b - f[x] : x \in A}
<1>2. T \in SUBSET Nat /\ T # {}
  BY <1>1
<1>3. PICK m \in T : \A n \in T : m <= n
  BY <1>2, LeastExists
<1>4. PICK e \in A : m = b - f[e]
  BY <1>3
<1>5. ASSUME NEW x \in A PROVE f[x] <= f[e]
  <2>1. f[x] \in Nat /\ f[e] \in Nat
    OBVIOUS
  <2>2. m <= b - f[x]
    BY <1>3
  <2> QED BY <1>4, <2>1, <2>2
<1> QED BY <1>5
=================================================================================
