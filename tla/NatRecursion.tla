---------------------------- MODULE NatRecursion ----------------------------
(***************************************************************************)
(* Induction over the naturals with sets in place of predicates, and what  *)
(* it gives for the doubling loops of the code (zeroYieldBackoff,          *)
(* byteBackoffIntervalFor, earlyGap), which the models write as recursive  *)
(* functions: a function that iterates another one exists.                 *)
(***************************************************************************)
EXTENDS Integers, WellFoundedInduction, TLAPS

\* A set of naturals has a least element.
LEMMA LeastElement ==
  ASSUME NEW T \in SUBSET Nat, T # {}
  PROVE  \E x \in T : \A y \in T : x <= y
<1>. DEFINE R == OpToRel(<, Nat)
<1>1. IsWellFoundedOn(R, Nat)
  BY NatLessThanWellFounded
<1>2. \A x, y \in Nat : x < y => <<x, y>> \in R
  BY DEF OpToRel
<1>. HIDE DEF R
<1>3. PICK x \in T : \A y \in T : ~ (<<y, x>> \in R)
  BY <1>1, WFMin
<1>4. ASSUME NEW y \in T PROVE x <= y
  <2>1. x \in Nat /\ y \in Nat
    OBVIOUS
  <2>2. ~ (y < x)
    BY <1>2, <1>3, <2>1
  <2>. QED  BY <2>1, <2>2
<1>. QED  BY <1>4

\* Induction: a set with 0 and every successor holds all naturals.
LEMMA SetInduction ==
  ASSUME NEW T, 0 \in T, \A n \in Nat : n \in T => n + 1 \in T
  PROVE  \A n \in Nat : n \in T
<1>. DEFINE U == Nat \ T
<1>. SUFFICES ASSUME U # {} PROVE FALSE
  OBVIOUS
<1>1. PICK x \in U : \A y \in U : x <= y
  BY LeastElement
<1>2. x # 0 /\ x - 1 \in Nat /\ x - 1 \notin U
  BY <1>1
<1>3. x - 1 \in T
  BY <1>2
<1>4. (x - 1) + 1 \in T
  BY <1>2, <1>3
<1>. QED  BY <1>1, <1>4

\* h is the first n values of iterating F from f0.
Iterates(h, f0, F, n) ==
  h \in [0 .. n -> Nat] /\ h[0] = f0 /\ \A i \in 1 .. n : h[i] = F[h[i - 1]]

\* There are such values for every n,
LEMMA IterationExists ==
  ASSUME NEW f0 \in Nat, NEW F \in [Nat -> Nat]
  PROVE  \A n \in Nat : \E h : Iterates(h, f0, F, n)
<1>. DEFINE T == {n \in Nat : \E h : Iterates(h, f0, F, n)}
<1>1. 0 \in T
  <2>1. Iterates([i \in 0 .. 0 |-> f0], f0, F, 0)
    BY DEF Iterates
  <2>. QED  BY <2>1
<1>2. ASSUME NEW n \in Nat, n \in T PROVE n + 1 \in T
  <2>1. PICK h : Iterates(h, f0, F, n)
    BY <1>2
  <2>. DEFINE g == [i \in 0 .. n + 1 |-> IF i = n + 1 THEN F[h[n]] ELSE h[i]]
  <2>a. /\ h \in [0 .. n -> Nat] /\ h[0] = f0 /\ F[h[n]] \in Nat
        /\ \A i \in 1 .. n : h[i] = F[h[i - 1]]
    BY SMTT(30), <2>1 DEF Iterates
  <2>b. ASSUME NEW i \in 0 .. n + 1 PROVE g[i] \in Nat
    <3>1. i = n + 1 \/ i \in 0 .. n
      OBVIOUS
    <3>. QED  BY <2>a, <3>1
  <2>c. g[0] = f0
    <3>1. 0 \in 0 .. n + 1 /\ 0 # n + 1
      OBVIOUS
    <3>2. g[0] = h[0]
      BY <3>1
    <3>. QED  BY <2>a, <3>2
  <2>d. g \in [0 .. n + 1 -> Nat]
    BY <2>b
  <2>2. g \in [0 .. n + 1 -> Nat] /\ g[0] = f0
    BY <2>c, <2>d
  <2>3. ASSUME NEW i \in 1 .. n + 1 PROVE g[i] = F[g[i - 1]]
    <3>1. CASE i = n + 1
      BY <3>1
    <3>2. CASE i # n + 1
      <4>1. i \in 1 .. n /\ i - 1 \in 0 .. n /\ i - 1 # n + 1
        BY <3>2
      <4>2. h[i] = F[h[i - 1]]
        BY <2>a, <4>1
      <4>3. i \in 0 .. n + 1 /\ i - 1 \in 0 .. n + 1
        OBVIOUS
      <4>4. g[i] = h[i] /\ g[i - 1] = h[i - 1]
        BY <3>2, <4>1, <4>3
      <4>. QED  BY <4>2, <4>4
    <3>. QED  BY <3>1, <3>2
  <2>4. Iterates(g, f0, F, n + 1)
    BY <2>2, <2>3 DEF Iterates
  <2>. QED  BY <2>4
<1>. HIDE DEF T
<1>3. \A n \in Nat : n \in T
  BY <1>1, <1>2, SetInduction
<1>. QED  BY <1>3 DEF T

\* and more of them agree with fewer,
LEMMA IterationUnique ==
  ASSUME NEW f0 \in Nat, NEW F \in [Nat -> Nat], NEW n \in Nat, NEW g, Iterates(g, f0, F, n),
         NEW h, Iterates(h, f0, F, n + 1)
  PROVE  \A i \in 0 .. n : g[i] = h[i]
<1>. DEFINE T == {i \in Nat : i <= n => g[i] = h[i]}
<1>1. 0 \in T
  BY DEF Iterates
<1>2. ASSUME NEW i \in Nat, i \in T PROVE i + 1 \in T
  <2>. SUFFICES ASSUME i + 1 <= n PROVE g[i + 1] = h[i + 1]
    OBVIOUS
  <2>1. i + 1 \in 1 .. n /\ i + 1 \in 1 .. n + 1 /\ (i + 1) - 1 = i /\ g[i] = h[i]
    BY <1>2
  <2>. QED  BY <2>1 DEF Iterates
<1>. HIDE DEF T
<1>3. \A i \in Nat : i \in T
  BY <1>1, <1>2, SetInduction
<1>. QED  BY <1>3 DEF T

\* so that the recursive definition of the iteration defines a function.
LEMMA Recursion ==
  ASSUME NEW f0 \in Nat, NEW F \in [Nat -> Nat]
  PROVE  \E f : f \in [Nat -> Nat] /\ f = [n \in Nat |-> IF n = 0 THEN f0 ELSE F[f[n - 1]]]
<1>. DEFINE H(n) == CHOOSE h : Iterates(h, f0, F, n)
            f == [n \in Nat |-> H(n)[n]]
<1>1. \A n \in Nat : Iterates(H(n), f0, F, n)
  BY IterationExists
<1>. HIDE DEF H
<1>2. f \in [Nat -> Nat]
  BY <1>1 DEF Iterates
<1>3. f[0] = f0
  BY <1>1 DEF Iterates
<1>4. ASSUME NEW n \in Nat \ {0} PROVE f[n] = F[f[n - 1]]
  <2>1. n - 1 \in Nat /\ (n - 1) + 1 = n
    OBVIOUS
  <2>2. Iterates(H(n), f0, F, n) /\ Iterates(H(n - 1), f0, F, n - 1)
    BY <1>1, <2>1
  <2>3. H(n)[n] = F[H(n)[n - 1]]
    BY <2>2 DEF Iterates
  <2>4. H(n - 1)[n - 1] = H(n)[n - 1]
    BY <2>1, <2>2, IterationUnique
  <2>. QED  BY <2>1, <2>3, <2>4
<1>5. \A n \in Nat : f[n] = IF n = 0 THEN f0 ELSE F[f[n - 1]]
  BY <1>3, <1>4
<1>. HIDE DEF f
<1>6. f = [n \in Nat |-> IF n = 0 THEN f0 ELSE F[f[n - 1]]]
  BY <1>2, <1>5
<1>. QED  BY <1>2, <1>6
=============================================================================
