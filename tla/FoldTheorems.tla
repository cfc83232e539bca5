------------------------------ MODULE FoldTheorems ------------------------------
(***************************************************************************)
(* Facts about recursion on data that the proofs of the other modules use: *)
(* least elements, sums over a set.  Induction is done by contradiction:   *)
(* of the numbers (or sizes) for which a claim fails, one is the least.    *)
(***************************************************************************)
EXTENDS Integers, FiniteSets, FiniteSetsExt, FiniteSetTheorems, WellFoundedInduction, TLAPS

\* Some number of a set is the least.
LEMMA LeastNat ==
    ASSUME NEW S \in SUBSET Nat, S # {}
    PROVE  \E x \in S : \A y \in S : x <= y
  <1>. DEFINE less == {ss \in Nat \X Nat : ss[1] < ss[2]}
  <1>1. IsWellFoundedOn(less, Nat)
    BY NatLessThanWellFounded, Zenon DEF OpToRel
  <1>2. PICK x \in S : \A y \in S : <<y, x>> \notin less
    <2>. HIDE DEF less
    <2>. QED
      BY <1>1, WFMin
  <1>3. ASSUME NEW y \in S
        PROVE  x <= y
    <2>1. x \in Nat /\ y \in Nat
      OBVIOUS
    <2>2. CASE y < x
      <3>1. <<y, x>> \in less
        BY <2>1, <2>2
      <3>. QED
        BY <1>2, <3>1
    <2>. QED
      BY <2>1, <2>2
  <1>. QED
    BY <1>3

\* Of the subsets of a finite set that have a property, one is the smallest.
LEMMA SmallestSet ==
    ASSUME NEW S, IsFiniteSet(S), NEW B \in SUBSET (SUBSET S), B # {}
    PROVE  \E s \in B : \A t \in B : Cardinality(s) <= Cardinality(t)
  <1>1. \A s \in B : Cardinality(s) \in Nat
    BY FS_Subset, FS_CardinalityType
  <1>. DEFINE sizes == {Cardinality(s) : s \in B}
  <1>2. sizes \in SUBSET Nat /\ sizes # {}
    BY <1>1
  <1>3. PICK n \in sizes : \A m \in sizes : n <= m
    <2>. HIDE DEF sizes
    <2>. QED
      BY <1>2, LeastNat
  <1>. QED
    BY <1>3

-----------------------------------------------------------------------------
(* Sums *)

\* The sum of f over a set.
Sum(f, S) == MapThenSumSet(LAMBDA x : f[x], S)

Pick(s) == CHOOSE x \in s : TRUE

\* What g must be at s, if it has the sums over the subsets.
Partial(f, g, s) == IF s = {} THEN 0 ELSE f[Pick(s)] + g[s \ {Pick(s)}]

Small(S, n) == {s \in SUBSET S : Cardinality(s) <= n}

\* There is a function with the sums of f over the sets of D.
HasSums(f, D) == \E g : g = [s \in D |-> Partial(f, g, s)]

\* A set without the element picked has one element less.
LEMMA Smaller ==
    ASSUME NEW S, IsFiniteSet(S), NEW s \in SUBSET S, s # {}
    PROVE  /\ Pick(s) \in s
           /\ s \ {Pick(s)} \in SUBSET S
           /\ Cardinality(s) \in Nat
           /\ Cardinality(s \ {Pick(s)}) = Cardinality(s) - 1
  <1>1. Pick(s) \in s
    BY DEF Pick
  <1>2. IsFiniteSet(s)
    BY FS_Subset
  <1>. QED
    BY <1>1, <1>2, FS_CardinalityType, FS_RemoveElement

\* The sums over the subsets of up to n elements exist.
LEMMA SumsUpto ==
    ASSUME NEW S, IsFiniteSet(S), NEW f, NEW n \in Nat
    PROVE  HasSums(f, Small(S, n))
  <1>. DEFINE Has(m) == HasSums(f, Small(S, m))
              bad == {m \in Nat : ~Has(m)}
  <1>1. Has(0)
    <2>. DEFINE g == [s \in Small(S, 0) |-> 0]
    <2>1. \A s \in Small(S, 0) : s = {}
      BY FS_Subset, FS_EmptySet, FS_CardinalityType DEF Small
    <2>2. g = [s \in Small(S, 0) |-> Partial(f, g, s)]
      BY <2>1 DEF Partial
    <2>. QED
      BY <2>2 DEF HasSums
  <1>2. ASSUME NEW m \in Nat, Has(m)
        PROVE  Has(m + 1)
    <2>1. PICK h : h = [s \in Small(S, m) |-> Partial(f, h, s)]
      BY <1>2 DEF HasSums
    <2>. DEFINE g == [s \in Small(S, m + 1) |-> Partial(f, h, s)]
    <2>2. ASSUME NEW s \in Small(S, m + 1)
          PROVE  Partial(f, h, s) = Partial(f, g, s)
      <3>1. CASE s = {}
        BY <3>1 DEF Partial
      <3>2. CASE s # {}
        <4>. DEFINE t == s \ {Pick(s)}
        <4>1. t \in Small(S, m) /\ t \in Small(S, m + 1)
          BY <3>2, Smaller DEF Small
        <4>2. h[t] = g[t]
          <5>1. h[t] = Partial(f, h, t)
            BY <2>1, <4>1
          <5>. QED
            BY <5>1, <4>1
        <4>. QED
          BY <4>2, <3>2 DEF Partial
      <3>. QED
        BY <3>1, <3>2
    <2>3. g = [s \in Small(S, m + 1) |-> Partial(f, g, s)]
      BY <2>2
    <2>. QED
      BY <2>3 DEF HasSums
  <1>3. CASE bad # {}
    <2>. HIDE DEF Has
    <2>1. PICK m \in bad : \A k \in bad : m <= k
      BY <1>3, LeastNat
    <2>2. m # 0 /\ m \in Nat
      BY <1>1, <2>1
    <2>3. m - 1 \in Nat /\ m - 1 \notin bad
      BY <2>1, <2>2
    <2>4. Has((m - 1) + 1)
      BY <1>2, <2>3
    <2>. QED
      BY <2>1, <2>2, <2>4
  <1>. QED
    BY <1>3

\* The fold of the community modules computes sums.
LEMMA SumIsRecursive ==
    ASSUME NEW S, IsFiniteSet(S), NEW f
    PROVE  \E g : /\ g = [s \in SUBSET S |-> Partial(f, g, s)]
                  /\ Sum(f, S) = g[S]
  <1>. DEFINE G == CHOOSE g : g = [s \in SUBSET S |-> Partial(f, g, s)]
  <1>1. Sum(f, S) = G[S]
    BY DEF Sum, MapThenSumSet, MapThenFoldSet, Partial, Pick
  <1>2. Cardinality(S) \in Nat /\ Small(S, Cardinality(S)) = SUBSET S
    BY FS_CardinalityType, FS_Subset DEF Small
  <1>3. HasSums(f, SUBSET S)
    <2>1. HasSums(f, Small(S, Cardinality(S)))
      BY <1>2, SumsUpto
    <2>. QED
      BY <1>2, <2>1, Zenon
  <1>4. G = [s \in SUBSET S |-> Partial(f, G, s)]
    BY <1>3 DEF HasSums
  <1>. QED
    BY <1>1, <1>4

\* A sum of numbers is a number, and it is 0 if all of them are.
LEMMA SumType ==
    ASSUME NEW S, IsFiniteSet(S), NEW f \in [S -> Nat]
    PROVE  /\ Sum(f, S) \in Nat
           /\ (\A x \in S : f[x] = 0) => Sum(f, S) = 0
  <1>1. PICK g : g = [s \in SUBSET S |-> Partial(f, g, s)] /\ Sum(f, S) = g[S]
    BY SumIsRecursive
  <1>. DEFINE Good(s) == g[s] \in Nat /\ ((\A x \in S : f[x] = 0) => g[s] = 0)
              bad == {s \in SUBSET S : ~Good(s)}
  <1>2. CASE bad # {}
    <2>1. PICK s \in bad : \A t \in bad : Cardinality(s) <= Cardinality(t)
      <3>. HIDE DEF Good
      <3>. QED
        BY <1>2, SmallestSet
    <2>2. s # {}
      BY <1>1, <2>1 DEF Partial
    <2>. DEFINE t == s \ {Pick(s)}
    <2>3. Pick(s) \in S /\ t \in SUBSET S /\ t \notin bad
      BY <2>1, <2>2, Smaller
    <2>4. g[s] = f[Pick(s)] + g[t]
      BY <1>1, <2>1, <2>2 DEF Partial
    <2>. QED
      BY <2>1, <2>3, <2>4
  <1>3. CASE bad = {}
    BY <1>1, <1>3
  <1>. QED
    BY <1>2, <1>3

\* One number of a sum grows by d: so does the sum.
LEMMA SumGrows ==
    ASSUME NEW S, IsFiniteSet(S), NEW f \in [S -> Nat], NEW k \in S, NEW d \in Nat
    PROVE  Sum([f EXCEPT ![k] = @ + d], S) = Sum(f, S) + d
  <1>. DEFINE e == [f EXCEPT ![k] = @ + d]
  <1>1. PICK g : g = [s \in SUBSET S |-> Partial(f, g, s)] /\ Sum(f, S) = g[S]
    BY SumIsRecursive
  <1>2. PICK h : h = [s \in SUBSET S |-> Partial(e, h, s)] /\ Sum(e, S) = h[S]
    <2>. HIDE DEF e
    <2>. QED
      BY SumIsRecursive
  <1>. DEFINE Good(s) == g[s] \in Nat /\ h[s] = g[s] + (IF k \in s THEN d ELSE 0)
              bad == {s \in SUBSET S : ~Good(s)}
  <1>3. CASE bad # {}
    <2>1. PICK s \in bad : \A t \in bad : Cardinality(s) <= Cardinality(t)
      <3>. HIDE DEF Good
      <3>. QED
        BY <1>3, SmallestSet
    <2>2. s # {}
      BY <1>1, <1>2, <2>1 DEF Partial
    <2>. DEFINE t == s \ {Pick(s)}
    <2>3. Pick(s) \in s /\ s \in SUBSET S /\ t \in SUBSET S /\ t \notin bad
      BY <2>1, <2>2, Smaller
    <2>4. g[s] = f[Pick(s)] + g[t] /\ h[s] = e[Pick(s)] + h[t]
      BY <1>1, <1>2, <2>1, <2>2 DEF Partial
    <2>. QED
      BY <2>1, <2>3, <2>4
  <1>4. CASE bad = {}
    BY <1>1, <1>2, <1>4
  <1>. QED
    BY <1>3, <1>4

\* No number of a sum exceeds it.
LEMMA SumCovers ==
    ASSUME NEW S, IsFiniteSet(S), NEW f \in [S -> Nat], NEW k \in S
    PROVE  f[k] <= Sum(f, S)
  <1>. DEFINE e == [f EXCEPT ![k] = 0]
  <1>1. f[k] \in Nat /\ e \in [S -> Nat]
    OBVIOUS
  <1>2. f = [e EXCEPT ![k] = @ + f[k]]
    <2>. DEFINE g == [e EXCEPT ![k] = @ + f[k]]
    <2>1. \A x \in S : g[x] = f[x]
      BY <1>1
    <2>2. g \in [S -> Nat]
      BY <1>1
    <2>. HIDE DEF e
    <2>. QED
      BY <2>1, <2>2
  <1>3. Sum([e EXCEPT ![k] = @ + f[k]], S) = Sum(e, S) + f[k] /\ Sum(e, S) \in Nat
    <2>. HIDE DEF e
    <2>. QED
      BY <1>1, SumGrows, SumType
  <1>4. Sum(f, S) = Sum(e, S) + f[k]
    <2>. HIDE DEF e
    <2>. QED
      BY <1>2, <1>3, Zenon
  <1>. HIDE DEF e
  <1>. QED
    BY <1>1, <1>3, <1>4
===============================================================================
