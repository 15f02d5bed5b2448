---------------------------- MODULE TotalsProofs ----------------------------
(* Lemmas about totals over finite sets of any size, and about the number   *)
(* of sequences of a given length.                                          *)
EXTENDS Totals, FiniteSetTheorems, WellFoundedInduction, TLAPS

LEMMA UnitsElements ==
  ASSUME NEW S, NEW f \in [S -> Nat]
  PROVE  \A u : u \in Units(f) <=> \E x \in S : \E n \in 1 .. f[x] : u = <<x, n>>
  BY DEF Units

\* The units of one x.
LEMMA UnitsOfOne ==
  ASSUME NEW x, NEW n \in Nat
  PROVE  IsFiniteSet({x} \X (1 .. n)) /\ Cardinality({x} \X (1 .. n)) = n
<1>1. IsFiniteSet({x}) /\ Cardinality({x}) = 1
  BY FS_Singleton
<1>2. IsFiniteSet(1 .. n) /\ Cardinality(1 .. n) = n
  BY FS_Interval
<1>3. /\ IsFiniteSet({x} \X (1 .. n))
      /\ Cardinality({x} \X (1 .. n)) = Cardinality({x}) * Cardinality(1 .. n)
  BY <1>1, <1>2, FS_Product
<1>4. QED
  BY <1>1, <1>2, <1>3

\* A total over a finite set is a number.
LEMMA TotalType ==
  ASSUME NEW S, IsFiniteSet(S), NEW f \in [S -> Nat]
  PROVE  IsFiniteSet(Units(f)) /\ Total(f) \in Nat
<1> DEFINE g == [x \in S |-> {x} \X (1 .. f[x])]
           T == {g[x] : x \in S}
<1>1. g \in Surjection(S, T)
  BY DEF Surjection
<1>2. IsFiniteSet(T)
  BY <1>1, FS_Surjection
<1>3. \A x \in S : IsFiniteSet(g[x])
  BY UnitsOfOne
<1>4. IsFiniteSet(UNION T)
  <2>1. \A t \in T : IsFiniteSet(t)
    BY <1>3
  <2>2. QED
    BY <1>2, <2>1, FS_UNION
<1>5. Units(f) = UNION T
  BY DEF Units
<1>6. IsFiniteSet(Units(f))
  BY <1>4, <1>5
<1>7. QED
  BY <1>6, FS_CardinalityType DEF Total

\* Nothing adds up to nothing.
LEMMA TotalZero ==
  ASSUME NEW S, NEW f \in [S -> Nat], \A x \in S : f[x] = 0
  PROVE  Total(f) = 0
<1>1. Units(f) = {}
  <2>1. SUFFICES ASSUME NEW u \in Units(f) PROVE FALSE
    OBVIOUS
  <2>2. PICK x \in S : \E n \in 1 .. f[x] : u = <<x, n>>
    BY UnitsElements
  <2>3. QED
    BY <2>2
<1>2. QED
  BY <1>1, FS_EmptySet DEF Total

\* A total is positive as soon as one value is.
LEMMA TotalPositive ==
  ASSUME NEW S, IsFiniteSet(S), NEW f \in [S -> Nat]
  PROVE  Total(f) > 0 <=> \E x \in S : f[x] > 0
<1>1. Total(f) \in Nat /\ (Total(f) = 0 <=> Units(f) = {})
  BY TotalType, FS_EmptySet DEF Total
<1>2. ASSUME NEW x \in S, f[x] > 0 PROVE Units(f) # {}
  <2>1. 1 \in 1 .. f[x]
    BY <1>2
  <2>2. <<x, 1>> \in Units(f)
    BY <2>1, UnitsElements
  <2>3. QED
    BY <2>2
<1>3. (\A x \in S : f[x] = 0) => Total(f) = 0
  BY TotalZero
<1>4. QED
  BY <1>1, <1>2, <1>3

\* The total grows by the value of what joins the set.
LEMMA TotalExtend ==
  ASSUME NEW S, IsFiniteSet(S), NEW f \in [S -> Nat], NEW x, x \notin S,
         NEW g \in [S \cup {x} -> Nat], \A y \in S : g[y] = f[y]
  PROVE  Total(g) = Total(f) + g[x]
<1> DEFINE new == {x} \X (1 .. g[x])
<1>1. g[x] \in Nat
  OBVIOUS
<1>2. IsFiniteSet(Units(f)) /\ Total(f) \in Nat
  BY TotalType
<1>3. IsFiniteSet(new) /\ Cardinality(new) = g[x]
  BY <1>1, UnitsOfOne
<1>4. Units(g) = Units(f) \cup new
  <2>1. \A u : u \in Units(g) <=> \E y \in S \cup {x} : \E n \in 1 .. g[y] : u = <<y, n>>
    BY UnitsElements
  <2>2. \A u : u \in Units(f) <=> \E y \in S : \E n \in 1 .. f[y] : u = <<y, n>>
    BY UnitsElements
  <2>3. \A u : u \in new <=> \E n \in 1 .. g[x] : u = <<x, n>>
    OBVIOUS
  <2>4. QED
    BY <2>1, <2>2, <2>3
<1>5. Units(f) \cap new = {}
  <2>1. SUFFICES ASSUME NEW u \in Units(f), u \in new PROVE FALSE
    OBVIOUS
  <2>2. \E y \in S : \E n \in 1 .. f[y] : u = <<y, n>>
    BY UnitsElements
  <2>3. QED
    BY <2>1, <2>2
<1>6. Cardinality(Units(f) \cup new)
        = Cardinality(Units(f)) + Cardinality(new) - Cardinality(Units(f) \cap new)
  BY <1>2, <1>3, FS_Union
<1>7. Cardinality(Units(f) \cap new) = 0
  BY <1>5, FS_EmptySet
<1>8. QED
  BY <1>1, <1>2, <1>3, <1>4, <1>6, <1>7 DEF Total

\* Where one value changes, the total changes by as much.
LEMMA TotalUpdate ==
  ASSUME NEW S, IsFiniteSet(S), NEW f \in [S -> Nat], NEW g \in [S -> Nat],
         NEW x \in S, \A y \in S : y # x => g[y] = f[y]
  PROVE  Total(g) = Total(f) - f[x] + g[x]
<1> DEFINE R == S \ {x}
           h == [y \in R |-> f[y]]
<1>1. IsFiniteSet(R) /\ x \notin R /\ R \cup {x} = S
  BY FS_Subset
<1>2. h \in [R -> Nat] /\ (\A y \in R : f[y] = h[y]) /\ (\A y \in R : g[y] = h[y])
  OBVIOUS
<1> HIDE DEF R, h
<1>3. f \in [R \cup {x} -> Nat] /\ g \in [R \cup {x} -> Nat]
  BY <1>1
<1>4. Total(f) = Total(h) + f[x]
  BY <1>1, <1>2, <1>3, TotalExtend
<1>5. Total(g) = Total(h) + g[x]
  BY <1>1, <1>2, <1>3, TotalExtend
<1>6. Total(h) \in Nat /\ f[x] \in Nat /\ g[x] \in Nat
  BY <1>1, <1>2, TotalType
<1>7. QED
  BY <1>4, <1>5, <1>6

\* A total is at most a bound of the values times the number of positive ones.
LEMMA TotalBound ==
  ASSUME NEW S, NEW f \in [S -> Nat], NEW T, IsFiniteSet(T), NEW b \in Nat,
         \A x \in S : f[x] <= b /\ (f[x] > 0 => x \in T)
  PROVE  Total(f) <= Cardinality(T) * b
<1>1. IsFiniteSet(1 .. b) /\ Cardinality(1 .. b) = b
  BY FS_Interval
<1>2. /\ IsFiniteSet(T \X (1 .. b))
      /\ Cardinality(T \X (1 .. b)) = Cardinality(T) * b
  BY <1>1, FS_Product
<1>3. Units(f) \subseteq T \X (1 .. b)
  <2>1. SUFFICES ASSUME NEW u \in Units(f) PROVE u \in T \X (1 .. b)
    OBVIOUS
  <2>2. PICK x \in S : \E n \in 1 .. f[x] : u = <<x, n>>
    BY UnitsElements
  <2>3. PICK n \in 1 .. f[x] : u = <<x, n>>
    BY <2>2
  <2>4. x \in T /\ n \in 1 .. b
    OBVIOUS
  <2>5. QED
    BY <2>3, <2>4
<1>4. QED
  BY <1>2, <1>3, FS_Subset DEF Total

-----------------------------------------------------------------------------
(* Induction on numbers by a least counterexample, and sequences.          *)

LEMMA LeastNumber ==
  ASSUME NEW S, S \subseteq Nat, S # {}
  PROVE  \E n \in S : \A k \in Nat : k < n => k \notin S
<1>1. PICK n \in S : \A k \in S : ~(<<k, n>> \in OpToRel(<, Nat))
  BY WFMin, NatLessThanWellFounded
<1>2. \A k \in S : ~(k < n)
  BY <1>1 DEF OpToRel
<1>3. QED
  BY <1>2

\* There is one empty sequence.
LEMMA OnePath ==
  ASSUME NEW S
  PROVE  IsFiniteSet([1 .. 0 -> S]) /\ Cardinality([1 .. 0 -> S]) = 1
<1>1. 1 .. 0 = {}
  OBVIOUS
<1>2. [{} -> S] = {[x \in {} |-> x]}
  OBVIOUS
<1>3. [1 .. 0 -> S] = {[x \in {} |-> x]}
  BY <1>1, <1>2
<1>4. QED
  BY <1>3, FS_Singleton

LEMMA SameFunction ==
  ASSUME NEW D, NEW S, NEW f \in [D -> S], NEW g \in [D -> S], \A i \in D : f[i] = g[i]
  PROVE  f = g
  OBVIOUS

\* Each path can be continued in as many ways as there are elements.
LEMMA LongerPaths ==
  ASSUME NEW S, IsFiniteSet(S), NEW r \in Nat, IsFiniteSet([1 .. r -> S])
  PROVE  /\ IsFiniteSet([1 .. r + 1 -> S])
         /\ Cardinality([1 .. r + 1 -> S]) = Cardinality(S) * Cardinality([1 .. r -> S])
<1> DEFINE A == S \X [1 .. r -> S]
           B == [1 .. r + 1 -> S]
           g == [a \in A |-> [i \in 1 .. r + 1 |-> IF i = r + 1 THEN a[1] ELSE a[2][i]]]
<1>1. IsFiniteSet(A) /\ Cardinality(A) = Cardinality(S) * Cardinality([1 .. r -> S])
  BY FS_Product
<1>2. \A i \in 1 .. r + 1 : i # r + 1 => i \in 1 .. r
  OBVIOUS
<1>3. g \in [A -> B]
  <2>1. ASSUME NEW a \in A
        PROVE  [i \in 1 .. r + 1 |-> IF i = r + 1 THEN a[1] ELSE a[2][i]] \in B
    <3>1. a[1] \in S /\ a[2] \in [1 .. r -> S]
      OBVIOUS
    <3>2. QED
      BY <1>2, <3>1
  <2>2. QED
    BY <2>1
<1>4. ASSUME NEW a \in A, NEW b \in A, g[a] = g[b] PROVE a = b
  <2>1. a = <<a[1], a[2]>> /\ b = <<b[1], b[2]>> /\ a[2] \in [1 .. r -> S] /\ b[2] \in [1 .. r -> S]
    OBVIOUS
  <2>2. r + 1 \in 1 .. r + 1 /\ \A i \in 1 .. r : i \in 1 .. r + 1 /\ i # r + 1
    OBVIOUS
  <2>3. \A i \in 1 .. r + 1 : g[a][i] = g[b][i]
    BY <1>4
  <2>4. a[1] = b[1]
    BY <2>2, <2>3
  <2>5. \A i \in 1 .. r : a[2][i] = b[2][i]
    BY <2>2, <2>3
  <2>6. a[2] = b[2]
    BY <2>1, <2>5
  <2>7. QED
    BY <2>1, <2>4, <2>6
<1>5. ASSUME NEW t \in B PROVE \E a \in A : g[a] = t
  <2>1. r + 1 \in 1 .. r + 1 /\ \A i \in 1 .. r : i \in 1 .. r + 1
    OBVIOUS
  <2>2. PICK p \in [1 .. r -> S] : \A i \in 1 .. r : p[i] = t[i]
    <3>1. [i \in 1 .. r |-> t[i]] \in [1 .. r -> S]
      BY <2>1
    <3>2. QED
      BY <3>1
  <2>3. PICK a \in A : a[1] = t[r + 1] /\ a[2] = p
    <3>1. <<t[r + 1], p>> \in A
      BY <2>1
    <3>2. QED
      BY <3>1
  <2>4. \A i \in 1 .. r + 1 : g[a][i] = t[i]
    BY <1>2, <2>2, <2>3
  <2>5. g[a] \in B
    BY <1>3
  <2>6. g[a] = t
    <3> DEFINE D == 1 .. r + 1
    <3>1. g[a] \in [D -> S] /\ t \in [D -> S] /\ \A i \in D : g[a][i] = t[i]
      BY <2>4, <2>5
    <3> HIDE DEF B, D, g
    <3>2. QED
      BY <3>1, SameFunction
  <2>7. QED
    BY <2>6
<1>6. g \in Bijection(A, B)
  <2> HIDE DEF A, B, g
  <2>1. g \in Surjection(A, B)
    BY <1>3, <1>5 DEF Surjection
  <2>2. g \in Injection(A, B)
    BY <1>3, <1>4 DEF Injection, IsInjective
  <2>3. QED
    BY <2>1, <2>2 DEF Bijection
<1>7. ExistsBijection(A, B)
  BY <1>6 DEF ExistsBijection
<1>8. QED
  BY <1>1, <1>7, FS_Bijection
=============================================================================
