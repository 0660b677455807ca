---------------------------- MODULE SetInduction ----------------------------
(***************************************************************************)
(* Induction, in a form that needs no operator parameter: what is to be    *)
(* shown is given as the set of the values it holds of.                    *)
(***************************************************************************)
EXTENDS Integers, FiniteSetsExt, FiniteSetTheorems, WellFoundedInduction, TLAPS

\* A set with 0 and the successors of its numbers has all numbers.
LEMMA NatSetInduction ==
  ASSUME NEW S, 0 \in S, \A n \in Nat : n \in S => n + 1 \in S
  PROVE  Nat \subseteq S
<1>1. SUFFICES ASSUME Nat \ S # {} PROVE FALSE
  OBVIOUS
<1>2. PICK x \in Nat \ S : \A y \in Nat \ S : ~ (<<y, x>> \in OpToRel(<, Nat))
  BY <1>1, NatLessThanWellFounded, WFMin
<1>3. x # 0 /\ x - 1 \in Nat /\ x - 1 < x
  OBVIOUS
<1>4. x - 1 \notin S
  BY <1>3
<1>5. <<x - 1, x>> \in OpToRel(<, Nat)
  BY <1>3, <1>2 DEF OpToRel
<1>6. QED
  BY <1>2, <1>3, <1>4, <1>5

\* Of some subsets of a finite set, one is minimal.
LEMMA MinimalSubset ==
  ASSUME NEW S, IsFiniteSet(S), NEW T \in SUBSET (SUBSET S), T # {}
  PROVE  \E D \in T : \A E \in T : E \subseteq D => E = D
<1>1. IsWellFoundedOn(StrictSubsetOrdering(S), SUBSET S)
  BY FS_StrictSubsetOrderingWellFounded, FS_FiniteSubsetsOfFinite
<1>2. PICK D \in T : \A E \in T : ~ (<<E, D>> \in StrictSubsetOrdering(S))
  BY <1>1, WFMin
<1>3. QED
  BY <1>2 DEF StrictSubsetOrdering

IsIteration(g, n, b, f) == g = [i \in 0..n |-> IF i = 0 THEN b ELSE f[g[i - 1]]]

\* A function of 0..n that is defined step by step is there.
LEMMA IterationExists ==
  ASSUME NEW D, NEW b \in D, NEW f \in [D -> D], NEW N \in Nat
  PROVE  \E g \in [0..N -> D] : IsIteration(g, N, b, f)
<1> DEFINE Good == {n \in Nat : \E g \in [0..n -> D] : \A i \in 0..n : g[i] = IF i = 0 THEN b ELSE f[g[i - 1]]}
<1>1. 0 \in Good
  <2> DEFINE g == [i \in 0..0 |-> b]
  <2>1. g \in [0..0 -> D] /\ \A i \in 0..0 : g[i] = IF i = 0 THEN b ELSE f[g[i - 1]]
    OBVIOUS
  <2>2. QED
    BY <2>1
<1>2. ASSUME NEW n \in Nat, n \in Good PROVE n + 1 \in Good
  <2>1. PICK g \in [0..n -> D] : \A i \in 0..n : g[i] = IF i = 0 THEN b ELSE f[g[i - 1]]
    BY <1>2
  <2> DEFINE e == [i \in 0..(n + 1) |-> IF i = n + 1 THEN f[g[n]] ELSE g[i]]
  <2>2. e \in [0..(n + 1) -> D]
    BY <2>1
  <2>3. ASSUME NEW i \in 0..(n + 1) PROVE e[i] = IF i = 0 THEN b ELSE f[e[i - 1]]
    <3>1. CASE i = n + 1
      BY <3>1
    <3>2. CASE i \in 0..n
      BY <2>1, <3>2
    <3>3. QED
      BY <3>1, <3>2
  <2> HIDE DEF e
  <2>4. n + 1 \in Nat
    OBVIOUS
  <2>5. QED
    BY <2>2, <2>3, <2>4
<1>3. N \in Good
  <2> HIDE DEF Good
  <2>1. Nat \subseteq Good
    BY <1>1, <1>2, NatSetInduction
  <2>2. QED
    BY <2>1
<1>4. PICK g \in [0..N -> D] : \A i \in 0..N : g[i] = IF i = 0 THEN b ELSE f[g[i - 1]]
  BY <1>3
<1>5. g = [i \in 0..N |-> IF i = 0 THEN b ELSE f[g[i - 1]]]
  BY <1>4
<1>6. QED
  BY <1>5 DEF IsIteration

-----------------------------------------------------------------------------
(* Folds over a sequence. FoldLeft is a function of the sets of positions,   *)
(* given by an equation: that it has a solution, and its values at 1..i.     *)

\* A set of positions has a last one.
LEMMA LastPosition ==
  ASSUME NEW n \in Nat, NEW I \in SUBSET (1 .. n), I # {}
  PROVE  Max(I) \in I /\ \A i \in I : i <= Max(I)
<1>. DEFINE T == {n - i : i \in I}
<1>1. T \subseteq Nat /\ T # {}
  <2>1. PICK i \in I : TRUE
    OBVIOUS
  <2>2. n - i \in T
    BY <2>1
  <2>. QED  BY <2>2
<1>2. PICK t \in T : \A u \in T : ~(<<u, t>> \in OpToRel(<, Nat))
  BY <1>1, WFMin, NatLessThanWellFounded
<1>3. \A u \in T : ~(u < t)
  BY <1>1, <1>2 DEF OpToRel
<1>4. PICK m \in I : t = n - m
  OBVIOUS
<1>5. \A i \in I : m >= i
  BY <1>3, <1>4
<1>. QED  BY <1>5 DEF Max

\* The last of the positions up to i is i.
LEMMA LastOfPrefix ==
  ASSUME NEW n \in Nat, NEW i \in 1 .. n
  PROVE  /\ (1 .. i) \in SUBSET (1 .. n) /\ 1 .. i # {}
         /\ Max(1 .. i) = i
         /\ (1 .. i) \ {Max(1 .. i)} = 1 .. (i - 1)
<1>1. (1 .. i) \in SUBSET (1 .. n) /\ 1 .. i # {} /\ i \in 1 .. i
  OBVIOUS
<1>2. Max(1 .. i) \in 1 .. i /\ \A j \in 1 .. i : j <= Max(1 .. i)
  BY <1>1, LastPosition
<1>3. Max(1 .. i) = i
  BY <1>1, <1>2
<1>. QED  BY <1>1, <1>3

IsFold(h, n, b, f) ==
  h = [s \in SUBSET (1 .. n) |-> IF s = {} THEN b ELSE f[<<Max(s), h[s \ {Max(s)}]>>]]

\* A function of sets of positions that is defined by what it is without the last one is there.
LEMMA FoldExists ==
  ASSUME NEW n \in Nat, NEW D, NEW b \in D, NEW f \in [(1 .. n) \X D -> D]
  PROVE  \E h \in [SUBSET (1 .. n) -> D] : IsFold(h, n, b, f)
<1>. DEFINE Fits(h, k) == \A s \in SUBSET (1 .. k) : h[s] = IF s = {} THEN b ELSE f[<<Max(s), h[s \ {Max(s)}]>>]
            Has(k) == \E h \in [SUBSET (1 .. k) -> D] : Fits(h, k)
            Good == {k \in Nat : k <= n => Has(k)}
<1>1. 0 \in Good
  <2>. DEFINE h == [s \in SUBSET (1 .. 0) |-> b]
  <2>1. h \in [SUBSET (1 .. 0) -> D] /\ Fits(h, 0)
    OBVIOUS
  <2>. QED  BY <2>1
<1>2. ASSUME NEW k \in Nat, k \in Good PROVE k + 1 \in Good
  <2>. HIDE DEF Has
  <2>1. SUFFICES ASSUME k + 1 <= n
                 PROVE  Has(k + 1)
    OBVIOUS
  <2>2. Has(k)
    BY <1>2, <2>1
  <2>. HIDE DEF Good
  <2>22. PICK h \in [SUBSET (1 .. k) -> D] : Fits(h, k)
    BY <2>2 DEF Has
  <2>. DEFINE g == [s \in SUBSET (1 .. (k + 1)) |->
                     IF k + 1 \in s THEN f[<<k + 1, h[s \ {k + 1}]>>] ELSE h[s]]
  <2>3. ASSUME NEW s \in SUBSET (1 .. (k + 1))
        PROVE  IF k + 1 \in s THEN s \ {k + 1} \in SUBSET (1 .. k) ELSE s \in SUBSET (1 .. k)
    OBVIOUS
  <2>4. ASSUME NEW s \in SUBSET (1 .. (k + 1))
        PROVE  g[s] \in D
    BY <2>1, <2>3
  <2>5. g \in [SUBSET (1 .. (k + 1)) -> D]
    BY <2>4
  <2>6. ASSUME NEW s \in SUBSET (1 .. (k + 1)), s # {}
        PROVE  g[s] = f[<<Max(s), g[s \ {Max(s)}]>>]
    <3>1. Max(s) \in s /\ \A i \in s : i <= Max(s)
      <4>1. k + 1 \in Nat
        OBVIOUS
      <4>. QED  BY <2>6, <4>1, LastPosition
    <3>2. CASE k + 1 \in s
      <4>1. Max(s) = k + 1
        <5>1. PICK m \in s : m = Max(s)
          BY <3>1
        <5>2. m >= k + 1 /\ m \in 1 .. (k + 1)
          BY ONLY <5>1, <3>1, <3>2, k \in Nat, s \in SUBSET (1 .. (k + 1))
        <5>. QED  BY <5>1, <5>2
      <4>2. s \ {k + 1} \in SUBSET (1 .. (k + 1)) /\ k + 1 \notin s \ {k + 1}
        OBVIOUS
      <4>3. g[s \ {k + 1}] = h[s \ {k + 1}]
        BY <4>2
      <4>4. g[s] = f[<<k + 1, h[s \ {k + 1}]>>]
        BY <3>2
      <4>. QED  BY <4>1, <4>3, <4>4
    <3>3. CASE k + 1 \notin s
      <4>1. s \in SUBSET (1 .. k) /\ s \ {Max(s)} \in SUBSET (1 .. (k + 1)) /\ k + 1 \notin s \ {Max(s)}
        BY <2>3, <3>3
      <4>2. g[s] = h[s] /\ g[s \ {Max(s)}] = h[s \ {Max(s)}]
        BY <3>3, <4>1
      <4>3. h[s] = f[<<Max(s), h[s \ {Max(s)}]>>]
        BY <2>22, <2>6, <4>1
      <4>. QED  BY <4>2, <4>3
    <3>. QED  BY <3>2, <3>3
  <2>7. g[{}] = b
    <3>1. {} \in SUBSET (1 .. k) /\ {} \in SUBSET (1 .. (k + 1))
      OBVIOUS
    <3>2. h[{}] = b
      BY <2>22, <3>1
    <3>. QED  BY <3>1, <3>2
  <2>. HIDE DEF g
  <2>. QED  BY <2>5, <2>6, <2>7 DEF Has
<1>3. n \in Good
  <2>. HIDE DEF Good
  <2>1. Nat \subseteq Good
    BY <1>1, <1>2, NatSetInduction
  <2>. QED  BY <2>1
<1>4. PICK h \in [SUBSET (1 .. n) -> D] : Fits(h, n)
  <2>. HIDE DEF Has
  <2>1. Has(n)
    BY <1>3
  <2>. QED  BY <2>1 DEF Has
<1>5. h = [s \in SUBSET (1 .. n) |-> IF s = {} THEN b ELSE f[<<Max(s), h[s \ {Max(s)}]>>]]
  BY <1>4
<1>. QED  BY <1>5 DEF IsFold

\* What holds at 0 and passes from each position to the next one holds up to n.
LEMMA PrefixInduction ==
  ASSUME NEW n \in Nat, NEW T, 0 \in T, \A i \in 1 .. n : i - 1 \in T => i \in T
  PROVE  0 .. n \subseteq T
<1>. DEFINE S == {k \in Nat : k <= n => k \in T}
<1>1. 0 \in S
  OBVIOUS
<1>2. ASSUME NEW k \in Nat, k \in S PROVE k + 1 \in S
  <2>1. SUFFICES ASSUME k + 1 <= n PROVE k + 1 \in T
    OBVIOUS
  <2>2. k \in T /\ k + 1 \in 1 .. n /\ (k + 1) - 1 = k
    BY <1>2, <2>1
  <2>. QED  BY <2>2
<1>. HIDE DEF S
<1>3. Nat \subseteq S
  BY <1>1, <1>2, NatSetInduction
<1>. QED  BY <1>3 DEF S
=============================================================================
