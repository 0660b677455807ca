----------------------- MODULE RestyleTraversalProofs -----------------------
(* That a restyle is a parallel traversal, and that the pass after it finds   *)
(* what was restyled; that it does to every displayed element what the        *)
(* pending changes ask for and no more, and matches its selectors with a      *)
(* sound filter: for every tree and whatever changes are pending. The first   *)
(* part is about that filter: the filter of a thread counts the hashes of the *)
(* elements on its stack, whichever counters are full, and the stack is made  *)
(* the path to the element that is styled next, wherever the thread comes     *)
(* from.                                                                      *)
EXTENDS RestyleTraversal, ParallelTraversalProofs, SetInduction, SequenceTheorems

-----------------------------------------------------------------------------
(* The path to an element.                                                   *)

\* An element that is not the root has a parent.
LEMMA ParentOf ==
  ASSUME NEW e \in Element, e # Root
  PROVE  TraversalParent(e) \in Element /\ e \in Kids(TraversalParent(e))
<1>1. PICK p \in Element : e \in Kids(p)
  BY TreeAssumption
<1>. QED  BY <1>1, OneParent

\* The depth of an element is less than the number of elements.
LEMMA DepthIsBounded ==
  ASSUME NEW e \in Element
  PROVE  Cardinality(Element) \in Nat /\ Depth(e) < Cardinality(Element)
<1>1. Ancestors(e) \in SUBSET Element /\ e \notin Ancestors(e)
  BY NotBelowItself DEF Ancestors, AncestorSets
<1>2. IsFiniteSet(Element) /\ IsFiniteSet(Element \ {e}) /\ Ancestors(e) \subseteq Element \ {e}
  BY <1>1, TreeAssumption, FS_RemoveElement
<1>3. Cardinality(Element \ {e}) = Cardinality(Element) - 1 /\ Cardinality(Element) \in Nat
  BY <1>2, FS_RemoveElement, FS_CardinalityType
<1>4. Cardinality(Ancestors(e)) <= Cardinality(Element \ {e}) /\ Cardinality(Ancestors(e)) \in Nat
  BY <1>2, FS_Subset, FS_CardinalityType
<1>. QED  BY <1>3, <1>4 DEF Depth

\* The root is at depth 0, with nothing above it; any other element is a level below its parent.
LEMMA DepthFromParent ==
  /\ Ancestors(Root) = {} /\ Depth(Root) = 0
  /\ \A e \in Element \ {Root} : LET p == TraversalParent(e)
                                 IN Depth(e) = Depth(p) + 1 /\ Ancestors(e) = Ancestors(p) \cup {p}
<1>1. Ancestors(Root) = {}
  <2>1. \A a \in Element : Root \notin Descendants(a)
    <3>1. \A a \in Element : Descendants(a) \in SUBSET Element
      BY DescendantsAreClosed
    <3>. QED  BY <3>1, DescendantsAreClosed, TreeAssumption
  <2>. QED  BY <2>1, TreeAssumption DEF Ancestors, AncestorSets
<1>2. Depth(Root) = 0
  BY <1>1, FS_EmptySet DEF Depth
<1>. QED  BY <1>1, <1>2, ParentOf, DepthOfChild, AncestorsOfChild

\* The equation of Chain has a solution.
LEMMA ChainDefined ==
  Chain = [e \in Element |-> IF e = Root THEN <<>>
                             ELSE Append(Chain[TraversalParent(e)], TraversalParent(e))]
<1>. DEFINE P(e) == TraversalParent(e)
            D == [Element -> Seq(Element)]
            OneUp(g) == [e \in Element |-> IF e = Root THEN <<>> ELSE Append(g[P(e)], P(e))]
            F == [g \in D |-> OneUp(g)]
            b == [e \in Element |-> <<>>]
            N == Cardinality(Element)
<1>1. \A e \in Element : e # Root => P(e) \in Element
  BY ParentOf
<1>2. N \in Nat
  BY TreeAssumption, FS_CardinalityType
<1>. HIDE DEF P
<1>3. F \in [D -> D]
  <2>1. ASSUME NEW g \in D PROVE OneUp(g) \in D
    <3>1. ASSUME NEW e \in Element, e # Root PROVE Append(g[P(e)], P(e)) \in Seq(Element)
      <4>1. g[P(e)] \in Seq(Element) /\ P(e) \in Element
        BY <1>1, <3>1
      <4>. QED  BY <4>1
    <3>2. <<>> \in Seq(Element)
      OBVIOUS
    <3>. QED  BY <3>1, <3>2
  <2>. HIDE DEF OneUp, D
  <2>. QED  BY <2>1
<1>4. b \in D
  OBVIOUS
<1>5. PICK g \in [0 .. N -> D] : g = [i \in 0 .. N |-> IF i = 0 THEN b ELSE F[g[i - 1]]]
  <2>. HIDE DEF F, D, b, N
  <2>1. PICK D1, b1, f1 : D1 = D /\ b1 = b /\ f1 = F
    OBVIOUS
  <2>2. b1 \in D1 /\ f1 \in [D1 -> D1]
    BY <1>3, <1>4, <2>1
  <2>. HIDE DEF OneUp
  <2>3. \E g \in [0..N -> D1] : IsIteration(g, N, b1, f1)
    BY ONLY <1>2, <2>2, IterationExists
  <2>. QED  BY <2>1, <2>3 DEF IsIteration
<1>. HIDE DEF N, b
<1>6. \A i \in 1 .. N : g[i - 1] \in D /\ g[i] = OneUp(g[i - 1])
  <2>. HIDE DEF D, OneUp
  <2>1. \A i \in 1 .. N : g[i] = F[g[i - 1]] /\ g[i - 1] \in D
    <3>. HIDE DEF F
    <3>. QED  BY <1>2, <1>5
  <2>. QED  BY <2>1
<1>. DEFINE T == {i \in 0 .. N : \A e \in Element : Depth(e) < i => g[i][e] = OneUp(g[i])[e]}
<1>7. 0 \in T
  BY <1>2, DepthIsNatural
<1>8. ASSUME NEW i \in 1 .. N, i - 1 \in T PROVE i \in T
  <2>1. ASSUME NEW e \in Element, Depth(e) < i PROVE g[i][e] = OneUp(g[i])[e]
    <3>1. CASE e = Root
      BY <1>6, <3>1
    <3>2. CASE e # Root
      <4>1. P(e) \in Element /\ Depth(P(e)) < i - 1
        BY <1>1, <1>2, <2>1, <3>2, DepthFromParent, DepthIsNatural DEF P
      <4>2. g[i - 1][P(e)] = OneUp(g[i - 1])[P(e)]
        BY <1>8, <4>1
      <4>3. g[i][P(e)] = g[i - 1][P(e)]
        BY <1>6, <4>2
      <4>4. g[i][e] = Append(g[i - 1][P(e)], P(e))
        BY <1>6, <3>2
      <4>. QED  BY <3>2, <4>3, <4>4
    <3>. QED  BY <3>1, <3>2
  <2>2. i \in 0 .. N
    BY <1>2
  <2>. HIDE DEF OneUp
  <2>. QED  BY <2>1, <2>2
<1>9. N \in T
  <2>. HIDE DEF T
  <2>1. 0 .. N \subseteq T
    <3>1. PICK T1 : T1 = T
      OBVIOUS
    <3>2. 0 \in T1 /\ \A i \in 1 .. N : i - 1 \in T1 => i \in T1
      BY <1>7, <1>8, <3>1
    <3>3. 0 .. N \subseteq T1
      BY ONLY <1>2, <3>2, PrefixInduction
    <3>. QED  BY <3>1, <3>3
  <2>. QED  BY <1>2, <2>1
<1>10. g[N] \in D
  <2>. HIDE DEF D, F
  <2>. QED  BY <1>2, <1>5
<1>11. g[N] = OneUp(g[N])
  <2>1. \A e \in Element : g[N][e] = OneUp(g[N])[e]
    BY <1>9, DepthIsBounded DEF N
  <2>. QED  BY <1>10, <2>1
<1>12. \E c : c = OneUp(c)
  BY <1>11
<1>13. Chain = CHOOSE c : c = OneUp(c)
  BY DEF Chain, P
<1>14. Chain = OneUp(Chain)
  <2>. HIDE DEF OneUp
  <2>. QED  BY <1>12, <1>13
<1>. QED  BY <1>14 DEF P

\* The path to an element has a place for each level above it, with the element above on that level, and
\* before that place the path to the element there.
LEMMA ChainFacts ==
  ASSUME NEW e \in Element
  PROVE  /\ Chain[e] \in Seq(Element) /\ Len(Chain[e]) = Depth(e)
         /\ ToSet(Chain[e]) = Ancestors(e)
         /\ \A i \in 1 .. Depth(e) : Chain[Chain[e][i]] = SubSeq(Chain[e], 1, i - 1)
<1>. DEFINE Good(x) == /\ Chain[x] \in Seq(Element) /\ Len(Chain[x]) = Depth(x)
                       /\ ToSet(Chain[x]) = Ancestors(x)
                       /\ \A i \in 1 .. Depth(x) : Chain[Chain[x][i]] = SubSeq(Chain[x], 1, i - 1)
            S == {x \in Element : ~ Good(x)}
<1>1. Root \in Element /\ Chain[Root] = <<>>
  BY ChainDefined, TreeAssumption
<1>2. \A x \in Element \ {Root} : Chain[x] = Append(Chain[TraversalParent(x)], TraversalParent(x))
  BY ChainDefined
<1>3. Good(Root)
  BY <1>1, DepthFromParent DEF ToSet
<1>4. ASSUME NEW x \in Element, x # Root, Good(TraversalParent(x))
      PROVE  Good(x)
  <2>1. PICK p \in Element : p = TraversalParent(x)
    BY <1>4, ParentOf
  <2>2. PICK w \in Seq(Element) : w = Chain[p]
    BY <1>4, <2>1
  <2>3. Len(w) = Depth(p) /\ ToSet(w) = Ancestors(p) /\ \A i \in 1 .. Len(w) : Chain[w[i]] = SubSeq(w, 1, i - 1)
    BY <1>4, <2>1, <2>2
  <2>4. Chain[x] = Append(w, p) /\ Append(w, p) \in Seq(Element)
    BY <1>2, <1>4, <2>1, <2>2
  <2>5. Depth(x) = Len(w) + 1 /\ Ancestors(x) = ToSet(w) \cup {p}
    BY <1>4, <2>1, <2>3, DepthFromParent
  <2>6. Len(Append(w, p)) = Len(w) + 1 /\ Append(w, p)[Len(w) + 1] = p
        /\ \A i \in 1 .. Len(w) : Append(w, p)[i] = w[i]
    OBVIOUS
  <2>7. ToSet(Append(w, p)) = ToSet(w) \cup {p}
    BY <2>4, <2>6 DEF ToSet
  <2>8. ASSUME NEW i \in 1 .. (Len(w) + 1)
        PROVE  Chain[Append(w, p)[i]] = SubSeq(Append(w, p), 1, i - 1)
    <3>1. SubSeq(Append(w, p), 1, i - 1) = SubSeq(w, 1, i - 1)
      OBVIOUS
    <3>2. CASE i = Len(w) + 1
      <4>1. SubSeq(w, 1, Len(w)) = w
        OBVIOUS
      <4>. QED  BY <2>2, <2>6, <3>1, <3>2, <4>1
    <3>3. CASE i \in 1 .. Len(w)
      BY <2>3, <2>6, <3>1, <3>3
    <3>. QED  BY <3>2, <3>3
  <2>. QED  BY <2>4, <2>5, <2>6, <2>7, <2>8
<1>. HIDE DEF Good
<1>5. \A x \in S : \E p \in S : x \in Kids(p)
  <2>1. ASSUME NEW x \in S PROVE \E p \in S : x \in Kids(p)
    <3>1. x \in Element /\ x # Root /\ ~ Good(TraversalParent(x))
      BY <1>3, <1>4
    <3>. QED  BY <3>1, ParentOf
  <2>. QED  BY <2>1
<1>6. S = {}
  <2>1. S \in SUBSET Element
    OBVIOUS
  <2>. HIDE DEF S
  <2>. QED  BY <1>5, <2>1, NoCycle
<1>7. Good(e)
  BY <1>6
<1>. QED  BY <1>7 DEF Good

-----------------------------------------------------------------------------
(* The hashes of a path.                                                     *)

\* g has the sequences of ss put together, up to each place.
JoinedUpTo(ss, S, n, g) ==
  /\ g \in [0 .. n -> Seq(S)] /\ g[0] = <<>> /\ g[n] = FlattenSeq(ss)
  /\ \A i \in 1 .. n : g[i] = g[i - 1] \o ss[i]

\* FlattenSeq puts one sequence after the other.
LEMMA FlattenInTurn ==
  ASSUME NEW S, NEW ss \in Seq(Seq(S)), NEW n \in Nat, n = Len(ss)
  PROVE  \E g : JoinedUpTo(ss, S, n, g)
<1>0. PICK D : /\ D = Seq(S) /\ ss \in Seq(D) /\ <<>> \in D
               /\ \A x, y \in D : x \o y \in D
               /\ \A x \in D : <<>> \o x = x
  <2>1. \A x, y \in Seq(S) : x \o y \in Seq(S)
    OBVIOUS
  <2>2. <<>> \in Seq(S) /\ \A x \in Seq(S) : <<>> \o x = x
    BY ConcatEmptySeq, EmptySeq
  <2>. QED  BY <2>1, <2>2
<1>. DEFINE f == [x \in (1 .. n) \X D |-> x[2] \o ss[x[1]]]
            Eq(h) == h = [i \in 1 .. n |-> IF i = 1 THEN ss[i] ELSE h[i - 1] \o ss[i]]
<1>1. \A i \in 1 .. n : ss[i] \in D
  BY <1>0
<1>2. f \in [(1 .. n) \X D -> D] /\ \A i \in 1 .. n, x \in D : f[<<i, x>>] = x \o ss[i]
  BY <1>0, <1>1
<1>. HIDE DEF f
<1>3. PICK h \in [SUBSET (1 .. n) -> D] : IsFold(h, n, <<>>, f)
  <2>1. PICK f1 : f1 = f
    OBVIOUS
  <2>2. f1 \in [(1 .. n) \X D -> D] /\ <<>> \in D
    BY <1>0, <1>2, <2>1
  <2>3. \E h \in [SUBSET (1 .. n) -> D] : IsFold(h, n, <<>>, f1)
    BY ONLY n \in Nat, <2>2, FoldExists
  <2>. QED  BY <2>1, <2>3
<1>. DEFINE g == [i \in 0 .. n |-> h[1 .. i]]
<1>4. g \in [0 .. n -> D] /\ g[0] = <<>>
  <2>1. \A i \in 0 .. n : 1 .. i \in SUBSET (1 .. n)
    OBVIOUS
  <2>2. 1 .. 0 = {}
    OBVIOUS
  <2>3. h[{}] = <<>>
    BY <1>3 DEF IsFold
  <2>. QED  BY <2>1, <2>2, <2>3
<1>5. \A i \in 1 .. n : g[i] = g[i - 1] \o ss[i]
  <2>1. ASSUME NEW i \in 1 .. n PROVE g[i] = g[i - 1] \o ss[i]
    <3>1. /\ (1 .. i) \in SUBSET (1 .. n) /\ 1 .. i # {}
          /\ Max(1 .. i) = i /\ (1 .. i) \ {Max(1 .. i)} = 1 .. (i - 1)
      BY LastOfPrefix
    <3>2. h[1 .. i] = f[<<i, h[1 .. (i - 1)]>>]
      BY <1>3, <3>1 DEF IsFold
    <3>3. i \in 0 .. n /\ i - 1 \in 0 .. n /\ h[1 .. (i - 1)] \in D
      <4>1. i - 1 \in 0 .. n /\ i \in 0 .. n
        OBVIOUS
      <4>2. g[i - 1] = h[1 .. (i - 1)]
        BY <4>1
      <4>3. g[i - 1] \in D
        <5>. HIDE DEF g
        <5>. QED  BY <1>4, <4>1
      <4>. QED  BY <4>1, <4>2, <4>3
    <3>4. h[1 .. i] = h[1 .. (i - 1)] \o ss[i]
      BY <1>2, <3>2, <3>3
    <3>. QED  BY <3>3, <3>4
  <2>. QED  BY <2>1
<1>. HIDE DEF g
<1>6. CASE n = 0
  <2>1. FlattenSeq(ss) = ss
    BY <1>6 DEF FlattenSeq
  <2>2. ss = <<>>
    BY ONLY <1>0, <1>6, n = Len(ss)
  <2>. QED  BY <1>0, <1>4, <1>5, <1>6, <2>1, <2>2 DEF JoinedUpTo
<1>7. CASE n # 0
  <2>0. ASSUME NEW i \in 1 .. n, i = 1 PROVE g[i] = ss[i]
    <3>1. g[i] = g[i - 1] \o ss[i] /\ ss[i] \in D /\ i - 1 = 0
      <4>1. g[i] = g[i - 1] \o ss[i]
        BY ONLY <1>5, i \in 1 .. n, Zenon
      <4>. QED  BY <1>1, <2>0, <4>1
    <3>2. g[i - 1] = <<>>
      BY <1>4, <3>1
    <3>. QED  BY <1>0, <3>1, <3>2
  <2>1. PICK c : Eq(c) /\ FlattenSeq(ss) = c[n]
    <3>1. FlattenSeq(ss) = (CHOOSE c : Eq(c))[n]
      BY <1>7 DEF FlattenSeq
    <3>2. Eq([i \in 1 .. n |-> g[i]])
      <4>1. ASSUME NEW i \in 1 .. n PROVE g[i] = IF i = 1 THEN ss[i] ELSE [j \in 1 .. n |-> g[j]][i - 1] \o ss[i]
        <5>1. CASE i = 1
          BY <2>0, <5>1
        <5>2. CASE i # 1
          <6>1. i - 1 \in 1 .. n
            BY <5>2
          <6>2. [j \in 1 .. n |-> g[j]][i - 1] = g[i - 1]
            BY <6>1
          <6>. QED  BY <1>5, <5>2, <6>2
        <5>. QED  BY <5>1, <5>2
      <4>. QED  BY <4>1
    <3>. HIDE DEF Eq
    <3>. QED  BY <3>1, <3>2
  <2>2. ASSUME NEW i \in 1 .. n, i = 1 \/ c[i - 1] = g[i - 1] PROVE c[i] = g[i]
    <3>1. c[i] = IF i = 1 THEN ss[i] ELSE c[i - 1] \o ss[i]
      BY <2>1
    <3>. QED  BY <1>5, <2>0, <2>2, <3>1
  <2>3. c[n] = g[n]
    <3>. DEFINE T == {i \in 0 .. n : i = 0 \/ c[i] = g[i]}
    <3>1. 0 \in T
      OBVIOUS
    <3>2. \A i \in 1 .. n : i - 1 \in T => i \in T
      <4>. HIDE DEF Eq
      <4>. QED  BY <2>2
    <3>3. 0 .. n \subseteq T
      <4>. HIDE DEF T
      <4>. QED  BY ONLY n \in Nat, <3>1, <3>2, PrefixInduction
    <3>. QED  BY <1>7, <3>3
  <2>. QED  BY <1>0, <1>4, <1>5, <2>1, <2>3 DEF JoinedUpTo
<1>. QED  BY <1>6, <1>7

\* One more sequence is put after the others.
LEMMA FlattenAppend ==
  ASSUME NEW S, NEW ss \in Seq(Seq(S)), NEW x \in Seq(S)
  PROVE  /\ FlattenSeq(ss) \in Seq(S)
         /\ FlattenSeq(Append(ss, x)) = FlattenSeq(ss) \o x
<1>1. PICK n \in Nat : n = Len(ss)
  OBVIOUS
<1>2. PICK tt \in Seq(Seq(S)) : tt = Append(ss, x) /\ Len(tt) = n + 1 /\ tt[n + 1] = x
                               /\ \A i \in 1 .. n : tt[i] = ss[i]
  <2>1. PICK D : D = Seq(S)
    OBVIOUS
  <2>2. ss \in Seq(D) /\ x \in D
    BY <2>1
  <2>3. PICK tt \in Seq(D) : tt = Append(ss, x)
    <3>1. Append(ss, x) \in Seq(D)
      BY ONLY <2>2
    <3>. QED  BY <3>1
  <2>4. Len(tt) = n + 1 /\ tt[n + 1] = x /\ \A i \in 1 .. n : tt[i] = ss[i]
    BY ONLY <1>1, <2>2, <2>3
  <2>. QED  BY <2>1, <2>3, <2>4
<1>3. PICK g : JoinedUpTo(ss, S, n, g)
  BY <1>1, FlattenInTurn
<1>4. PICK k : JoinedUpTo(tt, S, n + 1, k)
  <2>1. n + 1 \in Nat
    OBVIOUS
  <2>. QED  BY <1>2, <2>1, FlattenInTurn
<1>. DEFINE T == {i \in 0 .. n : g[i] = k[i]}
<1>5. 0 \in T
  BY <1>3, <1>4 DEF JoinedUpTo
<1>55. /\ \A i \in 1 .. n : g[i] = g[i - 1] \o ss[i] /\ tt[i] = ss[i]
       /\ \A i \in 1 .. (n + 1) : k[i] = k[i - 1] \o tt[i]
  BY <1>2, <1>3, <1>4 DEF JoinedUpTo
<1>6. \A i \in 1 .. n : i - 1 \in T => i \in T
  <2>1. ASSUME NEW i \in 1 .. n, g[i - 1] = k[i - 1] PROVE g[i] = k[i]
    <3>1. i \in 1 .. (n + 1)
      OBVIOUS
    <3>. QED  BY ONLY <1>55, <2>1, <3>1
  <2>2. \A i \in 1 .. n : i \in 0 .. n
    OBVIOUS
  <2>. QED  BY <2>1, <2>2
<1>7. g[n] = k[n]
  <2>1. 0 .. n \subseteq T
    <3>. HIDE DEF T
    <3>. QED  BY ONLY n \in Nat, <1>5, <1>6, PrefixInduction
  <2>. QED  BY <2>1
<1>8. k[n + 1] = k[n] \o x
  <2>1. n + 1 \in 1 .. (n + 1) /\ (n + 1) - 1 = n
    OBVIOUS
  <2>. QED  BY ONLY <1>2, <1>55, <2>1
<1>. QED  BY <1>2, <1>3, <1>4, <1>7, <1>8 DEF JoinedUpTo

\* The hashes of the elements on a stack, in the order in which they were pushed.
HashesOn(w) == FlattenSeq([i \in DOMAIN w |-> HashesOf[w[i]]])

\* What pushing an element adds to them.
LEMMA HashesOnPushed ==
  ASSUME NEW w \in Seq(Element), NEW e \in Element
  PROVE  /\ HashesOn(w) \in Seq(Hash)
         /\ HashesOn(Append(w, e)) = HashesOn(w) \o HashesOf[e]
         /\ HashesOn(<<>>) = <<>>
<1>. DEFINE ss == [i \in DOMAIN w |-> HashesOf[w[i]]]
            tt == [i \in DOMAIN Append(w, e) |-> HashesOf[Append(w, e)[i]]]
<1>1. HashesOf[e] \in Seq(Hash) /\ \A i \in DOMAIN w : HashesOf[w[i]] \in Seq(Hash)
  BY BloomAssumption
<1>2. ss \in Seq(Seq(Hash)) /\ Len(ss) = Len(w)
  <2>1. DOMAIN w = 1 .. Len(w) /\ Len(w) \in Nat
    OBVIOUS
  <2>2. ss \in [1 .. Len(w) -> Seq(Hash)]
    BY <1>1, <2>1
  <2>. QED  BY <2>1, <2>2
<1>3. tt = Append(ss, HashesOf[e])
  <2>1. DOMAIN Append(w, e) = 1 .. (Len(w) + 1) /\ Append(w, e)[Len(w) + 1] = e
        /\ \A i \in 1 .. Len(w) : Append(w, e)[i] = w[i]
    OBVIOUS
  <2>2. \A i \in 1 .. Len(w) : ss[i] = HashesOf[w[i]]
    OBVIOUS
  <2>3. tt = [i \in 1 .. (Len(w) + 1) |-> IF i = Len(w) + 1 THEN HashesOf[e] ELSE ss[i]]
    BY <2>1, <2>2
  <2>. HIDE DEF ss, tt
  <2>. QED  BY <1>2, <2>3
<1>4. HashesOn(<<>>) = <<>>
  BY DEF HashesOn, FlattenSeq
<1>5. HashesOn(w) = FlattenSeq(ss) /\ HashesOn(Append(w, e)) = FlattenSeq(tt)
  BY DEF HashesOn
<1>. HIDE DEF ss, tt
<1>. QED  BY <1>1, <1>2, <1>3, <1>4, <1>5, FlattenAppend

-----------------------------------------------------------------------------
(* The counters. A hash is counted in two slots, which may be the same one;  *)
(* X has pairs of a place in hs and one of the two.                          *)

SlotOf(h, k) == IF k = 1 THEN FirstSlot[h] ELSE SecondSlot[h]

Hits(hs, X, s) == {x \in X : SlotOf(hs[x[1]], x[2]) = s}

\* A counter is full or counts the hits of its slot.
Counted(counts, hs, X) ==
  /\ counts \in [Slot -> 0 .. MaxCount]
  /\ \A s \in Slot : counts[s] = MaxCount \/ counts[s] = Cardinality(Hits(hs, X, s))

\* There are finitely many hits, all in slots of the filter.
LEMMA HitsAreFinite ==
  ASSUME NEW hs \in Seq(Hash), NEW X \in SUBSET ((1 .. Len(hs)) \X {1, 2}), NEW s
  PROVE  /\ IsFiniteSet(Hits(hs, X, s)) /\ Cardinality(Hits(hs, X, s)) \in Nat
         /\ \A x \in X : SlotOf(hs[x[1]], x[2]) \in Slot
<1>1. DOMAIN hs = 1 .. Len(hs) /\ Len(hs) \in Nat
  OBVIOUS
<1>2. IsFiniteSet((1 .. Len(hs)) \X {1, 2})
  <2>1. IsFiniteSet(1 .. Len(hs))
    BY <1>1, FS_Interval
  <2>2. PICK E : E = {1, 2}
    OBVIOUS
  <2>3. IsFiniteSet({1}) /\ E = {1} \cup {2}
    BY <2>2, FS_Singleton
  <2>4. IsFiniteSet(E)
    BY <2>3, FS_AddElement
  <2>5. PICK D : D = 1 .. Len(hs)
    OBVIOUS
  <2>6. IsFiniteSet(D \X E)
    BY <2>1, <2>4, <2>5, FS_Product
  <2>. QED  BY <2>2, <2>5, <2>6
<1>3. IsFiniteSet(Hits(hs, X, s))
  BY <1>2, FS_Subset DEF Hits
<1>4. \A x \in X : hs[x[1]] \in Hash
  <2>1. ASSUME NEW x \in X PROVE hs[x[1]] \in Hash
    <3>1. x[1] \in 1 .. Len(hs)
      OBVIOUS
    <3>. QED  BY <1>1, <3>1
  <2>. QED  BY <2>1
<1>5. \A x \in X : SlotOf(hs[x[1]], x[2]) \in Slot
  BY <1>4, BloomAssumption DEF SlotOf
<1>. QED  BY <1>3, <1>5, FS_CardinalityType

\* Counting one hit up.
LEMMA OneUp ==
  ASSUME NEW hs \in Seq(Hash), NEW X \in SUBSET ((1 .. Len(hs)) \X {1, 2}), NEW x \in ((1 .. Len(hs)) \X {1, 2}) \ X,
         NEW c, Counted(c, hs, X)
  PROVE  Counted(AdjustSlot(c, SlotOf(hs[x[1]], x[2]), 1), hs, X \cup {x})
<1>1. PICK r \in Slot : r = SlotOf(hs[x[1]], x[2])
  <2>1. X \cup {x} \in SUBSET ((1 .. Len(hs)) \X {1, 2}) /\ x \in X \cup {x}
    OBVIOUS
  <2>. QED  BY <2>1, HitsAreFinite
<1>2. \A s \in Slot \ {r} : Hits(hs, X \cup {x}, s) = Hits(hs, X, s)
  BY <1>1 DEF Hits
<1>3. Cardinality(Hits(hs, X \cup {x}, r)) = Cardinality(Hits(hs, X, r)) + 1
  <2>1. Hits(hs, X \cup {x}, r) = Hits(hs, X, r) \cup {x} /\ x \notin Hits(hs, X, r)
    BY <1>1 DEF Hits
  <2>. QED  BY <2>1, HitsAreFinite, FS_AddElement
<1>4. MaxCount \in Nat /\ c \in [Slot -> 0 .. MaxCount]
  BY BloomAssumption DEF Counted
<1>5. \A s \in Slot : c[s] = MaxCount \/ c[s] = Cardinality(Hits(hs, X, s))
  BY DEF Counted
<1>6. CASE c[r] = MaxCount
  BY <1>1, <1>2, <1>4, <1>5, <1>6 DEF Counted, AdjustSlot
<1>7. CASE c[r] # MaxCount
  <2>1. PICK d : d = AdjustSlot(c, r, 1) /\ d = [c EXCEPT ![r] = @ + 1]
    BY <1>7 DEF AdjustSlot
  <2>2. d \in [Slot -> 0 .. MaxCount] /\ d[r] = c[r] + 1 /\ \A s \in Slot \ {r} : d[s] = c[s]
    BY <1>4, <1>7, <2>1
  <2>3. d[r] = Cardinality(Hits(hs, X \cup {x}, r))
    BY <1>3, <1>5, <1>7, <2>2
  <2>. QED  BY <1>1, <1>2, <1>5, <2>1, <2>2, <2>3 DEF Counted
<1>. QED  BY <1>6, <1>7

\* Counting one hit down.
LEMMA OneDown ==
  ASSUME NEW hs \in Seq(Hash), NEW X \in SUBSET ((1 .. Len(hs)) \X {1, 2}), NEW x \in X,
         NEW c, Counted(c, hs, X)
  PROVE  Counted(AdjustSlot(c, SlotOf(hs[x[1]], x[2]), -1), hs, X \ {x})
<1>1. PICK r \in Slot : r = SlotOf(hs[x[1]], x[2])
  BY HitsAreFinite
<1>2. \A s \in Slot \ {r} : Hits(hs, X \ {x}, s) = Hits(hs, X, s)
  BY <1>1 DEF Hits
<1>3. /\ Cardinality(Hits(hs, X \ {x}, r)) = Cardinality(Hits(hs, X, r)) - 1
      /\ Cardinality(Hits(hs, X, r)) \in Nat \ {0}
  <2>1. Hits(hs, X \ {x}, r) = Hits(hs, X, r) \ {x} /\ x \in Hits(hs, X, r)
    BY <1>1 DEF Hits
  <2>2. IsFiniteSet(Hits(hs, X, r)) /\ Cardinality(Hits(hs, X, r)) \in Nat
    BY HitsAreFinite
  <2>3. Cardinality(Hits(hs, X, r)) # 0
    BY <2>1, <2>2, FS_EmptySet
  <2>. QED  BY <2>1, <2>2, <2>3, FS_RemoveElement
<1>4. MaxCount \in Nat /\ c \in [Slot -> 0 .. MaxCount]
  BY BloomAssumption DEF Counted
<1>5. \A s \in Slot : c[s] = MaxCount \/ c[s] = Cardinality(Hits(hs, X, s))
  BY DEF Counted
<1>6. CASE c[r] = MaxCount
  BY <1>1, <1>2, <1>4, <1>5, <1>6 DEF Counted, AdjustSlot
<1>7. CASE c[r] # MaxCount
  <2>1. PICK d : d = AdjustSlot(c, r, -1) /\ d = [c EXCEPT ![r] = @ + -1]
    BY <1>7 DEF AdjustSlot
  <2>2. c[r] \in 1 .. MaxCount
    BY <1>3, <1>4, <1>5, <1>7
  <2>3. d \in [Slot -> 0 .. MaxCount] /\ d[r] = c[r] - 1 /\ \A s \in Slot \ {r} : d[s] = c[s]
    BY <1>4, <2>1, <2>2
  <2>4. d[r] = Cardinality(Hits(hs, X \ {x}, r))
    BY <1>3, <1>5, <1>7, <2>3
  <2>. QED  BY <1>1, <1>2, <1>5, <2>1, <2>3, <2>4 DEF Counted
<1>. QED  BY <1>6, <1>7

\* The places J of hs with both their slots.
Both(J) == J \X {1, 2}

\* Inserting a hash.
LEMMA HashUp ==
  ASSUME NEW hs \in Seq(Hash), NEW J \in SUBSET (1 .. Len(hs)), NEW i \in (1 .. Len(hs)) \ J,
         NEW c, Counted(c, hs, Both(J))
  PROVE  Counted(AdjustHash(c, hs[i], 1), hs, Both(J \cup {i}))
<1>. DEFINE P == (1 .. Len(hs)) \X {1, 2}
<1>1. /\ Both(J) \in SUBSET P
      /\ <<i, 1>> \in P \ Both(J)
      /\ Both(J) \cup {<<i, 1>>} \in SUBSET P
      /\ <<i, 2>> \in P \ (Both(J) \cup {<<i, 1>>})
  <2>1. /\ Both(J) \in SUBSET P /\ <<i, 1>> \in P /\ <<i, 2>> \in P
        /\ <<i, 1>> \notin Both(J) /\ <<i, 2>> \notin Both(J) /\ <<i, 1>> # <<i, 2>>
    <3>1. Both(J) \in SUBSET P
      BY DEF Both
    <3>2. <<i, 1>> \in P /\ <<i, 2>> \in P /\ <<i, 1>> # <<i, 2>>
      OBVIOUS
    <3>3. <<i, 1>> \notin Both(J) /\ <<i, 2>> \notin Both(J)
      BY DEF Both
    <3>. QED  BY <3>1, <3>2, <3>3
  <2>. HIDE DEF P
  <2>. QED  BY <2>1
<1>2. Both(J \cup {i}) = (Both(J) \cup {<<i, 1>>}) \cup {<<i, 2>>}
  BY DEF Both
<1>3. SlotOf(hs[<<i, 1>>[1]], <<i, 1>>[2]) = FirstSlot[hs[i]] /\ SlotOf(hs[<<i, 2>>[1]], <<i, 2>>[2]) = SecondSlot[hs[i]]
  BY DEF SlotOf
<1>4. PICK d : d = AdjustSlot(c, FirstSlot[hs[i]], 1)
  OBVIOUS
<1>5. Counted(d, hs, Both(J) \cup {<<i, 1>>})
  BY <1>1, <1>3, <1>4, OneUp
<1>6. Counted(AdjustSlot(d, SecondSlot[hs[i]], 1), hs, (Both(J) \cup {<<i, 1>>}) \cup {<<i, 2>>})
  BY <1>1, <1>3, <1>5, OneUp
<1>. QED  BY <1>2, <1>4, <1>6 DEF AdjustHash

\* Removing a hash.
LEMMA HashDown ==
  ASSUME NEW hs \in Seq(Hash), NEW J \in SUBSET (1 .. Len(hs)), NEW i \in J,
         NEW c, Counted(c, hs, Both(J))
  PROVE  Counted(AdjustHash(c, hs[i], -1), hs, Both(J \ {i}))
<1>. DEFINE P == (1 .. Len(hs)) \X {1, 2}
<1>1. /\ Both(J) \in SUBSET P
      /\ <<i, 1>> \in Both(J)
      /\ Both(J) \ {<<i, 1>>} \in SUBSET P
      /\ <<i, 2>> \in Both(J) \ {<<i, 1>>}
  <2>1. /\ Both(J) \in SUBSET P /\ <<i, 1>> \in Both(J) /\ <<i, 2>> \in Both(J) /\ <<i, 1>> # <<i, 2>>
    <3>1. Both(J) \in SUBSET P
      BY DEF Both
    <3>2. <<i, 1>> \in Both(J) /\ <<i, 2>> \in Both(J) /\ <<i, 1>> # <<i, 2>>
      BY DEF Both
    <3>. QED  BY <3>1, <3>2
  <2>. HIDE DEF P
  <2>. QED  BY <2>1
<1>2. Both(J \ {i}) = (Both(J) \ {<<i, 1>>}) \ {<<i, 2>>}
  BY DEF Both
<1>3. SlotOf(hs[<<i, 1>>[1]], <<i, 1>>[2]) = FirstSlot[hs[i]] /\ SlotOf(hs[<<i, 2>>[1]], <<i, 2>>[2]) = SecondSlot[hs[i]]
  BY DEF SlotOf
<1>4. PICK d : d = AdjustSlot(c, FirstSlot[hs[i]], -1)
  OBVIOUS
<1>5. Counted(d, hs, Both(J) \ {<<i, 1>>})
  BY <1>1, <1>3, <1>4, OneDown
<1>6. Counted(AdjustSlot(d, SecondSlot[hs[i]], -1), hs, (Both(J) \ {<<i, 1>>}) \ {<<i, 2>>})
  BY <1>1, <1>3, <1>5, OneDown
<1>. QED  BY <1>2, <1>4, <1>6 DEF AdjustHash

\* Only the hashes at the places that are counted matter.
LEMMA CountedElsewhere ==
  ASSUME NEW hs, NEW hs2, NEW J, \A i \in J : hs[i] = hs2[i],
         NEW c, Counted(c, hs, Both(J))
  PROVE  Counted(c, hs2, Both(J))
<1>1. \A s : Hits(hs, Both(J), s) = Hits(hs2, Both(J), s)
  <2>1. \A x \in Both(J) : hs[x[1]] = hs2[x[1]]
    BY DEF Both
  <2>. QED  BY <2>1 DEF Hits
<1>. QED  BY <1>1 DEF Counted

-----------------------------------------------------------------------------
(* Inserting and removing hashes, one after the other.                       *)

AdjustEquation(h, c, hs, n, by) ==
  h = [q \in SUBSET (1 .. n) |-> IF q = {} THEN c ELSE AdjustHash(h[q \ {Max(q)}], hs[Max(q)], by)]

\* The counters when 0 to n hashes are adjusted.
AdjustedInTurn(c, hs, by, n, g) ==
  g[0] = c /\ \A i \in 1 .. n : g[i] = AdjustHash(g[i - 1], hs[i], by)

\* The equation of the folds InsertHashes and RemoveHashes has a solution.
LEMMA AdjustExists ==
  ASSUME NEW c \in [Slot -> Int], NEW hs \in Seq(Hash), NEW n \in Nat, n = Len(hs), NEW by \in Int
  PROVE  \E h : AdjustEquation(h, c, hs, n, by)
<1>1. PICK D : D = [Slot -> Int]
  OBVIOUS
<1>2. \A d \in D, h \in Hash : AdjustHash(d, h, by) \in D
  <2>1. \A d \in D, s \in Slot : AdjustSlot(d, s, by) \in D
    BY <1>1 DEF AdjustSlot
  <2>2. \A h \in Hash : FirstSlot[h] \in Slot /\ SecondSlot[h] \in Slot
    BY BloomAssumption
  <2>. QED  BY <2>1, <2>2 DEF AdjustHash
<1>3. \A i \in 1 .. n : hs[i] \in Hash
  OBVIOUS
<1>. DEFINE f == [x \in (1 .. n) \X D |-> AdjustHash(x[2], hs[x[1]], by)]
<1>4. f \in [(1 .. n) \X D -> D] /\ \A i \in 1 .. n, d \in D : f[<<i, d>>] = AdjustHash(d, hs[i], by)
  BY <1>2, <1>3
<1>. HIDE DEF f
<1>5. PICK h \in [SUBSET (1 .. n) -> D] : IsFold(h, n, c, f)
  <2>1. PICK f1 : f1 = f
    OBVIOUS
  <2>2. f1 \in [(1 .. n) \X D -> D] /\ c \in D
    BY <1>1, <1>4, <2>1
  <2>3. \E h \in [SUBSET (1 .. n) -> D] : IsFold(h, n, c, f1)
    BY ONLY n \in Nat, <2>2, FoldExists
  <2>. QED  BY <2>1, <2>3
<1>6. ASSUME NEW q \in SUBSET (1 .. n), q # {}
      PROVE  h[q] = AdjustHash(h[q \ {Max(q)}], hs[Max(q)], by)
  <2>1. Max(q) \in 1 .. n
    BY <1>6, LastPosition
  <2>2. h[q \ {Max(q)}] \in D
    BY <1>6
  <2>3. h[q] = f[<<Max(q), h[q \ {Max(q)}]>>]
    BY <1>5, <1>6 DEF IsFold
  <2>. QED  BY <1>4, <2>1, <2>2, <2>3
<1>7. h[{}] = c
  <2>1. {} \in SUBSET (1 .. n)
    OBVIOUS
  <2>. QED  BY <1>5, <2>1 DEF IsFold
<1>. QED  BY <1>6, <1>7 DEF AdjustEquation

\* A solution gives the counters in between.
LEMMA AdjustSteps ==
  ASSUME NEW c, NEW hs, NEW n \in Nat, NEW by, NEW h, AdjustEquation(h, c, hs, n, by)
  PROVE  \E g : AdjustedInTurn(c, hs, by, n, g) /\ g[n] = h[1 .. n]
<1>. DEFINE g == [i \in 0 .. n |-> h[1 .. i]]
<1>1. g[0] = c
  <2>1. 1 .. 0 = {} /\ {} \in SUBSET (1 .. n) /\ 0 \in 0 .. n
    OBVIOUS
  <2>2. h[{}] = c
    BY <2>1 DEF AdjustEquation
  <2>. QED  BY <2>1, <2>2
<1>2. ASSUME NEW i \in 1 .. n
      PROVE  g[i] = AdjustHash(g[i - 1], hs[i], by)
  <2>1. /\ (1 .. i) \in SUBSET (1 .. n) /\ 1 .. i # {}
        /\ Max(1 .. i) = i /\ (1 .. i) \ {Max(1 .. i)} = 1 .. (i - 1)
    BY LastOfPrefix
  <2>2. h[1 .. i] = AdjustHash(h[1 .. (i - 1)], hs[i], by)
    BY <2>1 DEF AdjustEquation
  <2>3. i \in 0 .. n /\ i - 1 \in 0 .. n
    OBVIOUS
  <2>. QED  BY <2>2, <2>3
<1>3. g[n] = h[1 .. n]
  OBVIOUS
<1>. HIDE DEF g
<1>4. AdjustedInTurn(c, hs, by, n, g)
  BY <1>1, <1>2 DEF AdjustedInTurn
<1>. QED  BY <1>3, <1>4

\* InsertHashes inserts one hash after the other.
LEMMA InsertInTurn ==
  ASSUME NEW c \in [Slot -> Int], NEW hs \in Seq(Hash), NEW n \in Nat, n = Len(hs)
  PROVE  \E g : AdjustedInTurn(c, hs, 1, n, g) /\ g[n] = InsertHashes(c, hs)
<1>1. DOMAIN hs = 1 .. n
  OBVIOUS
<1>. DEFINE Eq(h) == h = [q \in SUBSET (1 .. n) |-> IF q = {} THEN c ELSE AdjustHash(h[q \ {Max(q)}], hs[Max(q)], 1)]
<1>2. InsertHashes(c, hs) = (CHOOSE h : Eq(h))[1 .. n]
  BY <1>1 DEF InsertHashes, FoldLeft, MapThenFoldSet
<1>3. \E h : Eq(h)
  <2>1. PICK h : AdjustEquation(h, c, hs, n, 1)
    BY AdjustExists
  <2>2. Eq(h)
    BY <2>1 DEF AdjustEquation
  <2>. HIDE DEF Eq
  <2>. QED  BY <2>2
<1>4. PICK h : Eq(h) /\ InsertHashes(c, hs) = h[1 .. n]
  <2>. HIDE DEF Eq
  <2>. QED  BY <1>2, <1>3
<1>5. AdjustEquation(h, c, hs, n, 1)
  BY <1>4 DEF AdjustEquation
<1>6. PICK g : AdjustedInTurn(c, hs, 1, n, g) /\ g[n] = h[1 .. n]
  <2>. HIDE DEF Eq
  <2>. QED  BY <1>5, AdjustSteps
<1>. HIDE DEF Eq
<1>. QED  BY <1>4, <1>6

\* RemoveHashes removes one hash after the other.
LEMMA RemoveInTurn ==
  ASSUME NEW c \in [Slot -> Int], NEW hs \in Seq(Hash), NEW n \in Nat, n = Len(hs)
  PROVE  \E g : AdjustedInTurn(c, hs, -1, n, g) /\ g[n] = RemoveHashes(c, hs)
<1>1. DOMAIN hs = 1 .. n
  OBVIOUS
<1>. DEFINE Eq(h) == h = [q \in SUBSET (1 .. n) |-> IF q = {} THEN c ELSE AdjustHash(h[q \ {Max(q)}], hs[Max(q)], -1)]
<1>2. RemoveHashes(c, hs) = (CHOOSE h : Eq(h))[1 .. n]
  BY <1>1 DEF RemoveHashes, FoldLeft, MapThenFoldSet
<1>3. \E h : Eq(h)
  <2>1. PICK h : AdjustEquation(h, c, hs, n, -1)
    <3>1. -1 \in Int
      OBVIOUS
    <3>. QED  BY <3>1, AdjustExists
  <2>2. Eq(h)
    BY <2>1 DEF AdjustEquation
  <2>. HIDE DEF Eq
  <2>. QED  BY <2>2
<1>4. PICK h : Eq(h) /\ RemoveHashes(c, hs) = h[1 .. n]
  <2>. HIDE DEF Eq
  <2>. QED  BY <1>2, <1>3
<1>5. AdjustEquation(h, c, hs, n, -1)
  BY <1>4 DEF AdjustEquation
<1>6. PICK g : AdjustedInTurn(c, hs, -1, n, g) /\ g[n] = h[1 .. n]
  <2>. HIDE DEF Eq
  <2>. QED  BY <1>5, AdjustSteps
<1>. HIDE DEF Eq
<1>. QED  BY <1>4, <1>6

\* The counters count all of hs.
CountsAll(c, hs) == Counted(c, hs, Both(1 .. Len(hs)))

\* Inserting hashes after others.
LEMMA InsertCounts ==
  ASSUME NEW P \in Seq(Hash), NEW H \in Seq(Hash), NEW c, CountsAll(c, P)
  PROVE  CountsAll(InsertHashes(c, H), P \o H)
<1>1. PICK Q \in Seq(Hash) : Q = P \o H
  <2>1. P \o H \in Seq(Hash)
    OBVIOUS
  <2>. QED  BY <2>1
<1>2. PICK m \in Nat : m = Len(P)
  OBVIOUS
<1>3. PICK n \in Nat : n = Len(H)
  OBVIOUS
<1>4. Len(Q) = m + n /\ (\A i \in 1 .. m : Q[i] = P[i]) /\ (\A i \in 1 .. n : Q[m + i] = H[i])
  BY <1>1, <1>2, <1>3
<1>5. c \in [Slot -> Int]
  BY BloomAssumption DEF CountsAll, Counted
<1>6. PICK g : AdjustedInTurn(c, H, 1, n, g) /\ g[n] = InsertHashes(c, H)
  BY <1>3, <1>5, InsertInTurn
<1>. DEFINE T == {i \in 0 .. n : Counted(g[i], Q, Both(1 .. (m + i)))}
<1>7. 0 \in T
  <2>1. g[0] = c /\ Counted(c, P, Both(1 .. m))
    BY <1>2, <1>6 DEF AdjustedInTurn, CountsAll
  <2>2. Counted(c, Q, Both(1 .. m))
    BY <1>4, <2>1, CountedElsewhere
  <2>3. m + 0 = m /\ 0 \in 0 .. n
    OBVIOUS
  <2>. QED  BY <2>1, <2>2, <2>3
<1>8. ASSUME NEW i \in 1 .. n, i - 1 \in T PROVE i \in T
  <2>1. PICK k \in 1 .. Len(Q) : k = m + i
    BY <1>4
  <2>2. PICK J \in SUBSET (1 .. Len(Q)) : J = 1 .. (m + (i - 1))
    BY <1>4
  <2>3. k \in (1 .. Len(Q)) \ J /\ J \cup {k} = 1 .. (m + i)
    BY <2>1, <2>2
  <2>4. Counted(g[i - 1], Q, Both(J))
    BY <1>8, <2>2
  <2>5. Counted(AdjustHash(g[i - 1], Q[k], 1), Q, Both(J \cup {k}))
    BY <2>3, <2>4, HashUp
  <2>6. g[i] = AdjustHash(g[i - 1], Q[k], 1)
    BY <1>4, <1>6, <2>1 DEF AdjustedInTurn
  <2>7. i \in 0 .. n
    OBVIOUS
  <2>. QED  BY <2>3, <2>5, <2>6, <2>7
<1>9. n \in T
  <2>. HIDE DEF T
  <2>1. 0 .. n \subseteq T
    BY ONLY n \in Nat, <1>7, <1>8, PrefixInduction
  <2>. QED  BY <2>1
<1>. QED  BY <1>1, <1>4, <1>6, <1>9 DEF CountsAll

\* Removing the last hashes, the last first.
LEMMA RemoveCounts ==
  ASSUME NEW P \in Seq(Hash), NEW H \in Seq(Hash), NEW c, CountsAll(c, P \o H)
  PROVE  CountsAll(RemoveHashes(c, Reverse(H)), P)
<1>1. PICK Q \in Seq(Hash) : Q = P \o H
  <2>1. P \o H \in Seq(Hash)
    OBVIOUS
  <2>. QED  BY <2>1
<1>2. PICK m \in Nat : m = Len(P)
  OBVIOUS
<1>3. PICK n \in Nat : n = Len(H)
  OBVIOUS
<1>4. Len(Q) = m + n /\ (\A i \in 1 .. m : Q[i] = P[i]) /\ (\A i \in 1 .. n : Q[m + i] = H[i])
  BY <1>1, <1>2, <1>3
<1>5. c \in [Slot -> Int]
  BY BloomAssumption DEF CountsAll, Counted
<1>55. PICK R \in Seq(Hash) : R = Reverse(H) /\ Len(R) = n /\ \A i \in 1 .. n : R[i] = Q[m + (n - i) + 1]
  <2>1. Reverse(H) = [i \in 1 .. n |-> H[(n - i) + 1]]
    BY <1>3 DEF Reverse
  <2>2. \A i \in 1 .. n : (n - i) + 1 \in 1 .. n /\ H[(n - i) + 1] \in Hash
    BY <1>3
  <2>3. \A i \in 1 .. n : Q[m + (n - i) + 1] = H[(n - i) + 1]
    <3>1. ASSUME NEW i \in 1 .. n PROVE Q[m + (n - i) + 1] = H[(n - i) + 1]
      <4>1. PICK j \in 1 .. n : j = (n - i) + 1
        BY <2>2
      <4>2. m + (n - i) + 1 = m + j
        BY <4>1
      <4>. QED  BY <1>4, <4>1, <4>2
    <3>. QED  BY <3>1
  <2>4. PICK R : R = [i \in 1 .. n |-> H[(n - i) + 1]]
    OBVIOUS
  <2>5. R \in [1 .. n -> Hash] /\ \A i \in 1 .. n : R[i] = H[(n - i) + 1]
    BY <2>2, <2>4
  <2>6. R \in Seq(Hash) /\ Len(R) = n
    BY <2>5
  <2>. QED  BY <2>1, <2>3, <2>4, <2>5, <2>6
<1>6. PICK g : AdjustedInTurn(c, R, -1, n, g) /\ g[n] = RemoveHashes(c, R)
  BY <1>5, <1>55, RemoveInTurn
<1>. DEFINE T == {i \in 0 .. n : Counted(g[i], Q, Both(1 .. (m + n - i)))}
<1>7. 0 \in T
  <2>1. g[0] = c /\ Counted(c, Q, Both(1 .. (m + n)))
    BY <1>1, <1>4, <1>6 DEF AdjustedInTurn, CountsAll
  <2>2. m + n - 0 = m + n /\ 0 \in 0 .. n
    OBVIOUS
  <2>. QED  BY <2>1, <2>2
<1>8. ASSUME NEW i \in 1 .. n, i - 1 \in T PROVE i \in T
  <2>1. PICK k \in 1 .. Len(Q) : k = m + (n - i) + 1
    BY <1>4
  <2>2. PICK J \in SUBSET (1 .. Len(Q)) : J = 1 .. (m + n - (i - 1))
    BY <1>4
  <2>3. k \in J /\ J \ {k} = 1 .. (m + n - i)
    BY <2>1, <2>2
  <2>4. Counted(g[i - 1], Q, Both(J))
    BY <1>8, <2>2
  <2>5. Counted(AdjustHash(g[i - 1], Q[k], -1), Q, Both(J \ {k}))
    BY <2>3, <2>4, HashDown
  <2>6. g[i] = AdjustHash(g[i - 1], Q[k], -1)
    BY <1>55, <1>6, <2>1 DEF AdjustedInTurn
  <2>7. i \in 0 .. n
    OBVIOUS
  <2>. QED  BY <2>3, <2>5, <2>6, <2>7
<1>9. n \in T
  <2>. HIDE DEF T
  <2>1. 0 .. n \subseteq T
    BY ONLY n \in Nat, <1>7, <1>8, PrefixInduction
  <2>. QED  BY <2>1
<1>10. Counted(g[n], Q, Both(1 .. m))
  <2>1. m + n - n = m
    OBVIOUS
  <2>. QED  BY <1>9, <2>1
<1>11. Counted(g[n], P, Both(1 .. m))
  BY <1>4, <1>10, CountedElsewhere
<1>. QED  BY <1>2, <1>55, <1>6, <1>11 DEF CountsAll

\* Removing all hashes, the first first.
LEMMA RemoveAll ==
  ASSUME NEW P \in Seq(Hash), NEW c, CountsAll(c, P)
  PROVE  CountsAll(RemoveHashes(c, P), <<>>)
<1>3. PICK n \in Nat : n = Len(P)
  OBVIOUS
<1>5. c \in [Slot -> Int]
  BY BloomAssumption DEF CountsAll, Counted
<1>6. PICK g : AdjustedInTurn(c, P, -1, n, g) /\ g[n] = RemoveHashes(c, P)
  BY <1>3, <1>5, RemoveInTurn
<1>. DEFINE T == {i \in 0 .. n : Counted(g[i], P, Both((i + 1) .. n))}
<1>7. 0 \in T
  <2>1. g[0] = c /\ Counted(c, P, Both(1 .. n))
    BY <1>3, <1>6 DEF AdjustedInTurn, CountsAll
  <2>2. 0 + 1 = 1 /\ 0 \in 0 .. n
    OBVIOUS
  <2>. QED  BY <2>1, <2>2
<1>8. ASSUME NEW i \in 1 .. n, i - 1 \in T PROVE i \in T
  <2>1. i \in 1 .. Len(P)
    BY <1>3
  <2>2. PICK J \in SUBSET (1 .. Len(P)) : J = ((i - 1) + 1) .. n
    BY <1>3
  <2>3. i \in J /\ J \ {i} = (i + 1) .. n
    BY <2>2
  <2>4. Counted(g[i - 1], P, Both(J))
    BY <1>8, <2>2
  <2>5. Counted(AdjustHash(g[i - 1], P[i], -1), P, Both(J \ {i}))
    BY <2>3, <2>4, HashDown
  <2>6. g[i] = AdjustHash(g[i - 1], P[i], -1)
    BY <1>6 DEF AdjustedInTurn
  <2>7. i \in 0 .. n
    OBVIOUS
  <2>. QED  BY <2>3, <2>5, <2>6, <2>7
<1>9. n \in T
  <2>. HIDE DEF T
  <2>1. 0 .. n \subseteq T
    BY ONLY n \in Nat, <1>7, <1>8, PrefixInduction
  <2>. QED  BY <2>1
<1>10. Counted(g[n], P, Both({}))
  <2>1. (n + 1) .. n = {}
    OBVIOUS
  <2>. QED  BY <1>9, <2>1
<1>11. Counted(g[n], <<>>, Both({}))
  BY <1>10, CountedElsewhere
<1>12. 1 .. Len(<<>>) = {}
  OBVIOUS
<1>. QED  BY <1>6, <1>11, <1>12 DEF CountsAll

-----------------------------------------------------------------------------
(* The stack and its counters.                                               *)

\* The filters that count all the hashes of the elements on their stacks.
SoundBlooms ==
  {b \in [counts : [Slot -> 0 .. MaxCount], elements : Seq(Element)] :
     CountsAll(b.counts, HashesOn(b.elements))}

\* A filter without elements, and with nothing counted.
LEMMA EmptySound ==
  ASSUME NEW c, CountsAll(c, <<>>)
  PROVE  EmptyBloom(c) \in SoundBlooms
<1>1. c \in [Slot -> 0 .. MaxCount]
  BY DEF CountsAll, Counted
<1>2. HashesOn(<<>>) = <<>>
  BY DEF HashesOn, FlattenSeq
<1>. QED  BY <1>1, <1>2 DEF SoundBlooms, EmptyBloom

\* Counters at zero count nothing.
LEMMA ZeroSound == CountsAll(NoCounts, <<>>)
<1>1. 1 .. Len(<<>>) = {}
  OBVIOUS
<1>2. \A s \in Slot : Hits(<<>>, Both({}), s) = {}
  BY DEF Hits, Both
<1>3. Cardinality({}) = 0
  BY FS_EmptySet
<1>4. NoCounts \in [Slot -> 0 .. MaxCount] /\ \A s \in Slot : NoCounts[s] = 0
  BY BloomAssumption DEF NoCounts
<1>5. \A s \in Slot : NoCounts[s] = Cardinality(Hits(<<>>, Both({}), s))
  BY <1>2, <1>3, <1>4
<1>6. Counted(NoCounts, <<>>, Both({}))
  BY <1>4, <1>5 DEF Counted
<1>. QED  BY <1>1, <1>6 DEF CountsAll

\* Pushing an element.
LEMMA PushSound ==
  ASSUME NEW b \in SoundBlooms, NEW e \in Element
  PROVE  Push(b, e) \in SoundBlooms /\ Push(b, e).elements = Append(b.elements, e)
<1>1. PICK w \in Seq(Element) : w = b.elements
  BY DEF SoundBlooms
<1>2. CountsAll(b.counts, HashesOn(w))
  BY <1>1 DEF SoundBlooms
<1>3. HashesOn(w) \in Seq(Hash) /\ HashesOn(Append(w, e)) = HashesOn(w) \o HashesOf[e] /\ HashesOf[e] \in Seq(Hash)
  BY HashesOnPushed, BloomAssumption
<1>4. CountsAll(InsertHashes(b.counts, HashesOf[e]), HashesOn(Append(w, e)))
  BY <1>2, <1>3, InsertCounts
<1>5. Append(w, e) \in Seq(Element)
  OBVIOUS
<1>6. InsertHashes(b.counts, HashesOf[e]) \in [Slot -> 0 .. MaxCount]
  BY <1>4 DEF CountsAll, Counted
<1>. QED  BY <1>1, <1>4, <1>5, <1>6 DEF SoundBlooms, Push

\* Popping one.
LEMMA PopSound ==
  ASSUME NEW b \in SoundBlooms, b.elements # <<>>
  PROVE  Pop(b) \in SoundBlooms /\ Pop(b).elements = SubSeq(b.elements, 1, Len(b.elements) - 1)
<1>1. PICK v \in Seq(Element) : v = b.elements /\ v # <<>>
  BY DEF SoundBlooms
<1>2. PICK w \in Seq(Element), e \in Element : v = Append(w, e)
  BY <1>1, SequenceEmptyOrAppend
<1>3. Last(v) = e /\ Front(v) = w /\ SubSeq(v, 1, Len(v) - 1) = w
  <2>1. Len(v) = Len(w) + 1 /\ v[Len(w) + 1] = e
    BY <1>2
  <2>2. SubSeq(v, 1, Len(w)) = w
    BY <1>2
  <2>3. Len(v) - 1 = Len(w)
    BY <2>1
  <2>. QED  BY <2>1, <2>2, <2>3 DEF Last, Front
<1>4. HashesOn(w) \in Seq(Hash) /\ HashesOn(v) = HashesOn(w) \o HashesOf[e] /\ HashesOf[e] \in Seq(Hash)
  BY <1>2, HashesOnPushed, BloomAssumption
<1>5. CountsAll(b.counts, HashesOn(w) \o HashesOf[e])
  BY <1>1, <1>4 DEF SoundBlooms
<1>6. CountsAll(RemoveHashes(b.counts, Reverse(HashesOf[e])), HashesOn(w))
  BY <1>4, <1>5, RemoveCounts
<1>7. RemoveHashes(b.counts, Reverse(HashesOf[e])) \in [Slot -> 0 .. MaxCount]
  BY <1>6 DEF CountsAll, Counted
<1>. QED  BY <1>1, <1>3, <1>6, <1>7 DEF SoundBlooms, Pop

\* Clearing, either way.
LEMMA ClearSound ==
  ASSUME NEW b \in SoundBlooms
  PROVE  Clear(b) \in SoundBlooms /\ Clear(b).elements = <<>>
<1>1. PICK w \in Seq(Element) : w = b.elements
  BY DEF SoundBlooms
<1>2. PushedHashes(b) = HashesOn(w)
  BY <1>1 DEF PushedHashes, HashesOn
<1>3. CountsAll(b.counts, HashesOn(w))
  BY <1>1 DEF SoundBlooms
<1>4. HashesOn(w) \in Seq(Hash)
  BY HashesOnPushed, TreeAssumption
<1>5. CountsAll(RemoveHashes(b.counts, HashesOn(w)), <<>>)
  BY <1>3, <1>4, RemoveAll
<1>6. Clear(b).elements = <<>>
  BY DEF Clear, EmptyBloom
<1>. QED  BY <1>2, <1>5, <1>6, ZeroSound, EmptySound DEF Clear

\* Pushing several.
LEMMA PushAllSound ==
  ASSUME NEW b \in SoundBlooms, NEW v \in Seq(Element)
  PROVE  PushAll(b, v) \in SoundBlooms /\ PushAll(b, v).elements = b.elements \o v
<1>. DEFINE n == Len(v)
            f == [x \in (1 .. n) \X SoundBlooms |-> Push(x[2], v[x[1]])]
            Eq(h) == h = [q \in SUBSET (1 .. n) |-> IF q = {} THEN b ELSE Push(h[q \ {Max(q)}], v[Max(q)])]
<1>1. n \in Nat /\ DOMAIN v = 1 .. n /\ \A i \in 1 .. n : v[i] \in Element
  OBVIOUS
<1>. HIDE DEF n
<1>2. f \in [(1 .. n) \X SoundBlooms -> SoundBlooms] /\ \A i \in 1 .. n, d \in SoundBlooms : f[<<i, d>>] = Push(d, v[i])
  BY <1>1, PushSound
<1>. HIDE DEF f
<1>3. PICK h \in [SUBSET (1 .. n) -> SoundBlooms] : IsFold(h, n, b, f)
  <2>1. PICK f1, D1 : f1 = f /\ D1 = SoundBlooms
    OBVIOUS
  <2>2. f1 \in [(1 .. n) \X D1 -> D1] /\ b \in D1
    BY <1>2, <2>1
  <2>3. \E h \in [SUBSET (1 .. n) -> D1] : IsFold(h, n, b, f1)
    BY ONLY <1>1, <2>2, FoldExists
  <2>. QED  BY <2>1, <2>3
<1>4. Eq(h)
  <2>1. ASSUME NEW q \in SUBSET (1 .. n), q # {}
        PROVE  h[q] = Push(h[q \ {Max(q)}], v[Max(q)])
    <3>1. Max(q) \in 1 .. n
      BY <1>1, <2>1, LastPosition
    <3>2. h[q \ {Max(q)}] \in SoundBlooms
      BY <2>1
    <3>3. h[q] = f[<<Max(q), h[q \ {Max(q)}]>>]
      BY <1>3, <2>1 DEF IsFold
    <3>. QED  BY <1>2, <3>1, <3>2, <3>3
  <2>2. h[{}] = b
    <3>1. {} \in SUBSET (1 .. n)
      OBVIOUS
    <3>. QED  BY <1>3, <3>1 DEF IsFold
  <2>. QED  BY <2>1, <2>2
<1>5. PICK c : Eq(c) /\ PushAll(b, v) = c[1 .. n]
  <2>1. PushAll(b, v) = (CHOOSE c : Eq(c))[1 .. n]
    BY <1>1 DEF PushAll, FoldLeft, MapThenFoldSet
  <2>. HIDE DEF Eq
  <2>. QED  BY <1>4, <2>1
<1>. DEFINE T == {i \in 0 .. n : c[1 .. i] \in SoundBlooms /\ c[1 .. i].elements = b.elements \o SubSeq(v, 1, i)}
<1>6. PICK w \in Seq(Element) : w = b.elements
  BY DEF SoundBlooms
<1>7. 0 \in T
  <2>1. 1 .. 0 = {} /\ {} \in SUBSET (1 .. n)
    OBVIOUS
  <2>2. c[1 .. 0] = b
    BY <1>5, <2>1
  <2>3. w \o SubSeq(v, 1, 0) = w
    OBVIOUS
  <2>. QED  BY <1>1, <1>6, <2>2, <2>3
<1>8. ASSUME NEW i \in 1 .. n, i - 1 \in T PROVE i \in T
  <2>1. /\ (1 .. i) \in SUBSET (1 .. n) /\ 1 .. i # {}
        /\ Max(1 .. i) = i /\ (1 .. i) \ {Max(1 .. i)} = 1 .. (i - 1)
    BY <1>1, LastOfPrefix
  <2>2. c[1 .. i] = Push(c[1 .. (i - 1)], v[i])
    BY <1>5, <2>1
  <2>3. PICK d \in SoundBlooms : d = c[1 .. (i - 1)] /\ d.elements = w \o SubSeq(v, 1, i - 1)
    BY <1>6, <1>8
  <2>4. Push(d, v[i]) \in SoundBlooms /\ Push(d, v[i]).elements = Append(w \o SubSeq(v, 1, i - 1), v[i])
    BY <1>1, <2>3, PushSound
  <2>5. Append(w \o SubSeq(v, 1, i - 1), v[i]) = w \o SubSeq(v, 1, i)
    BY <1>1
  <2>6. i \in 0 .. n
    OBVIOUS
  <2>. QED  BY <1>6, <2>2, <2>3, <2>4, <2>5, <2>6
<1>9. n \in T
  <2>. HIDE DEF T
  <2>1. 0 .. n \subseteq T
    <3>1. PICK T1 : T1 = T
      OBVIOUS
    <3>2. 0 \in T1 /\ \A i \in 1 .. n : i - 1 \in T1 => i \in T1
      BY <1>7, <1>8, <3>1
    <3>3. 0 .. n \subseteq T1
      BY ONLY <1>1, <3>2, PrefixInduction
    <3>. QED  BY <3>1, <3>3
  <2>. QED  BY <1>1, <2>1
<1>10. SubSeq(v, 1, n) = v
  BY DEF n
<1>. QED  BY <1>5, <1>9, <1>10

\* Popping until n elements are left.
LEMMA PopToSound ==
  ASSUME NEW b \in SoundBlooms, NEW left \in Nat, left <= Len(b.elements)
  PROVE  PopTo(b, left) \in SoundBlooms /\ PopTo(b, left).elements = SubSeq(b.elements, 1, left)
<1>. DEFINE n == Len(b.elements) - left
            D == SoundBlooms
            f == [x \in D |-> IF x.elements # <<>> THEN Pop(x) ELSE x]
            Eq(h) == h = [q \in SUBSET (1 .. n) |-> IF q = {} THEN b ELSE Pop(h[q \ {Max(q)}])]
<1>1. PICK w \in Seq(Element) : w = b.elements
  BY DEF SoundBlooms
<1>2. n \in Nat /\ n = Len(w) - left /\ left \in 0 .. Len(w)
  BY <1>1
<1>. HIDE DEF n
<1>3. f \in [D -> D]
  BY PopSound
<1>4. PICK p \in [0 .. n -> D] : IsIteration(p, n, b, f)
  <2>1. PICK f1, D1 : f1 = f /\ D1 = D
    OBVIOUS
  <2>. HIDE DEF f, D
  <2>2. f1 \in [D1 -> D1] /\ b \in D1
    BY <1>3, <2>1 DEF D
  <2>3. \E p \in [0 .. n -> D1] : IsIteration(p, n, b, f1)
    BY ONLY <1>2, <2>2, IterationExists
  <2>. QED  BY <2>1, <2>3
<1>5. p[0] = b /\ \A i \in 1 .. n : p[i] = f[p[i - 1]]
  <2>. HIDE DEF f, D
  <2>. QED  BY <1>2, <1>4 DEF IsIteration
<1>. DEFINE T == {i \in 0 .. n : p[i].elements = SubSeq(w, 1, Len(w) - i)}
<1>6. 0 \in T
  BY <1>1, <1>2, <1>5
<1>7. ASSUME NEW i \in 1 .. n, i - 1 \in T
      PROVE  i \in T /\ p[i] = Pop(p[i - 1])
  <2>1. PICK d \in D : d = p[i - 1]
    <3>. HIDE DEF D
    <3>1. i - 1 \in 0 .. n
      BY <1>2
    <3>. QED  BY <3>1
  <2>2. PICK k \in Nat : k = Len(w) - i /\ k + 1 = Len(w) - (i - 1) /\ k + 1 \in 1 .. Len(w)
    <3>1. Len(w) \in Nat
      OBVIOUS
    <3>2. Len(w) - i \in Nat /\ (Len(w) - i) + 1 = Len(w) - (i - 1) /\ (Len(w) - i) + 1 \in 1 .. Len(w)
      BY ONLY <1>2, <3>1, i \in 1 .. n, left \in Nat
    <3>. QED  BY <3>2
  <2>3. d.elements = SubSeq(w, 1, k + 1)
    BY <1>7, <2>1, <2>2
  <2>4. d.elements # <<>> /\ SubSeq(d.elements, 1, Len(d.elements) - 1) = SubSeq(w, 1, k)
    <3>1. PICK v : v = SubSeq(w, 1, k + 1)
      OBVIOUS
    <3>2. v \in Seq(Element) /\ Len(v) = k + 1 /\ v # <<>> /\ SubSeq(v, 1, k) = SubSeq(w, 1, k)
      <4>1. k + 1 \in 1 .. Len(w)
        BY <2>2
      <4>2. v \in Seq(Element)
        BY <3>1, <4>1
      <4>3. Len(v) = k + 1
        BY <3>1, <4>1
      <4>4. v # <<>>
        BY <4>2, <4>3
      <4>5. SubSeq(v, 1, k) = SubSeq(w, 1, k)
        BY ONLY <3>1, <4>1, <4>2, <4>3, w \in Seq(Element), k \in Nat
      <4>. QED  BY <4>2, <4>3, <4>4, <4>5
    <3>3. d.elements = v /\ Len(v) - 1 = k
      BY ONLY <2>3, <3>1, <3>2, k \in Nat
    <3>. QED  BY ONLY <3>2, <3>3
  <2>5. p[i] = Pop(d)
    <3>1. p[i] = f[d]
      <4>. HIDE DEF f, D
      <4>. QED  BY <1>5, <2>1
    <3>. QED  BY <2>4, <3>1
  <2>6. p[i].elements = SubSeq(w, 1, k)
    BY <2>4, <2>5, PopSound
  <2>7. i \in 0 .. n
    BY <1>2
  <2>. QED  BY <2>1, <2>2, <2>5, <2>6, <2>7
<1>. HIDE DEF f
<1>8. 0 .. n \subseteq T
  <2>1. PICK T1 : T1 = T
    OBVIOUS
  <2>2. 0 \in T1 /\ \A i \in 1 .. n : i - 1 \in T1 => i \in T1
    <3>. HIDE DEF T
    <3>. QED  BY <1>6, <1>7, <2>1
  <2>3. 0 .. n \subseteq T1
    BY ONLY <1>2, <2>2, PrefixInduction
  <2>. QED  BY <2>1, <2>3
<1>9. \A i \in 1 .. n : p[i] = Pop(p[i - 1])
  <2>1. \A i \in 1 .. n : i - 1 \in T
    <3>. HIDE DEF T
    <3>1. \A i \in 1 .. n : i - 1 \in 0 .. n
      BY <1>2
    <3>. QED  BY <1>8, <3>1
  <2>. HIDE DEF T
  <2>. QED  BY <1>7, <2>1
<1>10. \A q \in SUBSET (1 .. n) : IsFiniteSet(q) /\ Cardinality(q) \in 0 .. n
  <2>1. ASSUME NEW q \in SUBSET (1 .. n) PROVE IsFiniteSet(q) /\ Cardinality(q) \in 0 .. n
    <3>1. IsFiniteSet(1 .. n) /\ Cardinality(1 .. n) = n
      BY <1>2, FS_Interval
    <3>2. IsFiniteSet(q) /\ Cardinality(q) <= Cardinality(1 .. n) /\ Cardinality(q) \in Nat
      BY <3>1, FS_Subset, FS_CardinalityType
    <3>. QED  BY <1>2, <3>1, <3>2
  <2>. QED  BY <2>1
<1>11. Eq([q \in SUBSET (1 .. n) |-> p[Cardinality(q)]])
  <2>. DEFINE h == [q \in SUBSET (1 .. n) |-> p[Cardinality(q)]]
  <2>1. ASSUME NEW q \in SUBSET (1 .. n), q # {} PROVE h[q] = Pop(h[q \ {Max(q)}])
    <3>1. Max(q) \in q
      BY <1>2, <2>1, LastPosition
    <3>2. PICK r \in SUBSET (1 .. n) : r = q \ {Max(q)}
      OBVIOUS
    <3>3. Cardinality(r) = Cardinality(q) - 1
      BY <1>10, <3>1, <3>2, FS_RemoveElement
    <3>4. Cardinality(q) \in 1 .. n
      BY <1>2, <1>10, <3>3
    <3>5. p[Cardinality(q)] = Pop(p[Cardinality(r)])
      BY <1>9, <3>3, <3>4
    <3>. QED  BY <3>2, <3>5
  <2>2. h[{}] = b
    <3>1. {} \in SUBSET (1 .. n) /\ Cardinality({}) = 0
      BY FS_EmptySet
    <3>. QED  BY <1>5, <3>1
  <2>. QED  BY <2>1, <2>2
<1>12. ASSUME NEW c, Eq(c) PROVE c[1 .. n] = p[n]
  <2>. DEFINE U == {i \in 0 .. n : c[1 .. i] = p[i]}
  <2>1. 0 \in U
    <3>1. 1 .. 0 = {} /\ {} \in SUBSET (1 .. n)
      OBVIOUS
    <3>. QED  BY <1>2, <1>5, <1>12, <3>1
  <2>2. ASSUME NEW i \in 1 .. n, i - 1 \in U PROVE i \in U
    <3>1. /\ (1 .. i) \in SUBSET (1 .. n) /\ 1 .. i # {}
          /\ Max(1 .. i) = i /\ (1 .. i) \ {Max(1 .. i)} = 1 .. (i - 1)
      BY <1>2, LastOfPrefix
    <3>2. c[1 .. i] = Pop(c[1 .. (i - 1)])
      BY <1>12, <3>1
    <3>3. i \in 0 .. n
      BY <1>2
    <3>. QED  BY <1>9, <2>2, <3>2, <3>3
  <2>3. 0 .. n \subseteq U
    <3>1. PICK T1 : T1 = U
      OBVIOUS
    <3>2. 0 \in T1 /\ \A i \in 1 .. n : i - 1 \in T1 => i \in T1
      <4>. HIDE DEF U, Eq
      <4>. QED  BY <2>1, <2>2, <3>1
    <3>3. 0 .. n \subseteq T1
      BY ONLY <1>2, <3>2, PrefixInduction
    <3>. QED  BY <3>1, <3>3
  <2>. QED  BY <1>2, <2>3
<1>13. PopTo(b, left) = p[n]
  <2>1. DOMAIN [i \in 1 .. n |-> i] = 1 .. n
    OBVIOUS
  <2>2. PopTo(b, left) = (CHOOSE c : Eq(c))[1 .. n]
    BY <2>1 DEF PopTo, FoldLeft, MapThenFoldSet, n
  <2>3. \E c : Eq(c)
    <3>. HIDE DEF Eq
    <3>. QED  BY <1>11
  <2>. HIDE DEF Eq
  <2>. QED  BY <1>12, <2>2, <2>3
<1>14. n \in T /\ p[n] \in D
  <2>. HIDE DEF T, D
  <2>1. n \in 0 .. n
    BY <1>2
  <2>. QED  BY <1>8, <2>1
<1>15. Len(w) - n = left
  BY <1>2
<1>. QED  BY <1>1, <1>13, <1>14, <1>15

\* The filter is made one with exactly the elements above e, wherever it was, if the depth is known
\* (StyleBloom::insert_parents_recovering).
LEMMA ParentsInserted ==
  ASSUME NEW b \in SoundBlooms, NEW x \in Element, b.elements = Chain[x], NEW e \in Element
  PROVE  LET r == InsertParentsRecovering(b, e, Depth(e))
         IN r \in SoundBlooms /\ r.elements = Chain[e]
<1>. DEFINE r == InsertParentsRecovering(b, e, Depth(e))
<1>1. /\ Chain[x] \in Seq(Element) /\ Len(Chain[x]) = Depth(x)
      /\ \A i \in 1 .. Depth(x) : Chain[Chain[x][i]] = SubSeq(Chain[x], 1, i - 1)
  BY ChainFacts
<1>2. /\ Chain[e] \in Seq(Element) /\ Len(Chain[e]) = Depth(e)
      /\ \A i \in 1 .. Depth(e) : Chain[Chain[e][i]] = SubSeq(Chain[e], 1, i - 1)
  BY ChainFacts
<1>3. Depth(x) \in Nat /\ Depth(e) \in Nat
  BY DepthIsNatural
<1>4. PICK d \in Nat : d = Depth(e)
  BY <1>3
<1>5. PICK w \in Seq(Element) : w = Chain[e] /\ Len(w) = d /\ \A i \in 1 .. d : Chain[w[i]] = SubSeq(w, 1, i - 1)
  BY <1>2, <1>4
<1>6. PICK v \in Seq(Element) : /\ v = Chain[x] /\ v = b.elements
                               /\ \A i \in 1 .. Len(v) : Chain[v[i]] = SubSeq(v, 1, i - 1)
  BY <1>1
<1>7. CASE v = <<>>
  <2>1. r = PushAll(Clear(b), w)
    BY <1>5, <1>6, <1>7 DEF InsertParentsRecovering, Rebuild
  <2>2. Clear(b) \in SoundBlooms /\ Clear(b).elements = <<>>
    BY ClearSound
  <2>3. PushAll(Clear(b), w) \in SoundBlooms /\ PushAll(Clear(b), w).elements = <<>> \o w
    BY <2>2, PushAllSound
  <2>. QED  BY <1>5, <2>1, <2>3
<1>8. CASE v # <<>> /\ e = Root
  <2>1. r = Clear(b) /\ Chain[e] = <<>>
    BY <1>6, <1>8, ChainDefined DEF InsertParentsRecovering
  <2>. QED  BY <2>1, ClearSound
<1>9. CASE v # <<>> /\ e # Root /\ Last(v) = TraversalParent(e)
  <2>1. r = b
    BY <1>6, <1>9 DEF InsertParentsRecovering
  <2>2. x # Root
    BY <1>6, <1>9, ChainDefined
  <2>3. v = Append(Chain[TraversalParent(x)], TraversalParent(x)) /\ TraversalParent(x) \in Element
    BY <1>6, <2>2, ChainDefined, ParentOf
  <2>4. Chain[TraversalParent(x)] \in Seq(Element)
    BY <2>3, ChainFacts
  <2>5. Last(v) = TraversalParent(x)
    BY <2>3, <2>4 DEF Last
  <2>6. Chain[e] = v
    BY <1>9, <2>3, <2>5, ChainDefined
  <2>. QED  BY <1>6, <2>1, <2>6
<1>10. CASE v # <<>> /\ e # Root /\ Last(v) # TraversalParent(e)
  <2>. DEFINE most == IF Len(v) < d THEN Len(v) ELSE d
              known == {k \in 1 .. most : k + (d - d) \in DOMAIN w /\ v[k] = w[k + (d - d)]}
              kept == IF known = {} THEN 0 ELSE Max(known)
  <2>1. d # 0
    <3>1. Depth(e) = Depth(TraversalParent(e)) + 1 /\ TraversalParent(e) \in Element
      BY <1>10, DepthFromParent, ParentOf
    <3>. QED  BY <1>4, <3>1, DepthIsNatural
  <2>2. r = PushAll(PopTo(b, kept), SubSeq(w, kept + (d - d) + 1, d))
    BY <1>4, <1>5, <1>6, <1>10, <2>1 DEF InsertParentsRecovering
  <2>3. most \in Nat /\ most <= Len(v) /\ most <= d /\ d - d = 0
    OBVIOUS
  <2>4. known \in SUBSET (1 .. most) /\ \A k \in known : v[k] = w[k]
    BY <1>5, <2>3
  <2>. HIDE DEF most, known
  <2>5. kept \in 0 .. most /\ (kept # 0 => v[kept] = w[kept])
    <3>1. CASE known = {}
      <4>1. kept = 0
        BY <3>1
      <4>. QED  BY <2>3, <4>1
    <3>2. CASE known # {}
      <4>1. Max(known) \in known
        BY <2>3, <2>4, <3>2, LastPosition
      <4>2. PICK m \in 1 .. most : m = Max(known) /\ v[m] = w[m]
        BY <2>4, <4>1
      <4>3. kept = m
        BY <3>2, <4>2
      <4>. HIDE DEF kept
      <4>. QED  BY <4>2, <4>3
    <3>. QED  BY <3>1, <3>2
  <2>. HIDE DEF kept
  <2>6. PICK k \in Nat : k = kept /\ k <= Len(v) /\ k <= d /\ (k # 0 => v[k] = w[k])
    BY <2>3, <2>5
  <2>7. SubSeq(v, 1, k) = SubSeq(w, 1, k)
    <3>1. CASE k = 0
      BY <3>1
    <3>2. CASE k # 0
      <4>1. k \in 1 .. Len(v) /\ k \in 1 .. Len(w)
        BY <1>5, <2>6, <3>2
      <4>2. SubSeq(v, 1, k - 1) = SubSeq(w, 1, k - 1)
        BY <1>5, <1>6, <2>6, <3>2, <4>1
      <4>3. SubSeq(v, 1, k) = Append(SubSeq(v, 1, k - 1), v[k])
        BY ONLY v \in Seq(Element), <4>1
      <4>4. SubSeq(w, 1, k) = Append(SubSeq(w, 1, k - 1), w[k])
        BY ONLY w \in Seq(Element), <4>1
      <4>. QED  BY <2>6, <3>2, <4>2, <4>3, <4>4
    <3>. QED  BY <3>1, <3>2
  <2>8. PopTo(b, k) \in SoundBlooms /\ PopTo(b, k).elements = SubSeq(w, 1, k)
    BY <1>6, <2>6, <2>7, PopToSound
  <2>9. r = PushAll(PopTo(b, k), SubSeq(w, k + 1, d))
    <3>1. k + (d - d) + 1 = k + 1
      OBVIOUS
    <3>. QED  BY <2>2, <2>6, <3>1
  <2>10. SubSeq(w, k + 1, d) \in Seq(Element)
    <3>1. k + 1 \in Int /\ d \in Int /\ \A i \in k + 1 .. d : w[i] \in Element
      BY <1>5, <2>6
    <3>. QED  BY ONLY <3>1, SubSeqProperties
  <2>11. SubSeq(w, 1, k) \o SubSeq(w, k + 1, d) = w
    <3>1. d = Len(w) /\ k \in 0 .. d
      BY <1>5, <2>6
    <3>2. 1 \in 1 .. Len(w) + 1 /\ k \in 1 - 1 .. Len(w) /\ d \in k .. Len(w)
      BY <3>1
    <3>3. SubSeq(w, 1, k) \o SubSeq(w, k + 1, d) = SubSeq(w, 1, d)
      BY ONLY w \in Seq(Element), <3>2, ConcatAdjacentSubSeq
    <3>4. SubSeq(w, 1, Len(w)) = w
      BY ONLY w \in Seq(Element), SubSeqFull
    <3>. QED  BY <3>1, <3>3, <3>4
  <2>. QED  BY <1>5, <2>8, <2>9, <2>10, <2>11, PushAllSound
<1>11. r \in SoundBlooms /\ r.elements = Chain[e]
  BY <1>7, <1>8, <1>9, <1>10
<1>. QED  BY <1>11

\* A filter has each hash of each element on its stack.
LEMMA ContainsHashes ==
  ASSUME NEW b \in SoundBlooms, NEW a \in ToSet(b.elements), NEW h \in ToSet(HashesOf[a])
  PROVE  MightContainHash(b.counts, h)
<1>1. PICK w \in Seq(Element) : w = b.elements
  BY DEF SoundBlooms
<1>2. PICK P \in Seq(Hash) : P = HashesOn(w)
  BY HashesOnPushed, TreeAssumption
<1>3. \E j \in 1 .. Len(P) : P[j] = h
  <2>. DEFINE ss == [i \in DOMAIN w |-> HashesOf[w[i]]]
  <2>1. PICK i \in 1 .. Len(w) : w[i] = a
    BY <1>1 DEF ToSet
  <2>2. PICK n \in Nat : n = Len(w)
    OBVIOUS
  <2>3. ss \in Seq(Seq(Hash)) /\ Len(ss) = n /\ ss[i] = HashesOf[a] /\ a \in Element
    BY <2>1, <2>2, BloomAssumption
  <2>. HIDE DEF ss
  <2>4. PICK g : JoinedUpTo(ss, Hash, n, g)
    BY <2>2, <2>3, FlattenInTurn
  <2>. DEFINE T == {k \in 0 .. n : k >= i => \E j \in 1 .. Len(g[k]) : g[k][j] = h}
  <2>5. \A k \in 0 .. n : g[k] \in Seq(Hash)
    BY <2>4 DEF JoinedUpTo
  <2>6. 0 \in T
    OBVIOUS
  <2>7. ASSUME NEW k \in 1 .. n, k - 1 \in T PROVE k \in T
    <3>1. g[k] = g[k - 1] \o ss[k]
      BY <2>4 DEF JoinedUpTo
    <3>2. PICK s1 \in Seq(Hash) : s1 = g[k - 1]
      <4>1. k - 1 \in 0 .. n
        OBVIOUS
      <4>. QED  BY <2>5, <4>1
    <3>3. ss[k] \in Seq(Hash)
      <4>1. PICK D : D = Seq(Hash)
        OBVIOUS
      <4>2. ss \in Seq(D)
        BY <2>3, <4>1
      <4>. QED  BY <2>3, <4>1, <4>2
    <3>4. PICK s2 \in Seq(Hash) : s2 = ss[k]
      BY <3>3
    <3>5. CASE k = i
      <4>1. PICK j \in 1 .. Len(s2) : s2[j] = h
        BY <2>3, <3>4, <3>5 DEF ToSet
      <4>2. (s1 \o s2)[Len(s1) + j] = h /\ Len(s1) + j \in 1 .. Len(s1 \o s2)
        BY <4>1
      <4>3. g[k] = s1 \o s2
        BY <3>1, <3>2, <3>4
      <4>4. \E m \in 1 .. Len(g[k]) : g[k][m] = h
        BY <4>2, <4>3
      <4>. QED  BY <4>4
    <3>6. CASE k # i
      <4>1. SUFFICES ASSUME k >= i PROVE \E j \in 1 .. Len(g[k]) : g[k][j] = h
        OBVIOUS
      <4>2. PICK j \in 1 .. Len(s1) : s1[j] = h
        BY <2>7, <3>2, <3>6, <4>1
      <4>3. (s1 \o s2)[j] = h /\ j \in 1 .. Len(s1 \o s2)
        BY <4>2
      <4>4. g[k] = s1 \o s2
        BY <3>1, <3>2, <3>4
      <4>5. \E m \in 1 .. Len(g[k]) : g[k][m] = h
        BY <4>3, <4>4
      <4>. QED  BY <4>5
    <3>. QED  BY <3>5, <3>6
  <2>8. n \in T
    <3>. HIDE DEF T
    <3>1. 0 .. n \subseteq T
      BY ONLY n \in Nat, <2>6, <2>7, PrefixInduction
    <3>. QED  BY <3>1
  <2>9. g[n] = P
    BY <1>2, <2>4 DEF JoinedUpTo, HashesOn, ss
  <2>. QED  BY <2>1, <2>2, <2>8, <2>9
<1>4. PICK j \in 1 .. Len(P) : P[j] = h
  BY <1>3
<1>5. Counted(b.counts, P, Both(1 .. Len(P)))
  BY <1>1, <1>2 DEF SoundBlooms, CountsAll
<1>6. ASSUME NEW k \in {1, 2} PROVE b.counts[SlotOf(h, k)] # 0
  <2>1. PICK X : X = Both(1 .. Len(P)) /\ X \in SUBSET ((1 .. Len(P)) \X {1, 2}) /\ <<j, k>> \in X
    BY DEF Both
  <2>2. PICK s \in Slot : s = SlotOf(h, k)
    BY <1>4, BloomAssumption DEF SlotOf
  <2>3. <<j, k>> \in Hits(P, X, s)
    BY <1>4, <2>1, <2>2 DEF Hits
  <2>4. Cardinality(Hits(P, X, s)) # 0
    BY <2>1, <2>3, HitsAreFinite, FS_EmptySet
  <2>. QED  BY <1>5, <2>1, <2>2, <2>4, BloomAssumption DEF Counted
<1>. QED  BY <1>6 DEF MightContainHash, SlotOf


-----------------------------------------------------------------------------
(* Noting the children of an element.                                        *)

NotingState == [hint : [Element -> SUBSET Hints], dirty : SUBSET Element,
                snapshot : SUBSET Element, kids : Seq(Element)]

\* Where a state of the data is reached from another: bits are set, snapshots handled.
Grows(s, r) ==
  /\ s.dirty \subseteq r.dirty /\ r.snapshot \subseteq s.snapshot
  /\ \A d \in Element : s.hint[d] \subseteq r.hint[d]

\* The fields that handling a snapshot sets.
LEMMA RecordUpdated ==
  ASSUME NEW s \in NotingState, NEW h, NEW b, NEW n
  PROVE  [s EXCEPT !.hint = h, !.dirty = b, !.snapshot = n]
           = [hint |-> h, dirty |-> b, snapshot |-> n, kids |-> s.kids]
<1>1. PICK r : r = [s EXCEPT !.hint = h]
  OBVIOUS
<1>2. r = [hint |-> h, dirty |-> s.dirty, snapshot |-> s.snapshot, kids |-> s.kids]
  BY <1>1 DEF NotingState
<1>3. PICK q : q = [r EXCEPT !.dirty = b]
  OBVIOUS
<1>4. q = [hint |-> h, dirty |-> b, snapshot |-> s.snapshot, kids |-> s.kids]
  BY ONLY <1>2, <1>3
<1>5. [q EXCEPT !.snapshot = n] = [hint |-> h, dirty |-> b, snapshot |-> n, kids |-> s.kids]
  BY ONLY <1>4
<1>6. [s EXCEPT !.hint = h, !.dirty = b, !.snapshot = n] = [q EXCEPT !.snapshot = n]
  BY ONLY <1>1, <1>3, Zenon
<1>. QED  BY <1>5, <1>6

\* Handling a snapshot sets bits and hints, and queues nothing.
LEMMA InvalidateGrows ==
  ASSUME NEW s \in NotingState, NEW e \in Element, styled \in SUBSET Element
  PROVE  /\ InvalidateStyleIfNeeded(s, e) \in NotingState
         /\ InvalidateStyleIfNeeded(s, e).kids = s.kids
         /\ Grows(s, InvalidateStyleIfNeeded(s, e))
<1>. DEFINE processed(a) == a \in displayed /\ "RESTYLE_DESCENDANTS" \notin s.hint[a]
            found == {d \in Invalidates[e] \cap styled : \A a \in Ancestors(d) \ Ancestors(e) : processed(a)}
            h == [d \in Element |-> s.hint[d] \cup IF d \in found THEN {"RESTYLE_SELF"} ELSE {}]
            b == s.dirty \cup UNION {PathTo(d, e) : d \in found}
            r == [s EXCEPT !.hint = h, !.dirty = b, !.snapshot = @ \ {e}]
<1>1. InvalidateStyleIfNeeded(s, e) = IF e \notin s.snapshot THEN s ELSE r
  BY DEF InvalidateStyleIfNeeded
<1>2. found \in SUBSET Element
  OBVIOUS
<1>3. \A d \in Element : PathTo(d, e) \in SUBSET Element
  BY DEF PathTo, Ancestors, AncestorSets
<1>4. b \in SUBSET Element /\ s.dirty \subseteq b
  <2>. HIDE DEF found
  <2>1. s.dirty \in SUBSET Element
    BY DEF NotingState
  <2>. QED  BY <1>2, <1>3, <2>1
<1>5. h \in [Element -> SUBSET Hints] /\ \A d \in Element : s.hint[d] \subseteq h[d]
  <2>. HIDE DEF found
  <2>1. s.hint \in [Element -> SUBSET Hints] /\ "RESTYLE_SELF" \in Hints
    BY DEF NotingState, Hints
  <2>. QED  BY <2>1
<1>. HIDE DEF h, b
<1>6. /\ r = [hint |-> h, dirty |-> b, snapshot |-> s.snapshot \ {e}, kids |-> s.kids]
      /\ s.snapshot \in SUBSET Element /\ s.kids \in Seq(Element)
  <2>1. r = [s EXCEPT !.hint = h, !.dirty = b, !.snapshot = s.snapshot \ {e}]
    BY Zenon
  <2>2. r = [hint |-> h, dirty |-> b, snapshot |-> s.snapshot \ {e}, kids |-> s.kids]
    BY <2>1, RecordUpdated
  <2>. QED  BY <2>2 DEF NotingState
<1>7. r \in NotingState
  BY <1>4, <1>5, <1>6 DEF NotingState
<1>8. r.kids = s.kids /\ Grows(s, r)
  BY <1>4, <1>5, <1>6 DEF Grows
<1>9. Grows(s, s)
  BY DEF Grows
<1>. QED  BY <1>1, <1>7, <1>8, <1>9

\* A child is queued at most once when its turn comes, and then its parent is marked.
LEMMA NoteChildGrows ==
  ASSUME NEW s \in NotingState, NEW e \in Element, NEW child \in Element,
         NEW propagated \in SUBSET Hints, styled \in SUBSET Element
  PROVE  LET r == NoteChild(s, e, child, propagated)
         IN /\ r \in NotingState /\ Grows(s, r)
            /\ \/ r.kids = s.kids
               \/ r.kids = Append(s.kids, child) /\ (e \in styled => e \in r.dirty)
<1>. DEFINE g == [s EXCEPT !.hint[child] = @ \cup propagated]
            hinted == IF child \notin styled THEN s ELSE InvalidateStyleIfNeeded(g, child)
            r == NoteChild(s, e, child, propagated)
<1>1. g \in NotingState /\ g.kids = s.kids /\ Grows(s, g)
  <2>1. g = [hint |-> [s.hint EXCEPT ![child] = @ \cup propagated], dirty |-> s.dirty,
             snapshot |-> s.snapshot, kids |-> s.kids]
    <3>1. s = [hint |-> s.hint, dirty |-> s.dirty, snapshot |-> s.snapshot, kids |-> s.kids]
      BY DEF NotingState
    <3>. QED  BY ONLY <3>1
  <2>2. s.hint \in [Element -> SUBSET Hints]
    BY DEF NotingState
  <2>3. [s.hint EXCEPT ![child] = @ \cup propagated] \in [Element -> SUBSET Hints]
    BY <2>2
  <2>4. \A d \in Element : s.hint[d] \subseteq [s.hint EXCEPT ![child] = @ \cup propagated][d]
    BY <2>2
  <2>. QED  BY <2>1, <2>3, <2>4 DEF NotingState, Grows
<1>. HIDE DEF g
<1>2. hinted \in NotingState /\ hinted.kids = s.kids /\ Grows(s, hinted)
  <2>1. /\ InvalidateStyleIfNeeded(g, child) \in NotingState
        /\ InvalidateStyleIfNeeded(g, child).kids = g.kids
        /\ Grows(g, InvalidateStyleIfNeeded(g, child))
    BY <1>1, InvalidateGrows
  <2>2. Grows(s, InvalidateStyleIfNeeded(g, child))
    BY <1>1, <2>1 DEF Grows
  <2>3. Grows(s, s)
    BY DEF Grows
  <2>. QED  BY <1>1, <2>1, <2>2, <2>3
<1>3. r = IF ~ ElementNeedsTraversal(hinted, child) THEN hinted
          ELSE [hinted EXCEPT !.kids = Append(@, child),
                              !.dirty = IF e \in styled THEN @ \cup {e} ELSE @]
  BY DEF NoteChild, g
<1>. HIDE DEF hinted, r
<1>4. CASE ~ ElementNeedsTraversal(hinted, child)
  BY <1>2, <1>3, <1>4 DEF r
<1>5. CASE ElementNeedsTraversal(hinted, child)
  <2>1. PICK b \in SUBSET Element : b = IF e \in styled THEN hinted.dirty \cup {e} ELSE hinted.dirty
    BY <1>2 DEF NotingState
  <2>2. r = [hint |-> hinted.hint, dirty |-> b, snapshot |-> hinted.snapshot,
             kids |-> Append(s.kids, child)]
    BY <1>2, <1>3, <1>5, <2>1 DEF NotingState
  <2>3. s.kids \in Seq(Element) /\ hinted.hint \in [Element -> SUBSET Hints] /\ hinted.snapshot \in SUBSET Element
    BY <1>2 DEF NotingState
  <2>4. Append(s.kids, child) \in Seq(Element)
    BY <2>3
  <2>5. r \in NotingState
    BY <2>1, <2>2, <2>3, <2>4 DEF NotingState
  <2>6. Grows(s, r) /\ r.kids = Append(s.kids, child) /\ (e \in styled => e \in r.dirty)
    BY <1>2, <2>1, <2>2 DEF Grows
  <2>. QED  BY <2>5, <2>6 DEF r
<1>. QED  BY <1>4, <1>5

\* The states in between when the n children of e are noted in turn.
NotedInTurn(s, e, p, n, g) ==
  /\ g \in [0 .. n -> NotingState]
  /\ g[0] = s /\ g[n] = NoteChildren(s, e, p)
  /\ \A i \in 1 .. n : g[i] = NoteChild(g[i - 1], e, Children[e][i], p)

\* Noting the children is noting them one after the other.
LEMMA ChildrenInOrder ==
  ASSUME NEW s \in NotingState, NEW e \in Element, NEW p \in SUBSET Hints, styled \in SUBSET Element,
         NEW n \in Nat, n = Len(Children[e])
  PROVE  \E g : NotedInTurn(s, e, p, n, g)
<1>. DEFINE seq == Children[e]
            D == NotingState
            Op(x, c) == NoteChild(x, e, c, p)
<1>1. n = Len(seq) /\ DOMAIN seq = 1 .. n /\ \A i \in 1 .. n : seq[i] \in Element
  BY TreeAssumption
<1>2. \A x \in D, c \in Element : Op(x, c) \in D
  BY NoteChildGrows
<1>. HIDE DEF Op, D, seq
<1>. DEFINE f == [x \in (1 .. n) \X D |-> Op(x[2], seq[x[1]])]
            Eq(h) == h = [q \in SUBSET (1 .. n) |-> IF q = {} THEN s ELSE Op(h[q \ {Max(q)}], seq[Max(q)])]
<1>3. f \in [(1 .. n) \X D -> D]
  BY <1>1, <1>2
<1>4. s \in D
  BY DEF D
<1>5. PICK h \in [SUBSET (1 .. n) -> D] : IsFold(h, n, s, f)
  <2>. HIDE DEF f
  <2>1. PICK f1, D1 : f1 = f /\ D1 = D
    OBVIOUS
  <2>2. f1 \in [(1 .. n) \X D1 -> D1] /\ s \in D1
    BY <1>3, <1>4, <2>1
  <2>3. \E h \in [SUBSET (1 .. n) -> D1] : IsFold(h, n, s, f1)
    BY ONLY n \in Nat, <2>2, FoldExists
  <2>. QED  BY <2>1, <2>3
<1>6. Eq(h)
  <2>1. ASSUME NEW q \in SUBSET (1 .. n), q # {}
        PROVE  f[<<Max(q), h[q \ {Max(q)}]>>] = Op(h[q \ {Max(q)}], seq[Max(q)])
    <3>1. Max(q) \in 1 .. n
      BY <2>1, LastPosition
    <3>2. h[q \ {Max(q)}] \in D
      BY <2>1
    <3>. QED  BY <3>1, <3>2
  <2>2. \A q \in SUBSET (1 .. n) : h[q] = IF q = {} THEN s ELSE Op(h[q \ {Max(q)}], seq[Max(q)])
    <3>. HIDE DEF f
    <3>. QED  BY <1>5, <2>1 DEF IsFold
  <2>. QED  BY <2>2
<1>7. PICK c : Eq(c) /\ NoteChildren(s, e, p) = c[1 .. n]
  <2>1. NoteChildren(s, e, p) = (CHOOSE c : Eq(c))[1 .. n]
    BY <1>1 DEF NoteChildren, FoldLeft, MapThenFoldSet, Op, seq
  <2>. HIDE DEF Eq
  <2>. QED  BY <1>6, <2>1
<1>. DEFINE g == [i \in 0 .. n |-> c[1 .. i]]
<1>8. g[0] = s
  <2>1. 1 .. 0 = {} /\ {} \in SUBSET (1 .. n)
    OBVIOUS
  <2>. QED  BY <1>7, <2>1
<1>9. ASSUME NEW i \in 1 .. n
      PROVE  g[i] = Op(g[i - 1], seq[i])
  <2>1. /\ (1 .. i) \in SUBSET (1 .. n) /\ 1 .. i # {}
        /\ Max(1 .. i) = i /\ (1 .. i) \ {Max(1 .. i)} = 1 .. (i - 1)
    BY LastOfPrefix
  <2>2. c[1 .. i] = Op(c[1 .. (i - 1)], seq[i])
    BY <1>7, <2>1
  <2>3. i \in 0 .. n /\ i - 1 \in 0 .. n
    OBVIOUS
  <2>. QED  BY <2>2, <2>3
<1>10. g \in [0 .. n -> D]
  <2>1. \A i \in 1 .. n : g[i - 1] \in D => g[i] \in D
    <3>. HIDE DEF g
    <3>. QED  BY <1>1, <1>2, <1>9
  <2>2. \A i \in 0 .. n : g[i] \in D
    <3>. HIDE DEF g
    <3>1. PICK T : T = {i \in 0 .. n : g[i] \in D}
      OBVIOUS
    <3>2. 0 \in T /\ \A i \in 1 .. n : i - 1 \in T => i \in T
      BY <1>4, <1>8, <2>1, <3>1
    <3>3. 0 .. n \subseteq T
      BY ONLY n \in Nat, <3>2, PrefixInduction
    <3>. QED  BY <3>1, <3>3
  <2>. QED  BY <2>2
<1>11. g[n] = NoteChildren(s, e, p)
  BY <1>7
<1>. HIDE DEF g
<1>12. NotedInTurn(s, e, p, n, g)
  BY <1>1, <1>8, <1>9, <1>10, <1>11 DEF Op, D, seq, NotedInTurn
<1>. QED  BY <1>12

\* The children that are noted: each once, in their order, and their parent is marked if it had a style.
LEMMA ChildrenNoted ==
  ASSUME NEW s \in NotingState, s.kids = <<>>, NEW e \in Element, NEW p \in SUBSET Hints,
         styled \in SUBSET Element
  PROVE  LET r == NoteChildren(s, e, p)
         IN /\ r \in NotingState /\ Grows(s, r)
            /\ r.kids \in Seq(Kids(e)) /\ IsInjective(r.kids)
            /\ e \in styled /\ r.kids # <<>> => e \in r.dirty
<1>1. PICK n \in Nat : /\ n = Len(Children[e]) /\ DOMAIN Children[e] = 1 .. n
                       /\ \A i \in 1 .. n : Children[e][i] \in Element
                       /\ \A i, j \in 1 .. n : Children[e][i] = Children[e][j] => i = j
  BY TreeAssumption
<1>2. PICK g : NotedInTurn(s, e, p, n, g)
  BY <1>1, ChildrenInOrder
<1>. DEFINE Good(i) == /\ Grows(s, g[i])
                       /\ IsInjective(g[i].kids)
                       /\ \A j \in 1 .. Len(g[i].kids) : \E k \in 1 .. i : g[i].kids[j] = Children[e][k]
                       /\ e \in styled /\ g[i].kids # <<>> => e \in g[i].dirty
<1>3. Good(0)
  BY <1>2 DEF Grows, IsInjective, NotedInTurn
<1>4. ASSUME NEW i \in 1 .. n, Good(i - 1)
      PROVE  Good(i)
  <2>1. PICK a \in NotingState, b \in NotingState, c \in Element :
          a = g[i - 1] /\ b = g[i] /\ c = Children[e][i]
    <3>1. i - 1 \in 0 .. n /\ i \in 0 .. n
      OBVIOUS
    <3>. QED  BY <1>1, <1>2, <3>1 DEF NotedInTurn
  <2>2. b = NoteChild(a, e, c, p)
    BY <1>2, <2>1 DEF NotedInTurn
  <2>3. Grows(a, b) /\ \/ b.kids = a.kids
                       \/ b.kids = Append(a.kids, c) /\ (e \in styled => e \in b.dirty)
    BY <2>2, NoteChildGrows
  <2>4. /\ Grows(s, a) /\ IsInjective(a.kids)
        /\ \A j \in 1 .. Len(a.kids) : \E k \in 1 .. (i - 1) : a.kids[j] = Children[e][k]
        /\ e \in styled /\ a.kids # <<>> => e \in a.dirty
    BY <1>4, <2>1
  <2>5. Grows(s, b)
    BY <2>3, <2>4 DEF Grows
  <2>6. CASE b.kids = a.kids
    <3>1. e \in styled /\ b.kids # <<>> => e \in b.dirty
      BY <2>3, <2>4, <2>6 DEF Grows
    <3>. QED  BY <2>1, <2>4, <2>5, <2>6, <3>1
  <2>7. CASE b.kids = Append(a.kids, c) /\ (e \in styled => e \in b.dirty)
    <3>1. PICK q \in Seq(Element), m \in Nat : q = a.kids /\ m = Len(q)
      BY DEF NotingState
    <3>2. b.kids = Append(q, c) /\ Len(b.kids) = m + 1 /\ b.kids \in Seq(Element)
          /\ b.kids[m + 1] = c /\ \A j \in 1 .. m : b.kids[j] = q[j]
      BY <2>7, <3>1
    <3>3. \A j \in 1 .. m : \E k \in 1 .. (i - 1) : q[j] = Children[e][k]
      BY <2>4, <3>1
    <3>4. ASSUME NEW j \in 1 .. m PROVE q[j] # c
      <4>1. PICK k \in 1 .. (i - 1) : q[j] = Children[e][k]
        BY <3>3
      <4>2. k \in 1 .. n /\ k # i
        OBVIOUS
      <4>. QED  BY <1>1, <2>1, <4>1, <4>2
    <3>5. \A j, k \in 1 .. m : q[j] = q[k] => j = k
      BY <2>4, <3>1 DEF IsInjective
    <3>6. \A j, k \in 1 .. (m + 1) : b.kids[j] = b.kids[k] => j = k
      BY <3>2, <3>4, <3>5
    <3>7. IsInjective(b.kids)
      BY <3>2, <3>6 DEF IsInjective
    <3>8. \A j \in 1 .. (m + 1) : \E k \in 1 .. i : b.kids[j] = Children[e][k]
      BY <2>1, <3>2, <3>3
    <3>. QED  BY <2>1, <2>5, <2>7, <3>2, <3>7, <3>8
  <2>. QED  BY <2>3, <2>6, <2>7
<1>5. Good(n)
  <2>. HIDE DEF Good
  <2>1. PICK T : T = {i \in 0 .. n : Good(i)}
    OBVIOUS
  <2>2. 0 \in T /\ \A i \in 1 .. n : i - 1 \in T => i \in T
    BY <1>3, <1>4, <2>1
  <2>3. 0 .. n \subseteq T
    BY ONLY n \in Nat, <2>2, PrefixInduction
  <2>. QED  BY <2>1, <2>3
<1>6. PICK r \in NotingState : r = NoteChildren(s, e, p) /\ r = g[n]
  BY <1>2 DEF NotedInTurn
<1>7. /\ Grows(s, r) /\ IsInjective(r.kids) /\ (e \in styled /\ r.kids # <<>> => e \in r.dirty)
      /\ \A j \in 1 .. Len(r.kids) : \E k \in 1 .. n : r.kids[j] = Children[e][k]
  BY <1>5, <1>6
<1>8. r.kids \in Seq(Kids(e))
  <2>1. \A j \in 1 .. Len(r.kids) : r.kids[j] \in Kids(e)
    BY <1>1, <1>7 DEF Kids
  <2>2. r.kids \in Seq(Element)
    BY DEF NotingState
  <2>. QED  BY <2>1, <2>2
<1>. QED  BY <1>6, <1>7, <1>8

-----------------------------------------------------------------------------
(* Visiting an element.                                                      *)

Kinds == {"match", "replace", "cascade", "none"}

DataTypeOK ==
  /\ change \in Changes
  /\ hint \in [Element -> SUBSET Hints]
  /\ styled \in SUBSET Element /\ displayed \in SUBSET Element
  /\ dirty \in SUBSET Element /\ snapshot \in SUBSET Element
  /\ work \in [Element -> SUBSET Kinds]

\* Clearing the data below an element takes its marks and theirs.
LEMMA ClearedState ==
  ASSUME NEW s \in NotingState, NEW e \in Element
  PROVE  /\ Cleared(s, e) \in NotingState /\ Cleared(s, e).kids = s.kids
         /\ s.dirty \ ({e} \cup Descendants(e)) \subseteq Cleared(s, e).dirty
<1>. DEFINE h == [d \in Element |-> IF d \in Descendants(e) THEN {} ELSE s.hint[d]]
<1>1. Cleared(s, e) = [s EXCEPT !.hint = h, !.dirty = s.dirty \ ({e} \cup Descendants(e)),
                                !.snapshot = s.snapshot \ Descendants(e)]
  BY Zenon DEF Cleared
<1>2. h \in [Element -> SUBSET Hints]
  BY DEF NotingState
<1>. HIDE DEF h
<1>3. Cleared(s, e) = [hint |-> h, dirty |-> s.dirty \ ({e} \cup Descendants(e)),
                       snapshot |-> s.snapshot \ Descendants(e), kids |-> s.kids]
  BY <1>1, RecordUpdated
<1>. QED  BY <1>2, <1>3 DEF NotingState

\* Hints that pass to children, and those for a change of style.
LEMMA PropagatedHints ==
  ASSUME DataTypeOK, NEW e \in Element, NEW h \in SUBSET Hints
  PROVE  Propagate(h) \in SUBSET Hints /\ ChangeHint(e) \in SUBSET Hints
<1>1. Propagate(h) \in SUBSET Hints
  BY DEF Propagate, Hints, RestyleSubtree, RecascadeSubtree
<1>2. change.outcome \in [Element -> SUBSET ChildHints] /\ ChildHints \subseteq Hints
  BY ChangesAssumption DEF DataTypeOK, ChildHints, Hints, RestyleSubtree
<1>3. ChangeHint(e) \in SUBSET Hints
  BY <1>2 DEF ChangeHint, Hints
<1>. QED  BY <1>1, <1>3

\* recalc_style_at for e, which is the first in the queue: what it does to the data, and the children
\* it queues.
Recalculated(t, e, kids) ==
  /\ PreorderNoting(t, kids)
  /\ kids \in Seq(Kids(e)) /\ IsInjective(kids)
  /\ e \in styled /\ kids # <<>> => e \in dirty'
  /\ dirty \ ({e} \cup Descendants(e)) \subseteq dirty'
  /\ styled \ Descendants(e) \subseteq styled' /\ styled' \subseteq styled \cup {e} /\ e \in styled'
  /\ kids # <<>> => styled \subseteq styled'
  /\ \A d \in Element \ {e} : work'[d] = work[d]
  /\ change' = change

\* recalc_style_at does that, whatever the element has pending.
LEMMA RecalcStyle ==
  ASSUME DataTypeOK, NEW t \in Thread, Preorder(t), NEW e \in Element, e = Head(discovered[t])
  PROVE  DataTypeOK' /\ \E kids : Recalculated(t, e, kids)
<1>1. PICK kind : kind = RestyleKind(e \in styled, hint[e], Flags[e])
  OBVIOUS
<1>2. PICK display : display = IF kind # "none" THEN ComputedDisplay(e) ELSE displayed
  OBVIOUS
<1>3. PICK propagated : propagated = Propagate(hint[e]) \cup IF kind # "none" THEN ChangeHint(e) ELSE {}
  OBVIOUS
<1>4. PICK gone : gone = IF kind # "none" /\ e \notin display THEN Descendants(e) ELSE {}
  OBVIOUS
<1>5. PICK s0 : s0 = [hint |-> [hint EXCEPT ![e] = {}], dirty |-> dirty, snapshot |-> snapshot, kids |-> <<>>]
  OBVIOUS
<1>6. PICK s1 : s1 = IF kind # "none" /\ e \notin display THEN Cleared(s0, e) ELSE s0
  OBVIOUS
<1>7. PICK s2 : s2 = IF (e \in s1.dirty \/ propagated # {}) /\ e \in display
                     THEN NoteChildren(s1, e, propagated) ELSE s1
  OBVIOUS
<1>8. /\ PreorderNoting(t, s2.kids)
      /\ hint' = s2.hint /\ dirty' = s2.dirty /\ snapshot' = s2.snapshot
      /\ styled' = (styled \ gone) \cup {e}
      /\ displayed' = display \ gone
      /\ work' = [work EXCEPT ![e] = @ \cup {kind}]
      /\ change' = change
  BY <1>1, <1>2, <1>3, <1>4, <1>5, <1>6, <1>7 DEF Preorder
<1>9. styled \in SUBSET Element /\ Descendants(e) \in SUBSET Element /\ e \notin Descendants(e)
  BY DescendantsAreClosed, NotBelowItself DEF DataTypeOK
<1>10. propagated \in SUBSET Hints
  <2>1. hint[e] \in SUBSET Hints
    BY DEF DataTypeOK
  <2>. QED  BY <1>3, <2>1, PropagatedHints
<1>11. s0 \in NotingState /\ s0.kids = <<>> /\ s0.dirty = dirty
  <2>1. [hint EXCEPT ![e] = {}] \in [Element -> SUBSET Hints]
    BY DEF DataTypeOK
  <2>. QED  BY <1>5, <2>1 DEF NotingState, DataTypeOK
<1>12. /\ s1 \in NotingState /\ s1.kids = <<>>
       /\ dirty \ ({e} \cup Descendants(e)) \subseteq s1.dirty
  BY <1>6, <1>11, ClearedState
<1>13. /\ s2 \in NotingState /\ dirty \ ({e} \cup Descendants(e)) \subseteq s2.dirty
       /\ s2.kids \in Seq(Kids(e)) /\ IsInjective(s2.kids)
       /\ e \in styled /\ s2.kids # <<>> => e \in s2.dirty
       /\ s2.kids # <<>> => gone = {}
  <2>1. CASE (e \in s1.dirty \/ propagated # {}) /\ e \in display
    <3>1. PICK r : r = NoteChildren(s1, e, propagated)
      OBVIOUS
    <3>2. /\ r \in NotingState /\ Grows(s1, r)
          /\ r.kids \in Seq(Kids(e)) /\ IsInjective(r.kids)
          /\ e \in styled /\ r.kids # <<>> => e \in r.dirty
      BY <1>9, <1>10, <1>12, <3>1, ChildrenNoted
    <3>3. s2 = r /\ gone = {}
      BY <1>4, <1>7, <2>1, <3>1
    <3>. QED  BY <1>12, <3>2, <3>3 DEF Grows
  <2>2. CASE ~ ((e \in s1.dirty \/ propagated # {}) /\ e \in display)
    <3>1. s2 = s1
      BY <1>7, <2>2
    <3>2. <<>> \in Seq(Kids(e)) /\ IsInjective(<<>>)
      BY DEF IsInjective
    <3>. QED  BY <1>12, <3>1, <3>2
  <2>. QED  BY <2>1, <2>2
<1>14. DataTypeOK'
  <2>1. display \in SUBSET Element
    BY <1>2 DEF ComputedDisplay, DataTypeOK
  <2>2. kind \in Kinds
    BY <1>1 DEF RestyleKind, Kinds
  <2>3. work' \in [Element -> SUBSET Kinds]
    BY <1>8, <2>2 DEF DataTypeOK
  <2>. QED  BY <1>8, <1>9, <1>13, <2>1, <2>3 DEF DataTypeOK, NotingState
<1>15. Recalculated(t, e, s2.kids)
  <2>1. \A d \in Element \ {e} : work'[d] = work[d]
    BY <1>8 DEF DataTypeOK
  <2>2. /\ styled \ Descendants(e) \subseteq styled' /\ styled' \subseteq styled \cup {e} /\ e \in styled'
        /\ s2.kids # <<>> => styled \subseteq styled'
    BY <1>4, <1>8, <1>13
  <2>. QED  BY <1>8, <1>13, <2>1, <2>2 DEF Recalculated
<1>. QED  BY <1>14, <1>15

\* Visiting an element is a preorder step of the parallel traversal.
LEMMA VisitIsPreorder ==
  ASSUME PInv, DataTypeOK, NEW t \in Thread, Preorder(t)
  PROVE  AnyPreorder(t)
<1>1. discovered[t] # <<>> /\ discovered[t] \in Seq(Element)
  BY DEF PInv, TypeOK, Preorder, PreorderNoting
<1>2. PICK e \in Element : e = Head(discovered[t])
  BY <1>1, TailOf
<1>3. PICK kids : Recalculated(t, e, kids)
  BY <1>2, RecalcStyle
<1>4. PreorderNoting(t, kids) /\ kids \in Seq(Kids(e)) /\ IsInjective(kids)
  BY <1>3 DEF Recalculated
<1>5. IsFiniteSet(Kids(e)) /\ Cardinality(Kids(e)) \in Nat
  BY KidsAreElements, FS_CardinalityType
<1>6. Len(kids) <= Cardinality(Kids(e))
  <2>1. PICK K : K = Kids(e)
    OBVIOUS
  <2>2. ToSet(kids) \subseteq K
    BY <1>4, <2>1, ElementsOf
  <2>3. Cardinality(ToSet(kids)) <= Cardinality(K)
    BY <1>5, <2>1, <2>2, FS_Subset
  <2>. QED  BY <1>4, <2>1, <2>3, NotedCount
<1>7. kids \in BoundedSeq(Kids(e), Cardinality(Kids(e)))
  <2>1. PICK n \in Nat, m \in Nat : n = Cardinality(Kids(e)) /\ m = Len(kids)
    BY <1>4, <1>5
  <2>2. PICK K : K = Kids(e)
    OBVIOUS
  <2>3. kids \in [1 .. m -> K] /\ m \in 0 .. n
    BY <1>4, <1>6, <2>1, <2>2
  <2>. QED  BY <2>1, <2>2, <2>3 DEF BoundedSeq, SeqOf
<1>. QED  BY <1>1, <1>2, <1>4, <1>7 DEF AnyPreorder

-----------------------------------------------------------------------------
(* The inductive invariant.                                                  *)

\* Where the traversal may go.
InRange == {start} \cup Descendants(start)

\* On the way to an element that was asked for, every element has been visited, has noted a child, and is
\* marked if the element had a style.
PathsMarked ==
  /\ asked \subseteq InRange
  /\ \A e \in asked : \A a \in Ancestors(e) \cap InRange :
       /\ a \in down /\ noted[a] # {}
       /\ e \notin Unstyled(change) => a \in dirty

\* What had a style still has it, unless it is below an element that turned out to have no children to
\* style; what had none has one if it was visited.
StylesKept ==
  /\ down \subseteq styled
  /\ styled \subseteq (Element \ Unstyled(change)) \cup down
  /\ \A e \in (Element \ Unstyled(change)) \ styled : \E a \in Ancestors(e) : a \in down /\ noted[a] = {}
  /\ \A e \in Element : work[e] # {} => e \in down

RInv == PInv /\ DataTypeOK /\ PathsMarked /\ StylesKept

\* What is below an element without a style had none when the restyle began.
LEMMA UnstyledBelow ==
  ASSUME change \in Changes, NEW p \in Element, NEW e \in Kids(p), e \notin Unstyled(change)
  PROVE  p \notin Unstyled(change)
<1>1. SUFFICES ASSUME p \in Unstyled(change) PROVE e \in Unstyled(change)
  OBVIOUS
<1>2. /\ change.fresh \in SUBSET Element /\ change.hidden \in SUBSET Element
      /\ \A x \in change.fresh : Descendants(x) \subseteq change.fresh
  BY ChangesAssumption
<1>3. CASE p \in change.fresh
  <2>1. e \in Descendants(p)
    BY DescendantsAreClosed
  <2>. QED  BY <1>2, <1>3, <2>1 DEF Unstyled
<1>4. CASE p \notin change.fresh
  <2>1. PICK x \in change.hidden : p \in Descendants(x)
    BY <1>1, <1>4 DEF Unstyled
  <2>2. e \in Descendants(x)
    BY <1>2, <2>1, DescendantsAreClosed
  <2>. QED  BY <2>2 DEF Unstyled
<1>. QED  BY <1>3, <1>4

-----------------------------------------------------------------------------
(* It holds at first and is kept.                                            *)

\* It holds when the restyle begins.
LEMMA InitRInv == Init => RInv
<1>. SUFFICES ASSUME Init PROVE RInv
  OBVIOUS
<1>1. PInv
  BY InitPInv DEF Init
<1>2. /\ change \in Changes /\ PreTraverse(change)
      /\ styled = Element \ Unstyled(change) /\ displayed = styled \ change.hidden
      /\ work = [e \in Element |-> {}]
      /\ start \in Element /\ asked = {start} /\ down = {}
  BY DEF Init, ParallelInit
<1>3. /\ change.start \in Element /\ change.hint \in [Element -> SUBSET Hints]
      /\ change.snapshot \in SUBSET Element /\ change.fresh \in SUBSET Element
  BY <1>2, ChangesAssumption
<1>4. DataTypeOK
  <2>1. PICK s0 : s0 = [hint |-> change.hint, dirty |-> MarkedDirty(change), snapshot |-> change.snapshot,
                        kids |-> <<>>]
    OBVIOUS
  <2>2. PICK s1 : s1 = IF change.start \in Unstyled(change) THEN s0
                       ELSE InvalidateStyleIfNeeded(s0, change.start)
    OBVIOUS
  <2>3. /\ hint = s1.hint /\ snapshot = s1.snapshot
        /\ dirty = s1.dirty \/ dirty = s1.dirty \cup {start}
    BY <1>2, <2>1, <2>2 DEF PreTraverse
  <2>4. MarkedDirty(change) \in SUBSET Element
    <3>1. \A d \in Element : Ancestors(d) \in SUBSET Element
      BY DEF Ancestors, AncestorSets
    <3>2. change.snapshot \cup change.fresh \cup {e \in Element : change.hint[e] # {}} \in SUBSET Element
      BY <1>3
    <3>. QED  BY <3>1, <3>2 DEF MarkedDirty
  <2>5. s0 \in NotingState
    BY <1>3, <2>1, <2>4 DEF NotingState
  <2>6. s1 \in NotingState
    BY <1>2, <1>3, <2>2, <2>5, InvalidateGrows
  <2>. QED  BY <1>2, <2>3, <2>6 DEF DataTypeOK, NotingState, Kinds
<1>5. PathsMarked
  <2>1. Ancestors(start) \cap InRange = {}
    <3>1. Ancestors(start) = {a \in Element : start \in Descendants(a)}
      BY <1>2 DEF Ancestors, AncestorSets
    <3>. QED  BY <1>2, <3>1, NotBelowItself, DescendantsTransitive DEF InRange
  <2>. QED  BY <1>2, <2>1 DEF PathsMarked, InRange
<1>6. StylesKept
  BY <1>2 DEF StylesKept
<1>. QED  BY <1>1, <1>4, <1>5, <1>6 DEF RInv

\* What a task does besides visiting changes no data.
LEMMA TaskStepRInv ==
  ASSUME RInv, NEW t \in Thread, TaskStep(t), UNCHANGED <<change, data, bloom, work>>
  PROVE  RInv'
<1>1. UNCHANGED <<start, asked, down, noted>>
  BY DEF TaskStep, TakeTask, EndTask, StoreChildrenToProcess, Postorder, DidProcessChild, FinishNode, history
<1>2. UNCHANGED <<change, hint, styled, displayed, dirty, snapshot, work>>
  BY DEF data
<1>3. PInv'
  <2>1. PInv
    BY DEF RInv
  <2>. QED  BY <2>1, TaskStepPInv
<1>4. DataTypeOK'
  BY <1>2 DEF RInv, DataTypeOK
<1>5. PathsMarked'
  BY <1>1, <1>2 DEF RInv, PathsMarked, InRange, Unstyled
<1>6. StylesKept'
  BY <1>1, <1>2 DEF RInv, StylesKept, Unstyled
<1>. QED  BY <1>3, <1>4, <1>5, <1>6 DEF RInv

\* Visiting an element.
LEMMA PreorderRInv ==
  ASSUME RInv, NEW t \in Thread, Preorder(t)
  PROVE  RInv'
<1>1. PInv /\ DataTypeOK /\ PathsMarked /\ StylesKept /\ TypeOK /\ AskedSound /\ QueuesDisjoint
  BY DEF RInv, PInv
<1>2. discovered[t] # <<>> /\ discovered[t] \in Seq(Element)
  BY <1>1 DEF TypeOK, Preorder, PreorderNoting
<1>3. PICK e \in Element : e = Head(discovered[t]) /\ e \in ToSet(discovered[t])
  BY <1>2, TailOf
<1>4. e \in asked \ down
  BY <1>1, <1>3, WaitingMembers DEF QueuesDisjoint
<1>5. DataTypeOK' /\ \E kids : Recalculated(t, e, kids)
  BY <1>1, <1>3, RecalcStyle
<1>6. PICK kids : Recalculated(t, e, kids)
  BY <1>5
<1>7. PICK K : K = ToSet(kids)
  OBVIOUS
<1>8. /\ asked' = asked \cup K /\ down' = down \cup {e} /\ noted' = [noted EXCEPT ![e] = K]
      /\ start' = start /\ change' = change
  BY <1>3, <1>6, <1>7 DEF Recalculated, PreorderNoting
<1>9. K \subseteq Kids(e) /\ (K # {} => kids # <<>>) /\ (K = {} => kids = <<>>)
  <2>1. kids \in Seq(Kids(e))
    BY <1>6 DEF Recalculated
  <2>2. K \subseteq Kids(e) /\ K = {kids[i] : i \in 1 .. Len(kids)} /\ Len(kids) \in Nat
    BY <1>7, <2>1, ElementsOf
  <2>. QED  BY <2>1, <2>2
<1>10. /\ asked \in SUBSET Element /\ down \subseteq asked /\ noted \in [Element -> SUBSET Element]
       /\ start \in Element
  BY <1>1 DEF TypeOK
<1>11. Descendants(e) \cap asked = {}
  <2>1. /\ asked \in SUBSET Element /\ down \in SUBSET asked /\ start \in asked
        /\ \A x \in asked \ {start} : \E p \in down : x \in Kids(p)
    BY <1>1 DEF TypeOK, AskedSound
  <2>. QED  BY <1>4, <2>1, NothingAskedBelow
<1>12. InRange' = InRange /\ Unstyled(change)' = Unstyled(change)
  BY <1>8 DEF InRange, Unstyled
<1>13. PInv'
  BY <1>1, VisitIsPreorder, AnyPreorderPInv
<1>14. e \notin Unstyled(change) => e \in styled
  <2>1. SUFFICES ASSUME e \notin Unstyled(change), e \notin styled
                 PROVE  FALSE
    OBVIOUS
  <2>2. PICK a \in Ancestors(e) : a \in down /\ noted[a] = {}
    BY <1>1, <2>1 DEF StylesKept
  <2>3. a \in InRange
    BY <1>1, <1>10, <2>2 DEF PathsMarked
  <2>. QED  BY <1>1, <1>4, <2>2, <2>3 DEF PathsMarked
<1>15. \A a \in dirty \cap down : a \in dirty'
  BY <1>4, <1>6, <1>10, <1>11 DEF Recalculated
<1>16. PathsMarked'
  <2>1. asked' \subseteq InRange
    <3>1. e \in InRange
      BY <1>1, <1>4 DEF PathsMarked
    <3>2. Kids(e) \subseteq InRange
      BY <1>10, <3>1, DescendantsAreClosed DEF InRange
    <3>. QED  BY <1>1, <1>8, <1>9, <3>2 DEF PathsMarked
  <2>2. ASSUME NEW x \in asked, NEW a \in Ancestors(x) \cap InRange
        PROVE  /\ a \in down' /\ noted'[a] # {}
               /\ x \notin Unstyled(change) => a \in dirty'
    <3>1. a \in down /\ noted[a] # {} /\ (x \notin Unstyled(change) => a \in dirty)
      BY <1>1, <2>2 DEF PathsMarked
    <3>2. a # e /\ a \in Element
      BY <1>4, <1>10, <3>1
    <3>. QED  BY <1>8, <1>10, <1>15, <3>1, <3>2
  <2>3. ASSUME NEW x \in K, NEW a \in Ancestors(x) \cap InRange
        PROVE  /\ a \in down' /\ noted'[a] # {}
               /\ x \notin Unstyled(change) => a \in dirty'
    <3>1. x \in Kids(e) /\ Ancestors(x) = Ancestors(e) \cup {e}
      BY <1>9, AncestorsOfChild
    <3>2. x \notin Unstyled(change) => e \notin Unstyled(change)
      BY <1>1, <3>1, UnstyledBelow DEF DataTypeOK
    <3>3. CASE a \in Ancestors(e)
      <4>1. /\ a \in down' /\ noted'[a] # {}
            /\ e \notin Unstyled(change) => a \in dirty'
        BY <1>4, <2>2, <3>3
      <4>. QED  BY <3>2, <4>1
    <3>4. CASE a = e
      <4>1. x \notin Unstyled(change) => e \in dirty'
        BY <1>6, <1>9, <1>14, <3>2 DEF Recalculated
      <4>2. noted'[e] = K /\ K # {} /\ e \in down'
        BY <1>8, <1>10
      <4>. QED  BY <3>4, <4>1, <4>2
    <3>. QED  BY <3>1, <3>3, <3>4
  <2>. QED  BY <1>8, <1>12, <2>1, <2>2, <2>3 DEF PathsMarked
<1>17. StylesKept'
  <2>1. down' \subseteq styled'
    BY <1>1, <1>6, <1>8, <1>10, <1>11 DEF StylesKept, Recalculated
  <2>2. styled' \subseteq (Element \ Unstyled(change)) \cup down'
    BY <1>1, <1>6, <1>8 DEF StylesKept, Recalculated
  <2>3. ASSUME NEW x \in (Element \ Unstyled(change)) \ styled'
        PROVE  \E a \in Ancestors(x) : a \in down' /\ noted'[a] = {}
    <3>1. CASE x \notin styled
      <4>1. PICK a \in Ancestors(x) : a \in down /\ noted[a] = {}
        BY <1>1, <3>1 DEF StylesKept
      <4>. QED  BY <1>4, <1>8, <1>10, <4>1
    <3>2. CASE x \in styled
      <4>1. x \in Descendants(e) /\ K = {}
        BY <1>6, <1>9, <3>2 DEF Recalculated
      <4>2. e \in Ancestors(x)
        BY <4>1 DEF Ancestors, AncestorSets
      <4>. QED  BY <1>8, <1>10, <4>1, <4>2
    <3>. QED  BY <3>1, <3>2
  <2>4. \A x \in Element : work'[x] # {} => x \in down'
    BY <1>1, <1>6, <1>8 DEF StylesKept, Recalculated
  <2>. QED  BY <1>12, <2>1, <2>2, <2>3, <2>4 DEF StylesKept
<1>. QED  BY <1>5, <1>13, <1>16, <1>17 DEF RInv

\* A step of something else.
LEMMA StutterRInv == RInv /\ UNCHANGED vars => RInv'
<1>. SUFFICES ASSUME RInv, UNCHANGED vars PROVE RInv'
  OBVIOUS
<1>1. UNCHANGED <<pvars, start, asked, down, noted, change, hint, styled, displayed, dirty, snapshot, work>>
  BY DEF vars, pvars, data, history
<1>2. PInv'
  BY <1>1, StutterPInv DEF RInv
<1>3. DataTypeOK' /\ PathsMarked' /\ StylesKept'
  BY <1>1 DEF RInv, DataTypeOK, PathsMarked, StylesKept, InRange, Unstyled
<1>. QED  BY <1>2, <1>3 DEF RInv

\* Dropping the contexts clears filters only.
LEMMA DropContextsRInv == RInv /\ DropContexts => RInv'
<1>. SUFFICES ASSUME RInv, DropContexts PROVE RInv'
  OBVIOUS
<1>1. UNCHANGED <<pvars, start, asked, down, noted, change, hint, styled, displayed, dirty, snapshot, work>>
  BY DEF DropContexts, pvars, data, history
<1>2. PInv'
  BY <1>1, StutterPInv DEF RInv
<1>3. DataTypeOK' /\ PathsMarked' /\ StylesKept'
  BY <1>1 DEF RInv, DataTypeOK, PathsMarked, StylesKept, InRange, Unstyled
<1>. QED  BY <1>2, <1>3 DEF RInv

\* A step of a restyle is one of the parallel traversal, or changes none of its variables.
LEMMA StepIsTraversal ==
  ASSUME RInv, [Next]_vars
  PROVE  [ParallelNext]_pvars
<1>1. CASE UNCHANGED vars
  BY <1>1 DEF vars
<1>2. CASE DropContexts
  BY <1>2 DEF DropContexts
<1>3. ASSUME NEW t \in Thread, Preorder(t)
      PROVE  ParallelNext
  BY <1>3, VisitIsPreorder DEF RInv, ParallelNext
<1>4. ASSUME NEW t \in Thread, TaskStep(t)
      PROVE  ParallelNext
  BY <1>4 DEF ParallelNext
<1>. QED  BY <1>1, <1>2, <1>3, <1>4 DEF Next, Step

-----------------------------------------------------------------------------
(* The theorems.                                                             *)

\* Every reachable state of a restyle satisfies RInv.
THEOREM RestyleInductive == Spec => []RInv
<1>1. RInv /\ [Next]_vars => RInv'
  BY PreorderRInv, TaskStepRInv, DropContextsRInv, StutterRInv DEF Next, Step
<1>. QED  BY <1>1, InitRInv, PTL DEF Spec

\* Visiting an element goes to children of it and to each once, whatever noting their siblings does to
\* their hints, marks and snapshots: a restyle is a parallel traversal (recalc_style_at, note_children).
THEOREM RestyleIsTraversal == Spec => ImplementsParallelTraversal
<1>1. Init => ParallelInit
  BY DEF Init
<1>2. RInv /\ [Next]_vars => [ParallelNext]_pvars
  BY StepIsTraversal
<1>. QED  BY <1>1, <1>2, RestyleInductive, PTL DEF Spec, ImplementsParallelTraversal, ParallelSpec

\* The queues of a restyle are sound: no two threads visit elements of which one is above the other
\* (QueuesSound), so what recalc_style_at writes below its element is nobody else's.
THEOREM RestyleQueuesSound == Spec => []QueuesSound
<1>1. ParallelSpec => []QueuesSound
  BY QueuesStaySound
<1>2. Spec => ParallelSpec
  BY RestyleIsTraversal DEF ImplementsParallelTraversal
<1>. QED  BY <1>1, <1>2

\* A restyle visits elements in the order of TraversalOrder.
THEOREM RestyleImplementsOrder == Spec => ImplementsOrder
<1>1. ParallelSpec => ImplementsOrder
  BY TraversalRefines
<1>2. Spec => ParallelSpec
  BY RestyleIsTraversal DEF ImplementsParallelTraversal
<1>. QED  BY <1>1, <1>2

\* PostTraversalFindsAll: whatever was restyled and had a style before is below marks only, down from
\* where the restyle began, also when what is above it was cleared for an element that is not displayed.
THEOREM PostTraversalIsComplete == Spec => []PostTraversalFindsAll
<1>1. RInv => PostTraversalFindsAll
  <2>. SUFFICES ASSUME RInv, NEW e \in styled \ Unstyled(change), Restyled(e)
                PROVE  Ancestors(e) \cap ({start} \cup Descendants(start)) \subseteq dirty
    BY DEF PostTraversalFindsAll
  <2>1. e \in asked
    BY DEF RInv, PInv, TypeOK, DataTypeOK, StylesKept, Restyled
  <2>. QED  BY <2>1 DEF RInv, PathsMarked, InRange
<1>. QED  BY <1>1, RestyleInductive, PTL

-----------------------------------------------------------------------------
(* What noting the children does to each element, for EveryElementRestyled.  *)

\* Below an element, what is no child is below a child.
LEMMA BelowAChild ==
  ASSUME NEW e \in Element, NEW d \in Descendants(e)
  PROVE  \E k \in Kids(e) : d = k \/ d \in Descendants(k)
<1>. DEFINE s == {x \in Descendants(e) : \E k \in Kids(e) : x = k \/ x \in Descendants(k)}
<1>1. /\ Descendants(e) \in SUBSET Element /\ Kids(e) \subseteq Descendants(e) /\ Kids(e) \in SUBSET Element
      /\ \A x \in Descendants(e) : Kids(x) \subseteq Descendants(e)
  BY DescendantsAreClosed, KidsAreElements
<1>2. s \in SUBSET Element /\ Kids(e) \subseteq s
  BY <1>1
<1>3. ASSUME NEW x \in s PROVE Kids(x) \subseteq s
  <2>1. PICK k \in Kids(e) : x = k \/ x \in Descendants(k)
    OBVIOUS
  <2>2. k \in Element /\ Kids(k) \subseteq Descendants(k) /\ \A y \in Descendants(k) : Kids(y) \subseteq Descendants(k)
    BY <1>1, DescendantsAreClosed
  <2>3. Kids(x) \subseteq Descendants(k)
    BY <2>1, <2>2
  <2>. QED  BY <1>1, <2>3
<1>. HIDE DEF s
<1>4. d \in s
  BY <1>2, <1>3 DEF Descendants, DescendantSets
<1>. QED  BY <1>4 DEF s

\* Who is above whom, for an element with its parent, its children and what is above it.
LEMMA AboveAndBelow ==
  ASSUME NEW p \in Element, NEW x \in Kids(p), NEW a \in Element
  PROVE  /\ x \in Element /\ x # p /\ x \in Descendants(p) /\ p \notin Descendants(x)
         /\ a \in Ancestors(x) <=> a = p \/ a \in Ancestors(p)
         /\ x \in Descendants(a) <=> a = p \/ p \in Descendants(a)
         /\ a \in Ancestors(x) <=> x \in Descendants(a)
<1>1. x \in Element /\ x \in Descendants(p)
  BY KidsAreElements, DescendantsAreClosed
<1>2. x # p /\ p \notin Descendants(x)
  BY <1>1, NotBelowItself, DescendantsTransitive
<1>3. Ancestors(x) = Ancestors(p) \cup {p}
  BY AncestorsOfChild
<1>4. /\ Ancestors(x) = {b \in Element : x \in Descendants(b)}
      /\ Ancestors(p) = {b \in Element : p \in Descendants(b)}
  BY <1>1 DEF Ancestors, AncestorSets
<1>. QED  BY <1>1, <1>2, <1>3, <1>4

\* The children of an element, each once.
LEMMA ChildrenList ==
  ASSUME NEW e \in Element
  PROVE  /\ Len(Children[e]) \in Nat /\ DOMAIN Children[e] = 1 .. Len(Children[e])
         /\ \A j \in 1 .. Len(Children[e]) : Children[e][j] \in Element
         /\ \A j, k \in 1 .. Len(Children[e]) : Children[e][j] = Children[e][k] => j = k
<1>1. Children[e] \in Seq(Element)
  BY TreeAssumption
<1>2. /\ Len(Children[e]) \in Nat /\ DOMAIN Children[e] = 1 .. Len(Children[e])
      /\ \A j \in 1 .. Len(Children[e]) : Children[e][j] \in Element
  BY <1>1
<1>. QED  BY <1>2, TreeAssumption

Before(e, i) == {Children[e][j] : j \in 1 .. i}

\* What the siblings from c on are, among the children of e.
LEMMA LaterAmongChildren ==
  ASSUME NEW e \in Element, NEW i \in 1 .. Len(Children[e]), NEW c, c = Children[e][i],
         NEW s \in {c} \cup LaterSiblings(c)
  PROVE  s \in Kids(e) /\ s \notin Before(e, i - 1)
<1>1. PICK n \in Nat : /\ n = Len(Children[e]) /\ DOMAIN Children[e] = 1 .. n
                       /\ \A j, k \in 1 .. n : Children[e][j] = Children[e][k] => j = k
  BY ChildrenList
<1>2. c \in Kids(e)
  BY <1>1 DEF Kids
<1>3. TraversalParent(c) = e /\ c # Root
  BY <1>2, OneParent, TreeAssumption
<1>4. PICK j \in i .. n : s = Children[e][j]
  <2>1. CASE s = c
    BY <1>1, <2>1
  <2>2. CASE s \in LaterSiblings(c)
    <3>1. PICK j \in 1 .. n : s = Children[e][j] /\ \E k \in 1 .. (j - 1) : Children[e][k] = c
      BY <1>1, <1>3, <2>2 DEF LaterSiblings
    <3>2. PICK k \in 1 .. (j - 1) : Children[e][k] = c
      BY <3>1
    <3>3. k = i
      BY <1>1, <3>2
    <3>. QED  BY <1>1, <3>1, <3>2, <3>3
  <2>. QED  BY <2>1, <2>2
<1>5. s \in Kids(e)
  BY <1>1, <1>4 DEF Kids
<1>6. s \notin Before(e, i - 1)
  BY <1>1, <1>4 DEF Before
<1>. QED  BY <1>5, <1>6

\* What a change of a child matters to is below its parent, and no child before it.
LEMMA InvalidatedBelow ==
  ASSUME NEW e \in Element, NEW i \in 1 .. Len(Children[e]), NEW c, c = Children[e][i], NEW d \in Invalidates[c]
  PROVE  /\ d \in Descendants(e) /\ d \notin Before(e, i - 1)
         /\ \E s \in {c} \cup LaterSiblings(c) : d = s \/ d \in Descendants(s)
<1>1. c \in Kids(e) /\ c \in Element
  <2>1. c \in Kids(e)
    BY LaterAmongChildren
  <2>. QED  BY <2>1, KidsAreElements
<1>2. PICK s \in {c} \cup LaterSiblings(c) : d = s \/ d \in Descendants(s)
  BY <1>1, InvalidatesAssumption
<1>3. s \in Kids(e) /\ s \notin Before(e, i - 1)
  BY LaterAmongChildren
<1>4. s \in Element /\ s \in Descendants(e) /\ e \notin Descendants(s)
  BY <1>3, AboveAndBelow
<1>5. d \in Descendants(e)
  BY <1>2, <1>4, DescendantsTransitive
<1>6. d \notin Before(e, i - 1)
  <2>1. CASE d = s
    BY <1>3, <2>1
  <2>2. CASE d \in Descendants(s)
    <3>1. SUFFICES ASSUME d \in Before(e, i - 1) PROVE FALSE
      OBVIOUS
    <3>2. d \in Kids(e)
      BY <3>1, TreeAssumption DEF Before, Kids
    <3>3. s = e \/ e \in Descendants(s)
      BY <1>4, <2>2, <3>2, AboveAndBelow
    <3>. QED  BY <1>3, <1>4, <3>3, AboveAndBelow
  <2>. QED  BY <1>2, <2>1, <2>2
<1>. QED  BY <1>2, <1>5, <1>6

\* The way to what a change of a child matters to: children from that one on, and below these whatever is
\* on it has its parent on it.
LEMMA WayThrough ==
  ASSUME NEW e \in Element, NEW i \in 1 .. Len(Children[e]), NEW c, c = Children[e][i], NEW d \in Invalidates[c]
  PROVE  /\ \A x \in PathTo(d, c) :
              /\ x \in Descendants(e) /\ x \notin Before(e, i - 1)
              /\ x \in Kids(e) \/ \A p \in Element : x \in Kids(p) => p \in PathTo(d, c)
         /\ d \in Kids(e) \/ \A p \in Element : d \in Kids(p) => p \in PathTo(d, c)
<1>1. d \in Descendants(e) /\ d \in Element
  BY InvalidatedBelow, DescendantsAreClosed
<1>2. \A a \in Element : a \in Ancestors(d) <=> d \in Descendants(a)
  BY <1>1 DEF Ancestors, AncestorSets
<1>3. Ancestors(d) \in SUBSET Element
  BY <1>1 DEF Ancestors, AncestorSets
<1>4. ASSUME NEW s \in {c} \cup LaterSiblings(c), NEW x \in Descendants(s)
      PROVE  /\ x \in Descendants(e) /\ x \notin Kids(e) /\ x \notin Before(e, i - 1)
             /\ \A p \in Element : x \in Kids(p) => p = s \/ s \in Ancestors(p)
  <2>1. s \in Kids(e)
    BY LaterAmongChildren
  <2>2. s \in Element /\ s \in Descendants(e) /\ s # e /\ e \notin Descendants(s)
    BY <2>1, AboveAndBelow
  <2>3. x \in Element /\ x \in Descendants(e)
    BY <2>2, DescendantsAreClosed, DescendantsTransitive
  <2>4. \A p \in Element : x \in Kids(p) => s = p \/ p \in Descendants(s)
    BY <2>2, AboveAndBelow
  <2>5. x \notin Kids(e)
    BY <2>2, <2>4
  <2>6. x \notin Before(e, i - 1)
    BY <2>5, TreeAssumption DEF Before, Kids
  <2>7. \A p \in Element : p \in Descendants(s) => s \in Ancestors(p)
    BY <2>2 DEF Ancestors, AncestorSets
  <2>. QED  BY <2>3, <2>4, <2>5, <2>6, <2>7
<1>5. ASSUME NEW x \in PathTo(d, c)
      PROVE  /\ x \in Descendants(e) /\ x \notin Before(e, i - 1)
             /\ x \in Kids(e) \/ \A p \in Element : x \in Kids(p) => p \in PathTo(d, c)
  <2>1. PICK s \in {c} \cup LaterSiblings(c) : x = s \/ s \in Ancestors(x)
    BY DEF PathTo
  <2>2. x \in Element /\ d \in Descendants(x)
    BY <1>2, <1>3 DEF PathTo
  <2>3. s \in Kids(e) /\ s \notin Before(e, i - 1)
    BY LaterAmongChildren
  <2>4. s \in Element /\ s \in Descendants(e)
    BY <2>3, AboveAndBelow
  <2>5. CASE x = s
    BY <2>3, <2>4, <2>5
  <2>6. CASE s \in Ancestors(x)
    <3>1. x \in Descendants(s)
      BY <2>2, <2>4, <2>6 DEF Ancestors, AncestorSets
    <3>2. ASSUME NEW p \in Element, x \in Kids(p) PROVE p \in PathTo(d, c)
      <4>1. p = s \/ s \in Ancestors(p)
        BY <1>4, <3>1, <3>2
      <4>2. x \in Descendants(p)
        BY <3>2, AboveAndBelow
      <4>3. d \in Descendants(p)
        BY <2>2, <3>2, <4>2, DescendantsTransitive
      <4>. QED  BY <1>2, <3>2, <4>1, <4>3 DEF PathTo
    <3>. QED  BY <1>4, <3>1, <3>2
  <2>. QED  BY <2>1, <2>5, <2>6
<1>6. d \in Kids(e) \/ \A p \in Element : d \in Kids(p) => p \in PathTo(d, c)
  <2>1. PICK s \in {c} \cup LaterSiblings(c) : d = s \/ d \in Descendants(s)
    BY InvalidatedBelow
  <2>2. CASE d = s
    BY <2>2, LaterAmongChildren
  <2>3. CASE d \in Descendants(s)
    <3>1. ASSUME NEW p \in Element, d \in Kids(p) PROVE p \in PathTo(d, c)
      <4>1. p = s \/ s \in Ancestors(p)
        BY <1>4, <2>3, <3>1
      <4>2. d \in Descendants(p)
        BY <3>1, AboveAndBelow
      <4>. QED  BY <1>2, <3>1, <4>1, <4>2 DEF PathTo
    <3>. QED  BY <3>1
  <2>. QED  BY <2>1, <2>2, <2>3
<1>. QED  BY <1>5, <1>6

\* What handling the snapshot of c does: the elements whose match depends on what changed are to be
\* matched, or are below one that has all below it matched or is not displayed; the way to each is marked.
Handled(s, c, r) ==
  /\ \A d \in Element : \A h \in r.hint[d] \ s.hint[d] :
       /\ h = "RESTYLE_SELF" /\ c \in s.snapshot /\ d \in Invalidates[c] \cap styled
       /\ PathTo(d, c) \subseteq r.dirty
  /\ c \in s.snapshot => \A d \in Invalidates[c] \cap styled :
       \/ "RESTYLE_SELF" \in r.hint[d]
       \/ \E a \in Ancestors(d) \ Ancestors(c) : a \notin displayed \/ "RESTYLE_DESCENDANTS" \in s.hint[a]
  /\ \A x \in r.dirty \ s.dirty : \E d \in Invalidates[c] \cap styled :
       c \in s.snapshot /\ x \in PathTo(d, c) /\ PathTo(d, c) \subseteq r.dirty
  /\ r.snapshot = s.snapshot \ {c}

\* invalidate_style_if_needed does that.
LEMMA InvalidateHandles ==
  ASSUME NEW s \in NotingState, NEW c \in Element, styled \in SUBSET Element
  PROVE  Handled(s, c, InvalidateStyleIfNeeded(s, c))
<1>. DEFINE processed(a) == a \in displayed /\ "RESTYLE_DESCENDANTS" \notin s.hint[a]
            found == {d \in Invalidates[c] \cap styled : \A a \in Ancestors(d) \ Ancestors(c) : processed(a)}
            H == [d \in Element |-> s.hint[d] \cup IF d \in found THEN {"RESTYLE_SELF"} ELSE {}]
            B == s.dirty \cup UNION {PathTo(d, c) : d \in found}
            u == [s EXCEPT !.hint = H, !.dirty = B, !.snapshot = s.snapshot \ {c}]
            r == InvalidateStyleIfNeeded(s, c)
<1>1. r = IF c \notin s.snapshot THEN s ELSE u
  BY Zenon DEF InvalidateStyleIfNeeded
<1>2. CASE c \notin s.snapshot
  BY <1>1, <1>2 DEF NotingState, Handled
<1>3. CASE c \in s.snapshot
  <2>. HIDE DEF H, B
  <2>1. u = [hint |-> H, dirty |-> B, snapshot |-> s.snapshot \ {c}, kids |-> s.kids]
    BY RecordUpdated
  <2>2. r.hint = H /\ r.dirty = B /\ r.snapshot = s.snapshot \ {c}
    BY <1>1, <1>3, <2>1
  <2>3. \A d \in Element : H[d] = s.hint[d] \cup IF d \in found THEN {"RESTYLE_SELF"} ELSE {}
    BY DEF H
  <2>4. found \subseteq Element /\ found \subseteq Invalidates[c] \cap styled
    OBVIOUS
  <2>5. \A d \in Invalidates[c] \cap styled : d \in found \/
          \E a \in Ancestors(d) \ Ancestors(c) : a \notin displayed \/ "RESTYLE_DESCENDANTS" \in s.hint[a]
    OBVIOUS
  <2>. HIDE DEF found
  <2>6. \A d \in found : PathTo(d, c) \subseteq B
    BY DEF B
  <2>7. \A x \in B \ s.dirty : \E d \in found : x \in PathTo(d, c)
    BY DEF B
  <2>8. \A d \in Element : \A h \in H[d] \ s.hint[d] : h = "RESTYLE_SELF" /\ d \in found
    BY <2>3
  <2>9. \A d \in found : "RESTYLE_SELF" \in H[d]
    BY <2>3, <2>4
  <2>10. r.hint = H /\ r.dirty = B
    BY <2>2
  <2>11. \A d \in Element : \A h \in r.hint[d] \ s.hint[d] :
            /\ h = "RESTYLE_SELF" /\ c \in s.snapshot /\ d \in Invalidates[c] \cap styled
            /\ PathTo(d, c) \subseteq r.dirty
    BY ONLY <1>3, <2>10, <2>4, <2>6, <2>8
  <2>12. \A d \in Invalidates[c] \cap styled :
           \/ "RESTYLE_SELF" \in r.hint[d]
           \/ \E a \in Ancestors(d) \ Ancestors(c) : a \notin displayed \/ "RESTYLE_DESCENDANTS" \in s.hint[a]
    BY ONLY <2>10, <2>5, <2>9
  <2>13. \A x \in r.dirty \ s.dirty : \E d \in Invalidates[c] \cap styled :
           c \in s.snapshot /\ x \in PathTo(d, c) /\ PathTo(d, c) \subseteq r.dirty
    BY ONLY <1>3, <2>10, <2>4, <2>6, <2>7
  <2>. QED  BY <2>2, <2>11, <2>12, <2>13 DEF Handled
<1>. QED  BY <1>2, <1>3

\* What noting the child c of e does: it passes the hint to it and handles its snapshot.
ChildNoted(s, e, c, propagated, r) ==
  /\ c \in styled => propagated \subseteq r.hint[c]
  /\ \A d \in Element : \A h \in r.hint[d] \ s.hint[d] :
       \/ d = c /\ c \in styled /\ h \in propagated
       \/ /\ h = "RESTYLE_SELF" /\ c \in s.snapshot /\ d \in Invalidates[c] \cap styled
          /\ PathTo(d, c) \subseteq r.dirty
  /\ c \in s.snapshot \cap styled => \A d \in Invalidates[c] \cap styled :
       \/ "RESTYLE_SELF" \in r.hint[d]
       \/ \E a \in Ancestors(d) \ Ancestors(c) : a \notin displayed \/ "RESTYLE_DESCENDANTS" \in r.hint[a]
  /\ \A x \in r.dirty \ s.dirty : x = e \/ \E d \in Invalidates[c] \cap styled :
       x \in PathTo(d, c) /\ PathTo(d, c) \subseteq r.dirty
  /\ r.snapshot = s.snapshot \ ({c} \cap styled)
  /\ c # e /\ ElementNeedsTraversal(r, c) => c \in ToSet(r.kids)

\* One turn of the loop in note_children does that.
LEMMA NoteChildNotes ==
  ASSUME NEW s \in NotingState, NEW e \in Element, NEW c \in Element,
         NEW propagated \in SUBSET Hints, styled \in SUBSET Element
  PROVE  ChildNoted(s, e, c, propagated, NoteChild(s, e, c, propagated))
<1>. DEFINE g == [s EXCEPT !.hint[c] = @ \cup propagated]
            q == InvalidateStyleIfNeeded(g, c)
            hinted == IF c \notin styled THEN s ELSE q
            r == NoteChild(s, e, c, propagated)
<1>1. /\ g \in NotingState /\ g.kids = s.kids /\ g.dirty = s.dirty /\ g.snapshot = s.snapshot
      /\ g.hint = [s.hint EXCEPT ![c] = @ \cup propagated]
  <2>1. g = [hint |-> [s.hint EXCEPT ![c] = @ \cup propagated], dirty |-> s.dirty,
             snapshot |-> s.snapshot, kids |-> s.kids]
    <3>1. s = [hint |-> s.hint, dirty |-> s.dirty, snapshot |-> s.snapshot, kids |-> s.kids]
      BY DEF NotingState
    <3>. QED  BY ONLY <3>1
  <2>2. [s.hint EXCEPT ![c] = @ \cup propagated] \in [Element -> SUBSET Hints]
    BY DEF NotingState
  <2>. QED  BY <2>1, <2>2 DEF NotingState
<1>2. /\ \A d \in Element \ {c} : g.hint[d] = s.hint[d]
      /\ g.hint[c] = s.hint[c] \cup propagated
  BY <1>1 DEF NotingState
<1>. HIDE DEF g
<1>3. Handled(g, c, q)
  BY <1>1, InvalidateHandles
<1>4. q \in NotingState /\ Grows(g, q) /\ q.kids = s.kids
  BY <1>1, InvalidateGrows
<1>7. r = IF ~ ElementNeedsTraversal(hinted, c) THEN hinted
          ELSE [hinted EXCEPT !.kids = Append(@, c),
                              !.dirty = IF e \in styled THEN @ \cup {e} ELSE @]
  BY DEF NoteChild, g
<1>. HIDE DEF q, r
<1>8. hinted \in NotingState
  BY <1>4
<1>. HIDE DEF hinted
<1>9. /\ r.hint = hinted.hint /\ r.snapshot = hinted.snapshot
      /\ hinted.dirty \subseteq r.dirty /\ r.dirty \subseteq hinted.dirty \cup {e}
      /\ ElementNeedsTraversal(hinted, c) => c \in ToSet(r.kids)
  <2>1. CASE ~ ElementNeedsTraversal(hinted, c)
    BY <1>7, <1>8, <2>1 DEF NotingState
  <2>2. CASE ElementNeedsTraversal(hinted, c)
    <3>1. PICK b \in SUBSET Element : b = IF e \in styled THEN hinted.dirty \cup {e} ELSE hinted.dirty
      BY <1>8 DEF NotingState
    <3>2. PICK w \in Seq(Element) : w = hinted.kids
      BY <1>8 DEF NotingState
    <3>0. Append(w, c) \in Seq(Element)
      OBVIOUS
    <3>3. PICK k \in Seq(Element) : k = Append(w, c)
      BY <3>0
    <3>4. r = [hint |-> hinted.hint, dirty |-> b, snapshot |-> hinted.snapshot, kids |-> k]
      BY <1>7, <1>8, <2>2, <3>1, <3>2, <3>3 DEF NotingState
    <3>5. c \in ToSet(k)
      <4>1. Len(w) + 1 \in DOMAIN k /\ k[Len(w) + 1] = c
        BY <3>3
      <4>. QED  BY <4>1 DEF ToSet
    <3>. QED  BY <3>1, <3>4, <3>5
  <2>. QED  BY <2>1, <2>2
<1>10. c # e /\ ElementNeedsTraversal(r, c) => c \in ToSet(r.kids)
  BY <1>9 DEF ElementNeedsTraversal
<1>11. ASSUME c \notin styled PROVE ChildNoted(s, e, c, propagated, r)
  <2>1. hinted = s
    BY <1>11 DEF hinted
  <2>. QED  BY <1>9, <1>10, <1>11, <2>1 DEF ChildNoted
<1>12. ASSUME c \in styled PROVE ChildNoted(s, e, c, propagated, r)
  <2>0. hinted = q
    BY <1>12 DEF hinted
  <2>1. propagated \subseteq r.hint[c]
    BY <1>2, <1>4, <1>9, <2>0 DEF Grows
  <2>2. ASSUME NEW d \in Element, NEW h \in r.hint[d] \ s.hint[d]
        PROVE  \/ d = c /\ c \in styled /\ h \in propagated
               \/ /\ h = "RESTYLE_SELF" /\ c \in s.snapshot /\ d \in Invalidates[c] \cap styled
                  /\ PathTo(d, c) \subseteq r.dirty
    <3>1. CASE h \in g.hint[d]
      BY <1>2, <1>12, <2>2, <3>1
    <3>2. CASE h \notin g.hint[d]
      BY <1>1, <1>3, <1>9, <2>0, <2>2, <3>2 DEF Handled
    <3>. QED  BY <3>1, <3>2
  <2>3. ASSUME c \in s.snapshot, NEW d \in Invalidates[c] \cap styled
        PROVE  \/ "RESTYLE_SELF" \in r.hint[d]
               \/ \E a \in Ancestors(d) \ Ancestors(c) : a \notin displayed \/ "RESTYLE_DESCENDANTS" \in r.hint[a]
    <3>1. \A a \in Ancestors(d) : g.hint[a] \subseteq r.hint[a]
      <4>1. Ancestors(d) \in SUBSET Element
        BY DEF Ancestors, AncestorSets
      <4>. QED  BY <1>4, <1>9, <2>0, <4>1 DEF Grows
    <3>2. \/ "RESTYLE_SELF" \in q.hint[d]
          \/ \E a \in Ancestors(d) \ Ancestors(c) : a \notin displayed \/ "RESTYLE_DESCENDANTS" \in g.hint[a]
      BY <1>1, <1>3, <2>3 DEF Handled
    <3>. QED  BY <1>9, <2>0, <3>1, <3>2
  <2>4. \A x \in r.dirty \ s.dirty : x = e \/ \E d \in Invalidates[c] \cap styled :
              x \in PathTo(d, c) /\ PathTo(d, c) \subseteq r.dirty
    <3>1. \A x \in q.dirty \ s.dirty : \E d \in Invalidates[c] \cap styled :
              x \in PathTo(d, c) /\ PathTo(d, c) \subseteq q.dirty
      BY <1>1, <1>3 DEF Handled
    <3>. QED  BY <1>9, <2>0, <3>1
  <2>5. r.snapshot = s.snapshot \ ({c} \cap styled)
    BY <1>1, <1>3, <1>9, <1>12, <2>0 DEF Handled
  <2>. QED  BY <1>10, <2>1, <2>2, <2>3, <2>4, <2>5 DEF ChildNoted
<1>. QED  BY <1>11, <1>12 DEF r

\* What noting the children of e up to the i-th does, from s to r. What is still to come changes nothing of
\* the ones whose turn has been.
ChildrenNotedUpTo(s, e, propagated, i, r) ==
  /\ \A d \in Element : \A h \in r.hint[d] \ s.hint[d] :
       \/ d \in Kids(e) \cap styled /\ h \in propagated
       \/ /\ h = "RESTYLE_SELF" /\ d \in Descendants(e)
          /\ \E c \in s.snapshot \cap Kids(e) : d \in Invalidates[c]
          /\ d \in Kids(e) \/ \A q \in Element : d \in Kids(q) => q \in r.dirty
  /\ \A c \in Before(e, i) \cap styled : propagated \subseteq r.hint[c]
  /\ \A c \in Before(e, i) \cap s.snapshot \cap styled : \A d \in Invalidates[c] \cap styled :
       \/ "RESTYLE_SELF" \in r.hint[d]
       \/ \E a \in Ancestors(d) \ Ancestors(c) : a \notin displayed \/ "RESTYLE_DESCENDANTS" \in r.hint[a]
  /\ r.snapshot = s.snapshot \ (Before(e, i) \cap styled)
  /\ \A k \in Before(e, i) : ElementNeedsTraversal(r, k) => k \in ToSet(r.kids)
  /\ \A x \in r.dirty \ s.dirty :
       \/ x = e
       \/ /\ x \in Descendants(e)
          /\ x \in Kids(e) \/ \A q \in Element : x \in Kids(q) => q \in r.dirty

\* One more child.
LEMMA OneMoreChild ==
  ASSUME NEW s \in NotingState, NEW r \in NotingState, NEW e \in Element, NEW i \in 1 .. Len(Children[e]),
         NEW c, c = Children[e][i], NEW p \in SUBSET Hints, styled \in SUBSET Element,
         Grows(s, r), ChildrenNotedUpTo(s, e, p, i - 1, r)
  PROVE  ChildrenNotedUpTo(s, e, p, i, NoteChild(r, e, c, p))
<1>. DEFINE b == NoteChild(r, e, c, p)
<1>1. /\ i \in Nat /\ Before(e, i) = Before(e, i - 1) \cup {c} /\ c \notin Before(e, i - 1)
      /\ c \in Kids(e) /\ c \in Element /\ c # e /\ c \in Descendants(e)
  <2>1. /\ Len(Children[e]) \in Nat /\ DOMAIN Children[e] = 1 .. Len(Children[e])
        /\ \A j, k \in 1 .. Len(Children[e]) : Children[e][j] = Children[e][k] => j = k
    BY ChildrenList
  <2>2. i \in Nat /\ 1 .. i = (1 .. (i - 1)) \cup {i}
    BY <2>1
  <2>3. c \in Kids(e) /\ c \notin Before(e, i - 1)
    BY LaterAmongChildren
  <2>4. Before(e, i) = Before(e, i - 1) \cup {c}
    BY <2>2 DEF Before
  <2>. QED  BY <2>2, <2>3, <2>4, AboveAndBelow
<1>2. ChildNoted(r, e, c, p, b)
  BY <1>1, NoteChildNotes
<1>3. b \in NotingState /\ Grows(r, b) /\ ToSet(r.kids) \subseteq ToSet(b.kids)
  <2>1. /\ b \in NotingState /\ Grows(r, b)
        /\ b.kids = r.kids \/ b.kids = Append(r.kids, c)
    BY <1>1, NoteChildGrows
  <2>2. ToSet(r.kids) \subseteq ToSet(Append(r.kids, c))
    <3>1. PICK w \in Seq(Element) : w = r.kids
      BY DEF NotingState
    <3>2. /\ DOMAIN w \subseteq DOMAIN Append(w, c)
          /\ \A j \in DOMAIN w : Append(w, c)[j] = w[j]
      OBVIOUS
    <3>3. ToSet(w) \subseteq ToSet(Append(w, c))
      BY <3>2 DEF ToSet
    <3>. QED  BY <3>1, <3>3
  <2>. QED  BY <2>1, <2>2
<1>. HIDE DEF b
<1>4. \A d \in Invalidates[c] :
        /\ d \in Descendants(e) /\ d \notin Before(e, i - 1)
        /\ d \in Kids(e) \/ \A q \in Element : d \in Kids(q) => q \in PathTo(d, c)
        /\ \A x \in PathTo(d, c) :
              /\ x \in Descendants(e) /\ x \notin Before(e, i - 1)
              /\ x \in Kids(e) \/ \A q \in Element : x \in Kids(q) => q \in PathTo(d, c)
  BY InvalidatedBelow, WayThrough
<1>5. r.dirty \subseteq b.dirty /\ \A d \in Element : r.hint[d] \subseteq b.hint[d]
  BY <1>3 DEF Grows
<1>6. ASSUME NEW d \in Element, NEW h \in b.hint[d] \ s.hint[d]
      PROVE  \/ d \in Kids(e) \cap styled /\ h \in p
             \/ /\ h = "RESTYLE_SELF" /\ d \in Descendants(e)
                /\ \E x \in s.snapshot \cap Kids(e) : d \in Invalidates[x]
                /\ d \in Kids(e) \/ \A q \in Element : d \in Kids(q) => q \in b.dirty
  <2>1. CASE h \in r.hint[d]
    BY <1>5, <1>6, <2>1 DEF ChildrenNotedUpTo
  <2>2. CASE h \notin r.hint[d]
    <3>1. \/ d = c /\ c \in styled /\ h \in p
          \/ /\ h = "RESTYLE_SELF" /\ c \in r.snapshot /\ d \in Invalidates[c] \cap styled
             /\ PathTo(d, c) \subseteq b.dirty
      BY <1>2, <1>6, <2>2 DEF ChildNoted
    <3>2. r.snapshot \subseteq s.snapshot
      BY DEF Grows
    <3>. QED  BY <1>1, <1>4, <3>1, <3>2
  <2>. QED  BY <2>1, <2>2
<1>7. \A k \in Before(e, i) \cap styled : p \subseteq b.hint[k]
  <2>1. \A k \in Before(e, i - 1) \cap styled : p \subseteq b.hint[k]
    BY <1>5 DEF ChildrenNotedUpTo
  <2>. QED  BY <1>1, <1>2, <2>1 DEF ChildNoted
<1>8. ASSUME NEW k \in Before(e, i) \cap s.snapshot \cap styled, NEW d \in Invalidates[k] \cap styled
      PROVE  \/ "RESTYLE_SELF" \in b.hint[d]
             \/ \E a \in Ancestors(d) \ Ancestors(k) : a \notin displayed \/ "RESTYLE_DESCENDANTS" \in b.hint[a]
  <2>1. CASE k = c
    <3>1. c \in r.snapshot \cap styled
      BY <1>1, <2>1 DEF ChildrenNotedUpTo
    <3>. QED  BY <1>2, <2>1, <3>1 DEF ChildNoted
  <2>2. CASE k # c
    <3>1. \/ "RESTYLE_SELF" \in r.hint[d]
          \/ \E a \in Ancestors(d) \ Ancestors(k) : a \notin displayed \/ "RESTYLE_DESCENDANTS" \in r.hint[a]
      BY <1>1, <2>2 DEF ChildrenNotedUpTo
    <3>2. Ancestors(d) \in SUBSET Element
      BY DEF Ancestors, AncestorSets
    <3>3. d \in Element
      BY InvalidatesAssumption
    <3>. QED  BY <1>5, <3>1, <3>2, <3>3
  <2>. QED  BY <2>1, <2>2
<1>9. b.snapshot = s.snapshot \ (Before(e, i) \cap styled)
  BY <1>1, <1>2 DEF ChildNoted, ChildrenNotedUpTo
<1>10. ASSUME NEW k \in Before(e, i), ElementNeedsTraversal(b, k)
       PROVE  k \in ToSet(b.kids)
  <2>1. CASE k = c
    BY <1>1, <1>2, <1>10, <2>1 DEF ChildNoted
  <2>2. CASE k # c
    <3>1. k \in Before(e, i - 1)
      BY <1>1, <2>2
    <3>2. k \in Element /\ k # e
      <4>1. k \in Kids(e)
        <5>1. PICK j \in 1 .. i : k = Children[e][j]
          BY DEF Before
        <5>2. j \in DOMAIN Children[e]
          BY <1>1, ChildrenList
        <5>. QED  BY <5>1, <5>2 DEF Kids
      <4>. QED  BY <4>1, AboveAndBelow
    <3>3. b.hint[k] \subseteq r.hint[k]
      <4>1. \A h \in b.hint[k] \ r.hint[k] : k = c \/ k \in Invalidates[c]
        BY <1>2, <3>2 DEF ChildNoted
      <4>. QED  BY <1>4, <2>2, <3>1, <4>1
    <3>4. k \in b.dirty => k \in r.dirty
      <4>1. k \in b.dirty \ r.dirty => \E d \in Invalidates[c] : k \in PathTo(d, c)
        BY <1>2, <3>2 DEF ChildNoted
      <4>. QED  BY <1>4, <3>1, <4>1
    <3>5. ElementNeedsTraversal(r, k)
      BY <1>10, <3>3, <3>4 DEF ElementNeedsTraversal
    <3>. QED  BY <1>3, <3>1, <3>5 DEF ChildrenNotedUpTo
  <2>. QED  BY <2>1, <2>2
<1>11. ASSUME NEW x \in b.dirty \ s.dirty
       PROVE  \/ x = e
              \/ /\ x \in Descendants(e)
                 /\ x \in Kids(e) \/ \A q \in Element : x \in Kids(q) => q \in b.dirty
  <2>1. CASE x \in r.dirty
    BY <1>5, <1>11, <2>1 DEF ChildrenNotedUpTo
  <2>2. CASE x \notin r.dirty
    <3>1. x = e \/ \E d \in Invalidates[c] \cap styled : x \in PathTo(d, c) /\ PathTo(d, c) \subseteq b.dirty
      BY <1>2, <1>11, <2>2 DEF ChildNoted
    <3>. QED  BY <1>4, <3>1
  <2>. QED  BY <2>1, <2>2
<1>12. ChildrenNotedUpTo(s, e, p, i, b)
  BY <1>6, <1>7, <1>8, <1>9, <1>10, <1>11 DEF ChildrenNotedUpTo
<1>. QED  BY <1>12 DEF b

\* All of them: note_children.
LEMMA AllChildrenNoted ==
  ASSUME NEW s \in NotingState, NEW e \in Element, NEW p \in SUBSET Hints, styled \in SUBSET Element,
         NEW n \in Nat, n = Len(Children[e])
  PROVE  ChildrenNotedUpTo(s, e, p, n, NoteChildren(s, e, p)) /\ Before(e, n) = Kids(e)
<1>1. PICK g : NotedInTurn(s, e, p, n, g)
  BY ChildrenInOrder
<1>. USE DEF NotedInTurn
<1>. DEFINE Good(i) == Grows(s, g[i]) /\ ChildrenNotedUpTo(s, e, p, i, g[i])
<1>2. Good(0)
  <2>1. Before(e, 0) = {}
    BY DEF Before
  <2>2. s \in NotingState
    OBVIOUS
  <2>. QED  BY <1>1, <2>1, <2>2 DEF ChildrenNotedUpTo, Grows, NotingState
<1>3. ASSUME NEW i \in 1 .. n, Good(i - 1)
      PROVE  Good(i)
  <2>1. PICK a \in NotingState, c \in Element : a = g[i - 1] /\ c = Children[e][i]
    <3>1. i - 1 \in 0 .. n
      OBVIOUS
    <3>. QED  BY <1>1, <3>1, ChildrenList
  <2>2. g[i] = NoteChild(a, e, c, p)
    BY <1>1, <2>1
  <2>3. Grows(s, a) /\ ChildrenNotedUpTo(s, e, p, i - 1, a)
    BY <1>3, <2>1
  <2>4. ChildrenNotedUpTo(s, e, p, i, NoteChild(a, e, c, p))
    BY <2>1, <2>3, OneMoreChild
  <2>5. Grows(a, NoteChild(a, e, c, p))
    BY NoteChildGrows
  <2>6. Grows(s, g[i])
    BY <2>2, <2>3, <2>5 DEF Grows
  <2>. QED  BY <2>2, <2>4, <2>6
<1>4. Good(n)
  <2>. HIDE DEF Good
  <2>1. PICK T : T = {i \in 0 .. n : Good(i)}
    OBVIOUS
  <2>2. 0 \in T /\ \A i \in 1 .. n : i - 1 \in T => i \in T
    BY <1>2, <1>3, <2>1
  <2>3. 0 .. n \subseteq T
    BY ONLY n \in Nat, <2>2, PrefixInduction
  <2>. QED  BY <2>1, <2>3
<1>5. Before(e, n) = Kids(e)
  BY ChildrenList DEF Before, Kids
<1>. QED  BY <1>1, <1>4, <1>5

-----------------------------------------------------------------------------
(* What hints ask for, and for whom.                                         *)

\* What is below an element is deeper.
LEMMA BelowIsDeeper ==
  ASSUME NEW a \in Element, NEW d \in Descendants(a)
  PROVE  Below(a, d) \in Nat /\ Below(a, d) >= 1
<1>. DEFINE S == {x \in Descendants(a) : ~ (Depth(x) > Depth(a))}
<1>1. Descendants(a) \in SUBSET Element /\ \A x \in Descendants(a) : \E q \in {a} \cup Descendants(a) : x \in Kids(q)
  BY DescendantsAreClosed
<1>2. \A x \in S : \E q \in S : x \in Kids(q)
  <2>1. SUFFICES ASSUME NEW x \in S PROVE \E q \in S : x \in Kids(q)
    OBVIOUS
  <2>2. PICK q \in {a} \cup Descendants(a) : x \in Kids(q)
    BY <1>1
  <2>3. q \in Element /\ Depth(q) \in Nat /\ Depth(x) = Depth(q) + 1
    BY <1>1, <2>2, DepthOfChild
  <2>4. q # a
    BY <2>3
  <2>5. Depth(a) \in Nat
    BY DepthIsNatural
  <2>. QED  BY <2>2, <2>3, <2>4, <2>5
<1>3. S = {}
  BY <1>1, <1>2, NoCycle
<1>4. Depth(a) \in Nat /\ Depth(d) \in Nat
  BY <1>1, DepthIsNatural
<1>. QED  BY <1>3, <1>4 DEF Below

\* An element is one level less below a child than below its parent.
LEMMA BelowTheChild ==
  ASSUME NEW e \in Element, NEW k \in Kids(e), NEW x \in Element
  PROVE  Below(k, x) = Below(e, x) - 1
<1>1. Depth(e) \in Nat /\ Depth(k) = Depth(e) + 1
  BY DepthOfChild
<1>2. Depth(x) \in Nat
  BY DepthIsNatural
<1>. QED  BY <1>1, <1>2 DEF Below

\* The two questions that hints answer.
Asks(kind, h, n, x) == IF kind = "match" THEN AsksToMatch(h, n, x) ELSE AsksToCascade(h, n, x)

\* What a hint asks for an element below is what the hint that its children get asks for it
\* (propagate_for_non_animation_restyle): the cascade, if everything below is not matched anyway.
LEMMA HintsPass ==
  ASSUME NEW H \in SUBSET Hints, NEW n \in Nat, n >= 1, NEW x, NEW kind \in {"match", "cascade"},
         kind = "cascade" => "RESTYLE_DESCENDANTS" \notin H
  PROVE  (\E h \in H : Asks(kind, h, n, x)) <=> \E h \in Propagate(H) : Asks(kind, h, n - 1, x)
<1>. DEFINE F == Flags[x]
<1>1. CASE "RESTYLE_DESCENDANTS" \in H
  <2>1. kind = "match"
    BY <1>1
  <2>2. Asks(kind, "RESTYLE_DESCENDANTS", n, x)
    BY <2>1 DEF Asks, AsksToMatch
  <2>3. Propagate(H) = {"RESTYLE_SELF", "RESTYLE_DESCENDANTS"}
    BY <1>1 DEF Propagate, RestyleSubtree
  <2>4. n - 1 = 0 \/ n - 1 > 0
    OBVIOUS
  <2>5. Asks(kind, "RESTYLE_SELF", n - 1, x) \/ Asks(kind, "RESTYLE_DESCENDANTS", n - 1, x)
    BY <2>1, <2>4 DEF Asks, AsksToMatch
  <2>. QED  BY <1>1, <2>2, <2>3, <2>5
<1>2. CASE "RESTYLE_DESCENDANTS" \notin H
  <2>1. \A h : h \in Propagate(H) <=>
           \/ "RESTYLE_PSEUDOS" \in H /\ h = "RESTYLE_SELF_IF_PSEUDO"
           \/ "RECASCADE_DESCENDANTS" \in H /\ (h = "RECASCADE_SELF" \/ h = "RECASCADE_DESCENDANTS")
           \/ "RESTYLE_IF_AFFECTED_BY_WM_OR_ANCESTOR_FONT" \in H /\ h = "RESTYLE_IF_AFFECTED_BY_WM_OR_ANCESTOR_FONT"
           \/ "RESTYLE_CHILD_IF_AFFECTED_BY_STYLE_QUERIES" \in H /\ h = "RESTYLE_IF_AFFECTED_BY_STYLE_QUERIES"
           \/ "RESTYLE_IF_AFFECTED_BY_NAMED_STYLE_CONTAINER" \in H
              /\ h = "RESTYLE_IF_AFFECTED_BY_NAMED_STYLE_CONTAINER"
    BY <1>2 DEF Propagate, RecascadeSubtree
  <2>2. CASE kind = "match"
    <3>1. \A h, m : Asks(kind, h, m, x) <=> AsksToMatch(h, m, x)
      BY <2>2 DEF Asks
    <3>2. n # 0 /\ (n = 1 <=> n - 1 = 0)
      OBVIOUS
    <3>3. (\E h \in H : AsksToMatch(h, n, x)) <=>
            \/ "RESTYLE_PSEUDOS" \in H /\ n = 1 /\ "IS_PSEUDO" \in F
            \/ "RESTYLE_IF_AFFECTED_BY_WM_OR_ANCESTOR_FONT" \in H
               /\ "USES_FONT_OR_WM_RELATIVE_UNITS_ON_CONTAINER_QUERIES" \in F
            \/ /\ "DEPENDS_ON_CONTAINER_STYLE_QUERY" \in F
               /\ \/ "RESTYLE_IF_AFFECTED_BY_NAMED_STYLE_CONTAINER" \in H
                  \/ "RESTYLE_CHILD_IF_AFFECTED_BY_STYLE_QUERIES" \in H /\ n = 1
      <4>. HIDE DEF F
      <4>. QED  BY <1>2, <3>2 DEF AsksToMatch, F
    <3>4. (\E h \in Propagate(H) : AsksToMatch(h, n - 1, x)) <=>
            \/ "RESTYLE_PSEUDOS" \in H /\ n = 1 /\ "IS_PSEUDO" \in F
            \/ "RESTYLE_IF_AFFECTED_BY_WM_OR_ANCESTOR_FONT" \in H
               /\ "USES_FONT_OR_WM_RELATIVE_UNITS_ON_CONTAINER_QUERIES" \in F
            \/ /\ "DEPENDS_ON_CONTAINER_STYLE_QUERY" \in F
               /\ \/ "RESTYLE_IF_AFFECTED_BY_NAMED_STYLE_CONTAINER" \in H
                  \/ "RESTYLE_CHILD_IF_AFFECTED_BY_STYLE_QUERIES" \in H /\ n = 1
      BY <2>1, <3>2 DEF AsksToMatch
    <3>. QED  BY <3>1, <3>3, <3>4
  <2>3. CASE kind = "cascade"
    <3>1. \A h, m : Asks(kind, h, m, x) <=> AsksToCascade(h, m, x)
      BY <2>3 DEF Asks
    <3>2. n # 0 /\ n > 0 /\ (n - 1 = 0 \/ n - 1 > 0)
      OBVIOUS
    <3>3. (\E h \in H : AsksToCascade(h, n, x)) <=>
            \/ "RECASCADE_DESCENDANTS" \in H
            \/ "RESTYLE_IF_AFFECTED_BY_WM_OR_ANCESTOR_FONT" \in H /\ "USES_FONT_OR_WM_RELATIVE_UNITS" \in F
      BY <3>2 DEF AsksToCascade
    <3>4. (\E h \in Propagate(H) : AsksToCascade(h, n - 1, x)) <=>
            \/ "RECASCADE_DESCENDANTS" \in H
            \/ "RESTYLE_IF_AFFECTED_BY_WM_OR_ANCESTOR_FONT" \in H /\ "USES_FONT_OR_WM_RELATIVE_UNITS" \in F
      BY <2>1, <3>2 DEF AsksToCascade
    <3>. QED  BY <3>1, <3>3, <3>4
  <2>. QED  BY <2>2, <2>3
<1>. QED  BY <1>1, <1>2

\* restyle_kind answers them for the element itself.
LEMMA HintsDecide ==
  ASSUME NEW H \in SUBSET Hints, NEW x
  PROVE  /\ NeedsToMatchSelf(H, Flags[x]) <=> \E h \in H : Asks("match", h, 0, x)
         /\ NeedsToRecascadeSelf(H, Flags[x]) <=> \E h \in H : Asks("cascade", h, 0, x)
<1>. DEFINE F == Flags[x]
<1>1. NeedsToMatchSelf(H, F) <=> \E h \in H : AsksToMatch(h, 0, x)
  BY DEF NeedsToMatchSelf, AsksToMatch
<1>2. NeedsToRecascadeSelf(H, F) <=> \E h \in H : AsksToCascade(h, 0, x)
  BY DEF NeedsToRecascadeSelf, AsksToCascade
<1>3. \A h : /\ Asks("match", h, 0, x) <=> AsksToMatch(h, 0, x)
             /\ Asks("cascade", h, 0, x) <=> AsksToCascade(h, 0, x)
  BY DEF Asks
<1>. QED  BY <1>1, <1>2, <1>3

\* No child has its style attribute replaced because of what happened to its parent.
LEMMA ReplacePassesNot ==
  ASSUME NEW H \in SUBSET Hints
  PROVE  "RESTYLE_STYLE_ATTRIBUTE" \notin Propagate(H) /\ "RESTYLE_STYLE_ATTRIBUTE" \notin ChildHints
BY DEF Propagate, ChildHints, RestyleSubtree, RecascadeSubtree

\* What matching an element itself, or everything below one, asks for.
LEMMA SelfAndSubtree ==
  ASSUME NEW x
  PROVE  /\ Asks("match", "RESTYLE_SELF", 0, x)
         /\ \A n, kind : Asks(kind, "RESTYLE_SELF", n, x) => kind = "match" /\ n = 0
         /\ \A n \in Nat : n >= 1 => Asks("match", "RESTYLE_DESCENDANTS", n, x)
BY DEF Asks, AsksToMatch, AsksToCascade

-----------------------------------------------------------------------------
(* What visiting e does to every element.                                    *)

\* note_children for e: what there is to do now lies in its children, or in what is below them and marked.
NotesChildren(e, propagated) ==
  /\ \A d \in Element \ {e} : hint[d] \subseteq hint'[d]
  /\ \A d \in Element \ {e} : \A h \in hint'[d] \ hint[d] :
       \/ d \in Kids(e) \cap styled /\ h \in propagated
       \/ /\ h = "RESTYLE_SELF" /\ d \in Descendants(e)
          /\ \E c \in snapshot \cap Kids(e) : d \in Invalidates[c]
          /\ d \in Kids(e) \/ \A q \in Element : d \in Kids(q) => q \in dirty'
  /\ \A c \in Kids(e) \cap styled : propagated \subseteq hint'[c]
  /\ \A c \in Kids(e) \cap snapshot \cap styled : \A d \in Invalidates[c] \cap styled :
       \/ "RESTYLE_SELF" \in hint'[d]
       \/ \E a \in Ancestors(d) \ Ancestors(c) : a \notin displayed \/ "RESTYLE_DESCENDANTS" \in hint'[a]
  /\ snapshot' = snapshot \ (Kids(e) \cap styled)
  /\ \A k \in Kids(e) : k \notin styled \/ k \in dirty' \/ hint'[k] # {} => k \in asked'
  /\ dirty \subseteq dirty'
  /\ \A x \in dirty' \ dirty :
       \/ x = e
       \/ /\ x \in Descendants(e)
          /\ x \in Kids(e) \/ \A q \in Element : x \in Kids(q) => q \in dirty'

\* recalc_style_at for e: elements that are not below it are left alone, and those that are if it is
\* displayed and there is nothing for them.
Visited(e, kind, propagated) ==
  /\ kind = RestyleKind(e \in styled, hint[e], Flags[e])
  /\ propagated = Propagate(hint[e]) \cup IF kind # "none" THEN ChangeHint(e) ELSE {}
  /\ propagated \in SUBSET Hints
  /\ work' = [work EXCEPT ![e] = @ \cup {kind}]
  /\ hint'[e] = {} /\ snapshot' \subseteq snapshot /\ (e \in snapshot' <=> e \in snapshot)
  /\ displayed \subseteq styled => displayed' \subseteq styled'
  /\ \A x \in Element \ ({e} \cup Descendants(e)) :
       /\ hint'[x] = hint[x] /\ (x \in dirty' <=> x \in dirty) /\ (x \in snapshot' <=> x \in snapshot)
       /\ (x \in styled' <=> x \in styled) /\ (x \in displayed' <=> x \in displayed)
  /\ \/ e \notin displayed'
     \/ /\ e \in displayed' /\ styled' = styled \cup {e} /\ displayed' = displayed \cup {e}
        /\ IF kind = "none" THEN e \in displayed ELSE e \notin change.hides
        /\ \/ NotesChildren(e, propagated)
           \/ /\ propagated = {} /\ e \notin dirty
              /\ dirty' = dirty /\ snapshot' = snapshot /\ \A d \in Element \ {e} : hint'[d] = hint[d]

\* Clearing what is below an element leaves the others alone.
LEMMA ClearedBelow ==
  ASSUME NEW s \in NotingState, NEW e \in Element
  PROVE  /\ Cleared(s, e).hint = [d \in Element |-> IF d \in Descendants(e) THEN {} ELSE s.hint[d]]
         /\ Cleared(s, e).dirty = s.dirty \ ({e} \cup Descendants(e))
         /\ Cleared(s, e).snapshot = s.snapshot \ Descendants(e)
<1>. DEFINE h == [d \in Element |-> IF d \in Descendants(e) THEN {} ELSE s.hint[d]]
<1>1. Cleared(s, e) = [s EXCEPT !.hint = h, !.dirty = s.dirty \ ({e} \cup Descendants(e)),
                                !.snapshot = s.snapshot \ Descendants(e)]
  BY Zenon DEF Cleared
<1>. HIDE DEF h
<1>2. Cleared(s, e) = [hint |-> h, dirty |-> s.dirty \ ({e} \cup Descendants(e)),
                       snapshot |-> s.snapshot \ Descendants(e), kids |-> s.kids]
  BY <1>1, RecordUpdated
<1>. QED  BY <1>2 DEF h

\* It does that.
LEMMA VisitEffects ==
  ASSUME DataTypeOK, NEW t \in Thread, Preorder(t), NEW e \in Element, e = Head(discovered[t])
  PROVE  \E kind, propagated : Visited(e, kind, propagated)
<1>1. PICK kind : kind = RestyleKind(e \in styled, hint[e], Flags[e])
  OBVIOUS
<1>2. PICK display : display = IF kind # "none" THEN ComputedDisplay(e) ELSE displayed
  OBVIOUS
<1>3. PICK propagated : propagated = Propagate(hint[e]) \cup IF kind # "none" THEN ChangeHint(e) ELSE {}
  OBVIOUS
<1>4. PICK gone : gone = IF kind # "none" /\ e \notin display THEN Descendants(e) ELSE {}
  OBVIOUS
<1>5. PICK s0 : s0 = [hint |-> [hint EXCEPT ![e] = {}], dirty |-> dirty, snapshot |-> snapshot, kids |-> <<>>]
  OBVIOUS
<1>6. PICK s1 : s1 = IF kind # "none" /\ e \notin display THEN Cleared(s0, e) ELSE s0
  OBVIOUS
<1>7. PICK s2 : s2 = IF (e \in s1.dirty \/ propagated # {}) /\ e \in display
                     THEN NoteChildren(s1, e, propagated) ELSE s1
  OBVIOUS
<1>8. /\ PreorderNoting(t, s2.kids)
      /\ hint' = s2.hint /\ dirty' = s2.dirty /\ snapshot' = s2.snapshot
      /\ styled' = (styled \ gone) \cup {e}
      /\ displayed' = display \ gone
      /\ work' = [work EXCEPT ![e] = @ \cup {kind}]
  BY <1>1, <1>2, <1>3, <1>4, <1>5, <1>6, <1>7 DEF Preorder
<1>9. styled \in SUBSET Element /\ Descendants(e) \in SUBSET Element /\ e \notin Descendants(e)
      /\ Kids(e) \subseteq Descendants(e)
  BY DescendantsAreClosed, NotBelowItself DEF DataTypeOK
<1>10. propagated \in SUBSET Hints
  <2>1. hint[e] \in SUBSET Hints
    BY DEF DataTypeOK
  <2>. QED  BY <1>3, <2>1, PropagatedHints
<1>11. /\ s0 \in NotingState /\ s0.kids = <<>> /\ s0.dirty = dirty /\ s0.snapshot = snapshot
       /\ s0.hint[e] = {} /\ \A d \in Element \ {e} : s0.hint[d] = hint[d]
  <2>1. [hint EXCEPT ![e] = {}] \in [Element -> SUBSET Hints]
    BY DEF DataTypeOK
  <2>. QED  BY <1>5, <2>1 DEF NotingState, DataTypeOK
<1>12. e \notin displayed' <=> e \notin display
  BY <1>4, <1>8, <1>9
<1>13. ASSUME NEW x \in Element \ ({e} \cup Descendants(e))
       PROVE  (x \in styled' <=> x \in styled) /\ (x \in displayed' <=> x \in displayed)
  BY <1>2, <1>4, <1>8 DEF ComputedDisplay
<1>14. ASSUME e \notin display
       PROVE  /\ hint'[e] = {} /\ snapshot' \subseteq snapshot /\ (e \in snapshot' <=> e \in snapshot)
              /\ \A x \in Element \ ({e} \cup Descendants(e)) :
                   hint'[x] = hint[x] /\ (x \in dirty' <=> x \in dirty) /\ (x \in snapshot' <=> x \in snapshot)
  <2>1. s2 = s1
    BY <1>7, <1>14
  <2>2. CASE kind # "none"
    <3>1. /\ s1.hint = [d \in Element |-> IF d \in Descendants(e) THEN {} ELSE s0.hint[d]]
          /\ s1.dirty = s0.dirty \ ({e} \cup Descendants(e)) /\ s1.snapshot = s0.snapshot \ Descendants(e)
      BY <1>6, <1>11, <1>14, <2>2, ClearedBelow
    <3>. QED  BY <1>8, <1>9, <1>11, <2>1, <3>1
  <2>3. CASE kind = "none"
    BY <1>6, <1>8, <1>11, <2>1, <2>3
  <2>. QED  BY <2>2, <2>3
<1>15. ASSUME e \in display
       PROVE  /\ s1 = s0 /\ styled' = styled \cup {e} /\ displayed' = displayed \cup {e}
              /\ IF kind = "none" THEN e \in displayed ELSE e \notin change.hides
  BY <1>2, <1>4, <1>6, <1>8, <1>15 DEF ComputedDisplay
<1>16. ASSUME e \in display, e \in dirty \/ propagated # {}
       PROVE  /\ NotesChildren(e, propagated) /\ hint'[e] = {}
              /\ snapshot' \subseteq snapshot /\ (e \in snapshot' <=> e \in snapshot)
              /\ \A x \in Element \ ({e} \cup Descendants(e)) :
                   hint'[x] = hint[x] /\ (x \in dirty' <=> x \in dirty) /\ (x \in snapshot' <=> x \in snapshot)
  <2>1. PICK n \in Nat : n = Len(Children[e])
    BY ChildrenList
  <2>2. s2 = NoteChildren(s0, e, propagated)
    BY <1>7, <1>11, <1>15, <1>16
  <2>3. ChildrenNotedUpTo(s0, e, propagated, n, s2) /\ Before(e, n) = Kids(e)
    BY <1>9, <1>10, <1>11, <2>1, <2>2, AllChildrenNoted
  <2>4. Grows(s0, s2) /\ s2 \in NotingState
    BY <1>9, <1>10, <1>11, <2>2, ChildrenNoted
  <2>5. asked' = asked \cup ToSet(s2.kids)
    BY <1>8 DEF PreorderNoting
  <2>6. \A d \in Element \ {e} : hint[d] \subseteq hint'[d]
    BY <1>8, <1>11, <2>4 DEF Grows
  <2>7. \A d \in Element : \A h \in s2.hint[d] \ s0.hint[d] :
          \/ d \in Kids(e) \cap styled /\ h \in propagated
          \/ /\ h = "RESTYLE_SELF" /\ d \in Descendants(e)
             /\ \E c \in snapshot \cap Kids(e) : d \in Invalidates[c]
             /\ d \in Kids(e) \/ \A q \in Element : d \in Kids(q) => q \in dirty'
    BY <1>8, <1>11, <2>3 DEF ChildrenNotedUpTo
  <2>8. \A d \in Element \ {e} : \A h \in hint'[d] \ hint[d] :
          \/ d \in Kids(e) \cap styled /\ h \in propagated
          \/ /\ h = "RESTYLE_SELF" /\ d \in Descendants(e)
             /\ \E c \in snapshot \cap Kids(e) : d \in Invalidates[c]
             /\ d \in Kids(e) \/ \A q \in Element : d \in Kids(q) => q \in dirty'
    BY <1>8, <1>11, <2>7
  <2>9. /\ \A c \in Kids(e) \cap styled : propagated \subseteq hint'[c]
        /\ \A c \in Kids(e) \cap snapshot \cap styled : \A d \in Invalidates[c] \cap styled :
             \/ "RESTYLE_SELF" \in hint'[d]
             \/ \E a \in Ancestors(d) \ Ancestors(c) : a \notin displayed \/ "RESTYLE_DESCENDANTS" \in hint'[a]
        /\ snapshot' = snapshot \ (Kids(e) \cap styled)
    BY <1>8, <1>11, <2>3 DEF ChildrenNotedUpTo
  <2>10. \A k \in Kids(e) : k \notin styled \/ k \in dirty' \/ hint'[k] # {} => k \in asked'
    BY <1>8, <2>3, <2>5 DEF ChildrenNotedUpTo, ElementNeedsTraversal
  <2>11. /\ dirty \subseteq dirty'
         /\ \A x \in dirty' \ dirty :
              \/ x = e
              \/ /\ x \in Descendants(e)
                 /\ x \in Kids(e) \/ \A q \in Element : x \in Kids(q) => q \in dirty'
    BY <1>8, <1>11, <2>3, <2>4 DEF ChildrenNotedUpTo, Grows
  <2>12. NotesChildren(e, propagated)
    BY <2>6, <2>8, <2>9, <2>10, <2>11 DEF NotesChildren
  <2>13. hint'[e] = {}
    BY <1>8, <1>9, <1>11, <2>7
  <2>14. \A x \in Element \ ({e} \cup Descendants(e)) :
           hint'[x] = hint[x] /\ (x \in dirty' <=> x \in dirty) /\ (x \in snapshot' <=> x \in snapshot)
    BY <1>9, <2>6, <2>8, <2>9, <2>11
  <2>. QED  BY <1>9, <2>9, <2>12, <2>13, <2>14
<1>17. ASSUME e \in display, ~ (e \in dirty \/ propagated # {})
       PROVE  /\ propagated = {} /\ e \notin dirty /\ dirty' = dirty /\ snapshot' = snapshot
              /\ \A d \in Element \ {e} : hint'[d] = hint[d]
              /\ hint'[e] = {}
  BY <1>7, <1>8, <1>11, <1>15, <1>17
<1>18. ASSUME displayed \subseteq styled PROVE displayed' \subseteq styled'
  BY <1>2, <1>8, <1>18 DEF ComputedDisplay
<1>19. Visited(e, kind, propagated)
  <2>1. CASE e \notin display
    BY <1>1, <1>3, <1>8, <1>10, <1>12, <1>13, <1>14, <1>18, <2>1 DEF Visited
  <2>2. CASE e \in display /\ (e \in dirty \/ propagated # {})
    BY <1>1, <1>3, <1>8, <1>10, <1>12, <1>13, <1>15, <1>16, <1>18, <2>2 DEF Visited
  <2>3. CASE e \in display /\ ~ (e \in dirty \/ propagated # {})
    BY <1>1, <1>3, <1>8, <1>10, <1>12, <1>13, <1>15, <1>17, <1>18, <2>3 DEF Visited
  <2>. QED  BY <2>1, <2>2, <2>3
<1>. QED  BY <1>19

-----------------------------------------------------------------------------
(* The inductive invariant.                                                  *)

\* Everything above the element is displayed.
Live(x) == Ancestors(x) \subseteq displayed

\* An element that is not visited yet has a style and is displayed as before the restyle, unless what is
\* above it changed that.
StylesLive ==
  /\ displayed \subseteq styled
  /\ \A x \in Element \ down : Live(x) =>
       /\ x \in styled <=> x \notin Unstyled(change)
       /\ x \in displayed <=> x \notin Unstyled(change) \cup change.hidden

Needs(x) == x \notin styled \/ x \in dirty \/ hint[x] # {}

\* What needs the traversal is where the traversal gets: its parent is marked, or has queued it.
MarksLead ==
  /\ start \notin snapshot
  /\ \A p \in Element : \A x \in Kids(p) : x \in InRange \ (down \cup {start}) /\ Live(x) =>
       /\ Needs(x) => IF p \in down THEN x \in asked ELSE p \in dirty
       /\ x \in snapshot => p \in dirty \ down

Done(x) == hint[x] = {} /\ x \notin snapshot

\* Nothing is left of what was pending on a visited element or outside of the range.
NothingLeft ==
  /\ snapshot \subseteq change.snapshot
  /\ \A x \in down : Live(x) => Done(x)
  /\ \A x \in Element \ InRange : Done(x) /\ (Live(x) => x \in styled)

\* What the hints of the elements that are not visited ask of x.
Pending(kind, x) ==
  \E a \in (Ancestors(x) \cup {x}) \ down : \E h \in hint[a] : Asks(kind, h, Below(a, x), x)

PendingMatch(x) ==
  (\E c \in snapshot : x \in Invalidates[c]) \/ Pending("match", x)

\* What is pending for an element is what the changes ask for, in view of what was done above it.
PendingIsAsked ==
  \A x \in Element \ (down \cup Unstyled(change)) : Live(x) =>
    /\ MustMatch(x) <=> PendingMatch(x)
    /\ MustReplace(x) <=> "RESTYLE_STYLE_ATTRIBUTE" \in hint[x]
    /\ ~ MustMatch(x) => (Asked(AsksToCascade, x) <=> Pending("cascade", x))

\* What was visited was restyled as it had to be.
VisitedAsRequired ==
  \A x \in down : Live(x) => work[x] = {Required(x)}

EInv == StylesLive /\ MarksLead /\ NothingLeft /\ PendingIsAsked /\ VisitedAsRequired

\* A visit of e in the course of the traversal.
VisitStep(e, kind, propagated) ==
  /\ Visited(e, kind, propagated)
  /\ e \in asked \ down /\ e \in InRange /\ Descendants(e) \cap asked = {} /\ asked \subseteq Element
  /\ asked \subseteq asked' /\ down' = down \cup {e} /\ start' = start /\ change' = change

\* Visiting the first element of a queue is one.
LEMMA VisitIsStep ==
  ASSUME RInv, NEW t \in Thread, Preorder(t)
  PROVE  \E e \in Element : \E kind, propagated : VisitStep(e, kind, propagated)
<1>1. PInv /\ DataTypeOK /\ PathsMarked /\ StylesKept /\ TypeOK /\ AskedSound /\ QueuesDisjoint
  BY DEF RInv, PInv
<1>2. discovered[t] # <<>> /\ discovered[t] \in Seq(Element)
  BY <1>1 DEF TypeOK, Preorder, PreorderNoting
<1>3. PICK e \in Element : e = Head(discovered[t]) /\ e \in ToSet(discovered[t])
  BY <1>2, TailOf
<1>4. e \in asked \ down
  BY <1>1, <1>3, WaitingMembers DEF QueuesDisjoint
<1>5. PICK kids : Recalculated(t, e, kids)
  BY <1>1, <1>3, RecalcStyle
<1>6. asked \subseteq asked' /\ down' = down \cup {e} /\ start' = start /\ change' = change
  BY <1>3, <1>5 DEF Recalculated, PreorderNoting
<1>7. Descendants(e) \cap asked = {}
  <2>1. /\ asked \in SUBSET Element /\ down \in SUBSET asked /\ start \in asked
        /\ \A x \in asked \ {start} : \E p \in down : x \in Kids(p)
    BY <1>1 DEF TypeOK, AskedSound
  <2>. QED  BY <1>4, <2>1, NothingAskedBelow
<1>8. e \in InRange /\ asked \subseteq Element
  BY <1>1, <1>4 DEF PathsMarked, TypeOK
<1>9. PICK kind, propagated : Visited(e, kind, propagated)
  BY <1>1, <1>3, VisitEffects
<1>. QED  BY <1>4, <1>6, <1>7, <1>8, <1>9 DEF VisitStep

\* What is below an element without data, or one that is not displayed, has no data.
LEMMA NothingBelowHidden ==
  ASSUME change \in Changes, NEW e \in Element, e \in Unstyled(change) \cup change.hidden
  PROVE  Descendants(e) \subseteq Unstyled(change)
<1>1. change.fresh \subseteq Element /\ change.hidden \subseteq Element
      /\ \A x \in change.fresh : Descendants(x) \subseteq change.fresh
  BY ChangesAssumption
<1>2. CASE e \in change.fresh \cup change.hidden
  BY <1>1, <1>2 DEF Unstyled
<1>3. ASSUME NEW h \in change.hidden, e \in Descendants(h) PROVE Descendants(e) \subseteq Unstyled(change)
  BY <1>1, <1>3, DescendantsTransitive DEF Unstyled
<1>. QED  BY <1>2, <1>3 DEF Unstyled

\* The elements above one that is not below e.
LEMMA NotAbove ==
  ASSUME NEW e \in Element, NEW x \in Element, x \notin Descendants(e), NEW a \in Ancestors(x)
  PROVE  a \in Element /\ a # e /\ a \notin Descendants(e)
<1>1. a \in Element /\ x \in Descendants(a)
  BY DEF Ancestors, AncestorSets
<1>. QED  BY <1>1, DescendantsTransitive

\* What is live after a visit of e: the same as before, but for what is below e.
LEMMA LiveAfter ==
  ASSUME RInv, StylesLive, NEW e \in Element, NEW kind, NEW propagated, VisitStep(e, kind, propagated),
         NEW x \in Element
  PROVE  /\ x \notin Descendants(e) => (Live(x)' <=> Live(x))
         /\ x \in Descendants(e) /\ Live(x)' =>
              /\ e \in displayed' /\ Live(e)
              /\ \/ /\ e \in displayed /\ e \in styled /\ Live(x)
                    /\ displayed' = displayed /\ styled' = styled
                 \/ /\ e \notin displayed /\ x \in Kids(e) /\ Descendants(e) \subseteq Unstyled(change)
<1>1. DataTypeOK /\ StylesKept /\ Visited(e, kind, propagated)
  BY DEF RInv, VisitStep
<1>2. ASSUME x \notin Descendants(e) PROVE Live(x)' <=> Live(x)
  <2>1. \A a \in Ancestors(x) : a \in displayed' <=> a \in displayed
    BY <1>1, <1>2, NotAbove DEF Visited
  <2>. QED  BY <2>1 DEF Live
<1>3. ASSUME x \in Descendants(e), Live(x)'
      PROVE  /\ e \in displayed' /\ Live(e)
             /\ \/ /\ e \in displayed /\ e \in styled /\ Live(x)
                   /\ displayed' = displayed /\ styled' = styled
                \/ /\ e \notin displayed /\ x \in Kids(e) /\ Descendants(e) \subseteq Unstyled(change)
  <2>1. Ancestors(x) \subseteq displayed' /\ Ancestors(x) \subseteq Element /\ e \in Ancestors(x)
    BY <1>3 DEF Live, Ancestors, AncestorSets
  <2>2. e \in displayed' /\ styled' = styled \cup {e} /\ displayed' = displayed \cup {e}
    BY <1>1, <2>1 DEF Visited
  <2>3. Live(e)
    <3>1. e \notin Descendants(e)
      BY NotBelowItself
    <3>2. \A a \in Ancestors(e) : a \in Ancestors(x) /\ a # e /\ a \in Element
      <4>1. \A a \in Element : e \in Descendants(a) => x \in Descendants(a)
        BY <1>3, DescendantsTransitive
      <4>. QED  BY <3>1, <4>1, NotAbove DEF Ancestors, AncestorSets
    <3>. QED  BY <2>1, <2>2, <3>2 DEF Live
  <2>4. CASE e \in displayed
    <3>1. e \in styled /\ displayed' = displayed /\ styled' = styled
      BY <2>2, <2>4 DEF StylesLive
    <3>. QED  BY <2>1, <2>2, <2>3, <2>4, <3>1 DEF Live
  <2>5. CASE e \notin displayed
    <3>1. e \in Unstyled(change) \cup change.hidden
      BY <2>3, <2>5 DEF StylesLive, VisitStep
    <3>2. Descendants(e) \subseteq Unstyled(change)
      BY <1>1, <3>1, NothingBelowHidden DEF DataTypeOK
    <3>3. Descendants(e) \cap styled = {}
      BY <1>1, <3>2 DEF StylesKept, VisitStep, RInv, PInv, TypeOK
    <3>4. x \in Kids(e)
      <4>1. SUFFICES ASSUME x \notin Kids(e) PROVE FALSE
        OBVIOUS
      <4>2. PICK k \in Kids(e) : x \in Descendants(k)
        BY <1>3, <4>1, BelowAChild
      <4>3. k \in Element /\ k \in Descendants(e) /\ k # e
        BY AboveAndBelow
      <4>4. k \in Ancestors(x)
        BY <4>2, <4>3 DEF Ancestors, AncestorSets
      <4>. QED  BY <2>1, <2>2, <3>3, <4>3, <4>4 DEF StylesLive
    <3>. QED  BY <2>2, <2>3, <2>5, <3>2, <3>4
  <2>. QED  BY <2>4, <2>5
<1>. QED  BY <1>2, <1>3

\* A visit keeps StylesLive.
LEMMA StylesLiveKept ==
  ASSUME RInv, EInv, NEW e \in Element, NEW kind, NEW propagated, VisitStep(e, kind, propagated)
  PROVE  StylesLive'
<1>1. DataTypeOK /\ StylesKept /\ Visited(e, kind, propagated) /\ StylesLive /\ TypeOK
  BY DEF RInv, PInv, VisitStep, EInv
<1>2. displayed' \subseteq styled'
  BY <1>1 DEF Visited, StylesLive
<1>3. change' = change /\ Unstyled(change)' = Unstyled(change) /\ down' = down \cup {e}
  BY DEF VisitStep, Unstyled
<1>4. ASSUME NEW x \in Element \ down', Live(x)'
      PROVE  /\ x \in styled' <=> x \notin Unstyled(change)
             /\ x \in displayed' <=> x \notin Unstyled(change) \cup change.hidden
  <2>1. x \in Element \ down /\ x # e
    BY <1>3
  <2>2. CASE x \notin Descendants(e)
    <3>1. Live(x)
      BY <1>1, <1>4, <2>2, LiveAfter
    <3>2. (x \in styled' <=> x \in styled) /\ (x \in displayed' <=> x \in displayed)
      BY <1>1, <2>1, <2>2 DEF Visited
    <3>. QED  BY <1>1, <2>1, <3>1, <3>2 DEF StylesLive
  <2>3. CASE x \in Descendants(e)
    <3>1. /\ e \in displayed'
          /\ \/ Live(x) /\ displayed' = displayed /\ styled' = styled
             \/ Descendants(e) \subseteq Unstyled(change)
      BY <1>1, <1>4, <2>3, LiveAfter
    <3>2. CASE Live(x) /\ displayed' = displayed /\ styled' = styled
      BY <1>1, <2>1, <3>2 DEF StylesLive
    <3>3. CASE Descendants(e) \subseteq Unstyled(change)
      <4>1. styled' = styled \cup {e}
        BY <1>1, <3>1 DEF Visited
      <4>2. x \notin styled
        BY <1>1, <2>1, <2>3, <3>3 DEF StylesKept
      <4>. QED  BY <1>2, <2>1, <2>3, <3>3, <4>1, <4>2
    <3>. QED  BY <3>1, <3>2, <3>3
  <2>. QED  BY <2>2, <2>3
<1>. QED  BY <1>2, <1>3, <1>4 DEF StylesLive

\* A visit keeps MarksLead: what it leaves to do is marked or queued.
LEMMA MarksLeadKept ==
  ASSUME RInv, EInv, NEW e \in Element, NEW kind, NEW propagated, VisitStep(e, kind, propagated)
  PROVE  MarksLead'
<1>1. DataTypeOK /\ StylesKept /\ Visited(e, kind, propagated) /\ StylesLive /\ TypeOK /\ MarksLead /\ NothingLeft
  BY DEF RInv, PInv, VisitStep, EInv
<1>2. /\ change' = change /\ down' = down \cup {e} /\ start' = start /\ InRange' = InRange
      /\ asked \subseteq asked' /\ e \in asked \ down /\ e \in InRange
      /\ Descendants(e) \cap asked = {} /\ asked \subseteq Element
  BY DEF VisitStep, InRange
<1>3. start' \notin snapshot'
  BY <1>1, <1>2 DEF MarksLead, Visited
<1>4. ASSUME NEW p \in Element, NEW x \in Kids(p), x \in InRange \ (down' \cup {start}), Live(x)'
      PROVE  /\ Needs(x)' => IF p \in down' THEN x \in asked' ELSE p \in dirty'
             /\ x \in snapshot' => p \in dirty' \ down'
  <2>1. x \in Element /\ x \in InRange \ (down \cup {start}) /\ x # e
    BY <1>2, <1>4, AboveAndBelow
  <2>2. CASE x \notin Descendants(e)
    <3>1. Live(x)
      BY <1>1, <1>4, <2>1, <2>2, LiveAfter
    <3>2. p # e /\ p \notin Descendants(e)
      BY <2>2, AboveAndBelow
    <3>3. /\ hint'[x] = hint[x] /\ (x \in dirty' <=> x \in dirty) /\ (x \in snapshot' <=> x \in snapshot)
          /\ (x \in styled' <=> x \in styled) /\ (p \in dirty' <=> p \in dirty)
      BY <1>1, <2>1, <2>2, <3>2 DEF Visited
    <3>4. /\ Needs(x) => IF p \in down THEN x \in asked ELSE p \in dirty
          /\ x \in snapshot => p \in dirty \ down
      BY <1>1, <2>1, <3>1 DEF MarksLead
    <3>. QED  BY <1>2, <3>2, <3>3, <3>4 DEF Needs
  <2>3. CASE x \in Descendants(e)
    <3>1. /\ e \in displayed' /\ Live(e)
          /\ \/ e \in displayed /\ e \in styled /\ Live(x) /\ displayed' = displayed /\ styled' = styled
             \/ e \notin displayed /\ x \in Kids(e) /\ Descendants(e) \subseteq Unstyled(change)
      BY <1>1, <1>4, <2>1, <2>3, LiveAfter
    <3>2. \/ NotesChildren(e, propagated)
          \/ /\ propagated = {} /\ e \notin dirty
             /\ dirty' = dirty /\ snapshot' = snapshot /\ \A d \in Element \ {e} : hint'[d] = hint[d]
      BY <1>1, <3>1 DEF Visited
    <3>3. e \in displayed /\ Live(x) => x \in styled \/ x \in Unstyled(change)
      BY <1>1, <2>1 DEF StylesLive
    <3>4. x \in snapshot => x \notin Unstyled(change)
      BY <1>1, ChangesAssumption DEF NothingLeft, DataTypeOK
    <3>5. p = e \/ p \in Descendants(e)
      BY <2>3, AboveAndBelow
    <3>6. p \in Descendants(e) => p \notin down' /\ p # e
      BY <1>1, <1>2, NotBelowItself DEF TypeOK
    <3>7. (p = e <=> x \in Kids(e)) /\ styled' = styled \cup {e}
      BY <1>1, <1>4, <3>1, OneParent DEF Visited
    <3>8. ASSUME NotesChildren(e, propagated), p = e
          PROVE  (Needs(x)' => x \in asked') /\ x \notin snapshot'
      <4>1. Needs(x)' => x \in asked'
        BY <2>1, <3>7, <3>8 DEF NotesChildren, Needs
      <4>2. x \in styled => x \notin snapshot'
        BY <3>7, <3>8 DEF NotesChildren
      <4>3. x \in snapshot' => x \in snapshot
        BY <1>1 DEF Visited
      <4>4. x \notin styled => x \in Unstyled(change)
        BY <2>3, <3>1, <3>3
      <4>. QED  BY <3>4, <4>1, <4>2, <4>3, <4>4
    <3>9. ASSUME NotesChildren(e, propagated), p \in Descendants(e)
          PROVE  (Needs(x)' => p \in dirty') /\ (x \in snapshot' => p \in dirty')
      <4>1. Live(x) /\ x \notin Kids(e)
        BY <3>1, <3>6, <3>7, <3>9
      <4>2. (Needs(x) => p \in dirty) /\ (x \in snapshot => p \in dirty)
        BY <1>1, <1>2, <2>1, <3>6, <3>9, <4>1 DEF MarksLead
      <4>3. dirty \subseteq dirty' /\ snapshot' \subseteq snapshot
        BY <1>1, <3>9 DEF NotesChildren, Visited
      <4>4. x \in dirty' \ dirty => p \in dirty'
        BY <1>4, <2>1, <3>9, <4>1 DEF NotesChildren
      <4>5. \A h \in hint'[x] \ hint[x] : p \in dirty'
        BY <1>4, <2>1, <3>9, <4>1 DEF NotesChildren
      <4>. QED  BY <2>1, <3>7, <4>2, <4>3, <4>4, <4>5 DEF Needs
    <3>10. ASSUME propagated = {}, e \notin dirty, dirty' = dirty, snapshot' = snapshot,
                  \A d \in Element \ {e} : hint'[d] = hint[d]
           PROVE  /\ Needs(x)' => p # e /\ p \in dirty'
                  /\ x \in snapshot' => p # e /\ p \in dirty'
      <4>1. e \in displayed /\ Live(x) /\ styled' = styled
        <5>1. SUFFICES ASSUME e \notin displayed PROVE FALSE
          BY <3>1
        <5>2. Descendants(e) \subseteq Unstyled(change) /\ x \in Kids(e)
          BY <3>1, <5>1
        <5>3. e \in Unstyled(change) \cup change.hidden
          BY <1>1, <1>2, <3>1, <5>1 DEF StylesLive
        <5>4. kind # "none" /\ e \notin change.hides /\ ChangeHint(e) = {}
          BY <1>1, <3>1, <3>10, <5>1 DEF Visited
        <5>. QED  BY <5>3, <5>4, <1>1, <1>2, <3>1 DEF ChangeHint, StylesLive
      <4>2. (Needs(x)' <=> Needs(x)) /\ (x \in snapshot' <=> x \in snapshot)
        BY <2>1, <3>10, <4>1 DEF Needs
      <4>3. /\ Needs(x) => IF p \in down THEN x \in asked ELSE p \in dirty
            /\ x \in snapshot => p \in dirty \ down
        BY <1>1, <2>1, <4>1 DEF MarksLead
      <4>4. p \notin down
        BY <1>2, <3>5, <3>6
      <4>. QED  BY <3>10, <4>2, <4>3, <4>4
    <3>11. e \in down'
      BY <1>2
    <3>. QED  BY <3>2, <3>5, <3>6, <3>8, <3>9, <3>10, <3>11
  <2>. QED  BY <2>2, <2>3
<1>. QED  BY <1>2, <1>3, <1>4 DEF MarksLead

\* A visit keeps NothingLeft.
LEMMA NothingLeftKept ==
  ASSUME RInv, EInv, NEW e \in Element, NEW kind, NEW propagated, VisitStep(e, kind, propagated)
  PROVE  NothingLeft'
<1>1. /\ DataTypeOK /\ Visited(e, kind, propagated) /\ StylesLive /\ TypeOK /\ MarksLead /\ NothingLeft
      /\ PathsMarked /\ AskedSound
  BY DEF RInv, PInv, VisitStep, EInv
<1>2. /\ change' = change /\ down' = down \cup {e} /\ InRange' = InRange
      /\ e \in asked \ down /\ e \in InRange
      /\ Descendants(e) \cap asked = {} /\ asked \subseteq Element
  BY DEF VisitStep, InRange
<1>3. snapshot' \subseteq change'.snapshot
  BY <1>1, <1>2 DEF NothingLeft, Visited
<1>4. ASSUME NEW x \in Element \ ({e} \cup Descendants(e))
      PROVE  (Done(x)' <=> Done(x)) /\ (Live(x)' <=> Live(x)) /\ (x \in styled' <=> x \in styled)
  <2>1. Live(x)' <=> Live(x)
    BY <1>1, LiveAfter
  <2>. QED  BY <1>1, <2>1 DEF Visited, Done
<1>5. Live(e) => e \notin snapshot
  <2>1. CASE e = start
    BY <1>1, <2>1 DEF MarksLead
  <2>2. CASE e # start
    <3>1. PICK p \in down : e \in Kids(p)
      BY <1>1, <1>2, <2>2 DEF AskedSound, TypeOK
    <3>2. p \in Element
      BY <1>1, <3>1 DEF TypeOK
    <3>. QED  BY <1>1, <1>2, <2>2, <3>1, <3>2 DEF MarksLead
  <2>. QED  BY <2>1, <2>2
<1>6. ASSUME NEW x \in down', Live(x)' PROVE Done(x)'
  <2>1. CASE x = e
    <3>1. Live(e)
      BY <1>1, <1>6, <2>1, LiveAfter, NotBelowItself
    <3>. QED  BY <1>1, <1>5, <2>1, <3>1 DEF Visited, Done
  <2>2. CASE x # e
    <3>1. x \in down /\ x \in Element \ ({e} \cup Descendants(e))
      BY <1>1, <1>2, <1>6, <2>2 DEF TypeOK
    <3>. QED  BY <1>1, <1>4, <1>6, <3>1 DEF NothingLeft
  <2>. QED  BY <2>1, <2>2
<1>7. ASSUME NEW x \in Element \ InRange PROVE Done(x)' /\ (Live(x)' => x \in styled')
  <2>1. x \in Element \ ({e} \cup Descendants(e))
    <3>1. Descendants(e) \subseteq InRange
      BY <1>1, <1>2, DescendantsTransitive DEF InRange, TypeOK
    <3>. QED  BY <1>2, <3>1
  <2>. QED  BY <1>1, <1>4, <2>1 DEF NothingLeft
<1>. QED  BY <1>2, <1>3, <1>6, <1>7 DEF NothingLeft

\* What a change of an element below e matters to is below e.
LEMMA InvalidatesBelow ==
  ASSUME NEW e \in Element, NEW c \in Descendants(e)
  PROVE  Invalidates[c] \subseteq Descendants(e)
<1>1. PICK p \in {e} \cup Descendants(e) : c \in Kids(p)
  BY DescendantsAreClosed
<1>2. p \in Element /\ c \in Element /\ Descendants(p) \subseteq Descendants(e)
  BY DescendantsAreClosed, <1>1, DescendantsTransitive
<1>3. PICK i \in 1 .. Len(Children[p]) : c = Children[p][i]
  BY <1>1, <1>2, ChildrenList DEF Kids
<1>4. Invalidates[c] \subseteq Descendants(p)
  BY <1>2, <1>3, InvalidatedBelow
<1>. QED  BY <1>2, <1>4

\* The elements that a hint for x may be on: x and those above it.
Over(x) == Ancestors(x) \cup {x}

\* Who is over an element, when a visit of e changes nothing that is.
LEMMA OverElsewhere ==
  ASSUME NEW e \in Element, NEW x \in Element \ {e}, x \notin Descendants(e), NEW a \in Over(x)
  PROVE  a \in Element \ ({e} \cup Descendants(e))
BY NotAbove DEF Over

\* Who is over an element below e.
LEMMA OverBelow ==
  ASSUME NEW e \in Element, NEW x \in Descendants(e)
  PROVE  /\ x \in Element /\ e \in Ancestors(x) /\ e # x /\ Over(x) \subseteq Element
         /\ \E k \in Kids(e) : k \in Over(x)
         /\ \A a \in Over(x) : a \in Descendants(e) \/ a = e \/ a \in Ancestors(e)
<1>1. x \in Element /\ e # x /\ e \in Ancestors(x) /\ Ancestors(x) \subseteq Element
  BY DescendantsAreClosed, NotBelowItself DEF Ancestors, AncestorSets
<1>2. PICK k \in Kids(e) : x = k \/ x \in Descendants(k)
  BY BelowAChild
<1>3. k \in Element /\ k \in Over(x)
  BY <1>1, <1>2, AboveAndBelow DEF Over, Ancestors, AncestorSets
<1>4. ASSUME NEW a \in Over(x)
      PROVE  a \in Descendants(e) \/ a = e \/ a \in Ancestors(e)
  <2>1. DEFINE S == {y \in Descendants(e) : ~ \A b \in Ancestors(y) : b \in Descendants(e) \/ b = e \/ b \in Ancestors(e)}
  <2>2. \A y \in S : \E q \in S : y \in Kids(q)
    <3>1. SUFFICES ASSUME NEW y \in S PROVE \E q \in S : y \in Kids(q)
      OBVIOUS
    <3>2. PICK q \in {e} \cup Descendants(e) : y \in Kids(q)
      BY DescendantsAreClosed
    <3>3. q \in Element /\ Ancestors(y) = Ancestors(q) \cup {q}
      BY <3>2, DescendantsAreClosed, AncestorsOfChild
    <3>. QED  BY <3>2, <3>3
  <2>3. S = {}
    <3>1. S \in SUBSET Element
      BY DescendantsAreClosed
    <3>. QED  BY <2>2, <3>1, NoCycle
  <2>. QED  BY <2>3 DEF Over
<1>. QED  BY <1>1, <1>2, <1>3, <1>4 DEF Over

\* What is asked of an element that is not below e is not changed by a visit of e.
LEMMA AskedElsewhere ==
  ASSUME RInv, NEW e \in Element, NEW kind, NEW propagated, VisitStep(e, kind, propagated),
         NEW x \in Element, x \notin Descendants(e)
  PROVE  /\ Asked(AsksToMatch, x)' <=> Asked(AsksToMatch, x)
         /\ Asked(AsksToCascade, x)' <=> Asked(AsksToCascade, x)
         /\ MustMatch(x)' <=> MustMatch(x)
         /\ MustReplace(x)' <=> MustReplace(x)
<1>1. DataTypeOK /\ Visited(e, kind, propagated) /\ change' = change
  BY DEF RInv, VisitStep
<1>2. \A a \in Ancestors(x) : work'[a] = work[a]
  BY <1>1, NotAbove DEF Visited, DataTypeOK
<1>3. /\ Asked(AsksToMatch, x)' <=> Asked(AsksToMatch, x)
      /\ Asked(AsksToCascade, x)' <=> Asked(AsksToCascade, x)
  BY <1>1, <1>2 DEF Asked, Restyled, HintOfChange, Unstyled
<1>4. MustReplace(x)' <=> MustReplace(x)
  BY <1>1 DEF MustReplace
<1>5. MustMatch(x)' <=> MustMatch(x)
  BY <1>1, <1>3 DEF MustMatch, Unstyled
<1>. QED  BY <1>3, <1>4, <1>5

\* Neither is what is pending for it.
LEMMA PendingElsewhere ==
  ASSUME RInv, NEW e \in Element, NEW kind, NEW propagated, VisitStep(e, kind, propagated),
         NEW x \in Element, x \notin Descendants(e), x # e
  PROVE  /\ hint'[x] = hint[x]
         /\ Pending("match", x)' <=> Pending("match", x)
         /\ Pending("cascade", x)' <=> Pending("cascade", x)
         /\ PendingMatch(x)' <=> PendingMatch(x)
<1>1. DataTypeOK /\ Visited(e, kind, propagated) /\ down' = down \cup {e}
  BY DEF RInv, VisitStep
<1>2. \A a \in Over(x) : hint'[a] = hint[a] /\ (a \in down' <=> a \in down)
  BY <1>1, OverElsewhere DEF Visited
<1>3. ASSUME NEW q \in {"match", "cascade"} PROVE Pending(q, x)' <=> Pending(q, x)
  BY <1>2 DEF Pending, Over
<1>4. (\E c \in snapshot' : x \in Invalidates[c]) <=> \E c \in snapshot : x \in Invalidates[c]
  <2>1. \A c \in Element : x \in Invalidates[c] => c \in Element \ Descendants(e)
    BY InvalidatesBelow
  <2>2. snapshot' \subseteq snapshot /\ snapshot \subseteq Element
    BY <1>1 DEF Visited, DataTypeOK
  <2>3. ASSUME NEW c \in snapshot, x \in Invalidates[c], c \notin snapshot' PROVE FALSE
    <3>1. c = e
      BY <1>1, <2>1, <2>2, <2>3 DEF Visited
    <3>. QED  BY <1>1, <2>3, <3>1 DEF Visited
  <2>. QED  BY <2>2, <2>3
<1>. QED  BY <1>2, <1>3, <1>4 DEF PendingMatch, Over

\* What hints over x, but for those on e, ask of x; and what a hint that e passes to its children asks.
Rest(q, e, x) == \E a \in Over(x) \ (down \cup {e}) : \E h \in hint[a] : Asks(q, h, Below(a, x), x)
Passed(q, H, e, x) == \E h \in H : Asks(q, h, Below(e, x) - 1, x)

\* An element below e, when e is visited, was displayed and stays so.
VisitAbove(e, kind, propagated, x) ==
  /\ VisitStep(e, kind, propagated)
  /\ x \in Descendants(e) \ Unstyled(change) /\ Live(x) /\ Live(e) /\ e \in displayed /\ e \in displayed' /\ e \in styled
  /\ styled' = styled /\ displayed' = displayed

\* The visit adds to what is asked of what is below: the hint for the new style of e.
LEMMA AskedBelow ==
  ASSUME RInv, EInv, NEW e \in Element, NEW kind, NEW propagated, NEW x, VisitAbove(e, kind, propagated, x)
  PROVE  /\ Asked(AsksToMatch, x)' <=>
              Asked(AsksToMatch, x) \/ (kind # "none" /\ Passed("match", ChangeHint(e), e, x))
         /\ Asked(AsksToCascade, x)' <=>
              Asked(AsksToCascade, x) \/ (kind # "none" /\ Passed("cascade", ChangeHint(e), e, x))
<1>1. /\ DataTypeOK /\ StylesKept /\ StylesLive /\ Visited(e, kind, propagated) /\ change' = change
      /\ e \notin down /\ x \in Descendants(e)
  BY DEF RInv, EInv, VisitAbove, VisitStep
<1>2. e \notin Unstyled(change) /\ e \notin change.hidden
  BY <1>1 DEF StylesLive, VisitAbove
<1>3. ChangeHint(e) = HintOfChange(e)
  BY <1>2 DEF ChangeHint, HintOfChange, VisitAbove
<1>4. x \in Element /\ e \in Ancestors(x) /\ Ancestors(x) \subseteq Element
  BY <1>1, OverBelow DEF Over
<1>5. \A a \in Ancestors(x) \ {e} : work'[a] = work[a]
  BY <1>1, <1>4 DEF Visited, DataTypeOK
<1>6. work[e] = {} /\ work'[e] = {kind} /\ kind \in {"match", "replace", "cascade", "none"}
  <2>1. work[e] = {}
    BY <1>1 DEF StylesKept
  <2>2. kind \in {"match", "replace", "cascade", "none"}
    BY <1>1 DEF Visited, RestyleKind
  <2>. QED  BY <1>1, <2>1, <2>2 DEF Visited, DataTypeOK
<1>7. ~ Restyled(e) /\ (Restyled(e)' <=> kind # "none")
  BY <1>6 DEF Restyled
<1>8. \A a \in Ancestors(x) : HintOfChange(a)' = HintOfChange(a)
  BY <1>1 DEF HintOfChange, Unstyled
<1>9. \A a \in Ancestors(x) \ {e} : Restyled(a)' <=> Restyled(a)
  BY <1>5 DEF Restyled
<1>10. \A h, n : (Asks("match", h, n, x) <=> AsksToMatch(h, n, x)) /\ (Asks("cascade", h, n, x) <=> AsksToCascade(h, n, x))
  BY DEF Asks
<1>11. Asked(AsksToMatch, x)' <=>
         Asked(AsksToMatch, x) \/ (kind # "none" /\ \E h \in HintOfChange(e) : AsksToMatch(h, Below(e, x) - 1, x))
  BY <1>1, <1>4, <1>7, <1>8, <1>9 DEF Asked
<1>12. Asked(AsksToCascade, x)' <=>
         Asked(AsksToCascade, x) \/ (kind # "none" /\ \E h \in HintOfChange(e) : AsksToCascade(h, Below(e, x) - 1, x))
  BY <1>1, <1>4, <1>7, <1>8, <1>9 DEF Asked
<1>. QED  BY <1>3, <1>10, <1>11, <1>12 DEF Passed

\* With what was pending, that is what the rest and the children's hint ask.
LEMMA PendingAndPassed ==
  ASSUME RInv, EInv, NEW e \in Element, NEW kind, NEW propagated, NEW x, VisitAbove(e, kind, propagated, x),
         NEW q \in {"match", "cascade"}, q = "cascade" => "RESTYLE_DESCENDANTS" \notin hint[e]
  PROVE  Pending(q, x) \/ (kind # "none" /\ Passed(q, ChangeHint(e), e, x))
           <=> Rest(q, e, x) \/ Passed(q, propagated, e, x)
<1>1. /\ DataTypeOK /\ Visited(e, kind, propagated) /\ e \notin down /\ x \in Descendants(e)
  BY DEF RInv, VisitAbove, VisitStep
<1>2. e \in Over(x) \ down
  BY <1>1, OverBelow DEF Over
<1>3. Pending(q, x) <=> Rest(q, e, x) \/ \E h \in hint[e] : Asks(q, h, Below(e, x), x)
  BY <1>2 DEF Pending, Rest, Over
<1>4. hint[e] \in SUBSET Hints /\ Below(e, x) \in Nat /\ Below(e, x) >= 1
  BY <1>1, BelowIsDeeper DEF DataTypeOK
<1>5. (\E h \in hint[e] : Asks(q, h, Below(e, x), x)) <=> Passed(q, Propagate(hint[e]), e, x)
  <2>1. PICK n \in Nat : n = Below(e, x) /\ n >= 1
    BY <1>4
  <2>2. (\E h \in hint[e] : Asks(q, h, n, x)) <=> \E h \in Propagate(hint[e]) : Asks(q, h, n - 1, x)
    BY <1>4, <2>1, HintsPass
  <2>. QED  BY <2>1, <2>2 DEF Passed
<1>6. Passed(q, propagated, e, x) <=>
        Passed(q, Propagate(hint[e]), e, x) \/ (kind # "none" /\ Passed(q, ChangeHint(e), e, x))
  <2>1. propagated = Propagate(hint[e]) \cup IF kind # "none" THEN ChangeHint(e) ELSE {}
    BY <1>1 DEF Visited
  <2>. QED  BY <2>1 DEF Passed
<1>. QED  BY <1>3, <1>5, <1>6

\* What is pending below e after the visit.
LEMMA PendingBelow ==
  ASSUME RInv, EInv, NEW e \in Element, NEW kind, NEW propagated, NEW x, VisitAbove(e, kind, propagated, x),
         NEW q \in {"match", "cascade"}
  PROVE  /\ Pending(q, x)' => \/ Rest(q, e, x) \/ Passed(q, propagated, e, x)
                              \/ q = "match" /\ \E c \in snapshot : x \in Invalidates[c]
         /\ Rest(q, e, x) \/ Passed(q, propagated, e, x) => Pending(q, x)'
         /\ (\E c \in snapshot : x \in Invalidates[c]) => PendingMatch(x)'
         /\ (\E c \in snapshot' : x \in Invalidates[c]) => \E c \in snapshot : x \in Invalidates[c]
<1>1. /\ DataTypeOK /\ StylesLive /\ TypeOK /\ Visited(e, kind, propagated) /\ e \notin down /\ x \in Descendants(e)
      /\ down' = down \cup {e} /\ Live(x) /\ Descendants(e) \cap asked = {} /\ down \subseteq asked
  BY DEF RInv, PInv, EInv, VisitAbove, VisitStep, TypeOK
<1>2. /\ x \in Element /\ e \in Ancestors(x) /\ x # e /\ Over(x) \subseteq Element
      /\ \A a \in Over(x) : a \in Descendants(e) \/ a = e \/ a \in Ancestors(e)
  BY <1>1, OverBelow
<1>3. PICK k \in Kids(e) : k \in Over(x)
  BY <1>1, OverBelow
<1>4. k \in Element /\ k # e /\ k \in Descendants(e) /\ k \in styled /\ x \in styled
  <2>1. k \in Element /\ k # e /\ k \in Descendants(e)
    BY AboveAndBelow
  <2>2. x \in styled
    BY <1>1, <1>2 DEF StylesLive, VisitAbove
  <2>3. k \in Ancestors(x) => k \in styled
    BY <1>1 DEF Live, StylesLive
  <2>. QED  BY <1>3, <2>1, <2>2, <2>3 DEF Over
<1>5. Below(k, x) = Below(e, x) - 1
  BY <1>2, BelowTheChild
<1>6. Below(x, x) = 0 /\ \A a \in Ancestors(x) : Below(a, x) \in Nat /\ Below(a, x) >= 1
  <2>1. Below(x, x) = 0
    BY <1>2, DepthIsNatural DEF Below
  <2>2. \A a \in Ancestors(x) : a \in Element /\ x \in Descendants(a)
    BY <1>2 DEF Ancestors, AncestorSets
  <2>. QED  BY <2>1, <2>2, BelowIsDeeper
<1>7. Pending(q, x)' <=> \E a \in Over(x) \ (down \cup {e}) : \E h \in hint'[a] : Asks(q, h, Below(a, x), x)
  BY <1>1 DEF Pending, Over
<1>8. \/ NotesChildren(e, propagated)
      \/ propagated = {} /\ snapshot' = snapshot /\ \A d \in Element \ {e} : hint'[d] = hint[d]
  BY <1>1 DEF Visited, VisitAbove
<1>9. snapshot' \subseteq snapshot
  BY <1>1 DEF Visited
<1>10. CASE propagated = {} /\ snapshot' = snapshot /\ \A d \in Element \ {e} : hint'[d] = hint[d]
  <2>1. Pending(q, x)' <=> Rest(q, e, x)
    BY <1>2, <1>7, <1>10 DEF Rest
  <2>2. ~ Passed(q, propagated, e, x)
    BY <1>10 DEF Passed
  <2>3. (\E c \in snapshot : x \in Invalidates[c]) => PendingMatch(x)'
    BY <1>10 DEF PendingMatch
  <2>. QED  BY <1>10, <2>1, <2>2, <2>3
<1>11. CASE NotesChildren(e, propagated)
  <2>1. ASSUME Pending(q, x)'
        PROVE  \/ Rest(q, e, x) \/ Passed(q, propagated, e, x)
               \/ q = "match" /\ \E c \in snapshot : x \in Invalidates[c]
    <3>1. PICK a \in Over(x) \ (down \cup {e}) : \E h \in hint'[a] : Asks(q, h, Below(a, x), x)
      BY <1>7, <2>1
    <3>2. PICK h \in hint'[a] : Asks(q, h, Below(a, x), x)
      BY <3>1
    <3>3. CASE h \in hint[a]
      BY <3>1, <3>2, <3>3 DEF Rest
    <3>4. CASE h \notin hint[a]
      <4>1. \/ a \in Kids(e) /\ h \in propagated
            \/ h = "RESTYLE_SELF" /\ \E c \in snapshot : a \in Invalidates[c]
        BY <1>2, <1>11, <3>1, <3>2, <3>4 DEF NotesChildren
      <4>2. CASE a \in Kids(e) /\ h \in propagated
        <5>1. Below(a, x) = Below(e, x) - 1
          BY <1>2, <4>2, BelowTheChild
        <5>. QED  BY <3>2, <4>2, <5>1 DEF Passed
      <4>3. CASE h = "RESTYLE_SELF" /\ \E c \in snapshot : a \in Invalidates[c]
        <5>1. q = "match" /\ Below(a, x) = 0
          BY <3>2, <4>3, SelfAndSubtree
        <5>2. a = x
          BY <1>6, <3>1, <5>1 DEF Over
        <5>. QED  BY <4>3, <5>1, <5>2
      <4>. QED  BY <4>1, <4>2, <4>3
    <3>. QED  BY <3>3, <3>4
  <2>2. Rest(q, e, x) => Pending(q, x)'
    <3>1. \A a \in Over(x) \ (down \cup {e}) : hint[a] \subseteq hint'[a]
      BY <1>2, <1>11 DEF NotesChildren
    <3>. QED  BY <1>7, <3>1 DEF Rest
  <2>3. Passed(q, propagated, e, x) => Pending(q, x)'
    <3>1. propagated \subseteq hint'[k]
      BY <1>4, <1>11 DEF NotesChildren
    <3>2. k \in Over(x) \ (down \cup {e})
      BY <1>1, <1>3, <1>4
    <3>. QED  BY <1>5, <1>7, <3>1, <3>2 DEF Passed
  <2>4. ASSUME NEW c \in snapshot, x \in Invalidates[c] PROVE PendingMatch(x)'
    <3>1. CASE c \in snapshot'
      BY <2>4, <3>1 DEF PendingMatch
    <3>2. CASE c \notin snapshot'
      <4>1. c \in Kids(e) \cap snapshot \cap styled /\ x \in Invalidates[c] \cap styled
        BY <1>4, <1>11, <2>4, <3>2 DEF NotesChildren
      <4>2. \/ "RESTYLE_SELF" \in hint'[x]
            \/ \E a \in Ancestors(x) \ Ancestors(c) : a \notin displayed \/ "RESTYLE_DESCENDANTS" \in hint'[a]
        BY <1>11, <4>1 DEF NotesChildren
      <4>3. CASE "RESTYLE_SELF" \in hint'[x]
        <5>1. x \in (Ancestors(x) \cup {x}) \ down'
          BY <1>1, <1>2
        <5>2. Asks("match", "RESTYLE_SELF", Below(x, x), x)
          BY <1>6, SelfAndSubtree
        <5>. QED  BY <4>3, <5>1, <5>2 DEF PendingMatch, Pending
      <4>4. CASE \E a \in Ancestors(x) \ Ancestors(c) : a \notin displayed \/ "RESTYLE_DESCENDANTS" \in hint'[a]
        <5>1. PICK a \in Ancestors(x) \ Ancestors(c) : "RESTYLE_DESCENDANTS" \in hint'[a]
          BY <1>1, <4>4 DEF Live
        <5>2. Ancestors(c) = Ancestors(e) \cup {e}
          BY <4>1, AncestorsOfChild
        <5>3. a \in Descendants(e)
          BY <1>2, <5>1, <5>2 DEF Over
        <5>4. a \in (Ancestors(x) \cup {x}) \ down'
          BY <1>1, <5>1, <5>2, <5>3
        <5>5. Asks("match", "RESTYLE_DESCENDANTS", Below(a, x), x)
          BY <1>6, <5>1, SelfAndSubtree
        <5>. QED  BY <5>1, <5>4, <5>5 DEF PendingMatch, Pending
      <4>. QED  BY <4>2, <4>3, <4>4
    <3>. QED  BY <3>1, <3>2
  <2>. QED  BY <1>9, <2>1, <2>2, <2>3, <2>4
<1>. QED  BY <1>8, <1>10, <1>11

\* Below a visited element the style attribute is to be replaced where it was.
LEMMA ReplacedBelow ==
  ASSUME RInv, EInv, NEW e \in Element, NEW kind, NEW propagated, NEW x, VisitAbove(e, kind, propagated, x)
  PROVE  "RESTYLE_STYLE_ATTRIBUTE" \in hint'[x] <=> "RESTYLE_STYLE_ATTRIBUTE" \in hint[x]
<1>1. /\ DataTypeOK /\ StylesLive /\ Visited(e, kind, propagated) /\ x \in Descendants(e) /\ e \notin down
  BY DEF RInv, EInv, VisitAbove, VisitStep
<1>2. x \in Element /\ x # e
  BY <1>1, OverBelow
<1>3. "RESTYLE_STYLE_ATTRIBUTE" \notin propagated
  <2>1. "RESTYLE_STYLE_ATTRIBUTE" \notin Propagate(hint[e]) /\ "RESTYLE_STYLE_ATTRIBUTE" \notin ChildHints
    BY <1>1, ReplacePassesNot DEF DataTypeOK
  <2>2. change.outcome[e] \subseteq ChildHints
    BY <1>1, ChangesAssumption DEF DataTypeOK
  <2>3. "RESTYLE_STYLE_ATTRIBUTE" \notin ChangeHint(e)
    BY <2>1, <2>2 DEF ChangeHint
  <2>. QED  BY <1>1, <2>1, <2>3 DEF Visited
<1>4. CASE NotesChildren(e, propagated)
  BY <1>2, <1>3, <1>4 DEF NotesChildren
<1>5. CASE \A d \in Element \ {e} : hint'[d] = hint[d]
  BY <1>2, <1>5
<1>. QED  BY <1>1, <1>4, <1>5 DEF Visited, VisitAbove

\* A visit keeps PendingIsAsked below it.
LEMMA PendingKeptBelow ==
  ASSUME RInv, EInv, NEW e \in Element, NEW kind, NEW propagated, NEW x, VisitAbove(e, kind, propagated, x)
  PROVE  /\ MustMatch(x)' <=> PendingMatch(x)'
         /\ MustReplace(x)' <=> "RESTYLE_STYLE_ATTRIBUTE" \in hint'[x]
         /\ ~ MustMatch(x)' => (Asked(AsksToCascade, x)' <=> Pending("cascade", x)')
<1>1. /\ DataTypeOK /\ StylesLive /\ TypeOK /\ PendingIsAsked /\ x \in Descendants(e) /\ e \notin down
      /\ Descendants(e) \cap asked = {} /\ down \subseteq asked /\ change' = change /\ Live(x)
      /\ x \notin Unstyled(change)
  BY DEF RInv, PInv, EInv, VisitAbove, VisitStep, TypeOK
<1>2. x \in Element \ (down \cup Unstyled(change)) /\ e \in (Ancestors(x) \cup {x}) \ down
  BY <1>1, OverBelow DEF Over
<1>3. /\ MustMatch(x) <=> PendingMatch(x)
      /\ MustReplace(x) <=> "RESTYLE_STYLE_ATTRIBUTE" \in hint[x]
      /\ ~ MustMatch(x) => (Asked(AsksToCascade, x) <=> Pending("cascade", x))
  BY <1>1, <1>2 DEF PendingIsAsked
<1>4. /\ Asked(AsksToMatch, x)' <=> Asked(AsksToMatch, x) \/ (kind # "none" /\ Passed("match", ChangeHint(e), e, x))
      /\ Asked(AsksToCascade, x)' <=>
           Asked(AsksToCascade, x) \/ (kind # "none" /\ Passed("cascade", ChangeHint(e), e, x))
  BY AskedBelow
<1>5. PICK static : static <=> \E c \in change.snapshot : x \in Invalidates[c]
  OBVIOUS
<1>6. /\ MustMatch(x) <=> static \/ Asked(AsksToMatch, x)
      /\ MustMatch(x)' <=> static \/ Asked(AsksToMatch, x)'
  BY <1>1, <1>5 DEF MustMatch, Unstyled
<1>7. Pending("match", x) \/ (kind # "none" /\ Passed("match", ChangeHint(e), e, x))
        <=> Rest("match", e, x) \/ Passed("match", propagated, e, x)
  BY PendingAndPassed
<1>8. MustMatch(x)' <=> PendingMatch(x)'
  <2>1. MustMatch(x)' <=> \/ \E c \in snapshot : x \in Invalidates[c]
                          \/ Rest("match", e, x) \/ Passed("match", propagated, e, x)
    <3>1. MustMatch(x)' <=> PendingMatch(x) \/ (kind # "none" /\ Passed("match", ChangeHint(e), e, x))
      BY <1>3, <1>4, <1>6
    <3>. QED  BY <1>7, <3>1 DEF PendingMatch
  <2>2. /\ Pending("match", x)' => \/ Rest("match", e, x) \/ Passed("match", propagated, e, x)
                                   \/ \E c \in snapshot : x \in Invalidates[c]
        /\ Rest("match", e, x) \/ Passed("match", propagated, e, x) => Pending("match", x)'
        /\ (\E c \in snapshot : x \in Invalidates[c]) => PendingMatch(x)'
        /\ (\E c \in snapshot' : x \in Invalidates[c]) => \E c \in snapshot : x \in Invalidates[c]
    BY PendingBelow
  <2>3. PendingMatch(x)' <=> (\E c \in snapshot' : x \in Invalidates[c]) \/ Pending("match", x)'
    BY DEF PendingMatch
  <2>. QED  BY <2>1, <2>2, <2>3
<1>9. MustReplace(x)' <=> "RESTYLE_STYLE_ATTRIBUTE" \in hint'[x]
  BY <1>1, <1>3, ReplacedBelow DEF MustReplace
<1>10. ASSUME ~ MustMatch(x)' PROVE Asked(AsksToCascade, x)' <=> Pending("cascade", x)'
  <2>1. ~ MustMatch(x)
    BY <1>4, <1>6, <1>10
  <2>2. "RESTYLE_DESCENDANTS" \notin hint[e]
    <3>1. SUFFICES ASSUME "RESTYLE_DESCENDANTS" \in hint[e] PROVE FALSE
      OBVIOUS
    <3>2. Below(e, x) \in Nat /\ Below(e, x) >= 1
      BY <1>1, BelowIsDeeper
    <3>3. Asks("match", "RESTYLE_DESCENDANTS", Below(e, x), x)
      BY <3>2, SelfAndSubtree
    <3>4. Pending("match", x)
      BY <1>2, <3>1, <3>3 DEF Pending
    <3>. QED  BY <1>3, <2>1, <3>4 DEF PendingMatch
  <2>3. Pending("cascade", x) \/ (kind # "none" /\ Passed("cascade", ChangeHint(e), e, x))
          <=> Rest("cascade", e, x) \/ Passed("cascade", propagated, e, x)
    BY <2>2, PendingAndPassed
  <2>4. /\ Pending("cascade", x)' => Rest("cascade", e, x) \/ Passed("cascade", propagated, e, x)
        /\ Rest("cascade", e, x) \/ Passed("cascade", propagated, e, x) => Pending("cascade", x)'
    BY PendingBelow
  <2>. QED  BY <1>3, <1>4, <2>1, <2>3, <2>4
<1>. QED  BY <1>8, <1>9, <1>10

\* A visit keeps PendingIsAsked.
LEMMA PendingIsAskedKept ==
  ASSUME RInv, EInv, NEW e \in Element, NEW kind, NEW propagated, VisitStep(e, kind, propagated)
  PROVE  PendingIsAsked'
<1>1. /\ StylesLive /\ PendingIsAsked /\ change' = change /\ down' = down \cup {e}
      /\ Unstyled(change)' = Unstyled(change)
  BY DEF EInv, VisitStep, Unstyled
<1>2. ASSUME NEW x \in Element \ (down' \cup Unstyled(change)), Live(x)'
      PROVE  /\ MustMatch(x)' <=> PendingMatch(x)'
             /\ MustReplace(x)' <=> "RESTYLE_STYLE_ATTRIBUTE" \in hint'[x]
             /\ ~ MustMatch(x)' => (Asked(AsksToCascade, x)' <=> Pending("cascade", x)')
  <2>1. x \in Element \ (down \cup Unstyled(change)) /\ x # e
    BY <1>1
  <2>2. CASE x \notin Descendants(e)
    <3>1. Live(x)
      BY <1>1, <1>2, <2>1, <2>2, LiveAfter
    <3>2. /\ MustMatch(x) <=> PendingMatch(x)
          /\ MustReplace(x) <=> "RESTYLE_STYLE_ATTRIBUTE" \in hint[x]
          /\ ~ MustMatch(x) => (Asked(AsksToCascade, x) <=> Pending("cascade", x))
      BY <1>1, <2>1, <3>1 DEF PendingIsAsked
    <3>3. /\ Asked(AsksToCascade, x)' <=> Asked(AsksToCascade, x)
          /\ MustMatch(x)' <=> MustMatch(x)
          /\ MustReplace(x)' <=> MustReplace(x)
      BY <2>1, <2>2, AskedElsewhere
    <3>4. /\ hint'[x] = hint[x]
          /\ Pending("cascade", x)' <=> Pending("cascade", x)
          /\ PendingMatch(x)' <=> PendingMatch(x)
      BY <2>1, <2>2, PendingElsewhere
    <3>. QED  BY <3>2, <3>3, <3>4
  <2>3. CASE x \in Descendants(e)
    <3>1. /\ e \in displayed' /\ Live(e)
          /\ \/ e \in displayed /\ e \in styled /\ Live(x) /\ displayed' = displayed /\ styled' = styled
             \/ Descendants(e) \subseteq Unstyled(change)
      BY <1>1, <1>2, <2>1, <2>3, LiveAfter
    <3>2. VisitAbove(e, kind, propagated, x)
      BY <2>1, <2>3, <3>1 DEF VisitAbove
    <3>. QED  BY <3>2, PendingKeptBelow
  <2>. QED  BY <2>2, <2>3
<1>. QED  BY <1>1, <1>2 DEF PendingIsAsked

\* No snapshot that concerns an element is left when it is visited.
LEMMA NoSnapshotConcerns ==
  ASSUME RInv, EInv, NEW e \in Element, Live(e), Ancestors(e) \cap InRange \subseteq down,
         e \notin snapshot
  PROVE  \A c \in snapshot : e \notin Invalidates[c]
<1>1. /\ DataTypeOK /\ TypeOK /\ MarksLead /\ NothingLeft
  BY DEF RInv, PInv, EInv
<1>2. SUFFICES ASSUME NEW c \in snapshot, e \in Invalidates[c]
               PROVE  FALSE
  OBVIOUS
<1>3. c \in Element /\ c # start /\ c \in InRange /\ c # e /\ start \in Element
  BY <1>1, <1>2 DEF DataTypeOK, MarksLead, NothingLeft, Done, TypeOK
<1>4. PICK p \in InRange : p \in Element /\ c \in Kids(p)
  BY <1>3, DescendantsAreClosed DEF InRange
<1>5. e \in Descendants(p)
  <2>1. PICK i \in 1 .. Len(Children[p]) : c = Children[p][i]
    BY <1>4, ChildrenList DEF Kids
  <2>. QED  BY <1>2, <1>4, <2>1, InvalidatedBelow
<1>6. p \in Ancestors(e)
  BY <1>4, <1>5 DEF Ancestors, AncestorSets
<1>7. Live(c)
  <2>1. Ancestors(c) = Ancestors(p) \cup {p}
    BY <1>4, AncestorsOfChild
  <2>2. \A a \in Ancestors(p) : a \in Element /\ p \in Descendants(a)
    BY <1>4 DEF Ancestors, AncestorSets
  <2>3. \A a \in Ancestors(p) : a \in Ancestors(e)
    BY <1>5, <2>2, DescendantsTransitive DEF Ancestors, AncestorSets
  <2>. QED  BY <1>6, <2>1, <2>3 DEF Live
<1>8. c \notin down
  BY <1>1, <1>2, <1>7 DEF NothingLeft, Done
<1>9. p \in down
  BY <1>6, <1>4
<1>. QED  BY <1>1, <1>2, <1>3, <1>4, <1>7, <1>8, <1>9 DEF MarksLead

\* The element that is visited is restyled in the way it has to be.
LEMMA VisitedElement ==
  ASSUME RInv, EInv, NEW e \in Element, NEW kind, NEW propagated, VisitStep(e, kind, propagated), Live(e)
  PROVE  kind = Required(e)
<1>1. /\ DataTypeOK /\ TypeOK /\ StylesLive /\ StylesKept /\ PathsMarked /\ AskedSound /\ MarksLead /\ NothingLeft
      /\ PendingIsAsked
      /\ e \in asked \ down /\ e \in InRange /\ kind = RestyleKind(e \in styled, hint[e], Flags[e])
  BY DEF RInv, PInv, EInv, VisitStep, Visited
<1>2. CASE e \in Unstyled(change)
  <2>1. e \notin styled
    BY <1>1, <1>2 DEF StylesKept
  <2>. QED  BY <1>1, <1>2, <2>1 DEF RestyleKind, Required, MustMatch
<1>3. CASE e \notin Unstyled(change)
  <2>1. /\ e \in styled
        /\ MustMatch(e) <=> PendingMatch(e)
        /\ MustReplace(e) <=> "RESTYLE_STYLE_ATTRIBUTE" \in hint[e]
        /\ ~ MustMatch(e) => (Asked(AsksToCascade, e) <=> Pending("cascade", e))
    BY <1>1, <1>3 DEF StylesLive, PendingIsAsked
  <2>2. Ancestors(e) \cap InRange \subseteq down
    BY <1>1 DEF PathsMarked
  <2>3. e \notin snapshot
    <3>1. CASE e = start
      BY <1>1, <3>1 DEF MarksLead
    <3>2. CASE e # start
      <4>1. PICK p \in down : e \in Kids(p)
        BY <1>1, <3>2 DEF AskedSound, TypeOK
      <4>2. p \in Element
        BY <1>1, <4>1 DEF TypeOK
      <4>. QED  BY <1>1, <3>2, <4>1, <4>2 DEF MarksLead
    <3>. QED  BY <3>1, <3>2
  <2>4. \A c \in snapshot : e \notin Invalidates[c]
    BY <2>2, <2>3, NoSnapshotConcerns
  <2>5. Below(e, e) = 0
    BY DepthIsNatural DEF Below
  <2>6. ASSUME NEW q \in {"match", "cascade"}
        PROVE  Pending(q, e) <=> \E h \in hint[e] : Asks(q, h, 0, e)
    <3>1. \A a \in Ancestors(e) \ down : hint[a] = {}
      BY <1>1, <2>2 DEF NothingLeft, Done, Ancestors, AncestorSets
    <3>. QED  BY <1>1, <2>5, <3>1 DEF Pending
  <2>7. hint[e] \in SUBSET Hints
    BY <1>1 DEF DataTypeOK
  <2>8. MustMatch(e) <=> NeedsToMatchSelf(hint[e], Flags[e])
    BY <2>1, <2>4, <2>6, <2>7, HintsDecide DEF PendingMatch
  <2>9. ~ MustMatch(e) => (Asked(AsksToCascade, e) <=> NeedsToRecascadeSelf(hint[e], Flags[e]))
    BY <2>1, <2>6, <2>7, HintsDecide
  <2>. QED  BY <1>1, <2>1, <2>8, <2>9 DEF RestyleKind, Required
<1>. QED  BY <1>2, <1>3

\* A visit keeps VisitedAsRequired.
LEMMA VisitedAsRequiredKept ==
  ASSUME RInv, EInv, NEW e \in Element, NEW kind, NEW propagated, VisitStep(e, kind, propagated)
  PROVE  VisitedAsRequired'
<1>1. /\ DataTypeOK /\ TypeOK /\ StylesLive /\ StylesKept /\ VisitedAsRequired /\ Visited(e, kind, propagated)
      /\ e \in asked \ down /\ down' = down \cup {e} /\ Descendants(e) \cap asked = {}
  BY DEF RInv, PInv, EInv, VisitStep
<1>2. ASSUME NEW x \in down', Live(x)' PROVE work'[x] = {Required(x)'}
  <2>1. x \in Element /\ x \notin Descendants(e)
    BY <1>1, <1>2, NotBelowItself DEF TypeOK
  <2>2. Live(x)
    BY <1>1, <1>2, <2>1, LiveAfter
  <2>3. Required(x)' = Required(x)
    <3>1. /\ Asked(AsksToCascade, x)' <=> Asked(AsksToCascade, x)
          /\ MustMatch(x)' <=> MustMatch(x)
          /\ MustReplace(x)' <=> MustReplace(x)
      BY <2>1, AskedElsewhere
    <3>. QED  BY <3>1 DEF Required
  <2>4. CASE x = e
    <3>1. work[e] = {}
      BY <1>1 DEF StylesKept
    <3>2. kind = Required(e)
      BY <2>2, <2>4, VisitedElement
    <3>. QED  BY <1>1, <2>3, <2>4, <3>1, <3>2 DEF Visited, DataTypeOK
  <2>5. CASE x # e
    <3>1. x \in down /\ work'[x] = work[x]
      BY <1>1, <1>2, <2>1, <2>5 DEF Visited, DataTypeOK
    <3>. QED  BY <1>1, <2>2, <2>3, <3>1 DEF VisitedAsRequired
  <2>. QED  BY <2>4, <2>5
<1>. QED  BY <1>2 DEF VisitedAsRequired

-----------------------------------------------------------------------------
(* It holds at first and is kept.                                            *)

\* What a change matters to is elements.
LEMMA InvalidatesElements ==
  ASSUME NEW e \in Element
  PROVE  Invalidates[e] \subseteq Element
<1>1. LaterSiblings(e) \subseteq Element
  <2>1. CASE e = Root
    BY <2>1 DEF LaterSiblings
  <2>2. CASE e # Root
    <3>1. PICK p \in Element : e \in Kids(p)
      BY <2>2, TreeAssumption
    <3>2. LaterSiblings(e) \subseteq Kids(p)
      BY <2>2, <3>1, OneParent DEF LaterSiblings, Kids
    <3>. QED  BY <3>1, <3>2, KidsAreElements
  <2>. QED  BY <2>1, <2>2
<1>2. \A x \in Element : Descendants(x) \subseteq Element
  BY DescendantsAreClosed
<1>. QED  BY <1>1, <1>2, InvalidatesAssumption

\* pre_traverse, from the hints, marks and snapshots in s0.
Begun(b, s0, s1) ==
  /\ b = change.start /\ b \in Element /\ start \in Element
  /\ s0 \in NotingState /\ s0.hint = change.hint /\ s0.dirty = MarkedDirty(change) /\ s0.snapshot = change.snapshot
  /\ Grows(s0, s1) /\ Handled(s0, b, s1)
  /\ hint = s1.hint /\ snapshot = s1.snapshot /\ s1.dirty \subseteq dirty /\ dirty \subseteq s1.dirty \cup {start}
  /\ \/ start = b /\ (b \in change.snapshot => Invalidates[b] \subseteq {b} \cup Descendants(b))
     \/ b \in Kids(start) /\ start \in dirty

\* It does that.
LEMMA PreTraverseBegins ==
  ASSUME Init
  PROVE  \E b, s0, s1 : Begun(b, s0, s1)
<1>1. /\ change \in Changes /\ PreTraverse(change)
      /\ styled = Element \ Unstyled(change) /\ start \in Element
  BY DEF Init, ParallelInit
<1>2. /\ change.start \in Element /\ change.hint \in [Element -> SUBSET Hints]
      /\ change.snapshot \in SUBSET Element /\ change.fresh \in SUBSET Element
      /\ change.snapshot \cap Unstyled(change) = {}
  BY <1>1, ChangesAssumption
<1>3. PICK b : b = change.start
  OBVIOUS
<1>4. PICK s0 : s0 = [hint |-> change.hint, dirty |-> MarkedDirty(change), snapshot |-> change.snapshot,
                      kids |-> <<>>]
  OBVIOUS
<1>5. PICK s1 : s1 = IF b \in Unstyled(change) THEN s0 ELSE InvalidateStyleIfNeeded(s0, b)
  OBVIOUS
<1>6. PICK beside \in BOOLEAN : beside <=> b \in change.snapshot \ Unstyled(change)
                                           /\ Invalidates[b] \ ({b} \cup Descendants(b)) # {}
  OBVIOUS
<1>7. /\ start = IF beside THEN TraversalParent(b) ELSE b
      /\ hint = s1.hint /\ snapshot = s1.snapshot
      /\ dirty = IF beside THEN s1.dirty \cup {start} ELSE s1.dirty
  BY <1>1, <1>3, <1>4, <1>5, <1>6 DEF PreTraverse
<1>8. s0 \in NotingState
  <2>1. \A d \in Element : Ancestors(d) \in SUBSET Element
    BY DEF Ancestors, AncestorSets
  <2>2. change.snapshot \cup change.fresh \cup {e \in Element : change.hint[e] # {}} \in SUBSET Element
    BY <1>2
  <2>3. MarkedDirty(change) \in SUBSET Element
    BY <2>1, <2>2 DEF MarkedDirty
  <2>. QED  BY <1>2, <1>4, <2>3 DEF NotingState
<1>9. s1 = InvalidateStyleIfNeeded(s0, b)
  <2>1. b \in Unstyled(change) => b \notin s0.snapshot
    BY <1>2, <1>4
  <2>. QED  BY <1>5, <2>1 DEF InvalidateStyleIfNeeded
<1>10. Grows(s0, s1) /\ Handled(s0, b, s1)
  <2>1. b \in Element /\ styled \in SUBSET Element
    BY <1>1, <1>2, <1>3
  <2>. QED  BY <1>8, <1>9, <2>1, InvalidateGrows, InvalidateHandles
<1>11. CASE beside
  <2>1. b # Root
    <3>1. SUFFICES ASSUME b = Root PROVE FALSE
      OBVIOUS
    <3>2. LaterSiblings(b) = {}
      BY <3>1 DEF LaterSiblings
    <3>3. Invalidates[b] \subseteq {b} \cup Descendants(b)
      BY <1>2, <1>3, <3>2, InvalidatesAssumption
    <3>. QED  BY <1>6, <1>11, <3>3
  <2>2. b \in Kids(start)
    BY <1>2, <1>3, <1>7, <1>11, <2>1, TreeAssumption, OneParent
  <2>. QED  BY <1>1, <1>2, <1>3, <1>4, <1>7, <1>8, <1>10, <1>11, <2>2 DEF Begun
<1>12. CASE ~ beside
  <2>1. b \in change.snapshot => Invalidates[b] \subseteq {b} \cup Descendants(b)
    BY <1>2, <1>6, <1>12
  <2>. QED  BY <1>1, <1>2, <1>3, <1>4, <1>7, <1>8, <1>10, <1>12, <2>1 DEF Begun
<1>. QED  BY <1>11, <1>12

\* The way to what the snapshot of the root of the restyle concerns is marked.
LEMMA WayMarked ==
  ASSUME NEW b, NEW s0, NEW s1, Begun(b, s0, s1), b \in change.snapshot, NEW d \in Invalidates[b], PathTo(d, b) \subseteq dirty,
         NEW p \in Element, NEW x \in Kids(p), x \in Descendants(start), x = d \/ x \in PathTo(d, b)
  PROVE  p \in dirty
<1>1. b \in Element /\ start \in Element /\ x \in Element /\ d \in Element
  BY InvalidatesElements, AboveAndBelow DEF Begun
<1>2. CASE b \in Kids(start) /\ start \in dirty
  <2>1. PICK i \in 1 .. Len(Children[start]) : b = Children[start][i]
    BY <1>1, <1>2, ChildrenList DEF Kids
  <2>2. x \in Kids(start) \/ \A q \in Element : x \in Kids(q) => q \in PathTo(d, b)
    BY <1>1, <2>1, WayThrough
  <2>3. x \in Kids(start) => p = start
    BY <1>1, OneParent
  <2>. QED  BY <1>2, <2>2, <2>3
<1>3. CASE start = b
  <2>1. p = b \/ p \in Descendants(b)
    BY <1>1, <1>3, AboveAndBelow
  <2>2. p = b \/ b \in Ancestors(p)
    BY <1>1, <2>1 DEF Ancestors, AncestorSets
  <2>3. x \in Descendants(p)
    BY AboveAndBelow
  <2>4. x = d \/ d \in Descendants(x)
    BY <1>1 DEF PathTo, Ancestors, AncestorSets
  <2>5. d \in Descendants(p)
    BY <2>3, <2>4, DescendantsTransitive
  <2>6. p \in Ancestors(d)
    BY <1>1, <2>5 DEF Ancestors, AncestorSets
  <2>7. p \in PathTo(d, b)
    BY <2>2, <2>6 DEF PathTo
  <2>. QED  BY <2>7
<1>. QED  BY <1>2, <1>3 DEF Begun

\* What pre_traverse begins with.
LEMMA InitEInv == Init => EInv
<1>. SUFFICES ASSUME Init PROVE EInv
  OBVIOUS
<1>1. /\ change \in Changes /\ styled = Element \ Unstyled(change) /\ displayed = styled \ change.hidden
      /\ work = [e \in Element |-> {}] /\ down = {} /\ asked = {start}
  BY DEF Init, ParallelInit
<1>2. PICK b, s0, s1 : Begun(b, s0, s1)
  BY PreTraverseBegins
<1>. DEFINE changed == change.snapshot \cup change.fresh \cup {e \in Element : change.hint[e] # {}}
<1>3. /\ change.snapshot \in SUBSET Element /\ change.fresh \in SUBSET Element
      /\ change.hint \in [Element -> SUBSET Hints]
      /\ change.snapshot \cap Unstyled(change) = {} /\ changed \subseteq {b} \cup Descendants(b)
      /\ b \in Element /\ start \in Element
  BY <1>1, <1>2, ChangesAssumption DEF Begun
<1>4. {b} \cup Descendants(b) \subseteq InRange
  <2>1. b \in Kids(start) => {b} \cup Descendants(b) \subseteq Descendants(start)
    BY <1>3, AboveAndBelow, DescendantsTransitive
  <2>. QED  BY <1>2, <2>1 DEF Begun, InRange
<1>5. b \in change.snapshot => Invalidates[b] \subseteq InRange
  <2>1. CASE b \in Kids(start)
    <3>1. PICK i \in 1 .. Len(Children[start]) : b = Children[start][i]
      BY <1>3, <2>1, ChildrenList DEF Kids
    <3>2. Invalidates[b] \subseteq Descendants(start)
      BY <1>3, <3>1, InvalidatedBelow
    <3>. QED  BY <3>2 DEF InRange
  <2>. QED  BY <1>2, <1>4, <2>1 DEF Begun
<1>6. /\ \A d \in Element : \A h \in hint[d] \ change.hint[d] :
           /\ h = "RESTYLE_SELF" /\ b \in change.snapshot /\ d \in Invalidates[b] \cap styled
           /\ PathTo(d, b) \subseteq dirty
      /\ \A d \in Element : change.hint[d] \subseteq hint[d]
      /\ snapshot = change.snapshot \ {b}
      /\ MarkedDirty(change) \subseteq dirty
      /\ \A x \in dirty \ MarkedDirty(change) : x = start \/ \E d \in Invalidates[b] \cap styled :
           b \in change.snapshot /\ x \in PathTo(d, b) /\ PathTo(d, b) \subseteq dirty
  BY <1>2 DEF Begun, Handled, Grows
<1>7. b \in change.snapshot => \A d \in Invalidates[b] \cap styled :
        \/ "RESTYLE_SELF" \in hint[d]
        \/ \E a \in Ancestors(d) \ Ancestors(b) : a \notin displayed \/ "RESTYLE_DESCENDANTS" \in hint[a]
  <2>1. \A d : Ancestors(d) = {} \/ d \in Element => \A a \in Ancestors(d) : s0.hint[a] \subseteq hint[a]
    <3>1. \A d \in Element : Ancestors(d) \subseteq Element
      BY DEF Ancestors, AncestorSets
    <3>. QED  BY <1>2, <1>6, <3>1 DEF Begun
  <2>2. \A d \in Invalidates[b] : d \in Element
    BY <1>3, InvalidatesElements
  <2>. QED  BY <1>2, <2>1, <2>2 DEF Begun, Handled
<1>8. ASSUME NEW x \in changed, Live(x) PROVE Ancestors(x) \subseteq MarkedDirty(change)
  <2>1. Ancestors(x) \cap change.hidden = {}
    BY <1>1, <1>8 DEF Live
  <2>. QED  BY <1>8, <2>1 DEF MarkedDirty
<1>9. ASSUME NEW x \in Unstyled(change), Live(x) PROVE x \in change.fresh
  <2>1. change.hidden \subseteq Element
    BY <1>1, ChangesAssumption
  <2>2. ASSUME NEW h \in change.hidden, x \in Descendants(h) PROVE FALSE
    <3>1. x \in Element
      BY <2>1, <2>2, DescendantsAreClosed
    <3>2. h \in Ancestors(x)
      BY <2>1, <2>2, <3>1 DEF Ancestors, AncestorSets
    <3>. QED  BY <1>1, <1>9, <3>2 DEF Live
  <2>. QED  BY <1>9, <2>2 DEF Unstyled
<1>10. StylesLive
  BY <1>1 DEF StylesLive
<1>11. MarksLead
  <2>1. start \notin snapshot
    <3>1. CASE start = b
      BY <1>6, <3>1
    <3>2. CASE b \in Kids(start)
      <4>1. start \notin {b} \cup Descendants(b)
        BY <1>3, <3>2, AboveAndBelow
      <4>. QED  BY <1>3, <1>6, <4>1
    <3>. QED  BY <1>2, <3>1, <3>2 DEF Begun
  <2>2. ASSUME NEW p \in Element, NEW x \in Kids(p), x \in InRange \ {start}, Live(x)
        PROVE  (Needs(x) => p \in dirty) /\ (x \in snapshot => p \in dirty)
    <3>1. x \in Element /\ p \in Ancestors(x) /\ x \in Descendants(start)
      BY <2>2, AboveAndBelow DEF InRange
    <3>2. x \in changed => p \in dirty
      BY <1>6, <1>8, <2>2, <3>1
    <3>3. x \notin styled => p \in dirty
      BY <1>1, <1>9, <2>2, <3>1, <3>2
    <3>4. ASSUME x \in dirty PROVE p \in dirty
      <4>1. CASE x \in MarkedDirty(change)
        <5>1. PICK y \in changed : x \in Ancestors(y) /\ Ancestors(y) \subseteq MarkedDirty(change)
          BY <4>1 DEF MarkedDirty
        <5>2. y \in Element
          BY <1>3
        <5>3. y \in Descendants(x) /\ x \in Descendants(p)
          BY <3>1, <5>1, <5>2, AboveAndBelow DEF Ancestors, AncestorSets
        <5>4. p \in Ancestors(y)
          BY <5>2, <5>3, DescendantsTransitive DEF Ancestors, AncestorSets
        <5>. QED  BY <1>6, <5>1, <5>4
      <4>2. CASE x \notin MarkedDirty(change)
        <5>1. PICK d \in Invalidates[b] \cap styled : b \in change.snapshot /\ x \in PathTo(d, b) /\ PathTo(d, b) \subseteq dirty
          BY <1>6, <2>2, <3>4, <4>2
        <5>. QED  BY <1>2, <3>1, <5>1, WayMarked
      <4>. QED  BY <4>1, <4>2
    <3>5. ASSUME hint[x] # {}, x \notin changed PROVE p \in dirty
      <4>1. change.hint[x] = {}
        BY <3>1, <3>5
      <4>2. b \in change.snapshot /\ x \in Invalidates[b] /\ PathTo(x, b) \subseteq dirty
        BY <1>6, <3>1, <3>5, <4>1
      <4>. QED  BY <1>2, <3>1, <4>2, WayMarked
    <3>6. x \in snapshot => x \in changed
      BY <1>6
    <3>. QED  BY <3>2, <3>3, <3>4, <3>5, <3>6 DEF Needs
  <2>. QED  BY <1>1, <2>1, <2>2 DEF MarksLead
<1>12. NothingLeft
  <2>1. ASSUME NEW x \in Element \ InRange
        PROVE  Done(x) /\ (Live(x) => x \in styled)
    <3>1. x \notin changed
      BY <1>3, <1>4
    <3>2. hint[x] = {}
      BY <1>5, <1>6, <3>1
    <3>. QED  BY <1>1, <1>6, <1>9, <3>1, <3>2 DEF Done
  <2>. QED  BY <1>1, <1>6, <2>1 DEF NothingLeft
<1>13. PendingIsAsked
  <2>1. SUFFICES ASSUME NEW x \in Element \ Unstyled(change), Live(x)
                 PROVE  /\ MustMatch(x) <=> PendingMatch(x)
                        /\ MustReplace(x) <=> "RESTYLE_STYLE_ATTRIBUTE" \in hint[x]
                        /\ Asked(AsksToCascade, x) <=> Pending("cascade", x)
    BY <1>1 DEF PendingIsAsked
  <2>. DEFINE Old(q) == \E a \in Over(x) : \E h \in change.hint[a] : Asks(q, h, Below(a, x), x)
  <2>2. \A a \in Ancestors(x) : a \in Element /\ x \in Descendants(a) /\ Below(a, x) \in Nat /\ Below(a, x) >= 1
    <3>1. \A a \in Ancestors(x) : a \in Element /\ x \in Descendants(a)
      BY DEF Ancestors, AncestorSets
    <3>. QED  BY <3>1, BelowIsDeeper
  <2>3. Below(x, x) = 0
    BY DepthIsNatural DEF Below
  <2>4. \A h, n : (Asks("match", h, n, x) <=> AsksToMatch(h, n, x)) /\ (Asks("cascade", h, n, x) <=> AsksToCascade(h, n, x))
    BY DEF Asks
  <2>5. \A a \in Ancestors(x) : ~ Restyled(a)
    BY <1>1, <2>2 DEF Restyled
  <2>6. (Asked(AsksToMatch, x) <=> Old("match")) /\ (Asked(AsksToCascade, x) <=> Old("cascade"))
    BY <2>4, <2>5 DEF Asked, Over
  <2>7. Over(x) \subseteq Element
    BY <2>2 DEF Over
  <2>8. \A q : Pending(q, x) <=> \E a \in Over(x) : \E h \in hint[a] : Asks(q, h, Below(a, x), x)
    BY <1>1 DEF Pending, Over
  <2>9. \A q : Old(q) => Pending(q, x)
    BY <1>6, <2>7, <2>8
  <2>10. ASSUME NEW q, Pending(q, x), ~ Old(q)
         PROVE  q = "match" /\ \E c \in change.snapshot : x \in Invalidates[c]
    <3>1. PICK a \in Over(x) : \E h \in hint[a] : Asks(q, h, Below(a, x), x)
      BY <2>8, <2>10
    <3>2. PICK h \in hint[a] : Asks(q, h, Below(a, x), x)
      BY <3>1
    <3>3. h = "RESTYLE_SELF" /\ b \in change.snapshot /\ a \in Invalidates[b]
      BY <1>6, <2>7, <2>10, <3>2
    <3>4. q = "match" /\ Below(a, x) = 0
      BY <3>2, <3>3, SelfAndSubtree
    <3>5. a = x
      BY <2>2, <3>4 DEF Over
    <3>. QED  BY <3>3, <3>4, <3>5
  <2>11. ASSUME b \in change.snapshot, x \in Invalidates[b] PROVE Pending("match", x)
    <3>1. \/ "RESTYLE_SELF" \in hint[x]
          \/ \E a \in Ancestors(x) : "RESTYLE_DESCENDANTS" \in hint[a]
      BY <1>1, <1>7, <2>1, <2>11 DEF Live
    <3>2. CASE "RESTYLE_SELF" \in hint[x]
      <4>1. Asks("match", "RESTYLE_SELF", Below(x, x), x)
        BY <2>3, SelfAndSubtree
      <4>. QED  BY <2>8, <3>2, <4>1 DEF Over
    <3>3. ASSUME NEW a \in Ancestors(x), "RESTYLE_DESCENDANTS" \in hint[a] PROVE Pending("match", x)
      <4>1. Asks("match", "RESTYLE_DESCENDANTS", Below(a, x), x)
        BY <2>2, SelfAndSubtree
      <4>. QED  BY <2>8, <3>3, <4>1 DEF Over
    <3>. QED  BY <3>1, <3>2, <3>3
  <2>12. MustMatch(x) <=> (\E c \in change.snapshot : x \in Invalidates[c]) \/ Old("match")
    BY <2>1, <2>6 DEF MustMatch
  <2>13. PendingMatch(x) <=> (\E c \in change.snapshot \ {b} : x \in Invalidates[c]) \/ Pending("match", x)
    BY <1>6 DEF PendingMatch
  <2>14. MustMatch(x) <=> PendingMatch(x)
    BY <2>9, <2>10, <2>11, <2>12, <2>13
  <2>15. Asked(AsksToCascade, x) <=> Pending("cascade", x)
    BY <2>6, <2>9, <2>10
  <2>16. MustReplace(x) <=> "RESTYLE_STYLE_ATTRIBUTE" \in hint[x]
    BY <1>6 DEF MustReplace
  <2>. QED  BY <2>14, <2>15, <2>16
<1>14. VisitedAsRequired
  BY <1>1 DEF VisitedAsRequired
<1>. QED  BY <1>10, <1>11, <1>12, <1>13, <1>14 DEF EInv

\* Steps that leave the data, and what was asked for and visited, alone.
LEMMA EInvUnchanged ==
  ASSUME EInv, UNCHANGED <<start, asked, down, change, hint, styled, displayed, dirty, snapshot, work>>
  PROVE  EInv'
<1>1. \A x : (Live(x)' <=> Live(x)) /\ (Needs(x)' <=> Needs(x)) /\ (Done(x)' <=> Done(x))
  BY DEF Live, Needs, Done
<1>2. InRange' = InRange /\ Unstyled(change)' = Unstyled(change)
  BY DEF InRange, Unstyled
<1>3. \A a : (Restyled(a)' <=> Restyled(a)) /\ HintOfChange(a)' = HintOfChange(a)
  BY DEF Restyled, HintOfChange, Unstyled
<1>4. \A x : (Asked(AsksToMatch, x)' <=> Asked(AsksToMatch, x)) /\ (Asked(AsksToCascade, x)' <=> Asked(AsksToCascade, x))
  BY <1>3 DEF Asked
<1>5. \A x : /\ MustMatch(x)' <=> MustMatch(x)
             /\ MustReplace(x)' <=> MustReplace(x)
  BY <1>2, <1>4 DEF MustMatch, MustReplace
<1>6. \A x : Required(x)' = Required(x)
  BY <1>4, <1>5 DEF Required
<1>7. \A q, x : (Pending(q, x)' <=> Pending(q, x)) /\ (PendingMatch(x)' <=> PendingMatch(x))
  BY DEF Pending, PendingMatch
<1>8. StylesLive'
  BY <1>1, <1>2 DEF EInv, StylesLive
<1>9. MarksLead'
  BY <1>1, <1>2 DEF EInv, MarksLead
<1>10. NothingLeft'
  BY <1>1, <1>2 DEF EInv, NothingLeft
<1>11. PendingIsAsked'
  BY <1>1, <1>2, <1>4, <1>5, <1>7 DEF EInv, PendingIsAsked
<1>12. VisitedAsRequired'
  BY <1>1, <1>6 DEF EInv, VisitedAsRequired
<1>. QED  BY <1>8, <1>9, <1>10, <1>11, <1>12 DEF EInv

\* Every step keeps it.
LEMMA NextEInv ==
  ASSUME RInv, EInv, [Next]_vars
  PROVE  EInv'
<1>1. CASE UNCHANGED vars
  BY <1>1, EInvUnchanged DEF vars, pvars, history, data
<1>2. CASE DropContexts
  BY <1>2, EInvUnchanged DEF DropContexts, pvars, history, data
<1>3. ASSUME NEW t \in Thread, TaskStep(t), UNCHANGED <<change, data, bloom, work>>
      PROVE  EInv'
  <2>1. UNCHANGED <<start, asked, down>>
    BY <1>3 DEF TaskStep, TakeTask, EndTask, StoreChildrenToProcess, Postorder, DidProcessChild, FinishNode, history
  <2>. QED  BY <1>3, <2>1, EInvUnchanged DEF data
<1>4. ASSUME NEW t \in Thread, Preorder(t)
      PROVE  EInv'
  <2>1. PICK e \in Element : \E kind, propagated : VisitStep(e, kind, propagated)
    BY <1>4, VisitIsStep
  <2>2. PICK kind, propagated : VisitStep(e, kind, propagated)
    BY <2>1
  <2>. QED  BY <2>2, StylesLiveKept, MarksLeadKept, NothingLeftKept, PendingIsAskedKept, VisitedAsRequiredKept
            DEF EInv
<1>. QED  BY <1>1, <1>2, <1>3, <1>4 DEF Next, Step

\* When nothing is queued, everything that is live has what it needs.
LEMMA NothingNeeded ==
  ASSUME RInv, EInv, down = asked, NEW x \in InRange \ down, Live(x)
  PROVE  ~ Needs(x) /\ x \notin snapshot
<1>1. TypeOK /\ AskedSound /\ MarksLead /\ start \in Element
  BY DEF RInv, PInv, EInv, TypeOK
<1>. DEFINE S == {y \in InRange \ down : Live(y) /\ (Needs(y) \/ y \in snapshot)}
<1>2. InRange \in SUBSET Element
  BY <1>1, DescendantsAreClosed DEF InRange
<1>3. ASSUME NEW y \in S PROVE \E p \in S : y \in Kids(p)
  <2>1. y # start /\ y \in Element
    BY <1>1, <1>2 DEF AskedSound
  <2>2. PICK p \in InRange : y \in Kids(p)
    BY <1>1, <2>1, DescendantsAreClosed DEF InRange
  <2>3. p \in Element /\ Ancestors(y) = Ancestors(p) \cup {p}
    BY <1>2, <2>2, AncestorsOfChild
  <2>4. /\ Needs(y) => IF p \in down THEN y \in asked ELSE p \in dirty
        /\ y \in snapshot => p \in dirty \ down
    BY <1>1, <2>1, <2>2, <2>3 DEF MarksLead
  <2>5. p \notin down /\ p \in dirty
    BY <2>4
  <2>6. Live(p) /\ Needs(p)
    BY <2>3, <2>5 DEF Live, Needs
  <2>. QED  BY <2>2, <2>5, <2>6
<1>4. S = {}
  BY <1>2, <1>3, NoCycle
<1>. QED  BY <1>4

\* What the invariant says of a restyle that is over.
LEMMA RestyleOver ==
  ASSUME RInv, EInv, AllDone
  PROVE  EveryElementRestyled
<1>1. /\ DataTypeOK /\ TypeOK /\ StylesKept /\ StylesLive /\ MarksLead /\ NothingLeft /\ PendingIsAsked
      /\ VisitedAsRequired /\ AskedSound /\ QueuesDisjoint /\ LevelsSound /\ start \in Element
  BY DEF RInv, PInv, EInv, TypeOK
<1>2. down = asked
  <2>1. \A t \in Thread : discovered[t] = <<>>
    BY <1>1 DEF AllDone, QueuesDisjoint
  <2>2. Waiting = {}
    BY <2>1, WaitingMembers DEF AllDone, Waiting, ToSet
  <2>. QED  BY <1>1, <2>2 DEF QueuesDisjoint, TypeOK
<1>3. SUFFICES ASSUME NEW x \in Element, Live(x)
               PROVE  /\ work[x] \ {"none"} = {Required(x)} \ {"none"}
                      /\ hint[x] = {} /\ x \in styled /\ x \notin snapshot
  BY DEF EveryElementRestyled, Live
<1>4. CASE x \in down
  <2>1. work[x] = {Required(x)}
    BY <1>1, <1>3, <1>4 DEF VisitedAsRequired
  <2>2. hint[x] = {} /\ x \notin snapshot
    BY <1>1, <1>3, <1>4 DEF NothingLeft, Done
  <2>. QED  BY <1>1, <1>4, <2>1, <2>2 DEF StylesKept
<1>5. ASSUME NEW y \in Element \ down, Live(y) PROVE hint[y] = {} /\ y \in styled /\ y \notin snapshot
  <2>1. CASE y \in InRange
    BY <1>2, <1>5, <2>1, NothingNeeded DEF Needs
  <2>2. CASE y \notin InRange
    BY <1>1, <1>5, <2>2 DEF NothingLeft, Done
  <2>. QED  BY <2>1, <2>2
<1>6. CASE x \notin down
  <2>1. hint[x] = {} /\ x \in styled /\ x \notin snapshot
    BY <1>3, <1>5, <1>6
  <2>2. work[x] = {}
    BY <1>1, <1>6 DEF StylesKept
  <2>3. x \notin Unstyled(change)
    BY <1>1, <1>6, <2>1 DEF StylesKept
  <2>4. \A a \in Ancestors(x) : a \in Element /\ Live(a)
    <3>1. ASSUME NEW a \in Ancestors(x) PROVE a \in Element /\ Live(a)
      <4>1. a \in Element /\ x \in Descendants(a)
        BY DEF Ancestors, AncestorSets
      <4>2. Ancestors(a) \subseteq Ancestors(x)
        BY <4>1, DescendantsTransitive DEF Ancestors, AncestorSets
      <4>. QED  BY <1>3, <4>1, <4>2 DEF Live
    <3>. QED  BY <3>1
  <2>5. \A q : ~ Pending(q, x)
    <3>1. \A a \in (Ancestors(x) \cup {x}) \ down : hint[a] = {}
      BY <1>3, <1>5, <2>1, <2>4
    <3>. QED  BY <3>1 DEF Pending
  <2>6. ASSUME NEW c \in snapshot, x \in Invalidates[c] PROVE FALSE
    <3>1. c \in Element /\ c \in InRange /\ c # start
      BY <1>1 DEF DataTypeOK, NothingLeft, Done, MarksLead
    <3>2. PICK p \in InRange : p \in Element /\ c \in Kids(p)
      BY <1>1, <3>1, DescendantsAreClosed DEF InRange
    <3>3. PICK i \in 1 .. Len(Children[p]) : c = Children[p][i]
      BY <3>2, ChildrenList DEF Kids
    <3>4. p \in Ancestors(x)
      BY <2>6, <3>2, <3>3, InvalidatedBelow DEF Ancestors, AncestorSets
    <3>5. Ancestors(c) = Ancestors(p) \cup {p}
      BY <3>2, AncestorsOfChild
    <3>6. Live(c)
      BY <1>3, <2>4, <3>4, <3>5 DEF Live
    <3>7. c \in down => c \notin snapshot
      BY <1>1, <3>6 DEF NothingLeft, Done
    <3>. QED  BY <1>5, <3>1, <3>6, <3>7
  <2>7. ~ MustMatch(x) /\ ~ MustReplace(x) /\ ~ Asked(AsksToCascade, x)
    <3>1. /\ MustMatch(x) <=> PendingMatch(x)
          /\ MustReplace(x) <=> "RESTYLE_STYLE_ATTRIBUTE" \in hint[x]
          /\ ~ MustMatch(x) => (Asked(AsksToCascade, x) <=> Pending("cascade", x))
      BY <1>1, <1>3, <1>6, <2>3 DEF PendingIsAsked
    <3>. QED  BY <2>1, <2>5, <2>6, <3>1 DEF PendingMatch
  <2>8. Required(x) = "none"
    BY <2>7 DEF Required
  <2>. QED  BY <2>1, <2>2, <2>8
<1>. QED  BY <1>4, <1>6

-----------------------------------------------------------------------------
(* The theorems.                                                             *)

\* In every reachable state of a restyle, what needs to be done is where the traversal gets, and the hints
\* and snapshots that are left ask of an element what the changes ask of it.
THEOREM RestyleProgress == Spec => []EInv
<1>1. Init => EInv
  BY InitEInv
<1>2. RInv /\ EInv /\ [Next]_vars => EInv'
  BY NextEInv
<1>. QED  BY <1>1, <1>2, RestyleInductive, PTL DEF Spec

\* EveryElementRestyled: when a restyle is over, every displayed element was restyled by the cheapest kind of
\* restyle that its hints, its new style or an ancestor's, and the snapshots that concern it ask for, and
\* by no other; it has a style, and neither a hint nor a snapshot (recalc_style_at, note_children,
\* restyle_kind, propagate_for_non_animation_restyle, invalidate_style_if_needed).
THEOREM RestyleIsComplete == Spec => []EveryElementRestyled
<1>1. RInv /\ EInv => EveryElementRestyled
  <2>1. ~ AllDone => EveryElementRestyled
    BY DEF EveryElementRestyled
  <2>. QED  BY <2>1, RestyleOver
<1>. QED  BY <1>1, RestyleProgress, RestyleInductive, PTL

-----------------------------------------------------------------------------
(* The filters of the threads.                                              *)

\* The filter of a thread is over the ancestors of some element, and has not lost count of what they
\* inserted.
FiltersSound ==
  /\ bloom \in [Thread -> SoundBlooms]
  /\ \A t \in Thread : \E x \in Element : bloom[t].elements = Chain[x]

\* The first element in a queue is as deep as the thread takes it to be.
LEMMA HeadDepth ==
  ASSUME PInv, NEW t \in Thread, at[t] = "next", discovered[t] # <<>>
  PROVE  Head(discovered[t]) \in Element /\ depth[t] = Depth(Head(discovered[t]))
<1>1. discovered[t] \in Seq(Element) /\ remaining[t] \in Nat
  BY DEF PInv, TypeOK
<1>2. Head(discovered[t]) \in Element /\ Head(discovered[t]) = discovered[t][1] /\ 1 \in DOMAIN discovered[t]
  BY <1>1, TailOf
<1>3. remaining[t] # 0
      /\ \A i \in DOMAIN discovered[t] :
           Depth(discovered[t][i]) = IF i <= remaining[t] THEN depth[t] ELSE depth[t] + 1
  BY DEF PInv, LevelsSound, LeftOfLevel
<1>4. 1 <= remaining[t]
  BY <1>1, <1>3
<1>. QED  BY <1>2, <1>3, <1>4

\* An element that is matched is matched with the filter of its ancestors, and no other filter changes.
LEMMA MatchedWithFilter ==
  ASSUME RInv, FiltersSound, NEW t \in Thread, Preorder(t), NEW e \in Element, e = Head(discovered[t])
  PROVE  /\ FiltersSound'
         /\ "match" \in work'[e] => bloom'[t] \in SoundBlooms /\ bloom'[t].elements = Chain[e]
<1>1. PInv /\ DataTypeOK /\ StylesKept /\ TypeOK /\ QueuesDisjoint
  BY DEF RInv, PInv
<1>2. at[t] = "next" /\ discovered[t] # <<>> /\ discovered[t] \in Seq(Element)
  BY <1>1 DEF TypeOK, Preorder, PreorderNoting
<1>3. depth[t] = Depth(e)
  BY <1>1, <1>2, HeadDepth
<1>4. PICK kind : kind = RestyleKind(e \in styled, hint[e], Flags[e])
  OBVIOUS
<1>5. /\ bloom' = IF kind = "match" THEN [bloom EXCEPT ![t] = InsertParentsRecovering(bloom[t], e, depth[t])]
                  ELSE bloom
      /\ work' = [work EXCEPT ![e] = work[e] \cup {kind}]
  BY <1>4 DEF Preorder
<1>6. PICK x \in Element : bloom[t].elements = Chain[x]
  BY DEF FiltersSound
<1>7. PICK r : r = InsertParentsRecovering(bloom[t], e, depth[t])
  OBVIOUS
<1>8. r \in SoundBlooms /\ r.elements = Chain[e]
  <2>1. bloom[t] \in SoundBlooms
    BY DEF FiltersSound
  <2>. QED  BY <1>3, <1>6, <1>7, <2>1, ParentsInserted
<1>9. kind = "match" => bloom' = [bloom EXCEPT ![t] = r]
  BY <1>5, <1>7
<1>10. FiltersSound'
  <2>1. CASE kind = "match"
    <3>1. bloom' \in [Thread -> SoundBlooms]
      BY <1>8, <1>9, <2>1 DEF FiltersSound
    <3>2. ASSUME NEW u \in Thread PROVE \E y \in Element : bloom'[u].elements = Chain[y]
      <4>1. CASE u = t
        BY <1>8, <1>9, <2>1, <4>1 DEF FiltersSound
      <4>2. CASE u # t
        <5>1. bloom'[u] = bloom[u]
          BY <1>9, <2>1, <4>2 DEF FiltersSound
        <5>. QED  BY <5>1 DEF FiltersSound
      <4>. QED  BY <4>1, <4>2
    <3>. QED  BY <3>1, <3>2 DEF FiltersSound
  <2>2. CASE kind # "match"
    BY <1>5, <2>2 DEF FiltersSound
  <2>. QED  BY <2>1, <2>2
<1>11. ASSUME "match" \in work'[e] PROVE bloom'[t] \in SoundBlooms /\ bloom'[t].elements = Chain[e]
  <2>1. e \notin down
    BY <1>1, <1>2, TailOf, WaitingMembers DEF QueuesDisjoint
  <2>2. work[e] = {}
    BY <1>1, <2>1 DEF StylesKept
  <2>3. kind = "match"
    BY <1>1, <1>5, <1>11, <2>2 DEF DataTypeOK
  <2>. QED  BY <1>8, <1>9, <2>3 DEF FiltersSound
<1>. QED  BY <1>10, <1>11

\* Every step keeps the filters sound.
LEMMA FiltersKept ==
  ASSUME RInv, FiltersSound, [Next]_vars
  PROVE  FiltersSound'
<1>1. CASE bloom' = bloom
  BY <1>1 DEF FiltersSound
<1>2. CASE DropContexts
  <2>1. bloom' = [t \in Thread |-> Clear(bloom[t])]
    BY <1>2 DEF DropContexts
  <2>2. ASSUME NEW t \in Thread
        PROVE  bloom'[t] \in SoundBlooms /\ bloom'[t].elements = Chain[Root] /\ Root \in Element
    <3>1. bloom[t] \in SoundBlooms
      BY DEF FiltersSound
    <3>2. Clear(bloom[t]) \in SoundBlooms /\ Clear(bloom[t]).elements = <<>>
      BY <3>1, ClearSound
    <3>3. Root \in Element /\ Chain[Root] = <<>>
      BY TreeAssumption, ChainDefined
    <3>. QED  BY <2>1, <3>2, <3>3
  <2>. QED  BY <2>1, <2>2 DEF FiltersSound
<1>3. ASSUME NEW t \in Thread, Preorder(t) PROVE FiltersSound'
  <2>1. discovered[t] # <<>> /\ discovered[t] \in Seq(Element)
    BY <1>3 DEF RInv, PInv, TypeOK, Preorder, PreorderNoting
  <2>2. Head(discovered[t]) \in Element
    BY <2>1, TailOf
  <2>. QED  BY <1>3, <2>2, MatchedWithFilter
<1>. QED  BY <1>1, <1>2, <1>3 DEF Next, Step, vars

\* The threads' filters always are sound: whatever part of the tree a thread works on next, and whichever
\* counter is full, none of the hashes of the elements on its stack is missing in its filter
\* (StyleBloom::insert_parents_recovering, push, pop, clear; CountingBloomFilter).
THEOREM FiltersAreSound == Spec => []FiltersSound
<1>1. Init => FiltersSound
  <2>1. SUFFICES ASSUME Init PROVE FiltersSound
    OBVIOUS
  <2>2. EmptyBloom(NoCounts) \in SoundBlooms /\ EmptyBloom(NoCounts).elements = <<>>
    BY EmptySound, ZeroSound DEF EmptyBloom
  <2>3. Root \in Element /\ Chain[Root] = <<>>
    BY TreeAssumption, ChainDefined
  <2>4. bloom = [t \in Thread |-> EmptyBloom(NoCounts)]
    BY <2>1 DEF Init
  <2>. QED  BY <2>2, <2>3, <2>4 DEF FiltersSound
<1>2. RInv /\ FiltersSound /\ [Next]_vars => FiltersSound'
  BY FiltersKept
<1>. QED  BY <1>1, <1>2, RestyleInductive, PTL DEF Spec

\* A thread notes the children of an element by visiting it.
LEMMA NotedByPreorder ==
  ASSUME TypeOK, Next, NEW t \in Thread, at[t] = "next", at'[t] = "noted"
  PROVE  Preorder(t)
<1>. USE DEF TypeOK
<1>1. ~ DropContexts
  BY DEF DropContexts, pvars, locals
<1>2. ASSUME NEW u \in Thread, TaskStep(u) PROVE at'[t] # "noted"
  <2>1. CASE TakeTask(u)
    BY <2>1 DEF TakeTask
  <2>2. CASE EndTask(u)
    BY <2>2 DEF EndTask
  <2>3. CASE StoreChildrenToProcess(u)
    BY <2>3 DEF StoreChildrenToProcess
  <2>4. CASE Postorder(u)
    BY <2>4 DEF Postorder
  <2>5. CASE DidProcessChild(u)
    BY <2>5 DEF DidProcessChild
  <2>6. CASE FinishNode(u)
    BY <2>6 DEF FinishNode
  <2>. QED  BY <1>2, <2>1, <2>2, <2>3, <2>4, <2>5, <2>6 DEF TaskStep
<1>3. ASSUME NEW u \in Thread, Preorder(u), u # t PROVE FALSE
  BY <1>3 DEF Preorder, PreorderNoting
<1>. QED  BY <1>1, <1>2, <1>3 DEF Next, Step

\* MatchedWithAncestors: selectors are matched for an element with a filter that is over exactly its
\* ancestors and misses none of their hashes (compute_style, insert_parents_recovering, might_contain_hash).
THEOREM MatchedAgainstAncestors == Spec => MatchedWithAncestors
<1>1. RInv /\ FiltersSound /\ [Next]_vars =>
        [\A t \in Thread :
           LET e == node'[t]
           IN at[t] = "next" /\ at'[t] = "noted" /\ "match" \in work'[e] =>
                /\ bloom'[t].elements = Chain[e]
                /\ \A a \in Ancestors(e) : \A h \in ToSet(HashesOf[a]) :
                     MightContainHash(bloom'[t].counts, h)]_vars
  <2>1. SUFFICES ASSUME RInv, FiltersSound, Next, NEW t \in Thread,
                        at[t] = "next", at'[t] = "noted", "match" \in work'[node'[t]]
                 PROVE  /\ bloom'[t].elements = Chain[node'[t]]
                        /\ \A a \in Ancestors(node'[t]) : \A h \in ToSet(HashesOf[a]) :
                             MightContainHash(bloom'[t].counts, h)
    OBVIOUS
  <2>2. TypeOK
    BY <2>1 DEF RInv, PInv
  <2>3. Preorder(t)
    BY <2>1, <2>2, NotedByPreorder
  <2>4. discovered[t] # <<>> /\ discovered[t] \in Seq(Element)
    BY <2>2, <2>3 DEF TypeOK, Preorder, PreorderNoting
  <2>5. PICK e \in Element : e = Head(discovered[t])
    BY <2>4, TailOf
  <2>6. node'[t] = e
    BY <2>2, <2>3, <2>5 DEF TypeOK, Preorder, PreorderNoting
  <2>7. PICK b \in SoundBlooms : b = bloom'[t] /\ b.elements = Chain[e]
    BY <2>1, <2>3, <2>5, <2>6, MatchedWithFilter
  <2>8. ASSUME NEW a \in Ancestors(e), NEW h \in ToSet(HashesOf[a]) PROVE MightContainHash(b.counts, h)
    <3>1. a \in ToSet(b.elements)
      BY <2>7, ChainFacts
    <3>. QED  BY <3>1, ContainsHashes
  <2>. QED  BY <2>6, <2>7, <2>8
<1>. QED  BY <1>1, RestyleInductive, FiltersAreSound, PTL DEF Spec, MatchedWithAncestors
=============================================================================
