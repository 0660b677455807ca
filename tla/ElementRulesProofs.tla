------------------------- MODULE ElementRulesProofs -------------------------
(* Proofs about the order of priorities, and that the path of an element is *)
(* in cascade order whatever was matched or replaced. The invariant says    *)
(* which declarations a path has; an entry is a rule with an importance.    *)
EXTENDS ElementRules, SetInduction, FunctionTheorems, SequenceTheorems, WellFoundedInduction, TLAPS

\* Levels are a strict total order: Ord for CascadeLevel is one, although it
\* is reversed among important levels and transitions are above these.
THEOREM LevelOrder ==
  /\ \A a \in CascadeLevel : ~LevelLess(a, a)
  /\ \A a, b \in CascadeLevel : a = b \/ LevelLess(a, b) \/ LevelLess(b, a)
  /\ \A a, b, c \in CascadeLevel : LevelLess(a, b) /\ LevelLess(b, c) => LevelLess(a, c)
<1>1. \A a \in CascadeLevel : ~LevelLess(a, a)
  BY DEF CascadeLevel, LevelLess, ShadowCascadeOrder, MaxShadowOrder, UA, Transitions
<1>2. \A a, b \in CascadeLevel : a = b \/ LevelLess(a, b) \/ LevelLess(b, a)
  BY DEF CascadeLevel, LevelLess, ShadowCascadeOrder, MaxShadowOrder, UA, Transitions
<1>3. \A a, b, c \in CascadeLevel : LevelLess(a, b) /\ LevelLess(b, c) => LevelLess(a, c)
  BY DEF CascadeLevel, LevelLess, ShadowCascadeOrder, MaxShadowOrder, UA, Transitions
<1>. QED  BY <1>1, <1>2, <1>3

\* Priorities are one too, up to priorities that are the same: the reversal of
\* layers for important rules and the exception for the style attribute go
\* together (Ord for CascadePriority, on which a sort relies).
THEOREM PriorityOrder ==
  /\ \A p \in Priority : ~PriorityLess(p, p)
  /\ \A p, q \in Priority : p = q \/ PriorityLess(p, q) \/ PriorityLess(q, p)
  /\ \A p, q, r \in Priority : PriorityLess(p, q) /\ PriorityLess(q, r) => PriorityLess(p, r)
<1>0. \A l \in LayerOrder : l \in Int /\ l <= StyleAttributeLayer
  BY DEF LayerOrder, StyleAttributeLayer
<1>1. \A p \in Priority : /\ p.level \in CascadeLevel
                          /\ p.layer \in Int /\ p.layer <= StyleAttributeLayer
  BY <1>0 DEF Priority
<1>2. \A p \in Priority : ~PriorityLess(p, p)
  BY <1>1, LevelOrder DEF PriorityLess
<1>3. \A p, q \in Priority : p = q \/ PriorityLess(p, q) \/ PriorityLess(q, p)
  <2>1. SUFFICES ASSUME NEW p \in Priority, NEW q \in Priority
                 PROVE  p = q \/ PriorityLess(p, q) \/ PriorityLess(q, p)
    OBVIOUS
  <2>2. p.level = q.level \/ LevelLess(p.level, q.level) \/ LevelLess(q.level, p.level)
    BY <1>1, LevelOrder
  <2>3. p.level = q.level /\ p.layer = q.layer => p = q
    BY DEF Priority
  <2>. QED  BY <1>1, <2>2, <2>3 DEF PriorityLess
<1>4. ASSUME NEW p \in Priority, NEW q \in Priority, NEW r \in Priority,
             PriorityLess(p, q), PriorityLess(q, r)
      PROVE  PriorityLess(p, r)
  <2>1. CASE p.level = q.level /\ q.level = r.level
    <3>. QED  BY <1>1, <1>4, <2>1, LevelOrder DEF PriorityLess, StyleAttributeLayer
  <2>2. CASE p.level # q.level \/ q.level # r.level
    <3>1. LevelLess(p.level, r.level)
      BY <1>1, <1>4, <2>2, LevelOrder DEF PriorityLess
    <3>. QED  BY <3>1 DEF PriorityLess
  <2>. QED  BY <2>1, <2>2
<1>. QED  BY <1>2, <1>3, <1>4

\* What is not less is transitive as well.
LEMMA NotLessTransitive ==
  ASSUME NEW p \in Priority, NEW q \in Priority, NEW r \in Priority,
         ~PriorityLess(q, p), ~PriorityLess(r, q)
  PROVE  ~PriorityLess(r, p)
BY PriorityOrder

\* A sequence over a set has its elements there and is one over a larger set.
LEMMA SequenceWidens ==
  ASSUME NEW T, NEW U, T \subseteq U, NEW s \in Seq(T)
  PROVE  s \in Seq(U) /\ \A i \in 1 .. Len(s) : s[i] \in T
OBVIOUS

\* update_rule_at_level stops at the last node that is not above the level.
LEMMA WalkUpStops ==
  ASSUME NEW S, NEW nodes \in Seq([source : S, priority : Priority]), NEW level \in CascadeLevel
  PROVE  /\ WalkUp(nodes, level) \in 0 .. Len(nodes)
         /\ WalkUp(nodes, level) > 0 =>
              ~LevelLess(level, nodes[WalkUp(nodes, level)].priority.level)
         /\ \A i \in WalkUp(nodes, level) + 1 .. Len(nodes) :
              LevelLess(level, nodes[i].priority.level)
<1>. DEFINE I == {i \in 1 .. Len(nodes) : ~LevelLess(level, nodes[i].priority.level)}
<1>1. WalkUp(nodes, level) = IF I # {} THEN Max(I) ELSE 0
  BY DEF WalkUp, SelectLastInSubSeq
<1>2. Len(nodes) \in Nat
  OBVIOUS
<1>3. CASE I = {}
  BY <1>1, <1>2, <1>3
<1>4. CASE I # {}
  <2>1. I \in SUBSET (1 .. Len(nodes))
    OBVIOUS
  <2>2. Max(I) \in I /\ \A i \in I : i <= Max(I)
    BY <1>2, <1>4, <2>1, LastPosition
  <2>. DEFINE w == Max(I)
  <2>3. w \in 1 .. Len(nodes) /\ ~LevelLess(level, nodes[w].priority.level)
    BY <2>2
  <2>4. \A i \in 1 .. Len(nodes) : ~LevelLess(level, nodes[i].priority.level) => i <= w
    BY <2>2
  <2>5. WalkUp(nodes, level) = w
    BY <1>1, <1>4
  <2>. HIDE DEF w, I
  <2>6. \A i \in w + 1 .. Len(nodes) : LevelLess(level, nodes[i].priority.level)
    BY <1>2, <2>3, <2>4
  <2>. QED  BY <1>2, <2>3, <2>5, <2>6
<1>. QED  BY <1>3, <1>4

\* The two ends of an ordered path, with at most one node between them, are
\* ordered if the nodes that meet are.
LEMMA SpliceOrdered ==
  ASSUME NEW N, NEW nodes \in Seq(N), Ordered(nodes),
         NEW top \in 0 .. Len(nodes), NEW kept \in top .. Len(nodes),
         NEW middle \in Seq(N), Len(middle) <= 1,
         top > 0 /\ middle # << >> =>
           ~PriorityLess(middle[1].priority, nodes[top].priority),
         kept < Len(nodes) /\ middle # << >> =>
           ~PriorityLess(nodes[kept + 1].priority, middle[1].priority),
         top > 0 /\ kept < Len(nodes) =>
           ~PriorityLess(nodes[kept + 1].priority, nodes[top].priority)
  PROVE  Ordered(SubSeq(nodes, 1, top) \o middle \o SubSeq(nodes, kept + 1, Len(nodes)))
<1>. DEFINE n == Len(nodes)
            m == Len(middle)
            A == SubSeq(nodes, 1, top)
            B == SubSeq(nodes, kept + 1, n)
            C == A \o middle
            D == C \o B
<1>0. n \in Nat /\ m \in Nat /\ m <= 1
  OBVIOUS
<1>1. m \in 0 .. 1 /\ n \in Nat /\ top \in Nat /\ kept \in Nat /\ top <= kept /\ kept <= n
  <2>1. top \in 0 .. n /\ kept \in top .. n
    OBVIOUS
  <2>. HIDE DEF n, m
  <2>. QED  BY <1>0, <2>1
<1>2. \A i \in 1 .. n : nodes[i] \in N
  OBVIOUS
<1>3. /\ A \in Seq(N) /\ Len(A) = top
      /\ \A i \in 1 .. top : A[i] = nodes[i]
  <2>1. \A i \in 1 .. top : nodes[i] \in N
    BY <1>1, <1>2
  <2>2. /\ A \in Seq(N)
        /\ Len(A) = IF 1 <= top THEN top - 1 + 1 ELSE 0
        /\ \A i \in 1 .. top - 1 + 1 : A[i] = nodes[1 + i - 1]
    BY <1>1, <2>1, SubSeqProperties
  <2>. QED  BY <1>1, <2>2
<1>4. /\ B \in Seq(N) /\ Len(B) = n - kept
      /\ \A i \in 1 .. n - kept : B[i] = nodes[kept + i]
  <2>1. \A i \in kept + 1 .. n : nodes[i] \in N
    BY <1>1, <1>2
  <2>2. /\ B \in Seq(N)
        /\ Len(B) = IF kept + 1 <= n THEN n - (kept + 1) + 1 ELSE 0
        /\ \A i \in 1 .. n - (kept + 1) + 1 : B[i] = nodes[kept + 1 + i - 1]
    BY <1>1, <2>1, SubSeqProperties
  <2>. QED  BY <1>1, <2>2
<1>. HIDE DEF n, m, A, B
<1>5. /\ C \in Seq(N) /\ Len(C) = top + m
      /\ \A i \in 1 .. top + m : C[i] = IF i <= top THEN A[i] ELSE middle[i - top]
  BY <1>3, ConcatProperties DEF m
<1>. HIDE DEF C
<1>6. /\ Len(D) = top + m + (n - kept)
      /\ \A i \in 1 .. top + m + (n - kept) :
           D[i] = IF i <= top + m THEN C[i] ELSE B[i - (top + m)]
  <2>1. /\ Len(D) = Len(C) + Len(B)
        /\ \A i \in 1 .. Len(C) + Len(B) : D[i] = IF i <= Len(C) THEN C[i] ELSE B[i - Len(C)]
    BY <1>4, <1>5, ConcatProperties
  <2>. HIDE DEF D
  <2>. QED  BY <1>4, <1>5, <2>1
<1>. HIDE DEF D
<1>7. \A i \in 1 .. Len(D) :
        D[i] = IF i <= top THEN nodes[i]
               ELSE IF i <= top + m THEN middle[1] ELSE nodes[kept + (i - (top + m))]
  <2>1. SUFFICES ASSUME NEW i \in 1 .. Len(D)
                 PROVE  D[i] = IF i <= top THEN nodes[i]
                               ELSE IF i <= top + m THEN middle[1]
                                    ELSE nodes[kept + (i - (top + m))]
    OBVIOUS
  <2>2. i \in 1 .. top + m + (n - kept) /\ D[i] = IF i <= top + m THEN C[i] ELSE B[i - (top + m)]
    BY <1>6, <2>1
  <2>3. CASE i <= top
    <3>1. D[i] = C[i] /\ C[i] = A[i] /\ A[i] = nodes[i]
      BY <1>1, <1>3, <1>5, <2>2, <2>3
    <3>. QED  BY <2>3, <3>1
  <2>4. CASE i > top /\ i <= top + m
    <3>1. D[i] = C[i] /\ C[i] = middle[i - top] /\ i - top = 1 /\ ~(i <= top)
      BY <1>1, <1>5, <2>2, <2>4
    <3>. QED  BY <2>4, <3>1
  <2>5. CASE i > top + m
    <3>1. i - (top + m) \in 1 .. n - kept /\ ~(i <= top + m) /\ ~(i <= top)
      BY <1>1, <2>2, <2>5
    <3>2. D[i] = B[i - (top + m)] /\ B[i - (top + m)] = nodes[kept + (i - (top + m))]
      BY <1>4, <2>2, <3>1
    <3>. QED  BY <3>1, <3>2
  <2>. QED  BY <1>1, <2>2, <2>3, <2>4, <2>5
<1>8. \A i \in 2 .. n : ~PriorityLess(nodes[i].priority, nodes[i - 1].priority)
  BY DEF Ordered, n
<1>9. m = 1 => middle # << >>
  <2>. SUFFICES ASSUME middle = << >> PROVE m # 1
    OBVIOUS
  <2>. QED  BY DEF m
<1>10. ASSUME NEW i \in 2 .. Len(D) PROVE ~PriorityLess(D[i].priority, D[i - 1].priority)
  <2>0. i \in 1 .. Len(D) /\ i - 1 \in 1 .. Len(D)
    BY <1>1, <1>6
  <2>1. CASE i <= top
    <3>1. D[i] = nodes[i] /\ D[i - 1] = nodes[i - 1] /\ i \in 2 .. n
      BY <1>1, <1>6, <1>7, <2>0, <2>1
    <3>. QED  BY <1>8, <3>1
  <2>2. CASE i = top + 1 /\ m = 1
    BY <1>1, <1>6, <1>7, <1>9, <2>0, <2>2
  <2>3. CASE i = top + 1 /\ m = 0
    <3>1. D[i] = nodes[kept + 1] /\ D[i - 1] = nodes[top] /\ top > 0 /\ kept < n
      BY <1>1, <1>6, <1>7, <2>0, <2>3
    <3>. QED  BY <3>1 DEF n
  <2>4. CASE i = top + 2 /\ m = 1
    <3>1. D[i] = nodes[kept + 1] /\ D[i - 1] = middle[1] /\ kept < n
      BY <1>1, <1>6, <1>7, <2>0, <2>4
    <3>. QED  BY <1>9, <2>4, <3>1 DEF n
  <2>5. CASE i > top + m + 1
    <3>. DEFINE j == kept + (i - (top + m))
    <3>1. D[i] = nodes[j] /\ D[i - 1] = nodes[j - 1] /\ j \in 2 .. n
      BY <1>1, <1>6, <1>7, <2>0, <2>5
    <3>. QED  BY <1>8, <3>1
  <2>. QED  BY <1>1, <1>6, <2>0, <2>1, <2>2, <2>3, <2>4, <2>5
<1>. QED  BY <1>10 DEF Ordered, C, D, A, B, n

\* Replacing the rule at a level keeps the path ordered, whatever the path,
\* if no other node of that level has a higher layer: the style attribute's
\* layer is above all others, and the other levels that are replaced have
\* one node (ensure_child asserts the order: "Should be ordered").
THEOREM ReplacingKeepsOrder ==
  ASSUME NEW S, NEW nodes \in Seq([source : S, priority : Priority]), Ordered(nodes),
         NEW level \in CascadeLevel, NEW layer \in LayerOrder, NEW block, NEW cont,
         \A i \in 1 .. Len(nodes) :
           nodes[i].priority.level = level =>
             ~PriorityLess([level |-> level, layer |-> layer], nodes[i].priority)
  PROVE  Ordered(UpdateRuleAtLevel(nodes, level, layer, block, cont).path)
<1>. DEFINE kept     == WalkUp(nodes, level)
            priority == [level |-> level, layer |-> layer]
            isHere   == kept > 0 /\ nodes[kept].priority = priority
            isSame   == isHere /\ nodes[kept].source = block
            relevant == Relevant(level, block, cont)
            above    == SubSeq(nodes, 1, IF isHere THEN kept - 1 ELSE kept)
            node     == [source |-> block, priority |-> priority]
            below    == SubSeq(nodes, kept + 1, Len(nodes))
            inserted == IF relevant THEN <<node>> ELSE << >>
            new      == above \o inserted \o below
            P(i)     == nodes[i].priority
            N        == [source : S \cup {block}, priority : Priority]
<1>1. UpdateRuleAtLevel(nodes, level, layer, block, cont).path = IF isSame THEN nodes ELSE new
  BY DEF UpdateRuleAtLevel
<1>2. /\ kept \in 0 .. Len(nodes)
      /\ \A i \in kept + 1 .. Len(nodes) : LevelLess(level, nodes[i].priority.level)
  BY WalkUpStops
<1>3. Len(nodes) \in Nat /\ kept \in Nat /\ kept <= Len(nodes)
  BY <1>2
<1>4. /\ priority \in Priority /\ priority.level = level
      /\ \A i \in 1 .. Len(nodes) : P(i) \in Priority /\ P(i).level \in CascadeLevel
      /\ \A i \in 1 .. Len(nodes) : P(i).level = level => ~PriorityLess(priority, P(i))
  <2>1. \A i \in 1 .. Len(nodes) : nodes[i] \in [source : S, priority : Priority]
    BY SequenceWidens
  <2>2. \A i \in 1 .. Len(nodes) : P(i) \in Priority
    BY <2>1
  <2>3. \A p \in Priority : p.level \in CascadeLevel
    BY DEF Priority
  <2>4. priority \in Priority /\ priority.level = level
    BY DEF Priority
  <2>5. \A i \in 1 .. Len(nodes) : P(i).level = level => ~PriorityLess(priority, P(i))
    OBVIOUS
  <2>. QED  BY <2>2, <2>3, <2>4, <2>5
<1>. HIDE DEF priority
<1>5. \A i \in 2 .. Len(nodes) : ~PriorityLess(P(i), P(i - 1))
  BY DEF Ordered
<1>. DEFINE top == IF isHere THEN kept - 1 ELSE kept
<1>6. top \in Nat /\ top <= kept
  BY <1>3
\* The new node is not below the one it is put under,
<1>7. ASSUME top > 0 PROVE ~PriorityLess(priority, P(top))
  <2>1. CASE isHere
    BY <1>3, <1>5, <1>7, <2>1
  <2>2. CASE ~isHere
    <3>1. kept \in 1 .. Len(nodes) /\ ~LevelLess(level, P(kept).level)
      <4>1. kept > 0 => ~LevelLess(level, nodes[kept].priority.level)
        BY WalkUpStops
      <4>. QED  BY <1>3, <1>7, <2>2, <4>1
    <3>2. CASE P(kept).level = level
      BY <1>4, <2>2, <3>1, <3>2
    <3>3. CASE P(kept).level # level
      BY <1>4, <2>2, <3>1, <3>3 DEF PriorityLess
    <3>. QED  BY <3>2, <3>3
  <2>. QED  BY <2>1, <2>2
\* and the next node is not below the new one, or the one above it.
<1>8. ASSUME kept < Len(nodes) PROVE ~PriorityLess(P(kept + 1), priority)
  <2>1. kept + 1 \in 1 .. Len(nodes) /\ LevelLess(level, P(kept + 1).level)
    BY <1>2, <1>3, <1>8
  <2>2. P(kept + 1).level # level /\ ~LevelLess(P(kept + 1).level, level)
    BY <1>4, <2>1, LevelOrder
  <2>. QED  BY <1>4, <2>2 DEF PriorityLess
<1>9. ASSUME top > 0, kept < Len(nodes) PROVE ~PriorityLess(P(kept + 1), P(top))
  <2>1. top \in 1 .. Len(nodes) /\ kept + 1 \in 1 .. Len(nodes)
    BY <1>3, <1>6, <1>9
  <2>. QED  BY <1>4, <1>7, <1>8, <1>9, <2>1, NotLessTransitive
\* The ends of the path meet as the nodes of an ordered path do.
<1>10. Ordered(new)
  <2>1. nodes \in Seq(N) /\ inserted \in Seq(N) /\ Len(inserted) <= 1
    <3>1. [source : S, priority : Priority] \subseteq N
      OBVIOUS
    <3>2. node \in N
      BY <1>4
    <3>. HIDE DEF N, node, relevant
    <3>3. nodes \in Seq(N)
      BY <3>1, SequenceWidens
    <3>4. <<node>> \in Seq(N) /\ Len(<<node>>) = 1 /\ << >> \in Seq(N) /\ Len(<< >>) = 0
      BY <3>2
    <3>. QED  BY <3>3, <3>4
  <2>2. inserted # << >> => inserted[1].priority = priority
    <3>. HIDE DEF relevant, priority
    <3>. QED  OBVIOUS
  <2>3. top \in 0 .. Len(nodes) /\ kept \in top .. Len(nodes)
    BY <1>3, <1>6
  <2>. HIDE DEF inserted, N, top, kept, P
  <2>4. Ordered(SubSeq(nodes, 1, top) \o inserted \o SubSeq(nodes, kept + 1, Len(nodes)))
    <3>1. top > 0 => ~PriorityLess(priority, nodes[top].priority)
      BY <1>7 DEF P
    <3>2. kept < Len(nodes) => ~PriorityLess(nodes[kept + 1].priority, priority)
      BY <1>8 DEF P
    <3>3. top > 0 /\ kept < Len(nodes) => ~PriorityLess(nodes[kept + 1].priority, nodes[top].priority)
      BY <1>9 DEF P
    <3>. QED  BY <2>1, <2>2, <2>3, <3>1, <3>2, <3>3, SpliceOrdered
  <2>. QED  BY <2>4 DEF top
<1>. QED  BY <1>1, <1>10

\* The two levels of the style attribute.
LEMMA AuthorLevels ==
  AuthorNormal(0) \in CascadeLevel /\ Important(AuthorNormal(0)) \in CascadeLevel
<1>1. AuthorNormal(0) = [origin |-> 3, order |-> 0, important |-> FALSE]
  BY DEF AuthorNormal, Level, Author
<1>2. 3 \in UA .. Transitions /\ 0 \in ShadowCascadeOrder /\ FALSE \in BOOLEAN
  BY DEF UA, Transitions, ShadowCascadeOrder, MaxShadowOrder
<1>3. [origin |-> 3, order |-> 0, important |-> FALSE] \in CascadeLevel
  BY <1>2 DEF CascadeLevel
<1>4. AuthorNormal(0) \in CascadeLevel
  BY <1>1, <1>3
<1>5. \A l \in CascadeLevel : Important(l) \in CascadeLevel
  BY DEF CascadeLevel, Important
<1>. QED  BY <1>4, <1>5

\* For the style attribute nothing needs to be assumed of the path: replacing
\* it, normal or important, keeps any ordered path ordered (matching.rs).
THEOREM ReplacingAttributeKeepsOrder ==
  ASSUME NEW S, NEW nodes \in Seq([source : S, priority : Priority]), Ordered(nodes),
         NEW level \in {AuthorNormal(0), Important(AuthorNormal(0))}, NEW block, NEW cont
  PROVE  Ordered(UpdateRuleAtLevel(nodes, level, StyleAttributeLayer, block, cont).path)
<1>1. AuthorNormal(0) \in CascadeLevel /\ Important(AuthorNormal(0)) \in CascadeLevel
  BY AuthorLevels
<1>2. StyleAttributeLayer \in LayerOrder /\ \A l \in LayerOrder : l \in Int /\ l <= StyleAttributeLayer
  BY DEF LayerOrder, StyleAttributeLayer
<1>3. \A i \in 1 .. Len(nodes) : nodes[i] \in [source : S, priority : Priority]
  BY SequenceWidens
<1>4. ASSUME NEW i \in 1 .. Len(nodes), nodes[i].priority.level = level
      PROVE  ~PriorityLess([level |-> level, layer |-> StyleAttributeLayer], nodes[i].priority)
  <2>1. nodes[i].priority.layer \in LayerOrder
    BY <1>3 DEF Priority
  <2>2. ~(StyleAttributeLayer < nodes[i].priority.layer)
    BY <1>2, <2>1 DEF StyleAttributeLayer
  <2>3. ~LevelLess(level, level)
    BY <1>1, LevelOrder
  <2>. QED  BY <1>4, <2>2, <2>3 DEF PriorityLess
<1>. QED  BY <1>1, <1>2, <1>4, ReplacingKeepsOrder

-----------------------------------------------------------------------------
(* Sorting a set: each element has its place by how many come before it.    *)

\* R, a set of pairs, is a strict total order of S.
StrictOrder(S, R) ==
  /\ \A x \in S : <<x, x>> \notin R
  /\ \A x, y \in S : x = y \/ <<x, y>> \in R \/ <<y, x>> \in R
  /\ \A x, y, z \in S : <<x, y>> \in R /\ <<y, z>> \in R => <<x, z>> \in R

\* What comes before x.
Earlier(S, R, x) == {y \in S : <<y, x>> \in R}

\* The sequence w is S in this order.
InOrder(w, S, R) ==
  /\ w \in [1 .. Cardinality(S) -> S]
  /\ \A x \in S : \E i \in 1 .. Cardinality(S) : w[i] = x
  /\ \A i, j \in 1 .. Cardinality(S) : i < j => <<w[i], w[j]>> \in R

\* More elements come before the later one of two.
LEMMA RanksDiffer ==
  ASSUME NEW S, IsFiniteSet(S), NEW R, StrictOrder(S, R), NEW x \in S, NEW y \in S, <<x, y>> \in R
  PROVE  /\ Cardinality(Earlier(S, R, x)) \in Nat /\ Cardinality(Earlier(S, R, y)) \in Nat
         /\ Cardinality(Earlier(S, R, x)) < Cardinality(Earlier(S, R, y))
<1>1. Earlier(S, R, x) \in SUBSET Earlier(S, R, y)
  BY DEF Earlier, StrictOrder
<1>2. x \in Earlier(S, R, y) /\ x \notin Earlier(S, R, x)
  BY DEF Earlier, StrictOrder
<1>3. Earlier(S, R, y) \in SUBSET S
  BY DEF Earlier
<1>4. IsFiniteSet(Earlier(S, R, y)) /\ IsFiniteSet(Earlier(S, R, x))
  BY <1>1, <1>3, FS_Subset
<1>5. /\ Cardinality(Earlier(S, R, x)) <= Cardinality(Earlier(S, R, y))
      /\ Cardinality(Earlier(S, R, y)) # Cardinality(Earlier(S, R, x))
  BY <1>1, <1>2, <1>4, FS_Subset
<1>. QED  BY <1>4, <1>5, FS_CardinalityType

\* So elements that have the same number before them are the same.
LEMMA SameRank ==
  ASSUME NEW S, IsFiniteSet(S), NEW R, StrictOrder(S, R), NEW x \in S, NEW y \in S,
         Cardinality(Earlier(S, R, x)) = Cardinality(Earlier(S, R, y))
  PROVE  x = y
<1>1. x = y \/ <<x, y>> \in R \/ <<y, x>> \in R
  BY DEF StrictOrder
<1>2. ASSUME <<x, y>> \in R PROVE FALSE
  BY <1>2, RanksDiffer
<1>3. ASSUME <<y, x>> \in R PROVE FALSE
  BY <1>3, RanksDiffer
<1>. QED  BY <1>1, <1>2, <1>3

\* And each place is taken.
LEMMA RanksTaken ==
  ASSUME NEW S, IsFiniteSet(S), NEW R, StrictOrder(S, R), NEW i \in 1 .. Cardinality(S)
  PROVE  \E x \in S : Cardinality(Earlier(S, R, x)) = i - 1
<1>1. PICK n \in Nat : n = Cardinality(S)
  BY FS_CardinalityType
<1>. DEFINE f == [x \in S |-> Cardinality(Earlier(S, R, x)) + 1]
<1>2. ASSUME NEW x \in S PROVE Cardinality(Earlier(S, R, x)) \in 0 .. n - 1
  <2>1. Earlier(S, R, x) \in SUBSET S /\ x \notin Earlier(S, R, x)
    BY DEF Earlier, StrictOrder
  <2>2. IsFiniteSet(Earlier(S, R, x))
    BY <2>1, FS_Subset
  <2>3. Cardinality(Earlier(S, R, x)) <= n /\ Cardinality(Earlier(S, R, x)) # n
    BY <1>1, <2>1, FS_Subset
  <2>. QED  BY <1>1, <2>2, <2>3, FS_CardinalityType
<1>3. f \in [S -> 1 .. n]
  BY <1>1, <1>2
<1>4. \A x, y \in S : f[x] = f[y] => x = y
  <2>1. SUFFICES ASSUME NEW x \in S, NEW y \in S, f[x] = f[y] PROVE x = y
    OBVIOUS
  <2>2. Cardinality(Earlier(S, R, x)) = Cardinality(Earlier(S, R, y))
    BY <1>2, <2>1
  <2>. QED  BY <2>2, SameRank
<1>. HIDE DEF f
<1>5. f \in Injection(S, 1 .. n)
  BY <1>3, <1>4, Fun_IsInj
<1>6. IsFiniteSet(1 .. n) /\ Cardinality(1 .. n) = n
  BY <1>1, FS_Interval
<1>7. f \in Surjection(S, 1 .. n)
  BY <1>1, <1>5, <1>6, FS_Injection
<1>8. \A t \in 1 .. n : \E x \in S : f[x] = t
  BY <1>7, Fun_SurjectionProperties
<1>9. PICK x \in S : f[x] = i
  BY <1>1, <1>8
<1>. QED  BY <1>1, <1>2, <1>9 DEF f

\* Who has each element at its place has the set in order.
LEMMA RankedInOrder ==
  ASSUME NEW S, IsFiniteSet(S), NEW R, StrictOrder(S, R), NEW w \in [1 .. Cardinality(S) -> S],
         \A i \in 1 .. Cardinality(S) : Cardinality(Earlier(S, R, w[i])) = i - 1
  PROVE  InOrder(w, S, R)
<1>1. PICK n \in Nat : n = Cardinality(S)
  BY FS_CardinalityType
<1>2. ASSUME NEW x \in S PROVE \E i \in 1 .. n : w[i] = x
  <2>1. Cardinality(Earlier(S, R, x)) \in 0 .. n - 1
    <3>1. Earlier(S, R, x) \in SUBSET S /\ x \notin Earlier(S, R, x)
      BY DEF Earlier, StrictOrder
    <3>2. IsFiniteSet(Earlier(S, R, x))
      BY <3>1, FS_Subset
    <3>3. Cardinality(Earlier(S, R, x)) <= n /\ Cardinality(Earlier(S, R, x)) # n
      BY <1>1, <3>1, FS_Subset
    <3>. QED  BY <1>1, <3>2, <3>3, FS_CardinalityType
  <2>2. PICK i \in 1 .. n : i - 1 = Cardinality(Earlier(S, R, x))
    <3>1. Cardinality(Earlier(S, R, x)) + 1 \in 1 .. n
      BY <2>1
    <3>. QED  BY <2>1, <3>1
  <2>3. w[i] = x
    BY <1>1, <2>2, SameRank
  <2>. QED  BY <2>2, <2>3
<1>3. ASSUME NEW i \in 1 .. n, NEW j \in 1 .. n, i < j PROVE <<w[i], w[j]>> \in R
  <2>1. w[i] \in S /\ w[j] \in S
    BY <1>1
  <2>2. /\ Cardinality(Earlier(S, R, w[i])) = i - 1
        /\ Cardinality(Earlier(S, R, w[j])) = j - 1
    BY <1>1
  <2>3. ASSUME <<w[j], w[i]>> \in R PROVE FALSE
    BY <1>3, <2>1, <2>2, <2>3, RanksDiffer
  <2>4. w[i] # w[j]
    BY <1>3, <2>2
  <2>. QED  BY <2>1, <2>3, <2>4 DEF StrictOrder
<1>. QED  BY <1>1, <1>2, <1>3 DEF InOrder

\* Conversely, in a set in order each element has its place.
LEMMA InOrderRanked ==
  ASSUME NEW S, IsFiniteSet(S), NEW R, StrictOrder(S, R), NEW w, InOrder(w, S, R),
         NEW i \in 1 .. Cardinality(S)
  PROVE  Cardinality(Earlier(S, R, w[i])) = i - 1
<1>1. PICK n \in Nat : n = Cardinality(S)
  BY FS_CardinalityType
<1>2. /\ w \in [1 .. n -> S] /\ \A x \in S : \E j \in 1 .. n : w[j] = x
      /\ \A k, j \in 1 .. n : k < j => <<w[k], w[j]>> \in R
  BY <1>1 DEF InOrder
<1>. DEFINE T == Earlier(S, R, w[i])
            g == [j \in 1 .. i - 1 |-> w[j]]
<1>3. i \in 1 .. n /\ w[i] \in S
  BY <1>1, <1>2
<1>4. \A j \in 1 .. n : w[j] \in T <=> j < i
  <2>1. SUFFICES ASSUME NEW j \in 1 .. n PROVE w[j] \in T <=> j < i
    OBVIOUS
  <2>2. w[j] \in S
    BY <1>2
  <2>3. j < i => <<w[j], w[i]>> \in R
    BY <1>2, <1>3
  <2>4. ASSUME ~(j < i) PROVE <<w[j], w[i]>> \notin R
    <3>1. j = i \/ <<w[i], w[j]>> \in R
      BY <1>2, <1>3, <2>4
    <3>. QED  BY <1>3, <2>2, <3>1 DEF StrictOrder
  <2>. QED  BY <2>2, <2>3, <2>4 DEF Earlier
<1>5. T \subseteq S
  BY DEF Earlier
<1>6. g \in [1 .. i - 1 -> T]
  BY <1>3, <1>4
<1>7. \A a, b \in 1 .. i - 1 : g[a] = g[b] => a = b
  <2>1. SUFFICES ASSUME NEW a \in 1 .. i - 1, NEW b \in 1 .. i - 1, a < b, w[a] = w[b] PROVE FALSE
    OBVIOUS
  <2>2. a \in 1 .. n /\ b \in 1 .. n
    BY <1>3
  <2>. QED  BY <1>2, <2>1, <2>2 DEF StrictOrder
<1>8. \A t \in T : \E a \in 1 .. i - 1 : g[a] = t
  <2>1. SUFFICES ASSUME NEW t \in T PROVE \E a \in 1 .. i - 1 : g[a] = t
    OBVIOUS
  <2>2. PICK a \in 1 .. n : w[a] = t
    BY <1>2, <1>5
  <2>3. a \in 1 .. i - 1
    BY <1>3, <1>4, <2>2
  <2>. QED  BY <2>2, <2>3
<1>. HIDE DEF g, T
<1>9. g \in Bijection(1 .. i - 1, T)
  <2>1. g \in Injection(1 .. i - 1, T) /\ g \in Surjection(1 .. i - 1, T)
    BY <1>6, <1>7, <1>8, Fun_IsInj, Fun_IsSurj
  <2>. QED  BY <2>1 DEF Bijection
<1>10. IsFiniteSet(1 .. i - 1) /\ Cardinality(1 .. i - 1) = i - 1
  BY <1>3, FS_Interval
<1>11. ExistsBijection(1 .. i - 1, T)
  BY <1>9 DEF ExistsBijection
<1>12. Cardinality(T) = i - 1
  BY <1>10, <1>11, FS_Bijection
<1>. QED  BY <1>12 DEF T

\* There is one order.
LEMMA OneOrder ==
  ASSUME NEW S, IsFiniteSet(S), NEW R, StrictOrder(S, R), NEW v, InOrder(v, S, R), NEW w, InOrder(w, S, R)
  PROVE  v = w
<1>0. PICK n \in Nat : n = Cardinality(S)
  BY FS_CardinalityType
<1>1. v \in [1 .. n -> S] /\ w \in [1 .. n -> S]
  BY <1>0 DEF InOrder
<1>2. \A i \in 1 .. n : v[i] = w[i]
  <2>1. SUFFICES ASSUME NEW i \in 1 .. n PROVE v[i] = w[i]
    OBVIOUS
  <2>2. Cardinality(Earlier(S, R, v[i])) = i - 1 /\ Cardinality(Earlier(S, R, w[i])) = i - 1
    BY <1>0, InOrderRanked
  <2>3. v[i] \in S /\ w[i] \in S
    BY <1>1
  <2>. QED  BY <2>2, <2>3, SameRank
<1>. QED  BY ONLY <1>1, <1>2

\* Positions in their order.
LEMMA PositionsAscend ==
  ASSUME NEW n \in Nat, NEW P \in SUBSET (1 .. n)
  PROVE  /\ IsFiniteSet(P)
         /\ InOrder(Ascending(P, <), P, {q \in P \X P : q[1] < q[2]})
<1>. DEFINE R == {q \in P \X P : q[1] < q[2]}
<1>1. IsFiniteSet(P)
  <2>1. IsFiniteSet(1 .. n)
    BY FS_Interval
  <2>. QED  BY <2>1, FS_Subset
<1>2. \A x \in P : x \in Int
  OBVIOUS
<1>3. StrictOrder(P, R)
  BY <1>2 DEF StrictOrder
<1>4. ASSUME NEW x \in P PROVE Earlier(P, R, x) = {y \in P : y < x}
  BY DEF Earlier
<1>. HIDE DEF R
<1>5. PICK m \in Nat : m = Cardinality(P)
  BY <1>1, FS_CardinalityType
<1>6. PICK w : w = Ascending(P, <)
  OBVIOUS
<1>7. w = [i \in 1 .. m |-> CHOOSE x \in P : Cardinality({y \in P : y < x}) = i - 1]
  BY <1>5, <1>6 DEF Ascending
<1>8. ASSUME NEW i \in 1 .. m PROVE w[i] \in P /\ Cardinality(Earlier(P, R, w[i])) = i - 1
  <2>1. \E x \in P : Cardinality(Earlier(P, R, x)) = i - 1
    BY <1>1, <1>3, <1>5, RanksTaken
  <2>2. \E x \in P : Cardinality({y \in P : y < x}) = i - 1
    BY <1>4, <2>1
  <2>3. w[i] = CHOOSE x \in P : Cardinality({y \in P : y < x}) = i - 1
    BY <1>7
  <2>4. w[i] \in P /\ Cardinality({y \in P : y < w[i]}) = i - 1
    BY <2>2, <2>3
  <2>. QED  BY <1>4, <2>4
<1>9. w \in [1 .. m -> P]
  BY <1>7, <1>8
<1>10. InOrder(w, P, R)
  BY <1>1, <1>3, <1>5, <1>8, <1>9, RankedInOrder
<1>. QED  BY <1>1, <1>6, <1>10 DEF R

-----------------------------------------------------------------------------
(* The declarations that a path may have: rules with an importance.         *)

\* The trees with part rules are as near as three bits can count.
PartsNear == Outer <= MaxShadowOrder

\* A rule of an element, of whatever kind; a style attribute or an animation
\* that is not there has NoBlock.
Origins   == UA .. Transitions
Number    == Int
SomeBlock == Block \cup {NoBlock}
RuleRecord ==
  [origin : Origins, depth : Number, layer : LayerOrder, specificity : Number, block : SomeBlock]

RuleShape(origin, depth, layer, specificity, block) ==
  /\ depth \in -(Slots + 1) .. Outer
  /\ origin # Author => depth = 0
  /\ layer = StyleAttributeLayer => origin = Author /\ depth = 0 /\ specificity = 0
  /\ origin \in Effects \cup {PositionFallback} => layer = RootLayer /\ specificity = 0
  /\ block \in AttributeBlock => layer = StyleAttributeLayer

ElementRule ==
  {r \in RuleRecord : RuleShape(r.origin, r.depth, r.layer, r.specificity, r.block)}

MayBeImportant(origin, layer) ==
  origin \in {UA, User, Author} /\ (origin # Author => layer = RootLayer)

Entry ==
  {x \in ElementRule \X Importance :
     x[2] = "important" => MayBeImportant(x[1].origin, x[1].layer)}

\* The parts of an entry.
IsNormal(x)      == x[2] = "normal"
OriginIn(x)      == x[1].origin
DepthIn(x)       == x[1].depth
LayerIn(x)       == x[1].layer
SpecificityIn(x) == x[1].specificity
BlockIn(x)       == x[1].block

\* The parts of its key.
Tier(x) ==
  IF IsNormal(x) THEN IF OriginIn(x) = Transitions THEN 20 ELSE OriginIn(x)
                 ELSE 10 + (Author - OriginIn(x))
Distance(x)  == IF IsNormal(x) THEN DepthIn(x) ELSE -DepthIn(x)
Attached(x)  == IF LayerIn(x) = StyleAttributeLayer THEN 1 ELSE 0
LayerTurn(x) == IF IsNormal(x) THEN LayerIn(x) ELSE -LayerIn(x)

SameKey(x, y) ==
  /\ Tier(x) = Tier(y) /\ Distance(x) = Distance(y) /\ Attached(x) = Attached(y)
  /\ LayerTurn(x) = LayerTurn(y) /\ SpecificityIn(x) = SpecificityIn(y)

EntryLess(x, y) ==
  \/ Tier(x) < Tier(y)
  \/ Tier(x) = Tier(y) /\ Distance(x) < Distance(y)
  \/ Tier(x) = Tier(y) /\ Distance(x) = Distance(y) /\ Attached(x) < Attached(y)
  \/ /\ Tier(x) = Tier(y) /\ Distance(x) = Distance(y) /\ Attached(x) = Attached(y)
     /\ LayerTurn(x) < LayerTurn(y)
  \/ /\ Tier(x) = Tier(y) /\ Distance(x) = Distance(y) /\ Attached(x) = Attached(y)
     /\ LayerTurn(x) = LayerTurn(y) /\ SpecificityIn(x) < SpecificityIn(y)

\* The node of an entry.
LevelIn(x) ==
  IF IsNormal(x) THEN LevelOf(Slots, x[1]) ELSE Important(LevelOf(Slots, x[1]))
NodeOf(x) == [source |-> BlockIn(x), priority |-> [level |-> LevelIn(x), layer |-> LayerIn(x)]]

\* Rules that agree in their parts are the same.
LEMMA SameRule ==
  ASSUME NEW r \in RuleRecord, NEW q \in RuleRecord,
         r.origin = q.origin, r.depth = q.depth, r.layer = q.layer, r.specificity = q.specificity,
         r.block = q.block
  PROVE  r = q
BY DEF RuleRecord

\* What an entry consists of.
LEMMA EntryPair ==
  ASSUME NEW x \in Entry
  PROVE  x = <<x[1], x[2]>> /\ x[1] \in ElementRule /\ x[2] \in {"normal", "important"}
BY DEF Entry, Importance

\* Its rule is a record of parts that go together.
LEMMA EntryRule ==
  ASSUME NEW x \in Entry
  PROVE  /\ x[1] \in RuleRecord
         /\ RuleShape(OriginIn(x), DepthIn(x), LayerIn(x), SpecificityIn(x), BlockIn(x))
         /\ ~IsNormal(x) => MayBeImportant(OriginIn(x), LayerIn(x))
<1>1. PICK r \in ElementRule : r = x[1]
  BY EntryPair
<1>2. r \in RuleRecord /\ RuleShape(r.origin, r.depth, r.layer, r.specificity, r.block)
  BY Zenon DEF ElementRule
<1>3. RuleShape(OriginIn(x), DepthIn(x), LayerIn(x), SpecificityIn(x), BlockIn(x))
  BY <1>1, <1>2, Zenon DEF OriginIn, DepthIn, LayerIn, SpecificityIn, BlockIn
<1>4. ~IsNormal(x) => x[2] = "important"
  BY EntryPair DEF IsNormal
<1>5. x[2] = "important" => MayBeImportant(x[1].origin, x[1].layer)
  BY DEF Entry
<1>6. ~IsNormal(x) => MayBeImportant(OriginIn(x), LayerIn(x))
  BY <1>4, <1>5, Zenon DEF OriginIn, LayerIn
<1>7. x[1] \in RuleRecord
  BY <1>1, <1>2
<1>. QED  BY <1>3, <1>6, <1>7, Zenon

\* The layers that the code has numbers for.
LEMMA LayerNumbers ==
  /\ StyleAttributeLayer \in Nat /\ RootLayer \in Nat /\ RootLayer < StyleAttributeLayer
  /\ \A l \in LayerOrder : l \in Nat /\ l <= StyleAttributeLayer
BY DEF LayerOrder, StyleAttributeLayer, RootLayer

\* The parts of an entry, by what they are.
PartsFit(o, d, l, s, b, n) ==
  /\ o \in 0 .. 7 /\ d \in Int /\ -(Slots + 1) <= d /\ d <= Outer
  /\ l \in LayerOrder /\ s \in Int
  /\ o # 3 => d = 0
  /\ l = StyleAttributeLayer => o = 3 /\ d = 0 /\ s = 0
  /\ o \in {4, 5, 6, 7} => l = RootLayer /\ s = 0
  /\ b \in AttributeBlock => l = StyleAttributeLayer
  /\ n \in BOOLEAN
  /\ ~n => o \in {0, 1, 3} /\ (o # 3 => l = RootLayer)

\* The parts of a rule fit.
LEMMA ShapeFits ==
  ASSUME NEW o \in Origins, NEW d \in Number, NEW l \in LayerOrder, NEW s \in Number, NEW b,
         NEW n \in BOOLEAN, RuleShape(o, d, l, s, b), ~n => MayBeImportant(o, l)
  PROVE  PartsFit(o, d, l, s, b, n)
<1>1. o \in 0 .. 7 /\ d \in Int /\ s \in Int
  BY DEF Origins, Number, UA, Transitions
<1>2. d \in -(Slots + 1) .. Outer
  BY DEF RuleShape
<1>3. -(Slots + 1) <= d /\ d <= Outer
  BY <1>1, <1>2, SlotsAssumption
<1>4. o # 3 => d = 0
  BY DEF RuleShape, Author
<1>5. l = StyleAttributeLayer => o = 3 /\ d = 0 /\ s = 0
  BY DEF RuleShape, Author
<1>6. o \in {4, 5, 6, 7} => l = RootLayer /\ s = 0
  BY DEF RuleShape, Transitions, Effects, PositionFallback, SMILOverride, Animations
<1>7. b \in AttributeBlock => l = StyleAttributeLayer
  BY DEF RuleShape
<1>8. ~n => o \in {0, 1, 3} /\ (o # 3 => l = RootLayer)
  BY DEF MayBeImportant, UA, User, Author
<1>. QED  BY <1>1, <1>3, <1>4, <1>5, <1>6, <1>7, <1>8, Zenon DEF PartsFit

\* An entry by its parts.
LEMMA EntryParts ==
  ASSUME NEW x \in Entry
  PROVE  /\ PartsFit(OriginIn(x), DepthIn(x), LayerIn(x), SpecificityIn(x), BlockIn(x), IsNormal(x))
         /\ BlockIn(x) \in SomeBlock
<1>1. PICK o, d, l, s, b, n : /\ o = OriginIn(x) /\ d = DepthIn(x) /\ l = LayerIn(x)
                             /\ s = SpecificityIn(x) /\ b = BlockIn(x) /\ n = IsNormal(x)
  OBVIOUS
<1>2. RuleShape(o, d, l, s, b) /\ (~n => MayBeImportant(o, l))
  BY <1>1, EntryRule, Zenon
<1>3. PICK r \in RuleRecord : r = x[1]
  BY EntryRule
<1>4. r.origin \in Origins /\ r.depth \in Number /\ r.layer \in LayerOrder
      /\ r.specificity \in Number /\ r.block \in SomeBlock
  BY DEF RuleRecord
<1>5. o \in Origins /\ d \in Number /\ l \in LayerOrder /\ s \in Number /\ b \in SomeBlock
  BY <1>1, <1>3, <1>4, Zenon DEF OriginIn, DepthIn, LayerIn, SpecificityIn, BlockIn
<1>6. n \in BOOLEAN
  BY <1>1, Zenon DEF IsNormal
<1>7. PartsFit(o, d, l, s, b, n)
  BY <1>2, <1>5, <1>6, ShapeFits
<1>. QED  BY <1>1, <1>5, <1>7, Zenon

\* The parts of a key are numbers.
LEMMA KeyParts ==
  ASSUME NEW x \in Entry
  PROVE  /\ Tier(x) \in Int /\ Distance(x) \in Int /\ Attached(x) \in Int /\ LayerTurn(x) \in Int
         /\ SpecificityIn(x) \in Int
<1>1. PICK o, d, l, s, n : /\ o = OriginIn(x) /\ d = DepthIn(x) /\ l = LayerIn(x)
                           /\ s = SpecificityIn(x) /\ n = IsNormal(x)
  OBVIOUS
<1>2. o \in 0 .. 7 /\ d \in Int /\ l \in LayerOrder /\ s \in Int
  BY <1>1, EntryParts, Zenon DEF PartsFit
<1>3. l \in Int
  BY <1>2, LayerNumbers
<1>4. /\ Tier(x) = IF n THEN IF o = Transitions THEN 20 ELSE o ELSE 10 + (Author - o)
      /\ Distance(x) = IF n THEN d ELSE -d
      /\ Attached(x) = IF l = StyleAttributeLayer THEN 1 ELSE 0
      /\ LayerTurn(x) = IF n THEN l ELSE -l
  BY <1>1, Zenon DEF Tier, Distance, Attached, LayerTurn
<1>5. Tier(x) \in Int /\ Distance(x) \in Int
  BY <1>2, <1>4 DEF Author, Transitions
<1>6. Attached(x) \in Int /\ LayerTurn(x) \in Int
  BY <1>3, <1>4
<1>. QED  BY <1>1, <1>2, <1>5, <1>6

\* Of two entries with different keys one is less.
LEMMA EntryOrder ==
  ASSUME NEW x \in Entry, NEW y \in Entry
  PROVE  /\ SameKey(x, y) \/ EntryLess(x, y) \/ EntryLess(y, x)
         /\ ~(SameKey(x, y) /\ EntryLess(x, y))
         /\ ~(EntryLess(x, y) /\ EntryLess(y, x))
BY KeyParts DEF EntryLess, SameKey

\* And less is transitive.
LEMMA EntryTransitive ==
  ASSUME NEW x \in Entry, NEW y \in Entry, NEW z \in Entry
  PROVE  /\ EntryLess(x, y) /\ EntryLess(y, z) => EntryLess(x, z)
         /\ SameKey(x, y) /\ EntryLess(y, z) => EntryLess(x, z)
         /\ EntryLess(x, y) /\ SameKey(y, z) => EntryLess(x, z)
         /\ SameKey(x, y) => SameKey(y, x)
         /\ SameKey(x, y) /\ SameKey(y, z) => SameKey(x, z)
BY KeyParts DEF EntryLess, SameKey

\* The order of keys is the order of entries.
LEMMA KeyByParts ==
  ASSUME NEW x \in Entry, NEW y \in Entry
  PROVE  KeyLess(CascadeKey(x[1], x[2]), CascadeKey(y[1], y[2])) <=> EntryLess(x, y)
<1>1. PICK a, b : a = CascadeKey(x[1], x[2]) /\ b = CascadeKey(y[1], y[2])
  OBVIOUS
<1>2. ASSUME NEW z \in Entry
      PROVE  CascadeKey(z[1], z[2])
               = <<Tier(z), Distance(z), Attached(z), LayerTurn(z), SpecificityIn(z)>>
  <2>1. z[1].depth \in Int /\ z[1].layer \in Int
    <3>1. DepthIn(z) \in Int /\ LayerIn(z) \in LayerOrder
      BY EntryParts, Zenon DEF PartsFit
    <3>. QED  BY <3>1, LayerNumbers DEF DepthIn, LayerIn
  <2>2. PICK d \in Int, l \in Int : d = z[1].depth /\ l = z[1].layer
    BY <2>1
  <2>3. 1 * d = d /\ 1 * l = l /\ (-1) * d = -d /\ (-1) * l = -l
    OBVIOUS
  <2>4. (IF z[2] = "normal" THEN 1 ELSE -1) * d = IF z[2] = "normal" THEN d ELSE -d
    BY <2>3
  <2>5. (IF z[2] = "normal" THEN 1 ELSE -1) * l = IF z[2] = "normal" THEN l ELSE -l
    BY <2>3
  <2>. QED  BY <2>2, <2>4, <2>5, Zenon DEF CascadeKey, Tier, Distance, Attached, LayerTurn,
              IsNormal, OriginIn, DepthIn, LayerIn, SpecificityIn
<1>3. a = <<Tier(x), Distance(x), Attached(x), LayerTurn(x), SpecificityIn(x)>>
  BY <1>1, <1>2
<1>4. b = <<Tier(y), Distance(y), Attached(y), LayerTurn(y), SpecificityIn(y)>>
  BY <1>1, <1>2
<1>5. DOMAIN a = 1 .. 5
  BY <1>3
<1>6. KeyLess(a, b) <=> \E i \in 1 .. 5 : a[i] < b[i] /\ \A j \in 1 .. i - 1 : a[j] = b[j]
  BY <1>5 DEF KeyLess
<1>7. ASSUME NEW i \in 1 .. 5
      PROVE  (\A j \in 1 .. i - 1 : a[j] = b[j])
               <=> /\ i > 1 => a[1] = b[1]
                   /\ i > 2 => a[2] = b[2]
                   /\ i > 3 => a[3] = b[3]
                   /\ i > 4 => a[4] = b[4]
  OBVIOUS
<1>8. (\E i \in 1 .. 5 : a[i] < b[i] /\ \A j \in 1 .. i - 1 : a[j] = b[j])
        <=> \/ a[1] < b[1]
            \/ a[1] = b[1] /\ a[2] < b[2]
            \/ a[1] = b[1] /\ a[2] = b[2] /\ a[3] < b[3]
            \/ a[1] = b[1] /\ a[2] = b[2] /\ a[3] = b[3] /\ a[4] < b[4]
            \/ a[1] = b[1] /\ a[2] = b[2] /\ a[3] = b[3] /\ a[4] = b[4] /\ a[5] < b[5]
  BY <1>7
<1>9. /\ a[1] = Tier(x) /\ a[2] = Distance(x) /\ a[3] = Attached(x) /\ a[4] = LayerTurn(x)
      /\ a[5] = SpecificityIn(x)
  BY <1>3
<1>10. /\ b[1] = Tier(y) /\ b[2] = Distance(y) /\ b[3] = Attached(y) /\ b[4] = LayerTurn(y)
       /\ b[5] = SpecificityIn(y)
  BY <1>4
<1>. QED  BY <1>1, <1>6, <1>8, <1>9, <1>10 DEF EntryLess

\* Entries with the same key are from the same kind of rule and have the same
\* priority; with the same declarations they are the same.
LEMMA KeyAndBlock ==
  ASSUME NEW x \in Entry, NEW y \in Entry, SameKey(x, y)
  PROVE  /\ OriginIn(x) = OriginIn(y) /\ DepthIn(x) = DepthIn(y) /\ LayerIn(x) = LayerIn(y)
         /\ x[2] = y[2]
         /\ BlockIn(x) = BlockIn(y) => x = y
<1>1. PICK o, d, l, s, n : /\ o = OriginIn(x) /\ d = DepthIn(x) /\ l = LayerIn(x)
                           /\ s = SpecificityIn(x) /\ n = IsNormal(x)
  OBVIOUS
<1>2. PICK p, e, m, t, k : /\ p = OriginIn(y) /\ e = DepthIn(y) /\ m = LayerIn(y)
                           /\ t = SpecificityIn(y) /\ k = IsNormal(y)
  OBVIOUS
<1>3. o \in 0 .. 7 /\ d \in Int /\ l \in LayerOrder /\ n \in BOOLEAN /\ (~n => o \in {0, 1, 3})
  BY <1>1, EntryParts, Zenon DEF PartsFit
<1>4. p \in 0 .. 7 /\ e \in Int /\ m \in LayerOrder /\ k \in BOOLEAN /\ (~k => p \in {0, 1, 3})
  BY <1>2, EntryParts, Zenon DEF PartsFit
<1>5. l \in Int /\ m \in Int
  BY <1>3, <1>4, LayerNumbers
<1>6. /\ (IF n THEN IF o = Transitions THEN 20 ELSE o ELSE 10 + (Author - o))
           = (IF k THEN IF p = Transitions THEN 20 ELSE p ELSE 10 + (Author - p))
      /\ (IF n THEN d ELSE -d) = (IF k THEN e ELSE -e)
      /\ (IF n THEN l ELSE -l) = (IF k THEN m ELSE -m)
      /\ s = t
  BY <1>1, <1>2, Zenon DEF SameKey, Tier, Distance, LayerTurn
<1>7. o = p /\ (n <=> k)
  BY <1>3, <1>4, <1>6 DEF Transitions, Author
<1>8. d = e /\ l = m
  BY <1>3, <1>4, <1>5, <1>6, <1>7
<1>9. x[2] = y[2]
  BY <1>1, <1>2, <1>7, EntryPair DEF IsNormal
<1>10. ASSUME BlockIn(x) = BlockIn(y) PROVE x = y
  <2>1. x[1] \in RuleRecord /\ y[1] \in RuleRecord
    BY EntryRule
  <2>2. /\ x[1].origin = y[1].origin /\ x[1].depth = y[1].depth /\ x[1].layer = y[1].layer
        /\ x[1].specificity = y[1].specificity /\ x[1].block = y[1].block
    BY <1>1, <1>2, <1>6, <1>7, <1>8, <1>10, Zenon DEF OriginIn, DepthIn, LayerIn, SpecificityIn, BlockIn
  <2>3. x[1] = y[1]
    BY <2>1, <2>2, SameRule
  <2>. QED  BY <1>9, <2>3, EntryPair
<1>. QED  BY <1>1, <1>2, <1>7, <1>8, <1>9, <1>10

\* The level of an entry's node: the trees are near enough to be told apart.
LEMMA LevelByParts ==
  ASSUME PartsNear, NEW x \in Entry
  PROVE  /\ LevelIn(x) \in CascadeLevel
         /\ LevelIn(x).origin = OriginIn(x) /\ LevelIn(x).order = DepthIn(x)
         /\ LevelIn(x).important <=> ~IsNormal(x)
<1>1. PICK o, d, n : o = OriginIn(x) /\ d = DepthIn(x) /\ n = IsNormal(x)
  OBVIOUS
<1>2. /\ o \in 0 .. 7 /\ d \in Int /\ -(Slots + 1) <= d /\ d <= Outer /\ n \in BOOLEAN
      /\ o # 3 => d = 0
  BY <1>1, EntryParts, Zenon DEF PartsFit
<1>3. Outer <= 7 /\ Outer \in Nat /\ Slots \in Nat /\ Slots < 7
  BY SlotsAssumption DEF PartsNear, MaxShadowOrder
<1>4. ShadowOrder(Slots, d) = d
  <2>1. HostOrder(Slots) = -(Slots + 1)
    BY <1>3 DEF HostOrder, Smaller, MaxShadowOrder
  <2>2. -(Slots + 1) + (d + Slots + 1) = d
    BY <1>2, <1>3
  <2>. QED  BY <1>2, <1>3, <2>1, <2>2 DEF ShadowOrder, Smaller, MaxShadowOrder
<1>5. PICK m : m = [origin |-> o, order |-> d, important |-> FALSE]
  OBVIOUS
<1>6. LevelOf(Slots, x[1]) = m
  <2>1. ASSUME o = 3 PROVE AuthorNormal(d) = m
    <3>1. PICK no \in BOOLEAN : no = FALSE
      OBVIOUS
    <3>2. PICK k : k = [origin |-> 3, order |-> 0, important |-> no]
      OBVIOUS
    <3>3. AuthorNormal(d) = [k EXCEPT !.order = d]
      BY <3>1, <3>2 DEF AuthorNormal, Level, Author
    <3>4. [k EXCEPT !.order = d] = [origin |-> 3, order |-> d, important |-> no]
      BY ONLY <1>2, <3>2, no \in BOOLEAN
    <3>. QED  BY ONLY <1>5, <2>1, <3>1, <3>3, <3>4
  <2>2. o # 3 => Level(o) = m
    BY <1>2, <1>5 DEF Level
  <2>3. x[1].origin = o /\ x[1].depth = d
    BY <1>1 DEF OriginIn, DepthIn
  <2>4. LevelOf(Slots, x[1]) = IF o = 3 THEN AuthorNormal(ShadowOrder(Slots, d)) ELSE Level(o)
    BY <2>3 DEF LevelOf, Author
  <2>. QED  BY <1>4, <2>1, <2>2, <2>4
<1>7. Important(m) = [origin |-> o, order |-> d, important |-> TRUE]
  <2>1. Important(m) = [m EXCEPT !.important = TRUE]
    BY DEF Important
  <2>2. DOMAIN m = {"origin", "order", "important"} /\ m.origin = o /\ m.order = d
    BY <1>5
  <2>. QED  BY <2>1, <1>5
<1>8. LevelIn(x) = IF n THEN m ELSE Important(m)
  BY <1>1, <1>6 DEF LevelIn
<1>9. o \in UA .. Transitions /\ d \in ShadowCascadeOrder
  BY <1>2, <1>3 DEF UA, Transitions, ShadowCascadeOrder, MaxShadowOrder
<1>10. CASE n
  <2>1. LevelIn(x) = [origin |-> o, order |-> d, important |-> FALSE]
    BY <1>5, <1>8, <1>10
  <2>. QED  BY <1>1, <1>9, <1>10, <2>1 DEF CascadeLevel
<1>11. CASE ~n
  <2>1. LevelIn(x) = [origin |-> o, order |-> d, important |-> TRUE]
    BY <1>7, <1>8, <1>11
  <2>. QED  BY <1>1, <1>9, <1>11, <2>1 DEF CascadeLevel
<1>. QED  BY <1>2, <1>10, <1>11

\* The levels of two entries by their parts.
LEMMA LevelsByParts ==
  ASSUME PartsNear, NEW x \in Entry, NEW y \in Entry
  PROVE  /\ LevelIn(x) = LevelIn(y)
              <=> OriginIn(x) = OriginIn(y) /\ DepthIn(x) = DepthIn(y) /\ (IsNormal(x) <=> IsNormal(y))
         /\ LevelLess(LevelIn(x), LevelIn(y))
              <=> \/ Tier(x) < Tier(y)
                  \/ Tier(x) = Tier(y) /\ Distance(x) < Distance(y)
<1>1. PICK o, d, n : o = OriginIn(x) /\ d = DepthIn(x) /\ n = IsNormal(x)
  OBVIOUS
<1>2. /\ o \in 0 .. 7 /\ d \in Int /\ n \in BOOLEAN /\ (~n => o \in {0, 1, 3})
      /\ o # 3 => d = 0
  BY <1>1, EntryParts, Zenon DEF PartsFit
<1>3. PICK p, e, k : p = OriginIn(y) /\ e = DepthIn(y) /\ k = IsNormal(y)
  OBVIOUS
<1>4. /\ p \in 0 .. 7 /\ e \in Int /\ k \in BOOLEAN /\ (~k => p \in {0, 1, 3})
      /\ p # 3 => e = 0
  BY <1>3, EntryParts, Zenon DEF PartsFit
<1>5. PICK a \in CascadeLevel : a = LevelIn(x)
  BY LevelByParts
<1>6. a.origin = o /\ a.order = d /\ (a.important <=> ~n)
  BY <1>1, <1>5, LevelByParts, Zenon
<1>7. PICK b \in CascadeLevel : b = LevelIn(y)
  BY LevelByParts
<1>8. b.origin = p /\ b.order = e /\ (b.important <=> ~k)
  BY <1>3, <1>7, LevelByParts, Zenon
<1>9. a.important \in BOOLEAN /\ b.important \in BOOLEAN
  BY DEF CascadeLevel
<1>10. a = b <=> o = p /\ d = e /\ (n <=> k)
  <2>1. a = b <=> a.origin = b.origin /\ a.order = b.order /\ a.important = b.important
    BY DEF CascadeLevel
  <2>2. a.important = b.important <=> (n <=> k)
    BY <1>2, <1>4, <1>6, <1>8, <1>9
  <2>. QED  BY <1>6, <1>8, <2>1, <2>2
<1>11. LevelLess(a, b)
         <=> IF (n <=> ~k)
               THEN IF ~n THEN p = 7 ELSE o # 7
               ELSE IF ~n THEN p < o \/ (p = o /\ e < d) ELSE o < p \/ (o = p /\ d < e)
  BY <1>2, <1>4, <1>6, <1>8, <1>9 DEF LevelLess, Transitions
<1>12. PICK t, u : t = Tier(x) /\ u = Tier(y)
  OBVIOUS
<1>13. /\ t = IF n THEN IF o = 7 THEN 20 ELSE o ELSE 10 + (3 - o)
       /\ u = IF k THEN IF p = 7 THEN 20 ELSE p ELSE 10 + (3 - p)
  BY <1>1, <1>3, <1>12 DEF Tier, Transitions, Author
<1>14. /\ Distance(x) = IF n THEN d ELSE -d
       /\ Distance(y) = IF k THEN e ELSE -e
  BY <1>1, <1>3, Zenon DEF Distance
<1>15. PICK f, g : f = Distance(x) /\ g = Distance(y)
  OBVIOUS
<1>16. LevelLess(a, b) <=> t < u \/ (t = u /\ f < g)
  BY <1>2, <1>4, <1>11, <1>13, <1>14, <1>15
<1>. QED  BY <1>1, <1>3, <1>5, <1>7, <1>10, <1>12, <1>15, <1>16

\* The node of an entry by its parts.
LEMMA NodeByParts ==
  ASSUME PartsNear, NEW x \in Entry
  PROVE  /\ NodeOf(x).source = BlockIn(x)
         /\ NodeOf(x).priority \in Priority
         /\ NodeOf(x).priority.level = LevelIn(x) /\ NodeOf(x).priority.layer = LayerIn(x)
         /\ NodeOf(x).priority = [level |-> LevelIn(x), layer |-> LayerIn(x)]
<1>1. PICK m, l, b : m = LevelIn(x) /\ l = LayerIn(x) /\ b = BlockIn(x)
  OBVIOUS
<1>2. m \in CascadeLevel /\ l \in LayerOrder
  BY <1>1, LevelByParts, EntryParts, Zenon DEF PartsFit
<1>3. NodeOf(x) = [source |-> b, priority |-> [level |-> m, layer |-> l]]
  BY <1>1, Zenon DEF NodeOf
<1>4. [level |-> m, layer |-> l] \in Priority
  BY <1>2 DEF Priority
<1>. QED  BY <1>1, <1>3, <1>4

\* The order of priorities is coarser than that of entries; only rules of a
\* tree and a layer have the same.
LEMMA LessRefines ==
  ASSUME PartsNear, NEW x \in Entry, NEW y \in Entry
  PROVE  /\ PriorityLess(NodeOf(x).priority, NodeOf(y).priority) => EntryLess(x, y)
         /\ NodeOf(x).priority = NodeOf(y).priority
              <=> LevelIn(x) = LevelIn(y) /\ LayerIn(x) = LayerIn(y)
<1>1. PICK p \in Priority, q \in Priority : p = NodeOf(x).priority /\ q = NodeOf(y).priority
  BY NodeByParts
<1>2. p.level = LevelIn(x) /\ p.layer = LayerIn(x) /\ q.level = LevelIn(y) /\ q.layer = LayerIn(y)
  BY <1>1, NodeByParts, Zenon
<1>3. p = q <=> p.level = q.level /\ p.layer = q.layer
  BY DEF Priority
<1>4. ASSUME LevelLess(p.level, q.level) PROVE EntryLess(x, y)
  BY <1>2, <1>4, LevelsByParts, Zenon DEF EntryLess
<1>5. ASSUME p.level = q.level,
             IF /\ p.level.important
                /\ p.layer # StyleAttributeLayer
                /\ q.layer # StyleAttributeLayer
               THEN q.layer < p.layer
               ELSE p.layer < q.layer
      PROVE  EntryLess(x, y)
  <2>1. PICK l, m, n : l = p.layer /\ m = q.layer /\ n = p.level.important
    OBVIOUS
  <2>2. l \in LayerOrder /\ m \in LayerOrder /\ n \in BOOLEAN
    BY <2>1 DEF Priority, CascadeLevel
  <2>3. l = LayerIn(x) /\ m = LayerIn(y) /\ (n <=> ~IsNormal(x))
    BY <1>2, <2>1, LevelByParts, Zenon
  <2>4. OriginIn(x) = OriginIn(y) /\ DepthIn(x) = DepthIn(y) /\ (IsNormal(x) <=> IsNormal(y))
    BY <1>2, <1>5, LevelsByParts, Zenon
  <2>5. Tier(x) = Tier(y) /\ Distance(x) = Distance(y)
    BY <2>4, Zenon DEF Tier, Distance
  <2>6. PICK a, b, t, u : a = Attached(x) /\ b = Attached(y) /\ t = LayerTurn(x) /\ u = LayerTurn(y)
    OBVIOUS
  <2>7. /\ a = IF l = StyleAttributeLayer THEN 1 ELSE 0
        /\ b = IF m = StyleAttributeLayer THEN 1 ELSE 0
        /\ t = IF ~n THEN l ELSE -l
        /\ u = IF ~n THEN m ELSE -m
    BY <2>2, <2>3, <2>4, <2>6 DEF Attached, LayerTurn
  <2>8. IF n /\ l # StyleAttributeLayer /\ m # StyleAttributeLayer THEN m < l ELSE l < m
    BY <1>5, <2>1
  <2>9. a < b \/ (a = b /\ t < u)
    BY <2>2, <2>7, <2>8, LayerNumbers
  <2>. QED  BY <2>5, <2>6, <2>9 DEF EntryLess
<1>6. PriorityLess(p, q) => EntryLess(x, y)
  BY <1>4, <1>5 DEF PriorityLess
<1>. QED  BY <1>1, <1>2, <1>3, <1>6

-----------------------------------------------------------------------------
(* Paths by their entries.                                                  *)

Rising(w, n) == \A i, j \in 1 .. n : i < j => EntryLess(w[i], w[j])

\* The entries E in their order.
Listing(w, n, E) ==
  /\ n \in Nat /\ w \in [1 .. n -> E] /\ (\A x \in E : \E i \in 1 .. n : w[i] = x)
  /\ Rising(w, n)

NodesOf(w, n) == [i \in 1 .. n |-> NodeOf(w[i])]

\* A path that has the nodes of these entries, in their order.
PathIs(path_, E) == E \subseteq Entry /\ \E n, w : Listing(w, n, E) /\ path_ = NodesOf(w, n)

AllLess(E, F) == \A x \in E, y \in F : EntryLess(x, y)

NodeSet == [source : SomeBlock, priority : Priority]

\* The path without nodes.
LEMMA PathIsEmpty == PathIs(<< >>, {})
<1>1. PICK w : w = << >>
  OBVIOUS
<1>2. w \in [1 .. 0 -> {}]
  BY <1>1
<1>3. Listing(w, 0, {})
  BY <1>2 DEF Listing, Rising
<1>4. NodesOf(w, 0) = << >>
  BY DEF NodesOf
<1>. QED  BY <1>3, <1>4 DEF PathIs

\* The path with one node.
LEMMA PathIsOne ==
  ASSUME NEW x \in Entry
  PROVE  PathIs(<<NodeOf(x)>>, {x})
<1>1. PICK w : w = <<x>>
  OBVIOUS
<1>2. w \in [1 .. 1 -> {x}] /\ w[1] = x
  BY <1>1
<1>3. Listing(w, 1, {x})
  BY <1>2 DEF Listing, Rising
<1>4. NodesOf(w, 1) = <<NodeOf(x)>>
  BY <1>2 DEF NodesOf
<1>. QED  BY <1>3, <1>4 DEF PathIs

\* Paths one after the other.
LEMMA PathIsConcat ==
  ASSUME NEW p, NEW E, PathIs(p, E), NEW q, NEW F, PathIs(q, F), AllLess(E, F)
  PROVE  PathIs(p \o q, E \cup F)
<1>1. PICK m, v : Listing(v, m, E) /\ p = NodesOf(v, m)
  BY DEF PathIs
<1>2. PICK n, w : Listing(w, n, F) /\ q = NodesOf(w, n)
  BY DEF PathIs
<1>3. m \in Nat /\ v \in [1 .. m -> E] /\ \A x \in E : \E i \in 1 .. m : v[i] = x
  BY <1>1 DEF Listing
<1>4. n \in Nat /\ w \in [1 .. n -> F] /\ \A x \in F : \E i \in 1 .. n : w[i] = x
  BY <1>2 DEF Listing
<1>5. \A i, j \in 1 .. m : i < j => EntryLess(v[i], v[j])
  BY <1>1 DEF Listing, Rising
<1>6. \A i, j \in 1 .. n : i < j => EntryLess(w[i], w[j])
  BY <1>2 DEF Listing, Rising
<1>7. PICK u : u = [i \in 1 .. m + n |-> IF i <= m THEN v[i] ELSE w[i - m]]
  OBVIOUS
<1>8. \A i \in 1 .. m : i \in 1 .. m + n /\ u[i] = v[i]
  BY <1>3, <1>4, <1>7
<1>9. \A i \in 1 .. n : i + m \in 1 .. m + n /\ u[i + m] = w[i]
  BY <1>3, <1>4, <1>7
<1>10. u \in [1 .. m + n -> E \cup F]
  BY <1>3, <1>4, <1>7
<1>11. \A x \in E \cup F : \E i \in 1 .. m + n : u[i] = x
  BY <1>3, <1>4, <1>8, <1>9
<1>12. ASSUME NEW i \in 1 .. m + n, NEW j \in 1 .. m + n, i < j PROVE EntryLess(u[i], u[j])
  <2>1. CASE j <= m
    <3>1. i \in 1 .. m /\ j \in 1 .. m
      BY <1>3, <1>12, <2>1
    <3>. QED  BY <1>5, <1>8, <1>12, <3>1
  <2>2. CASE i <= m /\ m < j
    <3>1. i \in 1 .. m /\ j - m \in 1 .. n /\ u[j] = w[j - m]
      BY <1>3, <1>4, <1>7, <2>2
    <3>2. v[i] \in E /\ w[j - m] \in F
      BY <1>3, <1>4, <3>1
    <3>. QED  BY <1>8, <3>1, <3>2 DEF AllLess
  <2>3. CASE m < i
    <3>1. i - m \in 1 .. n /\ u[i] = w[i - m] /\ j - m \in 1 .. n /\ u[j] = w[j - m] /\ i - m < j - m
      BY <1>3, <1>4, <1>7, <1>12, <2>3
    <3>. QED  BY <1>6, <3>1
  <2>. QED  BY <1>3, <1>4, <2>1, <2>2, <2>3
<1>13. m + n \in Nat
  BY <1>3, <1>4
<1>14. Listing(u, m + n, E \cup F)
  BY <1>10, <1>11, <1>12, <1>13 DEF Listing, Rising
<1>15. p \o q = NodesOf(u, m + n)
  <2>1. p = [i \in 1 .. m |-> NodeOf(v[i])] /\ q = [i \in 1 .. n |-> NodeOf(w[i])]
    BY <1>1, <1>2 DEF NodesOf
  <2>2. Len(p) = m /\ Len(q) = n
    BY <1>3, <1>4, <2>1
  <2>3. p \o q = [i \in 1 .. m + n |-> IF i <= m THEN p[i] ELSE q[i - m]]
    <3>1. PICK X : X = {NodeOf(x) : x \in Entry}
      OBVIOUS
    <3>2. E \subseteq Entry /\ F \subseteq Entry
      BY DEF PathIs
    <3>3. \A i \in 1 .. m : NodeOf(v[i]) \in X
      BY <1>3, <3>1, <3>2
    <3>4. \A i \in 1 .. n : NodeOf(w[i]) \in X
      BY <1>4, <3>1, <3>2
    <3>5. p \in Seq(X) /\ q \in Seq(X)
      BY <1>3, <1>4, <2>1, <3>3, <3>4
    <3>6. /\ p \o q \in Seq(X) /\ Len(p \o q) = m + n
          /\ \A i \in 1 .. m + n : (p \o q)[i] = IF i <= m THEN p[i] ELSE q[i - m]
      BY <2>2, <3>5, ConcatProperties
    <3>7. PICK s, k : s \in Seq(X) /\ k \in Nat /\ s = p \o q /\ k = m + n
      BY <1>13, <3>6
    <3>8. s = [i \in 1 .. k |-> s[i]] /\ Len(s) = k
      <4>1. s \in Seq(X) /\ Len(s) = k
        BY <3>6, <3>7
      <4>2. s \in [1 .. k -> X]
        BY ONLY <4>1, LenProperties
      <4>. QED  BY ONLY <4>1, <4>2
    <3>. QED  BY <3>6, <3>7, <3>8
  <2>4. ASSUME NEW i \in 1 .. m + n
        PROVE  (IF i <= m THEN p[i] ELSE q[i - m]) = NodeOf(u[i])
    <3>1. CASE i <= m
      BY <1>3, <1>8, <2>1, <3>1
    <3>2. CASE m < i
      <4>1. i - m \in 1 .. n /\ u[i] = w[i - m]
        BY <1>3, <1>4, <1>7, <3>2
      <4>. QED  BY <1>3, <2>1, <3>2, <4>1
    <3>. QED  BY <1>3, <3>1, <3>2
  <2>. QED  BY <2>3, <2>4 DEF NodesOf
<1>16. E \cup F \subseteq Entry
  BY DEF PathIs
<1>. QED  BY <1>14, <1>15, <1>16 DEF PathIs

\* Its type and order.
LEMMA PathIsOrdered ==
  ASSUME PartsNear, NEW p, NEW E, PathIs(p, E)
  PROVE  p \in Seq(NodeSet) /\ Ordered(p)
<1>1. PICK n, w : Listing(w, n, E) /\ p = NodesOf(w, n)
  BY DEF PathIs
<1>2. n \in Nat /\ w \in [1 .. n -> Entry]
  BY <1>1 DEF Listing, PathIs
<1>3. p = [i \in 1 .. n |-> NodeOf(w[i])]
  BY <1>1 DEF NodesOf
<1>4. ASSUME NEW x \in Entry PROVE NodeOf(x) \in NodeSet
  <2>1. PICK m, l, b : m = LevelIn(x) /\ l = LayerIn(x) /\ b = BlockIn(x)
    OBVIOUS
  <2>2. b \in SomeBlock
    BY <2>1, EntryParts
  <2>3. [level |-> m, layer |-> l] \in Priority
    BY <2>1, NodeByParts
  <2>4. NodeOf(x) = [source |-> b, priority |-> [level |-> m, layer |-> l]]
    BY <2>1, Zenon DEF NodeOf
  <2>. QED  BY <2>2, <2>3, <2>4 DEF NodeSet
<1>5. p \in Seq(NodeSet)
  BY <1>2, <1>3, <1>4
<1>6. Len(p) = n
  BY <1>2, <1>3
<1>7. ASSUME NEW i \in 2 .. n PROVE ~PriorityLess(p[i].priority, p[i - 1].priority)
  <2>1. i \in 1 .. n /\ i - 1 \in 1 .. n /\ i - 1 < i
    BY <1>2
  <2>2. PICK x \in Entry, y \in Entry : x = w[i - 1] /\ y = w[i]
    BY <1>2, <2>1
  <2>3. EntryLess(x, y)
    BY <1>1, <2>1, <2>2 DEF Listing, Rising
  <2>4. ~EntryLess(y, x)
    BY <2>3, EntryOrder
  <2>5. ~PriorityLess(NodeOf(y).priority, NodeOf(x).priority)
    BY <2>4, LessRefines
  <2>. QED  BY <1>3, <2>1, <2>2, <2>5
<1>. QED  BY <1>5, <1>6, <1>7 DEF Ordered

\* The entries of a path are of a finite number, and the path has them in the
\* order of a sorted set.
LEMMA ListingInOrder ==
  ASSUME NEW E \in SUBSET Entry, NEW n, NEW w, Listing(w, n, E)
  PROVE  /\ IsFiniteSet(E) /\ n = Cardinality(E)
         /\ StrictOrder(E, {q \in E \X E : EntryLess(q[1], q[2])})
         /\ InOrder(w, E, {q \in E \X E : EntryLess(q[1], q[2])})
<1>1. /\ n \in Nat /\ w \in [1 .. n -> E] /\ \A x \in E : \E i \in 1 .. n : w[i] = x
      /\ \A i, j \in 1 .. n : i < j => EntryLess(w[i], w[j])
  BY DEF Listing, Rising
<1>2. ASSUME NEW i \in 1 .. n, NEW j \in 1 .. n, i # j PROVE w[i] # w[j]
  <2>1. EntryLess(w[i], w[j]) \/ EntryLess(w[j], w[i])
    BY <1>1, <1>2
  <2>2. w[i] \in Entry /\ w[j] \in Entry
    BY <1>1
  <2>. QED  BY <2>1, <2>2, EntryOrder
<1>3. w \in Bijection(1 .. n, E)
  <2>1. w \in Injection(1 .. n, E) /\ w \in Surjection(1 .. n, E)
    BY <1>1, <1>2, Fun_IsInj, Fun_IsSurj
  <2>. QED  BY <2>1 DEF Bijection
<1>4. IsFiniteSet(1 .. n) /\ Cardinality(1 .. n) = n
  BY <1>1, FS_Interval
<1>5. ExistsBijection(1 .. n, E)
  BY <1>3 DEF ExistsBijection
<1>6. IsFiniteSet(E) /\ n = Cardinality(E)
  BY <1>4, <1>5, FS_Bijection
<1>7. StrictOrder(E, {q \in E \X E : EntryLess(q[1], q[2])})
  <2>1. ASSUME NEW x \in E, NEW y \in E PROVE x = y \/ EntryLess(x, y) \/ EntryLess(y, x)
    <3>1. PICK i \in 1 .. n, j \in 1 .. n : w[i] = x /\ w[j] = y
      BY <1>1
    <3>2. i = j \/ i < j \/ j < i
      BY <1>1
    <3>. QED  BY <1>1, <3>1, <3>2
  <2>2. \A x \in E : ~EntryLess(x, x)
    BY EntryOrder
  <2>3. \A x, y, z \in E : EntryLess(x, y) /\ EntryLess(y, z) => EntryLess(x, z)
    BY EntryTransitive
  <2>. QED  BY <2>1, <2>2, <2>3 DEF StrictOrder
<1>8. \A i, j \in 1 .. n : i < j => <<w[i], w[j]>> \in {q \in E \X E : EntryLess(q[1], q[2])}
  BY <1>1
<1>9. InOrder(w, E, {q \in E \X E : EntryLess(q[1], q[2])})
  BY <1>1, <1>6, <1>8 DEF InOrder
<1>. QED  BY <1>6, <1>7, <1>9

\* There is one path of some entries.
LEMMA OnePath ==
  ASSUME NEW E, NEW p, PathIs(p, E), NEW q, PathIs(q, E)
  PROVE  p = q
<1>1. PICK m, v : Listing(v, m, E) /\ p = NodesOf(v, m)
  BY DEF PathIs
<1>2. PICK n, w : Listing(w, n, E) /\ q = NodesOf(w, n)
  BY DEF PathIs
<1>3. E \in SUBSET Entry
  BY DEF PathIs
<1>4. PICK R : R = {z \in E \X E : EntryLess(z[1], z[2])}
  OBVIOUS
<1>5. IsFiniteSet(E) /\ m = Cardinality(E) /\ StrictOrder(E, R) /\ InOrder(v, E, R)
  BY <1>1, <1>3, <1>4, ListingInOrder
<1>6. n = Cardinality(E) /\ InOrder(w, E, R)
  BY <1>2, <1>3, <1>4, ListingInOrder
<1>7. v = w
  BY <1>5, <1>6, OneOrder
<1>. QED  BY <1>1, <1>2, <1>5, <1>6, <1>7

\* A sorted set of entries is listed.
LEMMA InOrderListing ==
  ASSUME NEW E \in SUBSET Entry, IsFiniteSet(E), NEW w,
         InOrder(w, E, {q \in E \X E : EntryLess(q[1], q[2])})
  PROVE  Listing(w, Cardinality(E), E)
<1>1. PICK n \in Nat : n = Cardinality(E)
  BY FS_CardinalityType
<1>2. PICK R : R = {q \in E \X E : EntryLess(q[1], q[2])}
  OBVIOUS
<1>3. /\ w \in [1 .. n -> E] /\ \A x \in E : \E i \in 1 .. n : w[i] = x
      /\ \A i, j \in 1 .. n : i < j => <<w[i], w[j]>> \in R
  BY <1>1, <1>2 DEF InOrder
<1>4. Rising(w, n)
  BY <1>2, <1>3 DEF Rising
<1>. QED  BY <1>1, <1>3, <1>4 DEF Listing

\* Positions and their order.
PositionsIn(w, n, F) == {i \in 1 .. n : w[i] \in F}
Upwards(P) == {q \in P \X P : q[1] < q[2]}
AtPositions(w, kept, m) == [k \in 1 .. m |-> w[kept[k]]]

\* The part of a listing that lies in a smaller set.
LEMMA ListingPart ==
  ASSUME NEW E \in SUBSET Entry, NEW n, NEW w, Listing(w, n, E), NEW F \in SUBSET E, NEW P,
         P = PositionsIn(w, n, F), IsFiniteSet(P), NEW kept, InOrder(kept, P, Upwards(P))
  PROVE  /\ Cardinality(P) \in Nat /\ kept \in [1 .. Cardinality(P) -> P]
         /\ Listing(AtPositions(w, kept, Cardinality(P)), Cardinality(P), F)
<1>1. /\ n \in Nat /\ w \in [1 .. n -> E] /\ \A x \in E : \E i \in 1 .. n : w[i] = x
      /\ \A i, j \in 1 .. n : i < j => EntryLess(w[i], w[j])
  BY DEF Listing, Rising
<1>3. PICK R : R = {q \in P \X P : q[1] < q[2]}
  OBVIOUS
<1>4. InOrder(kept, P, R)
  BY <1>3 DEF Upwards
<1>5. PICK m \in Nat : m = Cardinality(P)
  BY <1>4, FS_CardinalityType
<1>6. /\ kept \in [1 .. m -> P] /\ \A x \in P : \E i \in 1 .. m : kept[i] = x
      /\ \A i, j \in 1 .. m : i < j => <<kept[i], kept[j]>> \in R
  BY <1>4, <1>5 DEF InOrder
<1>7. PICK v : v = [k \in 1 .. m |-> w[kept[k]]]
  OBVIOUS
<1>8. P = {i \in 1 .. n : w[i] \in F}
  BY DEF PositionsIn
<1>9. v \in [1 .. m -> F]
  BY <1>6, <1>7, <1>8
<1>10. ASSUME NEW x \in F PROVE \E k \in 1 .. m : v[k] = x
  <2>1. PICK i \in 1 .. n : w[i] = x
    BY <1>1
  <2>2. i \in P
    BY <1>8, <2>1
  <2>3. PICK k \in 1 .. m : kept[k] = i
    BY <1>6, <2>2
  <2>. QED  BY <1>7, <2>1, <2>3
<1>11. ASSUME NEW i \in 1 .. m, NEW j \in 1 .. m, i < j PROVE EntryLess(v[i], v[j])
  <2>1. kept[i] \in 1 .. n /\ kept[j] \in 1 .. n /\ kept[i] < kept[j]
    BY <1>3, <1>6, <1>8, <1>11
  <2>2. EntryLess(w[kept[i]], w[kept[j]])
    BY <1>1, <2>1
  <2>. QED  BY <1>7, <2>2
<1>12. Listing(v, m, F)
  BY <1>9, <1>10, <1>11 DEF Listing, Rising
<1>. QED  BY <1>5, <1>6, <1>7, <1>12 DEF AtPositions

\* The nodes of a path that are in N.
LEMMA PathIsPart ==
  ASSUME NEW p, NEW E, PathIs(p, E), NEW N
  PROVE  PathIs(PartAt(p, {i \in DOMAIN p : p[i] \in N}), {x \in E : NodeOf(x) \in N})
<1>1. PICK n, w : Listing(w, n, E) /\ p = NodesOf(w, n)
  BY DEF PathIs
<1>2. n \in Nat /\ w \in [1 .. n -> E] /\ E \in SUBSET Entry
  BY <1>1 DEF Listing, PathIs
<1>3. p = [i \in 1 .. n |-> NodeOf(w[i])]
  BY <1>1 DEF NodesOf
<1>4. PICK F \in SUBSET E : F = {x \in E : NodeOf(x) \in N}
  OBVIOUS
<1>5. PICK P : P = {i \in DOMAIN p : p[i] \in N}
  OBVIOUS
<1>6. P = PositionsIn(w, n, F)
  BY <1>2, <1>3, <1>4, <1>5 DEF PositionsIn
<1>7. PICK kept : kept = Ascending(P, <)
  OBVIOUS
<1>8. PICK m, v : m = Cardinality(P) /\ v = AtPositions(w, kept, m)
  OBVIOUS
<1>9. IsFiniteSet(P) /\ InOrder(kept, P, Upwards(P))
  <2>1. P \in SUBSET (1 .. n)
    BY <1>6 DEF PositionsIn
  <2>. QED  BY <1>2, <1>7, <2>1, PositionsAscend, Zenon DEF Upwards
<1>10. m \in Nat /\ kept \in [1 .. m -> P] /\ Listing(v, m, F)
  BY <1>1, <1>2, <1>6, <1>8, <1>9, ListingPart
<1>11. PartAt(p, P) = [k \in 1 .. m |-> p[kept[k]]]
  <2>1. DOMAIN kept = 1 .. m
    BY <1>10
  <2>. QED  BY <1>8, <1>7, <2>1, Zenon DEF PartAt
<1>12. ASSUME NEW k \in 1 .. m PROVE p[kept[k]] = NodeOf(v[k])
  <2>1. kept[k] \in 1 .. n
    BY <1>6, <1>10 DEF PositionsIn
  <2>. QED  BY <1>3, <1>8, <2>1 DEF AtPositions
<1>13. PartAt(p, P) = NodesOf(v, m)
  BY <1>11, <1>12 DEF NodesOf
<1>14. F \subseteq Entry
  BY <1>2
<1>15. PathIs(PartAt(p, P), F)
  BY <1>10, <1>13, <1>14 DEF PathIs
<1>. QED  BY <1>4, <1>5, <1>15

\* The important declarations of a rule.
AsImp(x) == <<x[1], "important">>

\* The node for them is that of the normal ones, made important.
LEMMA ImportantNode ==
  ASSUME PartsNear, NEW x \in Entry, IsNormal(x), AsImp(x) \in Entry
  PROVE  /\ AsImportant(NodeOf(x)) = NodeOf(AsImp(x))
         /\ OriginIn(AsImp(x)) = OriginIn(x) /\ DepthIn(AsImp(x)) = DepthIn(x)
         /\ LayerIn(AsImp(x)) = LayerIn(x) /\ SpecificityIn(AsImp(x)) = SpecificityIn(x)
         /\ BlockIn(AsImp(x)) = BlockIn(x) /\ ~IsNormal(AsImp(x))
<1>1. PICK y : y = AsImp(x)
  OBVIOUS
<1>2. y[1] = x[1] /\ y[2] = "important"
  BY <1>1 DEF AsImp
<1>3. /\ OriginIn(y) = OriginIn(x) /\ DepthIn(y) = DepthIn(x)
      /\ LayerIn(y) = LayerIn(x) /\ SpecificityIn(y) = SpecificityIn(x)
      /\ BlockIn(y) = BlockIn(x) /\ ~IsNormal(y)
  BY <1>2 DEF OriginIn, DepthIn, LayerIn, SpecificityIn, BlockIn, IsNormal
<1>4. PICK b, m, l : b = BlockIn(x) /\ m = LevelOf(Slots, x[1]) /\ l = LayerIn(x)
  OBVIOUS
<1>5. NodeOf(x) = [source |-> b, priority |-> [level |-> m, layer |-> l]]
  BY <1>4, Zenon DEF NodeOf, LevelIn
<1>6. NodeOf(y) = [source |-> b, priority |-> [level |-> Important(m), layer |-> l]]
  BY <1>2, <1>3, <1>4, Zenon DEF NodeOf, LevelIn
<1>7. PICK i : i = Important(m)
  OBVIOUS
<1>8. [[source |-> b, priority |-> [level |-> m, layer |-> l]] EXCEPT !.priority.level = i]
        = [source |-> b, priority |-> [level |-> i, layer |-> l]]
  OBVIOUS
<1>9. PICK a : a = [source |-> b, priority |-> [level |-> m, layer |-> l]]
  OBVIOUS
<1>10. a.priority.level = m
  BY <1>9
<1>11. AsImportant(a) = [a EXCEPT !.priority.level = i]
  BY <1>7, <1>10, Zenon DEF AsImportant
<1>. QED  BY <1>1, <1>3, <1>5, <1>6, <1>7, <1>8, <1>9, <1>11

\* Within a priority importance does not change the order.
LEMMA ImportantOrder ==
  ASSUME PartsNear, NEW x \in Entry, NEW y \in Entry, IsNormal(x), IsNormal(y),
         AsImp(x) \in Entry, AsImp(y) \in Entry
  PROVE  /\ NodeOf(AsImp(x)).priority = NodeOf(AsImp(y)).priority
              <=> NodeOf(x).priority = NodeOf(y).priority
         /\ NodeOf(x).priority = NodeOf(y).priority
              => (EntryLess(x, y) <=> EntryLess(AsImp(x), AsImp(y)))
<1>1. PICK u \in Entry, v \in Entry : u = AsImp(x) /\ v = AsImp(y)
  OBVIOUS
<1>2. /\ OriginIn(u) = OriginIn(x) /\ DepthIn(u) = DepthIn(x)
      /\ LayerIn(u) = LayerIn(x) /\ SpecificityIn(u) = SpecificityIn(x) /\ ~IsNormal(u)
  BY <1>1, ImportantNode
<1>3. /\ OriginIn(v) = OriginIn(y) /\ DepthIn(v) = DepthIn(y)
      /\ LayerIn(v) = LayerIn(y) /\ SpecificityIn(v) = SpecificityIn(y) /\ ~IsNormal(v)
  BY <1>1, ImportantNode
<1>4. ASSUME NEW s \in Entry, NEW t \in Entry, IsNormal(s) <=> IsNormal(t)
      PROVE  NodeOf(s).priority = NodeOf(t).priority
               <=> OriginIn(s) = OriginIn(t) /\ DepthIn(s) = DepthIn(t) /\ LayerIn(s) = LayerIn(t)
  BY <1>4, LessRefines, LevelsByParts
<1>5. ASSUME NEW s \in Entry, NEW t \in Entry, IsNormal(s) <=> IsNormal(t),
             OriginIn(s) = OriginIn(t), DepthIn(s) = DepthIn(t), LayerIn(s) = LayerIn(t)
      PROVE  EntryLess(s, t) <=> SpecificityIn(s) < SpecificityIn(t)
  <2>1. Tier(s) = Tier(t) /\ Distance(s) = Distance(t) /\ Attached(s) = Attached(t) /\ LayerTurn(s) = LayerTurn(t)
    BY <1>5, Zenon DEF Tier, Distance, Attached, LayerTurn
  <2>. QED  BY <2>1, KeyParts DEF EntryLess
<1>6. NodeOf(u).priority = NodeOf(v).priority <=> NodeOf(x).priority = NodeOf(y).priority
  BY <1>2, <1>3, <1>4
<1>7. ASSUME NodeOf(x).priority = NodeOf(y).priority
      PROVE  EntryLess(x, y) <=> EntryLess(u, v)
  <2>1. OriginIn(x) = OriginIn(y) /\ DepthIn(x) = DepthIn(y) /\ LayerIn(x) = LayerIn(y)
    BY <1>4, <1>7
  <2>. QED  BY <1>2, <1>3, <1>5, <2>1
<1>. QED  BY <1>1, <1>6, <1>7

\* The order of SortedByPriority, for positions of a list.
BeforeIn(list, i, j) ==
  \/ PriorityLess(list[i].priority, list[j].priority)
  \/ ~PriorityLess(list[j].priority, list[i].priority) /\ i < j

\* The normal declarations of these rules, whose important ones are entries too.
BothNormal(E) == \A x \in E : IsNormal(x) /\ AsImp(x) \in Entry

\* The stable sort is that of the important entries.
LEMMA SortIsByEntry ==
  ASSUME PartsNear, NEW E \in SUBSET Entry, NEW n, NEW w, Listing(w, n, E), BothNormal(E),
         NEW list, list = [i \in 1 .. n |-> NodeOf(AsImp(w[i]))],
         NEW i \in 1 .. n, NEW j \in 1 .. n
  PROVE  /\ BeforeIn(list, i, j) <=> EntryLess(AsImp(w[i]), AsImp(w[j]))
         /\ i # j => EntryLess(AsImp(w[i]), AsImp(w[j])) \/ EntryLess(AsImp(w[j]), AsImp(w[i]))
         /\ i < j /\ list[i].priority = list[j].priority => EntryLess(AsImp(w[i]), AsImp(w[j]))
<1>1. n \in Nat /\ w \in [1 .. n -> E] /\ \A k, l \in 1 .. n : k < l => EntryLess(w[k], w[l])
  BY DEF Listing, Rising
<1>2. PICK x \in Entry, y \in Entry : x = w[i] /\ y = w[j]
  BY <1>1
<1>3. IsNormal(x) /\ IsNormal(y) /\ AsImp(x) \in Entry /\ AsImp(y) \in Entry
  BY <1>1, <1>2 DEF BothNormal
<1>4. PICK u \in Entry, v \in Entry : u = AsImp(x) /\ v = AsImp(y)
  BY <1>3
<1>5. list[i] = NodeOf(u) /\ list[j] = NodeOf(v)
  BY <1>2, <1>4
<1>6. PICK p \in Priority, q \in Priority : p = NodeOf(u).priority /\ q = NodeOf(v).priority
  BY NodeByParts
<1>7. PriorityLess(p, q) => EntryLess(u, v)
  BY <1>6, LessRefines
<1>8. PriorityLess(q, p) => EntryLess(v, u)
  BY <1>6, LessRefines
<1>9. p = q \/ PriorityLess(p, q) \/ PriorityLess(q, p)
  BY PriorityOrder
<1>10. ASSUME p = q PROVE (EntryLess(x, y) <=> EntryLess(u, v)) /\ (EntryLess(y, x) <=> EntryLess(v, u))
  BY <1>3, <1>4, <1>6, <1>10, ImportantOrder
<1>11. (i < j => EntryLess(x, y)) /\ (j < i => EntryLess(y, x)) /\ (i = j => u = v)
  BY <1>1, <1>2, <1>4
<1>12. ~(EntryLess(u, v) /\ EntryLess(v, u)) /\ ~EntryLess(u, u)
  BY EntryOrder
<1>13. ~PriorityLess(p, p)
  BY PriorityOrder
<1>14. BeforeIn(list, i, j) <=> PriorityLess(p, q) \/ (~PriorityLess(q, p) /\ i < j)
  BY <1>5, <1>6 DEF BeforeIn
<1>15. i < j \/ i = j \/ j < i
  BY <1>1
<1>16. BeforeIn(list, i, j) <=> EntryLess(u, v)
  BY <1>7, <1>8, <1>9, <1>10, <1>11, <1>12, <1>14, <1>15
<1>17. i # j => EntryLess(u, v) \/ EntryLess(v, u)
  BY <1>7, <1>8, <1>9, <1>10, <1>11, <1>15
<1>18. i < j /\ p = q => EntryLess(u, v)
  BY <1>10, <1>11
<1>. QED  BY <1>2, <1>4, <1>5, <1>6, <1>16, <1>17, <1>18

\* What a set is in order of, from the definition of the sort.
LEMMA ChosenInOrder ==
  ASSUME NEW S, IsFiniteSet(S), NEW R, StrictOrder(S, R), NEW w, DOMAIN w = 1 .. Cardinality(S),
         w = [i \in 1 .. Cardinality(S) |-> w[i]],
         \A i \in 1 .. Cardinality(S) :
           (\E x \in S : Cardinality(Earlier(S, R, x)) = i - 1)
             => w[i] \in S /\ Cardinality(Earlier(S, R, w[i])) = i - 1
  PROVE  InOrder(w, S, R)
<1>1. PICK m \in Nat : m = Cardinality(S)
  BY FS_CardinalityType
<1>2. ASSUME NEW i \in 1 .. m PROVE w[i] \in S /\ Cardinality(Earlier(S, R, w[i])) = i - 1
  <2>1. \E x \in S : Cardinality(Earlier(S, R, x)) = i - 1
    BY <1>1, RanksTaken
  <2>. QED  BY <1>1, <2>1
<1>3. w \in [1 .. m -> S]
  BY <1>1, <1>2
<1>. QED  BY <1>1, <1>2, <1>3, RankedInOrder

Importants(E) == {AsImp(x) : x \in E}

\* The position that comes k-th.
PlaceIn(list, k) ==
  CHOOSE i \in DOMAIN list : Cardinality({j \in DOMAIN list : BeforeIn(list, j, i)}) = k - 1

\* The important author rules, sorted where they have to be.
LEMMA SortedByPriorityIs ==
  ASSUME PartsNear, NEW E \in SUBSET Entry, NEW n, NEW w, Listing(w, n, E), BothNormal(E),
         NEW list, list = [i \in 1 .. n |-> NodeOf(AsImp(w[i]))]
  PROVE  PathIs(SortedByPriority(list), Importants(E))
<1>1. /\ n \in Nat /\ w \in [1 .. n -> E] /\ \A x \in E : \E i \in 1 .. n : w[i] = x
      /\ \A k, l \in 1 .. n : k < l => EntryLess(w[k], w[l])
  BY DEF Listing, Rising
<1>2. PICK y : y = [i \in 1 .. n |-> AsImp(w[i])]
  OBVIOUS
<1>3. PICK G \in SUBSET Entry : G = Importants(E)
  BY DEF Importants, BothNormal
<1>4. y \in [1 .. n -> G] /\ \A x \in G : \E i \in 1 .. n : y[i] = x
  BY <1>1, <1>2, <1>3 DEF Importants
<1>5. \A i \in 1 .. n : list[i] = NodeOf(y[i])
  BY <1>2
<1>6. ASSUME NEW i \in 1 .. n, NEW j \in 1 .. n
      PROVE  /\ BeforeIn(list, i, j) <=> EntryLess(y[i], y[j])
             /\ i # j => EntryLess(y[i], y[j]) \/ EntryLess(y[j], y[i])
             /\ i < j /\ list[i].priority = list[j].priority => EntryLess(y[i], y[j])
  BY <1>2, SortIsByEntry
<1>. DEFINE S == DOMAIN list
<1>7. S = 1 .. n
  OBVIOUS
<1>8. IsFiniteSet(S) /\ Cardinality(S) = n
  BY <1>1, <1>7, FS_Interval
<1>. HIDE DEF S
<1>9. PICK R : R = {q \in S \X S : EntryLess(y[q[1]], y[q[2]])}
  OBVIOUS
<1>10. StrictOrder(S, R)
  <2>1. \A i \in S : ~EntryLess(y[i], y[i])
    BY <1>4, <1>7, EntryOrder
  <2>2. \A i, j \in S : i = j \/ EntryLess(y[i], y[j]) \/ EntryLess(y[j], y[i])
    BY <1>6, <1>7
  <2>3. ASSUME NEW i \in S, NEW j \in S, NEW k \in S, EntryLess(y[i], y[j]), EntryLess(y[j], y[k])
        PROVE  EntryLess(y[i], y[k])
    <3>1. y[i] \in Entry /\ y[j] \in Entry /\ y[k] \in Entry
      BY <1>4, <1>7
    <3>. QED  BY <2>3, <3>1, EntryTransitive
  <2>. QED  BY <1>9, <2>1, <2>2, <2>3 DEF StrictOrder
<1>. DEFINE order == [k \in 1 .. Cardinality(S) |-> PlaceIn(list, k)]
<1>11. /\ DOMAIN order = 1 .. Cardinality(S) /\ order = [k \in 1 .. Cardinality(S) |-> order[k]]
       /\ \A k \in 1 .. Cardinality(S) : order[k] = PlaceIn(list, k)
  OBVIOUS
<1>12. SortedByPriority(list)
         = IF list = << >> \/ list[1].priority = list[Len(list)].priority
             THEN list
             ELSE [i \in S |-> list[order[i]]]
  BY Zenon DEF SortedByPriority, Ascending, BeforeIn, PlaceIn, S
<1>. HIDE DEF order
<1>13. InOrder(order, S, R)
  <2>1. ASSUME NEW i \in S PROVE {j \in S : BeforeIn(list, j, i)} = Earlier(S, R, i)
    <3>1. \A j \in S : BeforeIn(list, j, i) <=> <<j, i>> \in R
      BY <1>6, <1>7, <1>9
    <3>. QED  BY <3>1 DEF Earlier
  <2>2. ASSUME NEW k \in 1 .. Cardinality(S),
               \E i \in S : Cardinality(Earlier(S, R, i)) = k - 1
        PROVE  order[k] \in S /\ Cardinality(Earlier(S, R, order[k])) = k - 1
    <3>1. \E i \in S : Cardinality({j \in S : BeforeIn(list, j, i)}) = k - 1
      BY <2>1, <2>2
    <3>2. order[k] = CHOOSE i \in S : Cardinality({j \in S : BeforeIn(list, j, i)}) = k - 1
      BY <1>11, Zenon DEF PlaceIn, S
    <3>3. order[k] \in S /\ Cardinality({j \in S : BeforeIn(list, j, order[k])}) = k - 1
      BY <3>1, <3>2
    <3>. QED  BY <2>1, <3>3
  <2>. QED  BY <1>8, <1>10, <1>11, <2>2, ChosenInOrder
<1>14. /\ order \in [1 .. n -> S] /\ \A x \in S : \E i \in 1 .. n : order[i] = x
       /\ \A i, j \in 1 .. n : i < j => <<order[i], order[j]>> \in R
  BY <1>8, <1>13 DEF InOrder
<1>15. CASE ~(list = << >> \/ list[1].priority = list[Len(list)].priority)
  <2>1. PICK v : v = [i \in 1 .. n |-> y[order[i]]]
    OBVIOUS
  <2>2. v \in [1 .. n -> G]
    BY <1>4, <1>7, <1>14, <2>1
  <2>3. ASSUME NEW x \in G PROVE \E i \in 1 .. n : v[i] = x
    <3>1. PICK k \in 1 .. n : y[k] = x
      BY <1>4
    <3>2. PICK i \in 1 .. n : order[i] = k
      BY <1>7, <1>14
    <3>. QED  BY <2>1, <3>1, <3>2
  <2>4. \A i, j \in 1 .. n : i < j => EntryLess(v[i], v[j])
    BY <1>9, <1>14, <2>1
  <2>5. Listing(v, n, G)
    BY <1>1, <2>2, <2>3, <2>4 DEF Listing, Rising
  <2>6. SortedByPriority(list) = NodesOf(v, n)
    <3>1. \A i \in 1 .. n : list[order[i]] = NodeOf(v[i])
      BY <1>5, <1>7, <1>14, <2>1
    <3>. QED  BY <1>7, <1>12, <1>15, <3>1 DEF NodesOf
  <2>. QED  BY <1>3, <2>5, <2>6 DEF PathIs
<1>16. CASE list = << >> \/ list[1].priority = list[Len(list)].priority
  <2>1. SortedByPriority(list) = NodesOf(y, n)
    BY <1>2, <1>12, <1>16 DEF NodesOf
  <2>2. Len(list) = n
    BY <1>1
  <2>3. ASSUME NEW i \in 1 .. n, NEW j \in 1 .. n, i < j PROVE EntryLess(y[i], y[j])
    <3>1. n > 1 /\ 1 \in 1 .. n /\ n \in 1 .. n
      BY <1>1, <2>3
    <3>2. list[1].priority = list[n].priority
      <4>1. list # << >>
        BY <2>2, <3>1
      <4>. QED  BY <1>16, <2>2, <4>1
    <3>3. PICK a \in Entry, b \in Entry, c \in Entry : a = w[1] /\ b = w[n] /\ c = w[i]
      BY <1>1, <3>1
    <3>4. PICK d \in Entry : d = w[j]
      BY <1>1
    <3>5. /\ IsNormal(a) /\ IsNormal(b) /\ IsNormal(c) /\ IsNormal(d)
          /\ AsImp(a) \in Entry /\ AsImp(b) \in Entry /\ AsImp(c) \in Entry /\ AsImp(d) \in Entry
      BY <1>1, <3>1, <3>3, <3>4 DEF BothNormal
    <3>6. NodeOf(a).priority = NodeOf(b).priority
      <4>1. list[1] = NodeOf(AsImp(a)) /\ list[n] = NodeOf(AsImp(b))
        BY <3>1, <3>3
      <4>. QED  BY <3>2, <3>5, <4>1, ImportantOrder
    <3>7. ASSUME NEW e \in Entry, e = a \/ EntryLess(a, e), e = b \/ EntryLess(e, b)
          PROVE  NodeOf(e).priority = NodeOf(a).priority
      <4>1. PICK p \in Priority, q \in Priority : p = NodeOf(a).priority /\ q = NodeOf(e).priority
        BY NodeByParts
      <4>2. ~PriorityLess(q, p)
        <5>1. ~EntryLess(e, a)
          BY <3>7, EntryOrder
        <5>. QED  BY <4>1, <5>1, LessRefines
      <4>3. ~PriorityLess(p, q)
        <5>1. ~EntryLess(b, e)
          BY <3>7, EntryOrder
        <5>. QED  BY <3>6, <4>1, <5>1, LessRefines
      <4>. QED  BY <4>1, <4>2, <4>3, PriorityOrder
    <3>8. NodeOf(c).priority = NodeOf(a).priority
      <4>1. (c = a \/ EntryLess(a, c)) /\ (c = b \/ EntryLess(c, b))
        BY <1>1, <2>3, <3>1, <3>3
      <4>. QED  BY <3>7, <4>1
    <3>9. NodeOf(d).priority = NodeOf(a).priority
      <4>1. (d = a \/ EntryLess(a, d)) /\ (d = b \/ EntryLess(d, b))
        BY <1>1, <2>3, <3>1, <3>3, <3>4
      <4>. QED  BY <3>7, <4>1
    <3>10. EntryLess(c, d)
      BY <1>1, <2>3, <3>3, <3>4
    <3>11. EntryLess(AsImp(c), AsImp(d))
      BY <3>5, <3>8, <3>9, <3>10, ImportantOrder
    <3>. QED  BY <1>2, <3>3, <3>4, <3>11
  <2>4. Listing(y, n, G)
    BY <1>1, <1>4, <2>3 DEF Listing, Rising
  <2>. QED  BY <1>3, <2>1, <2>4 DEF PathIs
<1>. QED  BY <1>15, <1>16

-----------------------------------------------------------------------------
(* Collecting, by entries.                                                  *)

\* The normal declarations of a rule.
Nor(r) == <<r, "normal">>
Normals(rules) == {Nor(r) : r \in rules}

\* Rules of one tree whose sort keys differ.
OneKind(tree) ==
  \A r, q \in tree : /\ r.origin = q.origin /\ r.depth = q.depth
                     /\ r.layer = StyleAttributeLayer <=> q.layer = StyleAttributeLayer
                     /\ r.layer = q.layer /\ r.specificity = q.specificity => r = q

PlaceInTree(tree, k) ==
  CHOOSE r \in tree : Cardinality({q \in tree : SortKeyLess(q, r)}) = k - 1

\* Normal declarations are an entry.
LEMMA NormalEntry ==
  ASSUME NEW r \in ElementRule
  PROVE  /\ Nor(r) \in Entry /\ IsNormal(Nor(r))
         /\ OriginIn(Nor(r)) = r.origin /\ DepthIn(Nor(r)) = r.depth /\ LayerIn(Nor(r)) = r.layer
         /\ SpecificityIn(Nor(r)) = r.specificity /\ BlockIn(Nor(r)) = r.block
         /\ NodeOf(Nor(r)) = Applicable(Slots, r)
<1>1. PICK x : x = Nor(r)
  OBVIOUS
<1>2. x = <<r, "normal">> /\ x[1] = r /\ x[2] = "normal"
  BY <1>1 DEF Nor
<1>3. x \in Entry
  BY <1>2 DEF Entry, Importance
<1>4. IsNormal(x)
  BY <1>2 DEF IsNormal
<1>5. /\ OriginIn(x) = r.origin /\ DepthIn(x) = r.depth /\ LayerIn(x) = r.layer
      /\ SpecificityIn(x) = r.specificity /\ BlockIn(x) = r.block
  BY <1>2, Zenon DEF OriginIn, DepthIn, LayerIn, SpecificityIn, BlockIn
<1>6. LevelIn(x) = LevelOf(Slots, r)
  BY <1>2, <1>4, Zenon DEF LevelIn
<1>7. NodeOf(x) = Applicable(Slots, r)
  BY <1>5, <1>6, Zenon DEF NodeOf, Applicable
<1>. QED  BY <1>1, <1>3, <1>4, <1>5, <1>7

\* In a tree the sort key is the order of entries.
LEMMA SortKeyByEntry ==
  ASSUME NEW tree \in SUBSET ElementRule, OneKind(tree), NEW r \in tree, NEW q \in tree
  PROVE  /\ SortKeyLess(r, q) <=> EntryLess(Nor(r), Nor(q))
         /\ r = q \/ EntryLess(Nor(r), Nor(q)) \/ EntryLess(Nor(q), Nor(r))
<1>1. PICK x \in Entry, y \in Entry : x = Nor(r) /\ y = Nor(q)
  BY NormalEntry
<1>2. PICK l, m, s, t : l = LayerIn(x) /\ m = LayerIn(y) /\ s = SpecificityIn(x) /\ t = SpecificityIn(y)
  OBVIOUS
<1>3. r \in ElementRule /\ q \in ElementRule
  OBVIOUS
<1>4. r.layer = l /\ q.layer = m /\ r.specificity = s /\ q.specificity = t
  BY <1>1, <1>2, <1>3, NormalEntry
<1>5. l \in LayerOrder /\ m \in LayerOrder /\ s \in Int /\ t \in Int
  BY <1>2, EntryParts, Zenon DEF PartsFit
<1>6. l \in Int /\ m \in Int
  BY <1>5, LayerNumbers
<1>7. OriginIn(x) = OriginIn(y) /\ DepthIn(x) = DepthIn(y) /\ IsNormal(x) /\ IsNormal(y)
  <2>1. r.origin = q.origin /\ r.depth = q.depth
    BY DEF OneKind
  <2>. QED  BY <1>1, <1>3, <2>1, NormalEntry
<1>8. (l = StyleAttributeLayer <=> m = StyleAttributeLayer) /\ (l = m /\ s = t => r = q)
  BY <1>4 DEF OneKind
<1>9. Tier(x) = Tier(y) /\ Distance(x) = Distance(y)
  BY <1>7, Zenon DEF Tier, Distance
<1>10. Attached(x) = Attached(y) /\ LayerTurn(x) = l /\ LayerTurn(y) = m
  BY <1>2, <1>7, <1>8, Zenon DEF Attached, LayerTurn
<1>11. EntryLess(x, y) <=> l < m \/ (l = m /\ s < t)
  BY <1>2, <1>9, <1>10, KeyParts DEF EntryLess
<1>12. EntryLess(y, x) <=> m < l \/ (l = m /\ t < s)
  BY <1>2, <1>9, <1>10, KeyParts DEF EntryLess
<1>13. SortKeyLess(r, q) <=> l < m \/ (l = m /\ s < t)
  BY <1>4 DEF SortKeyLess
<1>. QED  BY <1>1, <1>5, <1>6, <1>8, <1>11, <1>12, <1>13

\* in_tree: the rules of a tree in their order.
LEMMA SortedTreeIs ==
  ASSUME NEW tree \in SUBSET ElementRule, IsFiniteSet(tree), OneKind(tree)
  PROVE  PathIs(SortedTree(Slots, tree), Normals(tree))
<1>1. PICK n \in Nat : n = Cardinality(tree)
  BY FS_CardinalityType
<1>2. PICK R : R = {q \in tree \X tree : EntryLess(Nor(q[1]), Nor(q[2]))}
  OBVIOUS
<1>3. \A r \in tree : Nor(r) \in Entry
  BY NormalEntry
<1>4. StrictOrder(tree, R)
  <2>1. \A r \in tree : ~EntryLess(Nor(r), Nor(r))
    BY <1>3, EntryOrder
  <2>2. \A r, q \in tree : r = q \/ EntryLess(Nor(r), Nor(q)) \/ EntryLess(Nor(q), Nor(r))
    BY SortKeyByEntry
  <2>3. \A r, q, s \in tree : EntryLess(Nor(r), Nor(q)) /\ EntryLess(Nor(q), Nor(s)) => EntryLess(Nor(r), Nor(s))
    BY <1>3, EntryTransitive
  <2>. QED  BY <1>2, <2>1, <2>2, <2>3 DEF StrictOrder
<1>. DEFINE sorted == [k \in 1 .. Cardinality(tree) |-> PlaceInTree(tree, k)]
<1>5. /\ DOMAIN sorted = 1 .. Cardinality(tree) /\ sorted = [k \in 1 .. Cardinality(tree) |-> sorted[k]]
      /\ \A k \in 1 .. Cardinality(tree) : sorted[k] = PlaceInTree(tree, k)
  OBVIOUS
<1>6. SortedTree(Slots, tree) = [i \in DOMAIN sorted |-> Applicable(Slots, sorted[i])]
  BY Zenon DEF SortedTree, Ascending, PlaceInTree
<1>. HIDE DEF sorted
<1>7. InOrder(sorted, tree, R)
  <2>1. ASSUME NEW r \in tree PROVE {q \in tree : SortKeyLess(q, r)} = Earlier(tree, R, r)
    <3>1. \A q \in tree : SortKeyLess(q, r) <=> <<q, r>> \in R
      BY <1>2, SortKeyByEntry
    <3>. QED  BY <3>1 DEF Earlier
  <2>2. ASSUME NEW k \in 1 .. Cardinality(tree),
               \E r \in tree : Cardinality(Earlier(tree, R, r)) = k - 1
        PROVE  sorted[k] \in tree /\ Cardinality(Earlier(tree, R, sorted[k])) = k - 1
    <3>1. \E r \in tree : Cardinality({q \in tree : SortKeyLess(q, r)}) = k - 1
      BY <2>1, <2>2
    <3>2. sorted[k] = CHOOSE r \in tree : Cardinality({q \in tree : SortKeyLess(q, r)}) = k - 1
      BY <1>5, Zenon DEF PlaceInTree
    <3>3. sorted[k] \in tree /\ Cardinality({q \in tree : SortKeyLess(q, sorted[k])}) = k - 1
      BY <3>1, <3>2
    <3>. QED  BY <2>1, <3>3
  <2>. QED  BY <1>4, <1>5, <2>2, ChosenInOrder
<1>8. /\ sorted \in [1 .. n -> tree] /\ \A r \in tree : \E i \in 1 .. n : sorted[i] = r
      /\ \A i, j \in 1 .. n : i < j => <<sorted[i], sorted[j]>> \in R
  BY <1>1, <1>7 DEF InOrder
<1>9. PICK w : w = [i \in 1 .. n |-> Nor(sorted[i])]
  OBVIOUS
<1>10. Listing(w, n, Normals(tree))
  <2>1. w \in [1 .. n -> Normals(tree)]
    BY <1>8, <1>9 DEF Normals
  <2>2. \A x \in Normals(tree) : \E i \in 1 .. n : w[i] = x
    BY <1>8, <1>9 DEF Normals
  <2>3. \A i, j \in 1 .. n : i < j => EntryLess(w[i], w[j])
    BY <1>2, <1>8, <1>9
  <2>. QED  BY <2>1, <2>2, <2>3 DEF Listing, Rising
<1>11. SortedTree(Slots, tree) = NodesOf(w, n)
  <2>1. \A i \in 1 .. n : Applicable(Slots, sorted[i]) = NodeOf(w[i])
    BY <1>8, <1>9, NormalEntry
  <2>. QED  BY <1>1, <1>5, <1>6, <2>1 DEF NodesOf
<1>12. Normals(tree) \subseteq Entry
  BY <1>3 DEF Normals
<1>. QED  BY <1>10, <1>11, <1>12 DEF PathIs

\* Rules whose order is settled, without a @position-try rule.
Collectable(rules) ==
  /\ rules \subseteq ElementRule /\ IsFiniteSet(rules)
  /\ \A r \in rules : r.origin # PositionFallback
  /\ \A r, q \in rules : (/\ r.origin = q.origin /\ r.depth = q.depth
                          /\ r.layer = q.layer /\ r.specificity = q.specificity) => r = q

\* The trees in the order of collect_all.
TreesOf(rules) ==
  <<Of(rules, UA), Of(rules, User), Of(rules, PresHints)>>
  \o HostAndSlotted(rules, Slots)
  \o <<TreeRules(rules, 0), StyleAttribute(rules)>>
  \o PartsFromOuterTrees(rules, Outer)
  \o AnimationRules(rules)

\* Which of them a rule is in.
TreeNumber(o, d, l) ==
  IF o < 3 THEN o + 1
    ELSE IF o = 3 THEN IF d < 0 THEN Slots + 5 + d
                       ELSE IF l = StyleAttributeLayer THEN Slots + 6
                       ELSE IF d = 0 THEN Slots + 5 ELSE Slots + 6 + d
    ELSE Slots + Outer + 2 + o
TreeOf(r) == TreeNumber(r.origin, r.depth, r.layer)

\* A rule of an element by its parts.
LEMMA RuleParts ==
  ASSUME NEW r \in ElementRule
  PROVE  /\ r.origin \in 0 .. 7 /\ r.depth \in Int /\ -(Slots + 1) <= r.depth /\ r.depth <= Outer
         /\ r.layer \in LayerOrder /\ r.specificity \in Int
         /\ r.origin # 3 => r.depth = 0
         /\ r.layer = StyleAttributeLayer => r.origin = 3 /\ r.depth = 0 /\ r.specificity = 0
<1>1. PICK x \in Entry : x = Nor(r)
  BY NormalEntry
<1>2. /\ OriginIn(x) = r.origin /\ DepthIn(x) = r.depth /\ LayerIn(x) = r.layer
      /\ SpecificityIn(x) = r.specificity
  BY <1>1, NormalEntry
<1>. QED  BY <1>2, EntryParts, Zenon DEF PartsFit

IsJoined(s, k, s1, m, s2) == \A i \in 1 .. k : s[i] = IF i <= m THEN s1[i] ELSE s2[i - m]

\* Two sequences one after the other.
LEMMA Joined ==
  ASSUME NEW T, NEW s1 \in Seq(T), NEW s2 \in Seq(T)
  PROVE  /\ s1 \o s2 \in Seq(T) /\ Len(s1 \o s2) = Len(s1) + Len(s2)
         /\ IsJoined(s1 \o s2, Len(s1) + Len(s2), s1, Len(s1), s2)
BY ConcatProperties DEF IsJoined

\* The trees are those of the rules, each in its place.
LEMMA TreesInPlace ==
  ASSUME NEW rules, Collectable(rules)
  PROVE  /\ TreesOf(rules) \in Seq(SUBSET rules) /\ Len(TreesOf(rules)) = Slots + Outer + 9
         /\ \A k \in 1 .. Slots + Outer + 9 : TreesOf(rules)[k] = {r \in rules : TreeOf(r) = k}
<1>1. Slots \in Nat /\ Outer \in Nat
  BY SlotsAssumption
<1>2. PICK T : T = SUBSET rules
  OBVIOUS
<1>. DEFINE a == <<Of(rules, UA), Of(rules, User), Of(rules, PresHints)>>
            b == HostAndSlotted(rules, Slots)
            c == <<TreeRules(rules, 0), StyleAttribute(rules)>>
            d == PartsFromOuterTrees(rules, Outer)
            e == AnimationRules(rules)
<1>3. /\ \A o : Of(rules, o) \in T
      /\ \A k : TreeRules(rules, k) \in T
      /\ StyleAttribute(rules) \in T
  BY <1>2 DEF Of, TreeRules, StyleAttribute
<1>4. a \in Seq(T) /\ Len(a) = 3 /\ a[1] = Of(rules, UA) /\ a[2] = Of(rules, User) /\ a[3] = Of(rules, PresHints)
  BY <1>3
<1>5. b \in Seq(T) /\ Len(b) = Slots + 1 /\ \A i \in 1 .. Slots + 1 : b[i] = TreeRules(rules, i - Slots - 2)
  BY <1>1, <1>3 DEF HostAndSlotted
<1>6. c \in Seq(T) /\ Len(c) = 2 /\ c[1] = TreeRules(rules, 0) /\ c[2] = StyleAttribute(rules)
  BY <1>3
<1>7. d \in Seq(T) /\ Len(d) = Outer /\ \A i \in 1 .. Outer : d[i] = TreeRules(rules, i)
  BY <1>1, <1>3 DEF PartsFromOuterTrees
<1>8. /\ e \in Seq(T) /\ Len(e) = 3
      /\ e[1] = Of(rules, SMILOverride) /\ e[2] = Of(rules, Animations) /\ e[3] = Of(rules, Transitions)
  BY <1>3 DEF AnimationRules
<1>9. TreesOf(rules) = (((a \o b) \o c) \o d) \o e
  BY DEF TreesOf
<1>. HIDE DEF a, b, c, d, e
<1>10. PICK f : f = a \o b
  OBVIOUS
<1>11. /\ f \in Seq(T) /\ Len(f) = Slots + 4
       /\ \A k \in 1 .. Slots + 4 : f[k] = IF k <= 3 THEN a[k] ELSE b[k - 3]
  <2>1. PICK m, j, n : m \in Nat /\ j \in Nat /\ n \in Nat /\ m = 3 /\ j = Slots + 1 /\ n = Slots + 4 /\ n = m + j
    BY <1>1
  <2>2. a \in Seq(T) /\ b \in Seq(T) /\ Len(a) = m /\ Len(b) = j /\ m \in Nat /\ j \in Nat /\ n = m + j
    BY <1>4, <1>5, <2>1
  <2>3. f \in Seq(T) /\ Len(f) = n /\ IsJoined(f, n, a, m, b)
    BY ONLY <1>10, <2>2, Joined
  <2>. QED  BY <1>1, <2>1, <2>3 DEF IsJoined
<1>12. PICK g : g = f \o c
  OBVIOUS
<1>13. /\ g \in Seq(T) /\ Len(g) = Slots + 6
       /\ \A k \in 1 .. Slots + 6 : g[k] = IF k <= Slots + 4 THEN f[k] ELSE c[k - (Slots + 4)]
  <2>1. PICK m, j, n : m \in Nat /\ j \in Nat /\ n \in Nat /\ m = Slots + 4 /\ j = 2 /\ n = Slots + 6 /\ n = m + j
    BY <1>1
  <2>2. f \in Seq(T) /\ c \in Seq(T) /\ Len(f) = m /\ Len(c) = j /\ m \in Nat /\ j \in Nat /\ n = m + j
    BY <1>6, <1>11, <2>1
  <2>3. g \in Seq(T) /\ Len(g) = n /\ IsJoined(g, n, f, m, c)
    BY ONLY <1>12, <2>2, Joined
  <2>. QED  BY <1>1, <2>1, <2>3 DEF IsJoined
<1>14. PICK h : h = g \o d
  OBVIOUS
<1>15. /\ h \in Seq(T) /\ Len(h) = Slots + Outer + 6
       /\ \A k \in 1 .. Slots + Outer + 6 : h[k] = IF k <= Slots + 6 THEN g[k] ELSE d[k - (Slots + 6)]
  <2>1. PICK m, j, n : m \in Nat /\ j \in Nat /\ n \in Nat /\ m = Slots + 6 /\ j = Outer /\ n = Slots + Outer + 6 /\ n = m + j
    BY <1>1
  <2>2. g \in Seq(T) /\ d \in Seq(T) /\ Len(g) = m /\ Len(d) = j /\ m \in Nat /\ j \in Nat /\ n = m + j
    BY <1>7, <1>13, <2>1
  <2>3. h \in Seq(T) /\ Len(h) = n /\ IsJoined(h, n, g, m, d)
    BY ONLY <1>14, <2>2, Joined
  <2>. QED  BY <1>1, <2>1, <2>3 DEF IsJoined
<1>16. PICK t : t = h \o e
  OBVIOUS
<1>17. /\ t \in Seq(T) /\ Len(t) = Slots + Outer + 9
       /\ \A k \in 1 .. Slots + Outer + 9 :
            t[k] = IF k <= Slots + Outer + 6 THEN h[k] ELSE e[k - (Slots + Outer + 6)]
  <2>1. PICK m, j, n : m \in Nat /\ j \in Nat /\ n \in Nat /\ m = Slots + Outer + 6 /\ j = 3 /\ n = Slots + Outer + 9 /\ n = m + j
    BY <1>1
  <2>2. h \in Seq(T) /\ e \in Seq(T) /\ Len(h) = m /\ Len(e) = j /\ m \in Nat /\ j \in Nat /\ n = m + j
    BY <1>8, <1>15, <2>1
  <2>3. t \in Seq(T) /\ Len(t) = n /\ IsJoined(t, n, h, m, e)
    BY ONLY <1>16, <2>2, Joined
  <2>. QED  BY <1>1, <2>1, <2>3 DEF IsJoined
<1>18. t = TreesOf(rules)
  BY <1>9, <1>10, <1>12, <1>14, <1>16
<1>20. \A k \in 1 .. Slots + 4 : t[k] = f[k]
  <2>1. ASSUME NEW k \in 1 .. Slots + 4 PROVE t[k] = f[k]
    <3>1. /\ k \in 1 .. Slots + 6 /\ k <= Slots + 4
          /\ k \in 1 .. Slots + Outer + 6 /\ k <= Slots + 6
          /\ k \in 1 .. Slots + Outer + 9 /\ k <= Slots + Outer + 6
      BY <1>1
    <3>2. g[k] = f[k]
      BY <1>13, <3>1
    <3>3. h[k] = g[k]
      BY <1>15, <3>1
    <3>4. t[k] = h[k]
      BY <1>17, <3>1
    <3>. QED  BY <3>2, <3>3, <3>4
  <2>. QED  BY <2>1
<1>19. ASSUME NEW k \in 1 .. Slots + Outer + 9
       PROVE  t[k] = {r \in rules : TreeOf(r) = k}
  <2>1. ASSUME NEW r \in rules
        PROVE  /\ r.origin \in 0 .. 7 /\ r.origin # 4 /\ r.depth \in Int
               /\ -(Slots + 1) <= r.depth /\ r.depth <= Outer /\ (r.origin # 3 => r.depth = 0)
               /\ (r.layer = StyleAttributeLayer => r.origin = 3 /\ r.depth = 0)
    <3>1. r \in ElementRule /\ r.origin # 4
      BY DEF Collectable, PositionFallback
    <3>. QED  BY <3>1, RuleParts, Zenon
  <2>2. ASSUME NEW r \in rules PROVE r \in t[k] <=> TreeOf(r) = k
    <3>1. PICK o, x, l : o = r.origin /\ x = r.depth /\ l = r.layer
      OBVIOUS
    <3>2. /\ o \in 0 .. 7 /\ o # 4 /\ x \in Int /\ -(Slots + 1) <= x /\ x <= Outer /\ (o # 3 => x = 0)
          /\ (l = StyleAttributeLayer => o = 3 /\ x = 0)
      BY <2>1, <3>1, Zenon
    <3>3. TreeOf(r) = TreeNumber(o, x, l)
      BY <3>1 DEF TreeOf
    <3>4. \A z : r \in Of(rules, z) <=> o = z
      BY <3>1 DEF Of
    <3>5. \A z : r \in TreeRules(rules, z) <=> o = 3 /\ x = z /\ l # StyleAttributeLayer
      BY <3>1, <3>4 DEF TreeRules, Author
    <3>6. r \in StyleAttribute(rules) <=> o = 3 /\ l = StyleAttributeLayer
      BY <3>1, <3>4 DEF StyleAttribute, Author
    <3>7. CASE k \in 1 .. 3
      <4>1. t[k] = Of(rules, k - 1)
        <5>1. t[k] = a[k]
          <6>1. k \in 1 .. Slots + 4 /\ k <= 3
            BY <1>1, <3>7
          <6>. QED  BY <1>11, <1>20, <6>1
        <5>2. a[k] = Of(rules, k - 1)
          BY <1>4, <3>7 DEF UA, User, PresHints
        <5>. QED  BY <5>1, <5>2
      <4>. QED  BY <1>1, <3>2, <3>3, <3>4, <3>7, <4>1 DEF TreeNumber
    <3>8. CASE k \in 4 .. Slots + 4
      <4>1. k - 3 \in 1 .. Slots + 1 /\ (k - 3) - Slots - 2 = k - (Slots + 5)
        BY <1>1, <3>8
      <4>2. f[k] = b[k - 3] /\ k \in 1 .. Slots + 4
        BY <1>1, <1>11, <3>8
      <4>3. t[k] = f[k]
        BY <1>20, <4>2
      <4>4. t[k] = TreeRules(rules, k - (Slots + 5))
        BY <1>5, <4>1, <4>2, <4>3
      <4>. QED  BY <1>1, <3>2, <3>3, <3>5, <3>8, <4>4 DEF TreeNumber
    <3>9. CASE k = Slots + 5
      <4>1. t[k] = TreeRules(rules, 0)
        BY <1>1, <1>6, <1>13, <1>15, <1>17, <3>9
      <4>. QED  BY <1>1, <3>2, <3>3, <3>5, <3>9, <4>1 DEF TreeNumber
    <3>10. CASE k = Slots + 6
      <4>1. t[k] = StyleAttribute(rules)
        BY <1>1, <1>6, <1>13, <1>15, <1>17, <3>10
      <4>. QED  BY <1>1, <3>2, <3>3, <3>6, <3>10, <4>1 DEF TreeNumber
    <3>11. CASE k \in Slots + 7 .. Slots + Outer + 6
      <4>1. k - (Slots + 6) \in 1 .. Outer
        BY <1>1, <3>11
      <4>2. t[k] = TreeRules(rules, k - (Slots + 6))
        BY <1>1, <1>7, <1>15, <1>17, <3>11, <4>1
      <4>. QED  BY <1>1, <3>2, <3>3, <3>5, <3>11, <4>2 DEF TreeNumber
    <3>12. CASE k \in Slots + Outer + 7 .. Slots + Outer + 9
      <4>1. t[k] = Of(rules, k - (Slots + Outer + 2))
        <5>1. PICK j \in 1 .. 3 : j = k - (Slots + Outer + 6)
          BY <1>1, <3>12
        <5>2. t[k] = e[j]
          BY <1>1, <1>17, <3>12, <5>1
        <5>3. e[j] = Of(rules, j + 4)
          BY <1>8 DEF SMILOverride, Animations, Transitions
        <5>4. j + 4 = k - (Slots + Outer + 2)
          BY <1>1, <5>1
        <5>. QED  BY <5>2, <5>3, <5>4
      <4>. QED  BY <1>1, <3>2, <3>3, <3>4, <3>12, <4>1 DEF TreeNumber
    <3>. QED  BY <1>1, <3>7, <3>8, <3>9, <3>10, <3>11, <3>12
  <2>3. t[k] \in SUBSET rules
    BY <1>2, <1>17
  <2>. QED  BY <2>2, <2>3
<1>. QED  BY <1>2, <1>17, <1>18, <1>19

\* The trees are in the order of their rules' entries.
LEMMA TreesInOrder ==
  ASSUME NEW rules, Collectable(rules), NEW r \in rules, NEW q \in rules
  PROVE  /\ TreeOf(r) \in 1 .. Slots + Outer + 9
         /\ TreeOf(r) < TreeOf(q) => EntryLess(Nor(r), Nor(q))
         /\ TreeOf(r) = TreeOf(q)
              => /\ r.origin = q.origin /\ r.depth = q.depth
                 /\ r.layer = StyleAttributeLayer <=> q.layer = StyleAttributeLayer
<1>1. Slots \in Nat /\ Outer \in Nat
  BY SlotsAssumption
<1>2. PICK o, d, l : o = r.origin /\ d = r.depth /\ l = r.layer
  OBVIOUS
<1>3. PICK p, e, m : p = q.origin /\ e = q.depth /\ m = q.layer
  OBVIOUS
<1>4. r \in ElementRule /\ q \in ElementRule /\ o # 4 /\ p # 4
  BY <1>2, <1>3 DEF Collectable, PositionFallback
<1>5. /\ o \in 0 .. 7 /\ d \in Int /\ -(Slots + 1) <= d /\ d <= Outer /\ (o # 3 => d = 0)
      /\ (l = StyleAttributeLayer => o = 3 /\ d = 0)
  BY <1>2, <1>4, RuleParts, Zenon
<1>6. /\ p \in 0 .. 7 /\ e \in Int /\ -(Slots + 1) <= e /\ e <= Outer /\ (p # 3 => e = 0)
      /\ (m = StyleAttributeLayer => p = 3 /\ e = 0)
  BY <1>3, <1>4, RuleParts, Zenon
<1>7. PICK k, j : k = TreeNumber(o, d, l) /\ j = TreeNumber(p, e, m)
  OBVIOUS
<1>8. k = IF o < 3 THEN o + 1
          ELSE IF o = 3 THEN IF d < 0 THEN Slots + 5 + d
                             ELSE IF l = StyleAttributeLayer THEN Slots + 6
                             ELSE IF d = 0 THEN Slots + 5 ELSE Slots + 6 + d
          ELSE Slots + Outer + 2 + o
  BY <1>7 DEF TreeNumber
<1>9. j = IF p < 3 THEN p + 1
          ELSE IF p = 3 THEN IF e < 0 THEN Slots + 5 + e
                             ELSE IF m = StyleAttributeLayer THEN Slots + 6
                             ELSE IF e = 0 THEN Slots + 5 ELSE Slots + 6 + e
          ELSE Slots + Outer + 2 + p
  BY <1>7 DEF TreeNumber
<1>10. PICK la, ma : la = (l = StyleAttributeLayer) /\ ma = (m = StyleAttributeLayer)
  OBVIOUS
<1>11. k \in 1 .. Slots + Outer + 9
  BY <1>1, <1>4, <1>5, <1>8
<1>12. k = j => o = p /\ d = e /\ (l = StyleAttributeLayer <=> m = StyleAttributeLayer)
  BY <1>1, <1>4, <1>5, <1>6, <1>8, <1>9
<1>13. k < j => \/ o < p
                \/ o = p /\ d < e
                \/ o = p /\ d = e /\ l # StyleAttributeLayer /\ m = StyleAttributeLayer
  BY <1>1, <1>4, <1>5, <1>6, <1>8, <1>9
<1>14. PICK x \in Entry, y \in Entry : x = Nor(r) /\ y = Nor(q)
  BY <1>4, NormalEntry
<1>15. /\ IsNormal(x) /\ OriginIn(x) = o /\ DepthIn(x) = d /\ LayerIn(x) = l
       /\ IsNormal(y) /\ OriginIn(y) = p /\ DepthIn(y) = e /\ LayerIn(y) = m
  BY <1>2, <1>3, <1>4, <1>14, NormalEntry
<1>16. PICK t, u, a, b : t = Tier(x) /\ u = Tier(y) /\ a = Attached(x) /\ b = Attached(y)
  OBVIOUS
<1>17. /\ t = (IF o = 7 THEN 20 ELSE o) /\ u = (IF p = 7 THEN 20 ELSE p)
       /\ Distance(x) = d /\ Distance(y) = e
  BY <1>15, <1>16, Zenon DEF Tier, Distance, Transitions
<1>18. /\ a = (IF l = StyleAttributeLayer THEN 1 ELSE 0) /\ b = (IF m = StyleAttributeLayer THEN 1 ELSE 0)
  BY <1>15, <1>16, Zenon DEF Attached
<1>19. k < j => \/ t < u
                \/ t = u /\ d < e
                \/ t = u /\ d = e /\ a < b
  BY <1>5, <1>6, <1>13, <1>17, <1>18
<1>20. k < j => EntryLess(x, y)
  BY <1>16, <1>17, <1>19 DEF EntryLess
<1>21. TreeOf(r) = k /\ TreeOf(q) = j
  BY <1>2, <1>3, <1>7 DEF TreeOf
<1>. QED  BY <1>2, <1>3, <1>11, <1>12, <1>14, <1>20, <1>21

\* What in_tree adds, tree after tree.
AddedUpTo(rules, i) == {r \in rules : TreeOf(r) <= i}

\* Collecting in turn.
LEMMA CollectInTurn ==
  ASSUME PartsNear, NEW rules, Collectable(rules)
  PROVE  \E g \in [0 .. Slots + Outer + 9 -> Seq(NodeSet)] :
           /\ g[0] = << >> /\ g[Slots + Outer + 9] = Collect(rules, Slots, Outer)
           /\ \A i \in 1 .. Slots + Outer + 9 : g[i] = g[i - 1] \o SortedTree(Slots, TreesOf(rules)[i])
<1>. DEFINE n == Slots + Outer + 9
            v == TreesOf(rules)
            D == Seq(NodeSet)
            f == [x \in (1 .. n) \X D |-> x[2] \o SortedTree(Slots, v[x[1]])]
            Eq(h) == h = [q \in SUBSET (1 .. n) |->
                            IF q = {} THEN << >> ELSE h[q \ {Max(q)}] \o SortedTree(Slots, v[Max(q)])]
<1>1. n \in Nat /\ DOMAIN v = 1 .. n /\ Len(v) = n
  <2>1. n \in Nat
    BY SlotsAssumption
  <2>2. v \in Seq(SUBSET rules) /\ Len(v) = n
    BY TreesInPlace
  <2>. HIDE DEF n, v
  <2>. QED  BY <2>1, <2>2
<1>2. << >> \in D
  OBVIOUS
<1>3. ASSUME NEW i \in 1 .. n PROVE SortedTree(Slots, v[i]) \in D
  <2>1. PICK tree : tree = v[i]
    OBVIOUS
  <2>2. tree = {r \in rules : TreeOf(r) = i}
    BY <2>1, TreesInPlace
  <2>3. tree \in SUBSET ElementRule /\ IsFiniteSet(tree)
    BY <2>2, FS_Subset DEF Collectable
  <2>4. OneKind(tree)
    <3>1. ASSUME NEW r \in tree, NEW q \in tree
          PROVE  /\ r.origin = q.origin /\ r.depth = q.depth
                 /\ r.layer = StyleAttributeLayer <=> q.layer = StyleAttributeLayer
                 /\ r.layer = q.layer /\ r.specificity = q.specificity => r = q
      <4>1. r \in rules /\ q \in rules /\ TreeOf(r) = TreeOf(q)
        BY <2>2
      <4>2. /\ r.origin = q.origin /\ r.depth = q.depth
            /\ r.layer = StyleAttributeLayer <=> q.layer = StyleAttributeLayer
        BY <4>1, TreesInOrder
      <4>. QED  BY <4>1, <4>2 DEF Collectable
    <3>. QED  BY <3>1 DEF OneKind
  <2>5. PathIs(SortedTree(Slots, tree), Normals(tree))
    BY <2>3, <2>4, SortedTreeIs
  <2>. QED  BY <2>1, <2>5, PathIsOrdered
<1>4. Collect(rules, Slots, Outer) = FoldLeft(LAMBDA list, tree : list \o SortedTree(Slots, tree), << >>, v)
  BY Zenon DEF Collect, TreesOf
<1>. HIDE DEF n, v
<1>5. ASSUME NEW i \in 1 .. n, NEW p \in D PROVE p \o SortedTree(Slots, v[i]) \in D
  BY <1>3, ConcatProperties
<1>6. f \in [(1 .. n) \X D -> D] /\ \A i \in 1 .. n, p \in D : f[<<i, p>>] = p \o SortedTree(Slots, v[i])
  BY <1>5
<1>. HIDE DEF f, D
<1>7. PICK h \in [SUBSET (1 .. n) -> D] : IsFold(h, n, << >>, f)
  <2>1. PICK f1, D1, b1 : f1 = f /\ D1 = D /\ b1 = << >>
    OBVIOUS
  <2>2. f1 \in [(1 .. n) \X D1 -> D1] /\ b1 \in D1
    BY <1>2, <1>6, <2>1
  <2>3. \E h \in [SUBSET (1 .. n) -> D1] : IsFold(h, n, b1, f1)
    BY ONLY <1>1, <2>2, FoldExists
  <2>. QED  BY <2>1, <2>3
<1>8. Eq(h)
  <2>1. ASSUME NEW q \in SUBSET (1 .. n), q # {}
        PROVE  h[q] = h[q \ {Max(q)}] \o SortedTree(Slots, v[Max(q)])
    <3>1. Max(q) \in 1 .. n
      BY <1>1, <2>1, LastPosition
    <3>2. h[q \ {Max(q)}] \in D
      BY <2>1
    <3>3. h[q] = f[<<Max(q), h[q \ {Max(q)}]>>]
      BY <1>7, <2>1 DEF IsFold
    <3>. QED  BY <1>6, <3>1, <3>2, <3>3
  <2>2. h[{}] = << >>
    <3>1. {} \in SUBSET (1 .. n)
      OBVIOUS
    <3>. QED  BY <1>7, <3>1 DEF IsFold
  <2>. QED  BY <2>1, <2>2
<1>9. PICK c : Eq(c) /\ Collect(rules, Slots, Outer) = c[1 .. n]
  <2>1. Collect(rules, Slots, Outer) = (CHOOSE c : Eq(c))[1 .. n]
    BY <1>1, <1>4 DEF FoldLeft, MapThenFoldSet
  <2>. HIDE DEF Eq
  <2>. QED  BY <1>8, <2>1
<1>. DEFINE g == [i \in 0 .. n |-> c[1 .. i]]
<1>10. g[0] = << >>
  <2>1. 1 .. 0 = {} /\ {} \in SUBSET (1 .. n)
    OBVIOUS
  <2>2. c[{}] = << >>
    BY <1>9, <2>1
  <2>3. 0 \in 0 .. n
    BY <1>1
  <2>4. g[0] = c[1 .. 0]
    BY <2>3
  <2>. QED  BY <2>1, <2>2, <2>4
<1>11. ASSUME NEW i \in 1 .. n PROVE g[i] = g[i - 1] \o SortedTree(Slots, v[i])
  <2>1. /\ (1 .. i) \in SUBSET (1 .. n) /\ 1 .. i # {}
        /\ Max(1 .. i) = i /\ (1 .. i) \ {Max(1 .. i)} = 1 .. (i - 1)
    BY <1>1, LastOfPrefix
  <2>2. c[1 .. i] = c[1 .. (i - 1)] \o SortedTree(Slots, v[i])
    BY <1>9, <2>1
  <2>3. i \in 0 .. n /\ i - 1 \in 0 .. n
    BY <1>1
  <2>. QED  BY <2>2, <2>3
<1>12. n \in 0 .. n
  BY <1>1
<1>13. g[n] = Collect(rules, Slots, Outer)
  BY <1>9, <1>12
<1>. HIDE DEF g
<1>14. \A i \in 0 .. n : g[i] \in D
  <2>. DEFINE T == {i \in 0 .. n : g[i] \in D}
  <2>1. 0 \in T
    BY <1>1, <1>2, <1>10
  <2>2. ASSUME NEW i \in 1 .. n, i - 1 \in T PROVE i \in T
    <3>1. PICK d \in D : d = g[i - 1]
      BY <2>2
    <3>2. g[i] = d \o SortedTree(Slots, v[i])
      BY <1>11, <3>1
    <3>3. d \o SortedTree(Slots, v[i]) \in D
      BY <1>3, ConcatProperties DEF D
    <3>4. g[i] \in D
      BY <3>2, <3>3, Zenon
    <3>5. i \in 0 .. n
      BY <1>1
    <3>. QED  BY <3>4, <3>5
  <2>. HIDE DEF T
  <2>3. 0 .. n \subseteq T
    <3>1. PICK T1 : T1 = T
      OBVIOUS
    <3>2. 0 \in T1 /\ \A i \in 1 .. n : i - 1 \in T1 => i \in T1
      BY <2>1, <2>2, <3>1
    <3>3. 0 .. n \subseteq T1
      BY ONLY <1>1, <3>2, PrefixInduction
    <3>. QED  BY <3>1, <3>3
  <2>. QED  BY <2>3 DEF T
<1>15. g \in [0 .. n -> D]
  <2>1. g = [i \in 0 .. n |-> g[i]]
    BY DEF g
  <2>. QED  BY <1>14, <2>1
<1>. QED  BY <1>10, <1>11, <1>13, <1>15 DEF n, v, D

\* So it gives the normal declarations of the rules in the order of entries.
LEMMA CollectIs ==
  ASSUME PartsNear, NEW rules, Collectable(rules)
  PROVE  PathIs(Collect(rules, Slots, Outer), Normals(rules))
<1>1. PICK n \in Nat : n = Slots + Outer + 9
  BY SlotsAssumption
<1>2. PICK v : v = TreesOf(rules)
  OBVIOUS
<1>3. PICK g : /\ g[0] = << >> /\ g[n] = Collect(rules, Slots, Outer)
               /\ \A i \in 1 .. n : g[i] = g[i - 1] \o SortedTree(Slots, v[i])
  BY <1>1, <1>2, CollectInTurn
<1>. DEFINE T == {i \in 0 .. n : PathIs(g[i], Normals(AddedUpTo(rules, i)))}
<1>4. \A r \in rules : TreeOf(r) \in 1 .. n
  BY <1>1, TreesInOrder
<1>5. 0 \in T
  <2>1. AddedUpTo(rules, 0) = {}
    BY <1>4 DEF AddedUpTo
  <2>2. Normals({}) = {}
    BY DEF Normals
  <2>. QED  BY <1>3, <2>1, <2>2, PathIsEmpty
<1>6. ASSUME NEW i \in 1 .. n, i - 1 \in T PROVE i \in T
  <2>1. PICK tree, E, F : tree = v[i] /\ E = Normals(AddedUpTo(rules, i - 1)) /\ F = Normals(tree)
    OBVIOUS
  <2>2. tree = {r \in rules : TreeOf(r) = i}
    BY <1>1, <1>2, <2>1, TreesInPlace
  <2>3. tree \in SUBSET ElementRule /\ IsFiniteSet(tree)
    BY <2>2, FS_Subset DEF Collectable
  <2>4. OneKind(tree)
    <3>1. ASSUME NEW r \in tree, NEW q \in tree
          PROVE  /\ r.origin = q.origin /\ r.depth = q.depth
                 /\ r.layer = StyleAttributeLayer <=> q.layer = StyleAttributeLayer
                 /\ r.layer = q.layer /\ r.specificity = q.specificity => r = q
      <4>1. r \in rules /\ q \in rules /\ TreeOf(r) = TreeOf(q)
        BY <2>2
      <4>2. /\ r.origin = q.origin /\ r.depth = q.depth
            /\ r.layer = StyleAttributeLayer <=> q.layer = StyleAttributeLayer
        BY <4>1, TreesInOrder
      <4>. QED  BY <4>1, <4>2 DEF Collectable
    <3>. QED  BY <3>1 DEF OneKind
  <2>5. PathIs(SortedTree(Slots, tree), F)
    BY <2>1, <2>3, <2>4, SortedTreeIs
  <2>6. PathIs(g[i - 1], E)
    BY <1>6, <2>1
  <2>7. AllLess(E, F)
    <3>1. ASSUME NEW x \in E, NEW y \in F PROVE EntryLess(x, y)
      <4>1. PICK r \in AddedUpTo(rules, i - 1) : x = Nor(r)
        BY <2>1 DEF Normals
      <4>2. PICK q \in tree : y = Nor(q)
        BY <2>1 DEF Normals
      <4>3. r \in rules /\ q \in rules /\ TreeOf(r) < TreeOf(q)
        BY <1>4, <2>2 DEF AddedUpTo
      <4>. QED  BY <4>1, <4>2, <4>3, TreesInOrder
    <3>. QED  BY <3>1 DEF AllLess
  <2>8. PathIs(g[i - 1] \o SortedTree(Slots, tree), E \cup F)
    BY <2>5, <2>6, <2>7, PathIsConcat
  <2>9. E \cup F = Normals(AddedUpTo(rules, i))
    <3>1. AddedUpTo(rules, i) = AddedUpTo(rules, i - 1) \cup tree
      BY <1>4, <2>2 DEF AddedUpTo
    <3>. QED  BY <2>1, <3>1 DEF Normals
  <2>10. g[i] = g[i - 1] \o SortedTree(Slots, tree)
    BY <1>3, <2>1
  <2>11. PathIs(g[i], Normals(AddedUpTo(rules, i)))
    BY <2>8, <2>9, <2>10, Zenon
  <2>. QED  BY <2>11
<1>. HIDE DEF T
<1>7. 0 .. n \subseteq T
  <2>1. PICK T1 : T1 = T
    OBVIOUS
  <2>2. 0 \in T1 /\ \A i \in 1 .. n : i - 1 \in T1 => i \in T1
    BY <1>5, <1>6, <2>1
  <2>3. 0 .. n \subseteq T1
    BY ONLY n \in Nat, <2>2, PrefixInduction
  <2>. QED  BY <2>1, <2>3
<1>8. n \in T
  BY <1>7
<1>9. AddedUpTo(rules, n) = rules
  BY <1>4 DEF AddedUpTo
<1>. QED  BY <1>3, <1>8, <1>9 DEF T

-----------------------------------------------------------------------------
(* Inserting, by entries.                                                   *)

\* Rules with these declarations: only those of style sheets may have
\* important ones, and outside author sheets only in no layer.
Insertable(rules, cont) ==
  \A r \in rules : "important" \in cont[r.block] => MayBeImportant(r.origin, r.layer)

\* The entries of the rules: the normal declarations of all, and the important
\* ones where there are any.
WithImportant(rules, cont) == {r \in rules : "important" \in cont[r.block]}
EntriesOf(rules, cont) == Normals(rules) \cup Importants(Normals(WithImportant(rules, cont)))

\* The parts of insert_ordered_rules_with_important.
HasImportantAt(list, cont, i) == "important" \in cont[list[i].source]
OriginAt(list, i) == list[i].priority.level.origin
ImportantAt(list, cont, o) ==
  PartAt(list, {i \in DOMAIN list : HasImportantAt(list, cont, i) /\ OriginAt(list, i) = o})
ImportantPart(list, cont, o) ==
  [i \in DOMAIN ImportantAt(list, cont, o) |-> AsImportant(ImportantAt(list, cont, o)[i])]

\* Entries of lower tiers come first.
LEMMA TiersApart ==
  ASSUME NEW E, NEW F, NEW k \in Int, \A x \in E : Tier(x) < k, \A y \in F : Tier(y) = k
  PROVE  AllLess(E, F)
<1>1. ASSUME NEW x \in E, NEW y \in F PROVE EntryLess(x, y)
  <2>1. Tier(x) < Tier(y)
    OBVIOUS
  <2>. QED  BY <2>1 DEF EntryLess
<1>. QED  BY <1>1 DEF AllLess

\* The origin and the declarations of an entry's node.
LEMMA NodeShows ==
  ASSUME PartsNear, NEW x \in Entry
  PROVE  NodeOf(x).source = BlockIn(x) /\ NodeOf(x).priority.level.origin = OriginIn(x)
BY NodeByParts, LevelByParts

\* Important rules of one priority keep their order.
LEMMA ImportantInOrder ==
  ASSUME PartsNear, NEW E \in SUBSET Entry, NEW n, NEW w, Listing(w, n, E), BothNormal(E),
         \A x, y \in E : NodeOf(x).priority = NodeOf(y).priority,
         NEW list, list = [i \in 1 .. n |-> NodeOf(AsImp(w[i]))]
  PROVE  PathIs(list, Importants(E))
<1>1. /\ n \in Nat /\ w \in [1 .. n -> E] /\ \A x \in E : \E i \in 1 .. n : w[i] = x
      /\ \A k, l \in 1 .. n : k < l => EntryLess(w[k], w[l])
  BY DEF Listing, Rising
<1>2. PICK y : y = [i \in 1 .. n |-> AsImp(w[i])]
  OBVIOUS
<1>3. PICK G \in SUBSET Entry : G = Importants(E)
  BY DEF Importants, BothNormal
<1>4. y \in [1 .. n -> G] /\ \A x \in G : \E i \in 1 .. n : y[i] = x
  BY <1>1, <1>2, <1>3 DEF Importants
<1>5. ASSUME NEW i \in 1 .. n, NEW j \in 1 .. n, i < j PROVE EntryLess(y[i], y[j])
  <2>1. PICK a \in Entry, b \in Entry : a = w[i] /\ b = w[j]
    BY <1>1
  <2>2. /\ IsNormal(a) /\ IsNormal(b) /\ AsImp(a) \in Entry /\ AsImp(b) \in Entry
        /\ NodeOf(a).priority = NodeOf(b).priority
    BY <1>1, <2>1 DEF BothNormal
  <2>3. EntryLess(a, b)
    BY <1>1, <1>5, <2>1
  <2>4. EntryLess(AsImp(a), AsImp(b))
    BY <2>2, <2>3, ImportantOrder
  <2>. QED  BY <1>2, <2>1, <2>4
<1>6. Listing(y, n, G)
  BY <1>1, <1>4, <1>5 DEF Listing, Rising
<1>7. list = NodesOf(y, n)
  BY <1>2 DEF NodesOf
<1>. QED  BY <1>3, <1>6, <1>7 DEF PathIs

\* The nodes of a path that a test lets through.
LEMMA PathIsPassing ==
  ASSUME NEW p, NEW E, PathIs(p, E), NEW F \in SUBSET E, NEW P,
         P \subseteq DOMAIN p,
         \A x \in E, i \in DOMAIN p : p[i] = NodeOf(x) => (i \in P <=> x \in F)
  PROVE  PathIs(PartAt(p, P), F)
<1>1. PICK N : N = {NodeOf(x) : x \in F}
  OBVIOUS
<1>2. PICK n, w : Listing(w, n, E) /\ p = NodesOf(w, n)
  BY DEF PathIs
<1>3. n \in Nat /\ w \in [1 .. n -> E] /\ \A x \in E : \E i \in 1 .. n : w[i] = x
  BY <1>2 DEF Listing
<1>4. p = [i \in 1 .. n |-> NodeOf(w[i])]
  BY <1>2 DEF NodesOf
<1>5. P = {i \in DOMAIN p : p[i] \in N}
  <2>1. ASSUME NEW i \in DOMAIN p PROVE i \in P <=> p[i] \in N
    <3>1. w[i] \in E /\ p[i] = NodeOf(w[i])
      BY <1>3, <1>4
    <3>2. ASSUME p[i] \in N PROVE i \in P
      <4>1. PICK x \in F : p[i] = NodeOf(x)
        BY <1>1, <3>2
      <4>. QED  BY <4>1
    <3>. QED  BY <1>1, <3>1, <3>2
  <2>. QED  BY <2>1
<1>6. F = {x \in E : NodeOf(x) \in N}
  <2>1. ASSUME NEW x \in E, NodeOf(x) \in N PROVE x \in F
    <3>1. PICK i \in 1 .. n : w[i] = x
      BY <1>3
    <3>2. p[i] = NodeOf(x) /\ i \in DOMAIN p
      BY <1>4, <3>1
    <3>3. i \in P
      BY <1>5, <2>1, <3>2
    <3>. QED  BY <3>2, <3>3
  <2>. QED  BY <1>1, <2>1
<1>. QED  BY <1>5, <1>6, PathIsPart

\* A part by origin.
LEMMA PathIsOfOrigins ==
  ASSUME PartsNear, NEW p, NEW E, PathIs(p, E), NEW F \in SUBSET E, NEW o, NEW P,
         P = {i \in DOMAIN p : OriginAt(p, i) = o}, F = {x \in E : OriginIn(x) = o}
  PROVE  /\ PathIs(PartAt(p, P), F)
         /\ PathIs(PartAt(p, {i \in DOMAIN p : ~(OriginAt(p, i) = o)}), E \ F)
<1>1. E \subseteq Entry
  BY DEF PathIs
<1>2. ASSUME NEW x \in E, NEW i \in DOMAIN p, p[i] = NodeOf(x)
      PROVE  OriginAt(p, i) = OriginIn(x)
  <2>1. NodeOf(x).priority.level.origin = OriginIn(x)
    BY <1>1, NodeShows
  <2>. QED  BY <1>2, <2>1, Zenon DEF OriginAt
<1>3. \A x \in E, i \in DOMAIN p : p[i] = NodeOf(x) => (i \in P <=> x \in F)
  BY <1>2
<1>4. PICK Q : Q = {i \in DOMAIN p : ~(OriginAt(p, i) = o)}
  OBVIOUS
<1>5. \A x \in E, i \in DOMAIN p : p[i] = NodeOf(x) => (i \in Q <=> x \in E \ F)
  BY <1>2, <1>4
<1>6. P \subseteq DOMAIN p /\ Q \subseteq DOMAIN p /\ E \ F \in SUBSET E
  BY <1>4
<1>7. PathIs(PartAt(p, P), F)
  BY <1>3, <1>6, PathIsPassing
<1>8. PathIs(PartAt(p, Q), E \ F)
  BY <1>5, <1>6, PathIsPassing
<1>. QED  BY <1>4, <1>7, <1>8

\* The rules of an origin that have important declarations.
ImportantOfOrigin(E, cont, o) == {x \in E : "important" \in cont[BlockIn(x)] /\ OriginIn(x) = o}

\* A part by origin and importance, made important.
LEMMA ImportantPartIs ==
  ASSUME PartsNear, NEW p, NEW E, PathIs(p, E), NEW cont, NEW o, NEW F, F = ImportantOfOrigin(E, cont, o),
         BothNormal(F)
  PROVE  \E n, w : /\ Listing(w, n, F)
                   /\ ImportantPart(p, cont, o) = [i \in 1 .. n |-> NodeOf(AsImp(w[i]))]
<1>1. E \subseteq Entry /\ F \in SUBSET E
  BY DEF PathIs, ImportantOfOrigin
<1>2. PICK P : P = {i \in DOMAIN p : HasImportantAt(p, cont, i) /\ OriginAt(p, i) = o}
  OBVIOUS
<1>3. ASSUME NEW x \in E, NEW i \in DOMAIN p, p[i] = NodeOf(x)
      PROVE  i \in P <=> x \in F
  <2>1. NodeOf(x).priority.level.origin = OriginIn(x) /\ NodeOf(x).source = BlockIn(x)
    BY <1>1, NodeShows
  <2>2. OriginAt(p, i) = OriginIn(x) /\ (HasImportantAt(p, cont, i) <=> "important" \in cont[BlockIn(x)])
    BY <1>3, <2>1, Zenon DEF OriginAt, HasImportantAt
  <2>. QED  BY <1>2, <2>2 DEF ImportantOfOrigin
<1>4. P \subseteq DOMAIN p
  BY <1>2
<1>5. PathIs(PartAt(p, P), F)
  BY <1>1, <1>3, <1>4, PathIsPassing
<1>6. PICK n, w : Listing(w, n, F) /\ PartAt(p, P) = NodesOf(w, n)
  BY <1>5 DEF PathIs
<1>7. n \in Nat /\ w \in [1 .. n -> F]
  BY <1>6 DEF Listing
<1>8. PICK found : found = ImportantAt(p, cont, o)
  OBVIOUS
<1>9. found = [i \in 1 .. n |-> NodeOf(w[i])]
  BY <1>2, <1>6, <1>8, Zenon DEF NodesOf, ImportantAt
<1>10. ImportantPart(p, cont, o) = [i \in DOMAIN found |-> AsImportant(found[i])]
  BY <1>8, Zenon DEF ImportantPart
<1>11. ASSUME NEW i \in 1 .. n PROVE AsImportant(found[i]) = NodeOf(AsImp(w[i]))
  <2>1. PICK x \in F : x = w[i]
    BY <1>7
  <2>2. x \in Entry /\ IsNormal(x) /\ AsImp(x) \in Entry
    BY <1>1 DEF BothNormal
  <2>3. AsImportant(NodeOf(x)) = NodeOf(AsImp(x))
    BY <2>2, ImportantNode
  <2>. QED  BY <1>9, <2>1, <2>3
<1>12. ImportantPart(p, cont, o) = [i \in 1 .. n |-> NodeOf(AsImp(w[i]))]
  BY <1>9, <1>10, <1>11
<1>. QED  BY <1>6, <1>12

\* The tiers of entries.
LEMMA TierParts ==
  ASSUME NEW x \in Entry
  PROVE  /\ IsNormal(x) /\ OriginIn(x) # Transitions => Tier(x) < 7
         /\ IsNormal(x) /\ OriginIn(x) = Transitions => Tier(x) = 20
         /\ ~IsNormal(x) /\ OriginIn(x) = Author => Tier(x) = 10
         /\ ~IsNormal(x) /\ OriginIn(x) = User => Tier(x) = 12
         /\ ~IsNormal(x) /\ OriginIn(x) = UA => Tier(x) = 13
<1>1. PICK o, n, t : o = OriginIn(x) /\ n = IsNormal(x) /\ t = Tier(x)
  OBVIOUS
<1>2. o \in 0 .. 7
  BY <1>1, EntryParts, Zenon DEF PartsFit
<1>3. t = IF n THEN IF o = Transitions THEN 20 ELSE o ELSE 10 + (Author - o)
  BY <1>1, Zenon DEF Tier
<1>4. /\ n /\ o # 7 => t < 7
      /\ n /\ o = 7 => t = 20
      /\ ~n /\ o = 3 => t = 10
      /\ ~n /\ o = 1 => t = 12
      /\ ~n /\ o = 0 => t = 13
  BY <1>2, <1>3 DEF Transitions, Author
<1>. QED  BY <1>1, <1>4 DEF Transitions, Author, User, UA

\* Collecting and inserting gives a path with the entries of the rules, in
\* their order.
LEMMA InsertIs ==
  ASSUME PartsNear, NEW rules, Collectable(rules), NEW cont, Insertable(rules, cont)
  PROVE  PathIs(InsertOrderedRulesWithImportant(Collect(rules, Slots, Outer), cont), EntriesOf(rules, cont))
<1>1. PICK p, E : p = Collect(rules, Slots, Outer) /\ E = Normals(rules)
  OBVIOUS
<1>2. PathIs(p, E)
  BY <1>1, CollectIs
<1>3. E \in SUBSET Entry /\ \A x \in E : IsNormal(x)
  <2>1. \A r \in rules : Nor(r) \in Entry /\ IsNormal(Nor(r))
    BY NormalEntry DEF Collectable
  <2>. QED  BY <1>1, <2>1 DEF Normals
<1>4. PICK I : I = Normals(WithImportant(rules, cont))
  OBVIOUS
<1>5. I = {x \in E : "important" \in cont[BlockIn(x)]}
  <2>1. \A r \in rules : BlockIn(Nor(r)) = r.block
    BY NormalEntry DEF Collectable
  <2>. QED  BY <1>1, <1>4, <2>1 DEF Normals, WithImportant
<1>6. ASSUME NEW x \in I
      PROVE  /\ AsImp(x) \in Entry
             /\ OriginIn(x) \in {UA, User, Author} /\ (OriginIn(x) # Author => LayerIn(x) = RootLayer)
  <2>1. PICK r \in rules : x = Nor(r) /\ "important" \in cont[r.block]
    BY <1>4 DEF Normals, WithImportant
  <2>2. r \in ElementRule /\ MayBeImportant(r.origin, r.layer)
    BY <2>1 DEF Collectable, Insertable
  <2>3. AsImp(x) = <<r, "important">>
    BY <2>1 DEF AsImp, Nor
  <2>4. <<r, "important">> \in Entry
    BY <2>2 DEF Entry, Importance
  <2>5. OriginIn(x) = r.origin /\ LayerIn(x) = r.layer
    BY <2>1, <2>2, NormalEntry
  <2>. QED  BY <2>2, <2>3, <2>4, <2>5 DEF MayBeImportant
<1>. DEFINE Plain == PartAt(p, {i \in DOMAIN p : ~(OriginAt(p, i) = Transitions)})
            Ending == PartAt(p, {i \in DOMAIN p : OriginAt(p, i) = Transitions})
<1>7. InsertOrderedRulesWithImportant(p, cont)
        = IF \A i \in DOMAIN p : ~HasImportantAt(p, cont, i)
            THEN p
            ELSE Plain \o SortedByPriority(ImportantPart(p, cont, Author)) \o ImportantPart(p, cont, User)
                 \o ImportantPart(p, cont, UA) \o Ending
  BY Zenon DEF InsertOrderedRulesWithImportant, Passing, ImportantPart, ImportantAt, OriginAt, HasImportantAt
<1>. HIDE DEF Plain, Ending
<1>8. CASE \A i \in DOMAIN p : ~HasImportantAt(p, cont, i)
  <2>1. I = {}
    <3>1. ASSUME NEW x \in I PROVE FALSE
      <4>1. PICK n, w : Listing(w, n, E) /\ p = NodesOf(w, n)
        BY <1>2 DEF PathIs
      <4>2. PICK i \in 1 .. n : w[i] = x
        BY <1>5, <4>1 DEF Listing
      <4>3. i \in DOMAIN p /\ p[i] = NodeOf(x)
        BY <4>1, <4>2 DEF NodesOf
      <4>4. p[i].source = BlockIn(x)
        BY <1>3, <1>5, <4>3, NodeShows
      <4>5. HasImportantAt(p, cont, i)
        BY <1>5, <4>4 DEF HasImportantAt
      <4>. QED  BY <1>8, <4>3, <4>5
    <3>. QED  BY <3>1
  <2>2. EntriesOf(rules, cont) = E
    BY <1>1, <1>4, <2>1 DEF EntriesOf, Importants
  <2>. QED  BY <1>1, <1>2, <1>7, <1>8, <2>2
<1>9. CASE ~(\A i \in DOMAIN p : ~HasImportantAt(p, cont, i))
  <2>1. PICK A, B, C, D, F \in SUBSET E :
          /\ A = ImportantOfOrigin(E, cont, Author) /\ B = ImportantOfOrigin(E, cont, User)
          /\ C = ImportantOfOrigin(E, cont, UA) /\ F = {x \in E : OriginIn(x) = Transitions} /\ D = E \ F
    <3>1. \A o : ImportantOfOrigin(E, cont, o) \in SUBSET E
      BY DEF ImportantOfOrigin
    <3>2. {x \in E : OriginIn(x) = Transitions} \in SUBSET E
      OBVIOUS
    <3>3. E \ {x \in E : OriginIn(x) = Transitions} \in SUBSET E
      OBVIOUS
    <3>. QED  BY <3>1, <3>2, <3>3, Zenon
  <2>2. /\ A = {x \in I : OriginIn(x) = Author} /\ B = {x \in I : OriginIn(x) = User}
        /\ C = {x \in I : OriginIn(x) = UA}
    BY <1>5, <2>1 DEF ImportantOfOrigin
  <2>3. BothNormal(A) /\ BothNormal(B) /\ BothNormal(C)
    BY <1>3, <1>6, <2>1, <2>2 DEF BothNormal
  <2>4. PathIs(Plain, D) /\ PathIs(Ending, F)
    BY <1>2, <2>1, PathIsOfOrigins DEF Plain, Ending
  <2>5. PathIs(SortedByPriority(ImportantPart(p, cont, Author)), Importants(A))
    <3>1. PICK n, w : /\ Listing(w, n, A)
                      /\ ImportantPart(p, cont, Author) = [i \in 1 .. n |-> NodeOf(AsImp(w[i]))]
      BY <1>2, <2>1, <2>3, ImportantPartIs
    <3>2. A \in SUBSET Entry
      BY <1>3
    <3>. QED  BY <2>3, <3>1, <3>2, SortedByPriorityIs
  <2>6. ASSUME NEW o \in {UA, User}, NEW G \in SUBSET I, G = {x \in I : OriginIn(x) = o},
               G = ImportantOfOrigin(E, cont, o), BothNormal(G)
        PROVE  PathIs(ImportantPart(p, cont, o), Importants(G))
    <3>0. G = ImportantOfOrigin(E, cont, o) /\ BothNormal(G)
      BY <2>6
    <3>1. PICK n, w : /\ Listing(w, n, G)
                      /\ ImportantPart(p, cont, o) = [i \in 1 .. n |-> NodeOf(AsImp(w[i]))]
      BY <1>2, <3>0, ImportantPartIs
    <3>2. G \in SUBSET Entry
      BY <1>3, <1>5
    <3>3. ASSUME NEW x \in G, NEW y \in G PROVE NodeOf(x).priority = NodeOf(y).priority
      <4>1. x \in Entry /\ y \in Entry /\ IsNormal(x) /\ IsNormal(y)
        BY <2>6, <3>2 DEF BothNormal
      <4>2. OriginIn(x) = o /\ OriginIn(y) = o /\ o # 3 /\ o # Author
        BY <2>6 DEF UA, User, Author
      <4>3. LayerIn(x) = LayerIn(y)
        <5>1. x \in I /\ y \in I
          BY <2>6
        <5>. QED  BY <1>6, <4>2, <5>1
      <4>4. DepthIn(x) = 0 /\ DepthIn(y) = 0
        BY <4>1, <4>2, EntryParts, Zenon DEF PartsFit
      <4>5. LevelIn(x) = LevelIn(y)
        BY <4>1, <4>2, <4>4, LevelsByParts
      <4>. QED  BY <4>1, <4>3, <4>5, LessRefines
    <3>. QED  BY <2>6, <3>1, <3>2, <3>3, ImportantInOrder
  <2>7. PathIs(ImportantPart(p, cont, User), Importants(B))
    <3>1. B \in SUBSET I
      BY <2>2
    <3>. QED  BY <2>1, <2>2, <2>3, <2>6, <3>1
  <2>8. PathIs(ImportantPart(p, cont, UA), Importants(C))
    <3>1. C \in SUBSET I
      BY <2>2
    <3>. QED  BY <2>1, <2>2, <2>3, <2>6, <3>1
  <2>9. \A x \in D : Tier(x) < 7
    BY <1>3, <2>1, TierParts
  <2>10. \A x \in F : Tier(x) = 20
    BY <1>3, <2>1, TierParts
  <2>11. ASSUME NEW o, NEW G \in SUBSET E, G = ImportantOfOrigin(E, cont, o), BothNormal(G), NEW y \in Importants(G)
         PROVE  y \in Entry /\ ~IsNormal(y) /\ OriginIn(y) = o
    <3>1. PICK x \in G : y = AsImp(x)
      BY DEF Importants
    <3>2. x \in Entry /\ IsNormal(x) /\ AsImp(x) \in Entry /\ OriginIn(x) = o
      BY <1>3, <2>11 DEF BothNormal, ImportantOfOrigin
    <3>. QED  BY <3>1, <3>2, ImportantNode
  <2>12. \A x \in Importants(A) : Tier(x) = 10
    <3>1. \A x \in Importants(A) : x \in Entry /\ ~IsNormal(x) /\ OriginIn(x) = Author
      BY <2>1, <2>3, <2>11
    <3>. QED  BY <3>1, TierParts
  <2>13. \A x \in Importants(B) : Tier(x) = 12
    <3>1. \A x \in Importants(B) : x \in Entry /\ ~IsNormal(x) /\ OriginIn(x) = User
      BY <2>1, <2>3, <2>11
    <3>. QED  BY <3>1, TierParts
  <2>14. \A x \in Importants(C) : Tier(x) = 13
    <3>1. \A x \in Importants(C) : x \in Entry /\ ~IsNormal(x) /\ OriginIn(x) = UA
      BY <2>1, <2>3, <2>11
    <3>. QED  BY <3>1, TierParts
  <2>. DEFINE P1 == Plain \o SortedByPriority(ImportantPart(p, cont, Author))
              P2 == P1 \o ImportantPart(p, cont, User)
              P3 == P2 \o ImportantPart(p, cont, UA)
              E1 == D \cup Importants(A)
              E2 == E1 \cup Importants(B)
              E3 == E2 \cup Importants(C)
  <2>15. PathIs(P1, E1) /\ \A x \in E1 : Tier(x) < 12
    <3>1. \A x \in D : Tier(x) < 10
      <4>1. \A x \in D : Tier(x) \in Int
        BY <1>3, KeyParts
      <4>. QED  BY <2>9, <4>1
    <3>2. AllLess(D, Importants(A))
      BY <2>12, <3>1, TiersApart
    <3>3. \A x \in D : Tier(x) < 12
      <4>1. \A x \in D : Tier(x) \in Int
        BY <1>3, KeyParts
      <4>. QED  BY <2>9, <4>1
    <3>. QED  BY <2>4, <2>5, <2>12, <3>2, <3>3, PathIsConcat
  <2>. HIDE DEF P1, E1
  <2>16. PathIs(P2, E2) /\ \A x \in E2 : Tier(x) < 13
    <3>1. AllLess(E1, Importants(B))
      BY <2>13, <2>15, TiersApart
    <3>2. \A x \in E1 : Tier(x) \in Int
      BY <2>15, KeyParts DEF PathIs
    <3>3. \A x \in E1 : Tier(x) < 13
      BY <2>15, <3>2
    <3>. QED  BY <2>7, <2>13, <2>15, <3>1, <3>3, PathIsConcat
  <2>. HIDE DEF P2, E2
  <2>17. PathIs(P3, E3) /\ \A x \in E3 : Tier(x) < 20
    <3>1. AllLess(E2, Importants(C))
      BY <2>14, <2>16, TiersApart
    <3>2. \A x \in E2 : Tier(x) \in Int
      BY <2>16, KeyParts DEF PathIs
    <3>3. \A x \in E2 : Tier(x) < 20
      BY <2>16, <3>2
    <3>. QED  BY <2>8, <2>14, <2>16, <3>1, <3>3, PathIsConcat
  <2>. HIDE DEF P3, E3
  <2>18. PathIs(P3 \o Ending, E3 \cup F)
    <3>1. AllLess(E3, F)
      BY <2>10, <2>17, TiersApart
    <3>. QED  BY <2>4, <2>17, <3>1, PathIsConcat
  <2>19. E3 \cup F = EntriesOf(rules, cont)
    <3>1. I = A \cup B \cup C
      BY <1>6, <2>2
    <3>2. Importants(I) = Importants(A) \cup Importants(B) \cup Importants(C)
      BY <3>1 DEF Importants
    <3>3. D \cup F = E
      BY <2>1
    <3>4. EntriesOf(rules, cont) = E \cup Importants(I)
      BY <1>1, <1>4 DEF EntriesOf
    <3>. QED  BY <3>2, <3>3, <3>4 DEF E1, E2, E3
  <2>20. InsertOrderedRulesWithImportant(p, cont) = P3 \o Ending
    BY <1>7, <1>9, Zenon DEF P1, P2, P3
  <2>. QED  BY <1>1, <2>18, <2>19, <2>20
<1>. QED  BY <1>8, <1>9

-----------------------------------------------------------------------------
(* Replacing in a path whose declarations are known.                        *)

\* What is replaced: a style attribute, an animation or a @position-try rule,
\* each the last of its level.
Replaceable(y) == LayerIn(y) = StyleAttributeLayer \/ OriginIn(y) \in Effects \cup {PositionFallback}

\* The level of what is replaced decides where it is in the cascade order:
\* what is not above its level comes before it or is what it replaces.
LEMMA AtLevel ==
  ASSUME PartsNear, NEW x \in Entry, NEW y \in Entry, Replaceable(y)
  PROVE  /\ LevelLess(LevelIn(y), LevelIn(x)) => EntryLess(y, x)
         /\ ~LevelLess(LevelIn(y), LevelIn(x)) => EntryLess(x, y) \/ SameKey(x, y)
         /\ NodeOf(x).priority = NodeOf(y).priority <=> SameKey(x, y)
<1>1. LevelLess(LevelIn(y), LevelIn(x)) => EntryLess(y, x)
  BY LevelsByParts, Zenon DEF EntryLess
<1>2. ASSUME LevelIn(x) = LevelIn(y)
      PROVE  /\ EntryLess(x, y) \/ SameKey(x, y)
             /\ LayerIn(x) = LayerIn(y) => SameKey(x, y)
  <2>1. OriginIn(x) = OriginIn(y) /\ DepthIn(x) = DepthIn(y) /\ (IsNormal(x) <=> IsNormal(y))
    BY <1>2, LevelsByParts
  <2>2. Tier(x) = Tier(y) /\ Distance(x) = Distance(y)
    BY <2>1, Zenon DEF Tier, Distance
  <2>3. PICK o, l, m, s, t : /\ o = OriginIn(x) /\ l = LayerIn(x) /\ m = LayerIn(y)
                             /\ s = SpecificityIn(x) /\ t = SpecificityIn(y)
    OBVIOUS
  <2>4. /\ l = StyleAttributeLayer => s = 0
        /\ o \in {4, 5, 6, 7} => l = RootLayer /\ s = 0
    BY <2>3, EntryParts, Zenon DEF PartsFit
  <2>5. /\ m = StyleAttributeLayer => t = 0
        /\ o \in {4, 5, 6, 7} => m = RootLayer /\ t = 0
    BY <2>1, <2>3, EntryParts, Zenon DEF PartsFit
  <2>6. m = StyleAttributeLayer \/ o \in {4, 5, 6, 7}
    BY <2>1, <2>3 DEF Replaceable, Effects, SMILOverride, Animations, Transitions, PositionFallback
  <2>7. (l = m /\ s = t) \/ (m = StyleAttributeLayer /\ l # StyleAttributeLayer)
    BY <2>4, <2>5, <2>6
  <2>8. CASE l = m /\ s = t
    <3>1. Attached(x) = Attached(y) /\ LayerTurn(x) = LayerTurn(y)
      BY <2>1, <2>3, <2>8, Zenon DEF Attached, LayerTurn
    <3>. QED  BY <2>2, <2>3, <2>8, <3>1, Zenon DEF SameKey
  <2>9. CASE m = StyleAttributeLayer /\ l # StyleAttributeLayer
    <3>1. Attached(x) = 0 /\ Attached(y) = 1
      BY <2>3, <2>9, Zenon DEF Attached
    <3>2. Attached(x) < Attached(y)
      BY <3>1
    <3>. QED  BY <2>2, <2>3, <2>9, <3>2 DEF EntryLess
  <2>. QED  BY <2>7, <2>8, <2>9
<1>3. LevelIn(x) \in CascadeLevel /\ LevelIn(y) \in CascadeLevel
  BY LevelByParts
<1>4. ASSUME ~LevelLess(LevelIn(y), LevelIn(x)) PROVE EntryLess(x, y) \/ SameKey(x, y)
  <2>1. LevelIn(x) = LevelIn(y) \/ LevelLess(LevelIn(x), LevelIn(y))
    BY <1>3, <1>4, LevelOrder
  <2>2. LevelLess(LevelIn(x), LevelIn(y)) => EntryLess(x, y)
    BY LevelsByParts, Zenon DEF EntryLess
  <2>. QED  BY <1>2, <2>1, <2>2
<1>5. NodeOf(x).priority = NodeOf(y).priority => SameKey(x, y)
  BY <1>2, LessRefines
<1>6. SameKey(x, y) => NodeOf(x).priority = NodeOf(y).priority
  <2>1. ASSUME SameKey(x, y) PROVE IsNormal(x) <=> IsNormal(y)
    BY <2>1, KeyAndBlock DEF IsNormal
  <2>. QED  BY <2>1, KeyAndBlock, LevelsByParts, LessRefines
<1>. QED  BY <1>1, <1>4, <1>5, <1>6

\* The declarations from one position of a path to another.
FromTo(w, a, b) == {w[i] : i \in a .. b}

\* A part of a path has the declarations between its ends.
LEMMA PathIsSub ==
  ASSUME NEW E \in SUBSET Entry, NEW n, NEW w, Listing(w, n, E), NEW p, p = NodesOf(w, n),
         NEW a \in 1 .. n + 1, NEW b \in 0 .. n, a <= b + 1
  PROVE  PathIs(SubSeq(p, a, b), FromTo(w, a, b))
<1>1. n \in Nat /\ w \in [1 .. n -> E] /\ \A i, j \in 1 .. n : i < j => EntryLess(w[i], w[j])
  BY DEF Listing, Rising
<1>2. PICK m \in Nat : m = b + 1 - a
  BY <1>1
<1>3. PICK v : v = [i \in 1 .. m |-> w[i + a - 1]]
  OBVIOUS
<1>4. \A i \in 1 .. m : i + a - 1 \in a .. b /\ i + a - 1 \in 1 .. n /\ v[i] = w[i + a - 1]
  BY <1>1, <1>2, <1>3
<1>5. \A k \in a .. b : k - a + 1 \in 1 .. m /\ v[k - a + 1] = w[k]
  BY <1>1, <1>2, <1>3
<1>6. Listing(v, m, FromTo(w, a, b))
  <2>1. \A i \in 1 .. m : v[i] \in FromTo(w, a, b)
    BY <1>4 DEF FromTo
  <2>2. \A x \in FromTo(w, a, b) : \E i \in 1 .. m : v[i] = x
    BY <1>5 DEF FromTo
  <2>3. \A i, j \in 1 .. m : i < j => EntryLess(v[i], v[j])
    <3>1. ASSUME NEW i \in 1 .. m, NEW j \in 1 .. m, i < j PROVE EntryLess(v[i], v[j])
      <4>1. i + a - 1 < j + a - 1
        BY <3>1
      <4>. QED  BY <1>1, <1>4, <3>1, <4>1
    <3>. QED  BY <3>1
  <2>4. v \in [1 .. m -> FromTo(w, a, b)]
    BY <1>3, <2>1
  <2>. QED  BY <1>2, <2>2, <2>3, <2>4 DEF Listing, Rising
<1>7. FromTo(w, a, b) \subseteq Entry
  <2>1. \A i \in a .. b : i \in 1 .. n
    BY <1>1
  <2>. QED  BY <1>1, <2>1 DEF FromTo
<1>8. SubSeq(p, a, b) = NodesOf(v, m)
  <2>1. p = [i \in 1 .. n |-> NodeOf(w[i])]
    BY DEF NodesOf
  <2>2. \A i \in 1 .. n : NodeOf(w[i]) \in {NodeOf(x) : x \in Entry}
    BY <1>1
  <2>3. PICK X : X = {NodeOf(x) : x \in Entry}
    OBVIOUS
  <2>4. p \in Seq(X) /\ Len(p) = n
    BY <1>1, <2>1, <2>2, <2>3
  <2>5. SubSeq(p, a, b) = [i \in 1 .. m |-> p[i + a - 1]]
    BY <1>1, <1>2, <2>4
  <2>6. \A i \in 1 .. m : p[i + a - 1] = NodeOf(v[i])
    BY <1>4, <2>1
  <2>. QED  BY <2>5, <2>6 DEF NodesOf
<1>. QED  BY <1>6, <1>7, <1>8 DEF PathIs

\* Replacing, by the declarations: what is there already is left alone; else
\* what had its key goes and it comes, if it has declarations of the kind.
UpdateOf(p, y, cont) == UpdateRuleAtLevel(p, LevelIn(y), LayerIn(y), BlockIn(y), cont)
RelevantIn(y, cont) == BlockIn(y) # NoBlock /\ y[2] \in cont[BlockIn(y)]
Updated(E, y, relevant) ==
  IF y \in E THEN E ELSE {x \in E : ~SameKey(x, y)} \cup (IF relevant THEN {y} ELSE {})

\* The walk up stops at what is to be replaced, or where that belongs.
StopsAt(w, n, y, kept) ==
  /\ kept \in 0 .. n
  /\ \A i \in kept + 1 .. n : EntryLess(y, w[i])
  /\ \A i \in 1 .. kept : EntryLess(w[i], y) \/ (i = kept /\ SameKey(w[i], y))

\* So it does, for whatever may be replaced.
LEMMA WalkUpFinds ==
  ASSUME PartsNear, NEW E \in SUBSET Entry, NEW n, NEW w, Listing(w, n, E),
         NEW y \in Entry, Replaceable(y)
  PROVE  StopsAt(w, n, y, WalkUp(NodesOf(w, n), LevelIn(y)))
<1>0. PICK p, kept : p = NodesOf(w, n) /\ kept = WalkUp(p, LevelIn(y))
  OBVIOUS
<1>1. n \in Nat /\ w \in [1 .. n -> E] /\ \A i, j \in 1 .. n : i < j => EntryLess(w[i], w[j])
  BY DEF Listing, Rising
<1>2. p \in Seq(NodeSet) /\ Len(p) = n /\ \A i \in 1 .. n : p[i] = NodeOf(w[i])
  <2>1. PathIs(p, E)
    BY <1>0 DEF PathIs
  <2>2. p = [i \in 1 .. n |-> NodeOf(w[i])]
    BY <1>0 DEF NodesOf
  <2>3. p \in Seq(NodeSet)
    BY <2>1, PathIsOrdered
  <2>. QED  BY <1>1, <2>2, <2>3
<1>3. LevelIn(y) \in CascadeLevel
  BY LevelByParts
<1>4. /\ kept \in 0 .. n
      /\ kept > 0 => ~LevelLess(LevelIn(y), p[kept].priority.level)
      /\ \A i \in kept + 1 .. n : LevelLess(LevelIn(y), p[i].priority.level)
  BY <1>0, <1>2, <1>3, WalkUpStops DEF NodeSet
<1>5. \A i \in 1 .. n : w[i] \in Entry /\ p[i].priority.level = LevelIn(w[i])
  BY <1>1, <1>2, NodeByParts
<1>6. ASSUME NEW i \in kept + 1 .. n PROVE EntryLess(y, w[i])
  <2>1. i \in 1 .. n
    BY <1>1, <1>4
  <2>. QED  BY <1>4, <1>5, <2>1, AtLevel
<1>7. ASSUME NEW i \in 1 .. kept PROVE EntryLess(w[i], y) \/ (i = kept /\ SameKey(w[i], y))
  <2>1. kept > 0 /\ kept \in 1 .. n /\ i \in 1 .. n
    BY <1>1, <1>4
  <2>2. EntryLess(w[kept], y) \/ SameKey(w[kept], y)
    BY <1>4, <1>5, <2>1, AtLevel
  <2>3. CASE i = kept
    BY <2>2, <2>3
  <2>4. CASE i < kept
    <3>1. EntryLess(w[i], w[kept])
      BY <1>1, <2>1, <2>4
    <3>. QED  BY <1>5, <2>1, <2>2, <3>1, EntryTransitive
  <2>. QED  BY <1>4, <2>3, <2>4
<1>. QED  BY <1>0, <1>4, <1>6, <1>7 DEF StopsAt

\* update_rule_at_level gives the path of the declarations as replaced, and
\* reports what goes or comes among the important ones.
LEMMA UpdateIs ==
  ASSUME PartsNear, NEW p, NEW E, PathIs(p, E), NEW y \in Entry, Replaceable(y), NEW cont
  PROVE  /\ PathIs(UpdateOf(p, y, cont).path, Updated(E, y, RelevantIn(y, cont)))
         /\ UpdateOf(p, y, cont).importantChanged
              <=> ~IsNormal(y) /\ (RelevantIn(y, cont) \/ \E x \in E : SameKey(x, y))
<1>1. PICK n, w : Listing(w, n, E) /\ p = NodesOf(w, n)
  BY DEF PathIs
<1>2. /\ n \in Nat /\ w \in [1 .. n -> E] /\ \A x \in E : \E i \in 1 .. n : w[i] = x
      /\ E \in SUBSET Entry
  BY <1>1 DEF Listing, PathIs
<1>3. \A i \in 1 .. n : w[i] \in Entry /\ p[i] = NodeOf(w[i])
  BY <1>1, <1>2 DEF NodesOf
<1>4. Len(p) = n
  BY <1>1, <1>2 DEF NodesOf
<1>5. PICK kept : kept = WalkUp(p, LevelIn(y))
  OBVIOUS
<1>6. /\ kept \in 0 .. n
      /\ \A i \in kept + 1 .. n : EntryLess(y, w[i])
      /\ \A i \in 1 .. kept : EntryLess(w[i], y) \/ (i = kept /\ SameKey(w[i], y))
  <2>1. StopsAt(w, n, y, kept)
    BY <1>1, <1>2, <1>5, WalkUpFinds
  <2>. QED  BY <2>1 DEF StopsAt
<1>7. PICK prio : prio = [level |-> LevelIn(y), layer |-> LayerIn(y)]
  OBVIOUS
<1>8. prio = NodeOf(y).priority /\ NodeOf(y) = [source |-> BlockIn(y), priority |-> prio]
  BY <1>7, Zenon DEF NodeOf
<1>9. PICK isHere \in BOOLEAN : isHere <=> kept > 0 /\ p[kept].priority = prio
  OBVIOUS
<1>10. isHere <=> kept > 0 /\ SameKey(w[kept], y)
  <2>1. ASSUME kept > 0 PROVE p[kept].priority = prio <=> SameKey(w[kept], y)
    <3>1. kept \in 1 .. n
      BY <1>2, <1>6, <2>1
    <3>. QED  BY <1>3, <1>8, <3>1, AtLevel
  <2>. QED  BY <1>9, <2>1
<1>11. PICK isSame \in BOOLEAN : isSame <=> isHere /\ p[kept].source = BlockIn(y)
  OBVIOUS
<1>12. PICK top : top = IF isHere THEN kept - 1 ELSE kept
  OBVIOUS
<1>13. PICK relevant \in BOOLEAN : relevant = RelevantIn(y, cont)
  BY DEF RelevantIn
<1>14. Relevant(LevelIn(y), BlockIn(y), cont) = relevant
  <2>1. (IF LevelIn(y).important THEN "important" ELSE "normal") = y[2]
    BY LevelByParts, EntryPair DEF IsNormal
  <2>. QED  BY <1>13, <2>1 DEF Relevant, RelevantIn
<1>15. PICK inserted : inserted = IF relevant THEN <<[source |-> BlockIn(y), priority |-> prio]>> ELSE << >>
  OBVIOUS
<1>16. /\ UpdateOf(p, y, cont).path
            = IF isSame THEN p ELSE SubSeq(p, 1, top) \o inserted \o SubSeq(p, kept + 1, Len(p))
       /\ UpdateOf(p, y, cont).importantChanged = (LevelIn(y).important /\ (relevant \/ isHere))
  BY <1>5, <1>7, <1>9, <1>11, <1>12, <1>14, <1>15 DEF UpdateOf, UpdateRuleAtLevel, ImportantChanged
<1>17. \A x \in E : SameKey(x, y) => isHere /\ x = w[kept]
  <2>1. ASSUME NEW x \in E, SameKey(x, y) PROVE isHere /\ x = w[kept]
    <3>1. PICK i \in 1 .. n : w[i] = x
      BY <1>2
    <3>2. ~EntryLess(y, x) /\ ~EntryLess(x, y)
      BY <1>2, <2>1, EntryOrder, EntryTransitive
    <3>3. i \in 1 .. kept
      BY <1>2, <1>6, <3>1, <3>2
    <3>4. i = kept
      BY <1>6, <3>1, <3>2, <3>3
    <3>. QED  BY <1>6, <1>10, <2>1, <3>1, <3>3, <3>4
  <2>. QED  BY <2>1
<1>18. isSame <=> y \in E
  <2>1. ASSUME isSame PROVE y \in E
    <3>1. kept \in 1 .. n /\ SameKey(w[kept], y) /\ p[kept].source = BlockIn(y)
      BY <1>2, <1>6, <1>10, <1>11, <2>1
    <3>2. BlockIn(w[kept]) = BlockIn(y)
      BY <1>3, <3>1, NodeByParts
    <3>3. w[kept] = y
      BY <1>3, <3>1, <3>2, KeyAndBlock
    <3>. QED  BY <1>2, <3>1, <3>3
  <2>2. ASSUME y \in E PROVE isSame
    <3>1. SameKey(y, y)
      BY DEF SameKey
    <3>2. isHere /\ y = w[kept]
      BY <1>17, <2>2, <3>1
    <3>3. kept \in 1 .. n
      BY <1>2, <1>6, <1>10, <3>2
    <3>. QED  BY <1>3, <1>11, <3>2, <3>3, NodeByParts
  <2>. QED  BY <2>1, <2>2
<1>19. isHere <=> \E x \in E : SameKey(x, y)
  <2>1. ASSUME isHere PROVE \E x \in E : SameKey(x, y)
    <3>1. kept \in 1 .. n /\ SameKey(w[kept], y)
      BY <1>2, <1>6, <1>10, <2>1
    <3>. QED  BY <1>2, <3>1
  <2>. QED  BY <1>17, <2>1
<1>20. UpdateOf(p, y, cont).importantChanged
         <=> ~IsNormal(y) /\ (RelevantIn(y, cont) \/ \E x \in E : SameKey(x, y))
  <2>1. LevelIn(y).important <=> ~IsNormal(y)
    BY LevelByParts
  <2>2. PICK c : c = LevelIn(y).important
    OBVIOUS
  <2>. QED  BY <1>13, <1>16, <1>19, <2>1
<1>21. CASE y \in E
  BY <1>16, <1>18, <1>20, <1>21 DEF Updated
<1>22. CASE y \notin E
  <2>1. top \in 0 .. n /\ top <= kept /\ kept + 1 \in 1 .. n + 1 /\ n \in 0 .. n /\ 1 \in 1 .. n + 1
    BY <1>2, <1>6, <1>10, <1>12
  <2>2. PICK A, B : A = FromTo(w, 1, top) /\ B = FromTo(w, kept + 1, n)
    OBVIOUS
  <2>3. PathIs(SubSeq(p, 1, top), A)
    <3>1. 1 <= top + 1
      BY <2>1
    <3>. QED  BY <1>1, <1>2, <2>1, <2>2, <3>1, PathIsSub
  <2>4. PathIs(SubSeq(p, kept + 1, n), B)
    <3>1. kept + 1 <= n + 1
      BY <2>1
    <3>. QED  BY <1>1, <1>2, <2>1, <2>2, <3>1, PathIsSub
  <2>5. PICK C : C = IF relevant THEN {y} ELSE {}
    OBVIOUS
  <2>6. PathIs(inserted, C)
    BY <1>8, <1>15, <2>5, PathIsEmpty, PathIsOne
  <2>7. \A x \in A : x \in E /\ EntryLess(x, y)
    <3>1. ASSUME NEW i \in 1 .. top PROVE w[i] \in E /\ EntryLess(w[i], y)
      <4>1. i \in 1 .. n /\ i \in 1 .. kept /\ (isHere => i # kept)
        BY <1>2, <1>6, <1>12, <2>1
      <4>2. SameKey(w[i], y) => isHere
        BY <1>2, <1>17, <4>1
      <4>. QED  BY <1>2, <1>6, <4>1, <4>2
    <3>. QED  BY <2>2, <3>1 DEF FromTo
  <2>8. \A x \in B : x \in E /\ EntryLess(y, x)
    <3>1. \A i \in kept + 1 .. n : i \in 1 .. n
      BY <1>2, <1>6
    <3>. QED  BY <1>2, <1>6, <2>2, <3>1 DEF FromTo
  <2>9. {x \in E : ~SameKey(x, y)} = A \cup B
    <3>1. ASSUME NEW x \in E, ~SameKey(x, y) PROVE x \in A \cup B
      <4>1. PICK i \in 1 .. n : w[i] = x
        BY <1>2
      <4>2. i \in kept + 1 .. n \/ i \in 1 .. top
        BY <1>2, <1>6, <1>10, <1>12, <3>1, <4>1
      <4>. QED  BY <2>2, <4>1, <4>2 DEF FromTo
    <3>2. ASSUME NEW x \in A \cup B PROVE x \in E /\ ~SameKey(x, y)
      <4>1. x \in E /\ (EntryLess(x, y) \/ EntryLess(y, x))
        BY <2>7, <2>8, <3>2
      <4>. QED  BY <1>2, <4>1, EntryOrder, EntryTransitive
    <3>. QED  BY <3>1, <3>2
  <2>10. AllLess(A, C)
    BY <2>5, <2>7 DEF AllLess
  <2>11. AllLess(A \cup C, B)
    <3>1. ASSUME NEW x \in A \cup C, NEW z \in B PROVE EntryLess(x, z)
      <4>1. z \in Entry /\ EntryLess(y, z)
        BY <1>2, <2>8, <3>1
      <4>2. CASE x \in A
        <5>1. x \in Entry /\ EntryLess(x, y)
          BY <1>2, <2>7, <4>2
        <5>. QED  BY <4>1, <5>1, EntryTransitive
      <4>3. CASE x \in C
        BY <2>5, <4>1, <4>3
      <4>. QED  BY <3>1, <4>2, <4>3
    <3>. QED  BY <3>1 DEF AllLess
  <2>12. PathIs(SubSeq(p, 1, top) \o inserted, A \cup C)
    BY <2>3, <2>6, <2>10, PathIsConcat
  <2>13. PathIs(SubSeq(p, 1, top) \o inserted \o SubSeq(p, kept + 1, n), A \cup C \cup B)
    BY <2>4, <2>11, <2>12, PathIsConcat
  <2>14. A \cup C \cup B = Updated(E, y, RelevantIn(y, cont))
    BY <1>13, <1>22, <2>5, <2>9 DEF Updated
  <2>. QED  BY <1>4, <1>16, <1>18, <1>20, <1>22, <2>13, <2>14
<1>. QED  BY <1>21, <1>22

-----------------------------------------------------------------------------
(* The rules that apply to the element.                                     *)

RulesOf(m, a, some) ==
  m \cup {AuthorRuleOf(b, StyleAttributeLayer) : b \in {a} \ {NoBlock}}
    \cup {EffectRule(e, some[e]) : e \in {d \in Effects : some[d] # NoBlock}}

\* What the environment may have; the declarations that scripts do not change
\* have the importances they began with.
SomeEffects(some) ==
  some \in [Effects -> SomeBlock] /\ \A e \in Effects : some[e] \in EffectBlock[e] \cup {NoBlock}
SomeAttribute == AttributeBlock \cup {NoBlock}
ContentFits(cont) ==
  /\ cont \in [Block -> SUBSET Importance]
  /\ \A b \in Block \ AttributeBlock : cont[b] = InitialContent[b]

\* Rules of the browser and of the user with important declarations are in no
\* layer.
ImportantUnlayered ==
  \A set \in MatchSets : \A r \in set :
    r.origin \in {UA, User} /\ "important" \in InitialContent[r.block] => r.layer = RootLayer

\* A rule that is a record of parts that fit is one of an element.
LEMMA RuleIs ==
  ASSUME NEW o \in Origins, NEW d \in Number, NEW l \in LayerOrder, NEW s \in Number, NEW b \in SomeBlock,
         RuleShape(o, d, l, s, b), NEW r,
         r = [origin |-> o, depth |-> d, layer |-> l, specificity |-> s, block |-> b]
  PROVE  /\ r \in ElementRule
         /\ r.origin = o /\ r.depth = d /\ r.layer = l /\ r.specificity = s /\ r.block = b
<1>1. r.origin = o /\ r.depth = d /\ r.layer = l /\ r.specificity = s /\ r.block = b
  OBVIOUS
<1>2. r \in RuleRecord
  BY DEF RuleRecord
<1>3. RuleShape(r.origin, r.depth, r.layer, r.specificity, r.block)
  BY <1>1, Zenon
<1>. QED  BY <1>1, <1>2, <1>3, Zenon DEF ElementRule

\* The rules of the style attribute and of animations are what they should be.
LEMMA AttributeRuleIs ==
  ASSUME NEW b \in SomeBlock, NEW r, r = AuthorRuleOf(b, StyleAttributeLayer)
  PROVE  /\ r \in ElementRule
         /\ r.origin = Author /\ r.depth = 0 /\ r.layer = StyleAttributeLayer
         /\ r.specificity = 0 /\ r.block = b
<1>1. r = [origin |-> Author, depth |-> 0, layer |-> StyleAttributeLayer, specificity |-> 0, block |-> b]
  BY DEF AuthorRuleOf
<1>2. Author \in Origins /\ 0 \in Number
  BY DEF Origins, Number, Author, UA, Transitions
<1>3. StyleAttributeLayer \in LayerOrder
  BY LayerNumbers DEF LayerOrder
<1>4. RuleShape(Author, 0, StyleAttributeLayer, 0, b)
  <2>1. 0 \in -(Slots + 1) .. Outer
    BY SlotsAssumption
  <2>2. Author \notin Effects \cup {PositionFallback}
    BY DEF Author, Effects, PositionFallback, SMILOverride, Animations, Transitions
  <2>. QED  BY <2>1, <2>2, Zenon DEF RuleShape
<1>. QED  BY <1>1, <1>2, <1>3, <1>4, RuleIs

\* So is the rule of an animation, or of @position-try.
LEMMA EffectRuleIs ==
  ASSUME NEW e \in Effects \cup {PositionFallback}, NEW b \in SomeBlock \ AttributeBlock, NEW r,
         r = EffectRule(e, b)
  PROVE  /\ r \in ElementRule
         /\ r.origin = e /\ r.depth = 0 /\ r.layer = RootLayer /\ r.specificity = 0 /\ r.block = b
<1>1. r = [origin |-> e, depth |-> 0, layer |-> RootLayer, specificity |-> 0, block |-> b]
  BY DEF EffectRule, AuthorRuleOf
<1>2. e \in Origins /\ 0 \in Number /\ e # Author
  BY DEF Origins, Number, Author, UA, Transitions, Effects, PositionFallback, SMILOverride, Animations
<1>3. RootLayer \in LayerOrder /\ RootLayer # StyleAttributeLayer
  BY LayerNumbers DEF LayerOrder
<1>4. RuleShape(e, 0, RootLayer, 0, b)
  <2>1. 0 \in -(Slots + 1) .. Outer
    BY SlotsAssumption
  <2>. QED  BY <1>2, <1>3, <2>1, Zenon DEF RuleShape
<1>. QED  BY <1>1, <1>2, <1>3, <1>4, RuleIs

\* The rules that selectors match, as the assumption describes them.
LEMMA MatchedRuleIs ==
  ASSUME NEW m \in MatchSets, NEW r \in m
  PROVE  /\ r \in ElementRule
         /\ r.origin \in {UA, User, PresHints, Author}
         /\ r.layer # StyleAttributeLayer
         /\ r.block \in Block \ AttributeBlock
         /\ r.origin = PresHints => "important" \notin InitialContent[r.block]
<1>1. PICK O, D, L, B : /\ O = {UA, User, PresHints, Author} /\ D = Int /\ L = 0 .. RootLayer
                        /\ B = Block \ AttributeBlock
  OBVIOUS
<1>2. MatchedRule = [origin : O, depth : D, layer : L, specificity : D, block : B]
  BY <1>1, Zenon DEF MatchedRule
<1>3. r \in MatchedRule
  BY ElementRulesAssumption, Zenon
<1>4. /\ r = [origin |-> r.origin, depth |-> r.depth, layer |-> r.layer, specificity |-> r.specificity,
              block |-> r.block]
      /\ r.origin \in O /\ r.depth \in D /\ r.layer \in L /\ r.specificity \in D /\ r.block \in B
  BY <1>2, <1>3
<1>5. PICK o, d, l, s, b : /\ o = r.origin /\ d = r.depth /\ l = r.layer /\ s = r.specificity
                           /\ b = r.block
  OBVIOUS
<1>6. o \in Origins /\ d \in Number /\ s \in Number /\ b \in SomeBlock
  BY <1>1, <1>4, <1>5 DEF Origins, Number, SomeBlock, UA, User, PresHints, Author, Transitions
<1>7. l \in LayerOrder /\ l # StyleAttributeLayer
  BY <1>1, <1>4, <1>5, LayerNumbers DEF LayerOrder
<1>8. r.depth \in IF r.origin = Author THEN -(Slots + 1) .. Outer ELSE {0}
  BY ElementRulesAssumption, Zenon
<1>9. d \in -(Slots + 1) .. Outer /\ (o # Author => d = 0)
  <2>1. 0 \in -(Slots + 1) .. Outer
    BY SlotsAssumption
  <2>. QED  BY <1>5, <1>8, <2>1
<1>10. o \notin Effects \cup {PositionFallback}
  BY <1>1, <1>4, <1>5
     DEF Effects, UA, User, PresHints, Author, PositionFallback, SMILOverride, Animations, Transitions
<1>11. RuleShape(o, d, l, s, b)
  BY <1>1, <1>4, <1>5, <1>7, <1>9, <1>10, Zenon DEF RuleShape
<1>12. r = [origin |-> o, depth |-> d, layer |-> l, specificity |-> s, block |-> b]
  BY <1>4, <1>5, Zenon
<1>13. r \in ElementRule
  BY <1>6, <1>7, <1>11, <1>12, RuleIs
<1>14. r.origin = PresHints => "important" \notin InitialContent[r.block]
  BY ElementRulesAssumption, Zenon
<1>. QED  BY <1>1, <1>4, <1>5, <1>7, <1>13, <1>14, Zenon

\* Two matched rules of the same place and specificity are the same.
LEMMA MatchedApart ==
  ASSUME NEW m \in MatchSets, NEW r \in m, NEW q \in m,
         r.origin = q.origin, r.depth = q.depth, r.layer = q.layer, r.specificity = q.specificity
  PROVE  r = q
<1>1. r \in RuleRecord /\ q \in RuleRecord
  BY MatchedRuleIs, Zenon DEF ElementRule
<1>2. [r EXCEPT !.block = NoBlock] = [q EXCEPT !.block = NoBlock]
  <2>1. PICK o, d, l, s, b, c : /\ o = r.origin /\ d = r.depth /\ l = r.layer /\ s = r.specificity
                                /\ b = r.block /\ c = q.block
    OBVIOUS
  <2>2. r = [origin |-> o, depth |-> d, layer |-> l, specificity |-> s, block |-> b]
    BY <1>1, <2>1 DEF RuleRecord
  <2>3. q = [origin |-> o, depth |-> d, layer |-> l, specificity |-> s, block |-> c]
    BY <1>1, <2>1 DEF RuleRecord
  <2>. QED  BY <2>2, <2>3
<1>. DEFINE Bare(x) == [x EXCEPT !.block = NoBlock]
<1>3. \A x, y \in m : Bare(x) = Bare(y) => x = y
  BY ElementRulesAssumption, Zenon
<1>4. Bare(r) = Bare(q)
  BY <1>2, Zenon
<1>. HIDE DEF Bare
<1>. QED  BY <1>3, <1>4, Zenon

\* The rules that apply are the matched ones, the style attribute's and those
\* of effects, and each is told by its layer and origin.
LEMMA AppliedRule ==
  ASSUME NEW m \in MatchSets, NEW a \in SomeAttribute, NEW some, SomeEffects(some), NEW r
  PROVE  r \in RulesOf(m, a, some)
           <=> \/ r \in m
               \/ a # NoBlock /\ r = AuthorRuleOf(a, StyleAttributeLayer)
               \/ \E e \in Effects : some[e] # NoBlock /\ r = EffectRule(e, some[e])
BY Zenon DEF RulesOf

\* Each rule that applies is one of an element, and its layer and origin tell
\* which of these it is.
LEMMA AppliedRuleIs ==
  ASSUME NEW m \in MatchSets, NEW a \in SomeAttribute, NEW some, SomeEffects(some),
         NEW r \in RulesOf(m, a, some)
  PROVE  /\ r \in ElementRule /\ r.block \in Block /\ r.origin # PositionFallback
         /\ r.layer = StyleAttributeLayer => a # NoBlock /\ r = AuthorRuleOf(a, StyleAttributeLayer)
         /\ r.origin \in Effects => some[r.origin] # NoBlock /\ r = EffectRule(r.origin, some[r.origin])
         /\ r.layer # StyleAttributeLayer /\ r.origin \notin Effects => r \in m
<1>1. CASE r \in m
  <2>1. r.origin \notin Effects /\ r.origin # PositionFallback
    BY <1>1, MatchedRuleIs
       DEF Effects, UA, User, PresHints, Author, PositionFallback, SMILOverride, Animations, Transitions
  <2>. QED  BY <1>1, <2>1, MatchedRuleIs, Zenon
<1>2. CASE a # NoBlock /\ r = AuthorRuleOf(a, StyleAttributeLayer)
  <2>1. a \in SomeBlock /\ a \in Block
    BY <1>2, ElementRulesAssumption, Zenon DEF SomeBlock, SomeAttribute
  <2>2. Author \notin Effects /\ Author # PositionFallback
    BY DEF Effects, Author, PositionFallback, SMILOverride, Animations, Transitions
  <2>. QED  BY <1>2, <2>1, <2>2, AttributeRuleIs, Zenon
<1>3. ASSUME NEW e \in Effects, some[e] # NoBlock, r = EffectRule(e, some[e])
      PROVE  /\ r \in ElementRule /\ r.block \in Block /\ r.origin = e /\ r.layer # StyleAttributeLayer
             /\ r.origin # PositionFallback
  <2>1. some[e] \in EffectBlock[e]
    BY <1>3, Zenon DEF SomeEffects
  <2>2. EffectBlock[e] \in SUBSET (Block \ AttributeBlock)
    BY <1>3, ElementRulesAssumption
  <2>3. some[e] \in Block /\ some[e] \in SomeBlock \ AttributeBlock
    BY <2>1, <2>2 DEF SomeBlock
  <2>4. PICK b \in SomeBlock \ AttributeBlock : b = some[e]
    BY <2>3
  <2>5. r \in ElementRule /\ r.block = b /\ r.origin = e /\ r.layer = RootLayer
    BY <1>3, <2>4, EffectRuleIs
  <2>6. RootLayer # StyleAttributeLayer
    BY LayerNumbers
  <2>7. e # PositionFallback
    BY <1>3 DEF Effects, PositionFallback, SMILOverride, Animations, Transitions
  <2>. QED  BY <2>3, <2>4, <2>5, <2>6, <2>7, Zenon
<1>4. CASE \E e \in Effects : some[e] # NoBlock /\ r = EffectRule(e, some[e])
  <2>1. PICK e \in Effects : some[e] # NoBlock /\ r = EffectRule(e, some[e])
    BY <1>4
  <2>2. /\ r \in ElementRule /\ r.block \in Block /\ r.origin = e /\ r.layer # StyleAttributeLayer
        /\ r.origin # PositionFallback
    BY <1>3, <2>1
  <2>. QED  BY <2>1, <2>2, Zenon
<1>. QED  BY <1>1, <1>2, <1>4, AppliedRule

\* There are finitely many.
LEMMA AppliedFinite ==
  ASSUME NEW m \in MatchSets, NEW a \in SomeAttribute, NEW some, SomeEffects(some)
  PROVE  IsFiniteSet(RulesOf(m, a, some))
<1>1. PICK r0, r5, r6, r7 : /\ r0 = AuthorRuleOf(a, StyleAttributeLayer)
                            /\ r5 = EffectRule(SMILOverride, some[SMILOverride])
                            /\ r6 = EffectRule(Animations, some[Animations])
                            /\ r7 = EffectRule(Transitions, some[Transitions])
  OBVIOUS
<1>2. RulesOf(m, a, some) \subseteq m \cup ({r0} \cup ({r5} \cup ({r6} \cup {r7})))
  <2>1. ASSUME NEW r \in RulesOf(m, a, some) PROVE r \in m \/ r \in {r0, r5, r6, r7}
    <3>1. \/ r \in m
          \/ a # NoBlock /\ r = AuthorRuleOf(a, StyleAttributeLayer)
          \/ \E e \in Effects : some[e] # NoBlock /\ r = EffectRule(e, some[e])
      BY AppliedRule
    <3>2. ASSUME NEW e \in Effects, r = EffectRule(e, some[e]) PROVE r \in {r5, r6, r7}
      <4>1. e = SMILOverride \/ e = Animations \/ e = Transitions
        BY DEF Effects
      <4>. QED  BY <1>1, <3>2, <4>1, Zenon
    <3>. QED  BY <1>1, <3>1, <3>2
  <2>. QED  BY <2>1
<1>3. IsFiniteSet(m)
  BY ElementRulesAssumption, Zenon
<1>4. IsFiniteSet(m \cup ({r0} \cup ({r5} \cup ({r6} \cup {r7}))))
  BY <1>3, FS_Singleton, FS_Union
<1>. QED  BY <1>2, <1>4, FS_Subset

\* So they can be collected and inserted, whatever scripts change.
LEMMA AppliedFit ==
  ASSUME ImportantUnlayered, NEW m \in MatchSets, NEW a \in SomeAttribute, NEW some, SomeEffects(some),
         NEW cont, ContentFits(cont)
  PROVE  Collectable(RulesOf(m, a, some)) /\ Insertable(RulesOf(m, a, some), cont)
<1>1. PICK rules : rules = RulesOf(m, a, some)
  OBVIOUS
<1>2. rules \subseteq ElementRule /\ IsFiniteSet(rules) /\ \A r \in rules : r.origin # PositionFallback
  BY <1>1, AppliedRuleIs, AppliedFinite
<1>20. ASSUME NEW r \in rules
       PROVE  /\ r.layer = StyleAttributeLayer => r = AuthorRuleOf(a, StyleAttributeLayer)
              /\ r.origin \in Effects => some[r.origin] # NoBlock /\ r = EffectRule(r.origin, some[r.origin])
              /\ r.layer # StyleAttributeLayer /\ r.origin \notin Effects => r \in m
  <2>1. r \in RulesOf(m, a, some)
    BY <1>1
  <2>. QED  BY <2>1, AppliedRuleIs
<1>3. ASSUME NEW r \in rules, NEW q \in rules,
             r.origin = q.origin, r.depth = q.depth, r.layer = q.layer, r.specificity = q.specificity
      PROVE  r = q
  <2>1. CASE r.layer = StyleAttributeLayer
    BY <1>3, <1>20, <2>1, Zenon
  <2>2. CASE r.origin \in Effects
    BY <1>3, <1>20, <2>2, Zenon
  <2>3. CASE r.layer # StyleAttributeLayer /\ r.origin \notin Effects
    <3>1. r \in m /\ q \in m
      BY <1>3, <1>20, <2>3, Zenon
    <3>. QED  BY <1>3, <3>1, MatchedApart
  <2>. QED  BY <2>1, <2>2, <2>3
<1>4. ASSUME NEW r \in rules, "important" \in cont[r.block] PROVE MayBeImportant(r.origin, r.layer)
  <2>1. CASE r.layer = StyleAttributeLayer
    <3>1. a \in SomeBlock
      BY ElementRulesAssumption, Zenon DEF SomeBlock, SomeAttribute
    <3>2. r.origin = Author
      <4>1. r = AuthorRuleOf(a, StyleAttributeLayer)
        BY <1>4, <1>20, <2>1
      <4>. QED  BY <3>1, <4>1, AttributeRuleIs
    <3>. QED  BY <3>2 DEF MayBeImportant
  <2>2. CASE r.layer # StyleAttributeLayer /\ r.origin \notin Effects
    <3>1. r \in m
      BY <1>4, <1>20, <2>2, Zenon
    <3>2. "important" \in InitialContent[r.block]
      BY <1>4, <3>1, MatchedRuleIs, Zenon DEF ContentFits
    <3>3. r.origin \in {UA, User, Author}
      BY <3>1, <3>2, MatchedRuleIs
    <3>4. r.origin \in {UA, User} => r.layer = RootLayer
      BY <3>1, <3>2, Zenon DEF ImportantUnlayered
    <3>. QED  BY <3>3, <3>4 DEF MayBeImportant
  <2>3. CASE r.origin \in Effects
    <3>1. PICK e \in Effects : e = r.origin /\ some[e] # NoBlock /\ r = EffectRule(e, some[e])
      BY <1>4, <1>20, <2>3
    <3>2. some[e] \in EffectBlock[e]
      BY <3>1, Zenon DEF SomeEffects
    <3>3. EffectBlock[e] \in SUBSET (Block \ AttributeBlock)
      BY <3>1, ElementRulesAssumption
    <3>4. PICK b \in SomeBlock \ AttributeBlock : b = some[e] /\ b \in Block
      BY <3>2, <3>3 DEF SomeBlock
    <3>5. r.block = b
      <4>1. e \in Effects \cup {PositionFallback} /\ r = EffectRule(e, b)
        BY <3>1, <3>4
      <4>. QED  BY <4>1, EffectRuleIs
    <3>6. "important" \notin InitialContent[b]
      BY <3>1, <3>2, <3>4, ElementRulesAssumption, Zenon
    <3>7. cont[b] = InitialContent[b]
      BY <3>4 DEF ContentFits
    <3>. QED  BY <1>4, <3>5, <3>6, <3>7
  <2>. QED  BY <2>1, <2>2, <2>3
<1>5. Collectable(rules)
  <2>1. \A r, q \in rules : (/\ r.origin = q.origin /\ r.depth = q.depth
                             /\ r.layer = q.layer /\ r.specificity = q.specificity) => r = q
    BY <1>3, Zenon
  <2>. QED  BY <1>2, <2>1, Zenon DEF Collectable
<1>6. Insertable(rules, cont)
  BY <1>4 DEF Insertable
<1>. QED  BY <1>1, <1>5, <1>6

-----------------------------------------------------------------------------
(* What the path of the element has to do with its rules.                   *)

\* The hint after which the declarations of an entry may be out of date.
ClassOf(x) ==
  IF OriginIn(x) \in Effects THEN OriginIn(x)
    ELSE IF LayerIn(x) = StyleAttributeLayer THEN RestyleStyleAttribute ELSE RestyleSelf

\* But for what the hints say, a path has the declarations of the rules, and
\* all those that there are any of.
Agrees(E, h, rules, cont) ==
  RestyleSelf \notin h =>
    \A x \in Entry : ClassOf(x) \notin h =>
      /\ x \in E => x[1] \in rules
      /\ x[1] \in rules /\ x[2] \in cont[BlockIn(x)] => x \in E

\* The blocks that override animations, and what animations know of them when
\* the style attribute may be out of date: the others, and its own only if it
\* had important declarations.
ImportantBlocks(E, cont) ==
  {BlockIn(x) : x \in {z \in E : ~IsNormal(z) /\ "important" \in cont[BlockIn(z)]}}

Knows(E, h, running, cont, over) ==
  running /\ RestyleSelf \notin h =>
    /\ over \ AttributeBlock = ImportantBlocks(E, cont) \ AttributeBlock
    /\ RestyleStyleAttribute \notin h => over = ImportantBlocks(E, cont)
    /\ over \cap AttributeBlock # {} => \E x \in E : ~IsNormal(x) /\ LayerIn(x) = StyleAttributeLayer

BlocksOf(E) == {BlockIn(x) : x \in E}

Fits(p, h, rules, cont, running, over) ==
  \E E : /\ PathIs(p, E) /\ BlocksOf(E) \subseteq Block
         /\ Agrees(E, h, rules, cont) /\ Knows(E, h, running, cont, over)

\* The hints are different.
LEMMA HintsApart ==
  /\ RestyleSelf \notin Effects /\ RestyleStyleAttribute \notin Effects /\ RestyleSelf # RestyleStyleAttribute
BY DEF RestyleSelf, RestyleStyleAttribute, Effects, SMILOverride, Animations, Transitions

\* get_properties_overriding_animations finds the important declarations.
LEMMA OverridingIs ==
  ASSUME PartsNear, NEW p, NEW E, PathIs(p, E), NEW cont
  PROVE  OverridingAnimations(p, cont) = ImportantBlocks(E, cont)
<1>1. PICK n, w : Listing(w, n, E) /\ p = NodesOf(w, n)
  BY DEF PathIs
<1>2. n \in Nat /\ w \in [1 .. n -> E] /\ (\A x \in E : \E i \in 1 .. n : w[i] = x) /\ E \in SUBSET Entry
  BY <1>1 DEF Listing, PathIs
<1>3. ToSet(p) = {NodeOf(x) : x \in E}
  <2>1. DOMAIN p = 1 .. n /\ \A i \in 1 .. n : p[i] = NodeOf(w[i])
    BY <1>1 DEF NodesOf
  <2>. QED  BY <1>2, <2>1 DEF ToSet
<1>4. ASSUME NEW x \in E
      PROVE  /\ NodeOf(x).source = BlockIn(x)
             /\ (/\ NodeOf(x).priority.level.origin # Transitions
                 /\ LevelLess(Level(Animations), NodeOf(x).priority.level)) <=> ~IsNormal(x)
  <2>1. x \in Entry
    BY <1>2
  <2>2. PICK level \in CascadeLevel : level = LevelIn(x)
    BY <2>1, LevelByParts
  <2>3. level.origin = OriginIn(x) /\ level.order = DepthIn(x) /\ (level.important <=> ~IsNormal(x))
    BY <2>1, <2>2, LevelByParts
  <2>4. PICK o, d, n0 : o = OriginIn(x) /\ d = DepthIn(x) /\ n0 = IsNormal(x)
    OBVIOUS
  <2>5. o \in 0 .. 7 /\ d \in Int /\ (o # 3 => d = 0) /\ n0 \in BOOLEAN /\ (~n0 => o \in {0, 1, 3})
    BY <2>1, <2>4, EntryParts, Zenon DEF PartsFit
  <2>6. level.origin # Transitions /\ LevelLess(Level(Animations), level) <=> ~n0
    <3>0. PICK a, no : no = FALSE /\ a = [origin |-> 6, order |-> 0, important |-> no]
      OBVIOUS
    <3>1. a = Level(Animations) /\ a.origin = 6 /\ a.order = 0 /\ a.important = FALSE
      BY <3>0 DEF Level, Animations
    <3>2. PICK b \in BOOLEAN : b = level.important
      BY DEF CascadeLevel
    <3>3. level.origin = o /\ level.order = d /\ b = ~n0
      BY <2>3, <2>4, <2>5, <3>2
    <3>4. PICK v \in BOOLEAN : v <=> LevelLess(a, level)
      OBVIOUS
    <3>5. v <=> IF b THEN 6 # 7 ELSE 6 < o \/ (6 = o /\ 0 < d)
      BY <3>1, <3>2, <3>3, <3>4 DEF LevelLess, Transitions
    <3>6. o # 7 /\ v <=> ~n0
      <4>1. CASE n0
        <5>1. ~b /\ (o # 3 => d = 0) /\ o \in 0 .. 7 /\ d \in Int
          BY <2>5, <3>3, <4>1
        <5>2. v <=> 6 < o \/ (6 = o /\ 0 < d)
          BY <3>5, <5>1
        <5>3. ~(o # 7 /\ v)
          BY <5>1, <5>2
        <5>. QED  BY <4>1, <5>3
      <4>2. CASE ~n0
        <5>1. b
          BY <3>3, <4>2
        <5>2. o # 7
          BY <2>5, <4>2
        <5>3. v
          BY <3>5, <5>1
        <5>. QED  BY <4>2, <5>2, <5>3
      <4>. QED  BY <4>1, <4>2
    <3>. QED  BY <3>1, <3>3, <3>4, <3>6 DEF Transitions
  <2>. QED  BY <2>1, <2>2, <2>4, <2>6, NodeByParts
<1>5. PICK S : S = {NodeOf(x) : x \in {z \in E : ~IsNormal(z) /\ "important" \in cont[BlockIn(z)]}}
  OBVIOUS
<1>6. {z \in ToSet(p) : /\ z.priority.level.origin # Transitions
                        /\ LevelLess(Level(Animations), z.priority.level)
                        /\ "important" \in cont[z.source]} = S
  BY <1>3, <1>4, <1>5
<1>7. OverridingAnimations(p, cont) = {z.source : z \in S}
  BY <1>6, Zenon DEF OverridingAnimations
<1>8. {z.source : z \in S} = ImportantBlocks(E, cont)
  BY <1>4, <1>5 DEF ImportantBlocks
<1>. QED  BY <1>7, <1>8

\* Matching anew gives the declarations of the rules, and whoever is told
\* then knows what overrides animations.
LEMMA MatchFits ==
  ASSUME PartsNear, NEW rules, Collectable(rules), NEW cont, Insertable(rules, cont),
         \A r \in rules : r.block \in Block, NEW running, NEW over,
         running => over = OverridingAnimations(InsertOrderedRulesWithImportant(Collect(rules, Slots, Outer), cont), cont)
  PROVE  Fits(InsertOrderedRulesWithImportant(Collect(rules, Slots, Outer), cont), {}, rules, cont, running, over)
<1>1. PICK p, E : /\ p = InsertOrderedRulesWithImportant(Collect(rules, Slots, Outer), cont)
                  /\ E = EntriesOf(rules, cont)
  OBVIOUS
<1>2. PathIs(p, E)
  BY <1>1, InsertIs
<1>3. E \in SUBSET Entry
  BY <1>2 DEF PathIs
<1>4. E = {<<r, "normal">> : r \in rules}
            \cup {<<r, "important">> : r \in {q \in rules : "important" \in cont[q.block]}}
  <2>1. \A r : AsImp(Nor(r)) = <<r, "important">>
    BY DEF AsImp, Nor
  <2>. QED  BY <1>1, <2>1 DEF EntriesOf, Normals, Importants, WithImportant, Nor
<1>5. \A x \in E : x[1] \in rules
  BY <1>4
<1>6. BlocksOf(E) \subseteq Block
  BY <1>5 DEF BlocksOf, BlockIn
<1>7. ASSUME NEW x \in Entry, x[1] \in rules, x[2] \in cont[BlockIn(x)] PROVE x \in E
  <2>1. x = <<x[1], "normal">> \/ x = <<x[1], "important">>
    BY EntryPair
  <2>2. x[2] = "important" => "important" \in cont[x[1].block]
    BY <1>7 DEF BlockIn
  <2>. QED  BY <1>4, <1>7, <2>1, <2>2
<1>8. Agrees(E, {}, rules, cont)
  BY <1>5, <1>7 DEF Agrees
<1>9. ImportantBlocks(E, cont) \cap AttributeBlock # {}
        => \E x \in E : ~IsNormal(x) /\ LayerIn(x) = StyleAttributeLayer
  <2>1. ASSUME NEW x \in E, BlockIn(x) \in AttributeBlock PROVE LayerIn(x) = StyleAttributeLayer
    BY <1>3, <2>1, EntryParts, Zenon DEF PartsFit
  <2>. QED  BY <2>1 DEF ImportantBlocks
<1>10. Knows(E, {}, running, cont, over)
  <2>1. running => over = ImportantBlocks(E, cont)
    BY <1>1, <1>2, OverridingIs
  <2>. QED  BY <1>9, <2>1 DEF Knows
<1>. QED  BY <1>1, <1>2, <1>6, <1>8, <1>10 DEF Fits

\* When a hint is left for whatever changes, the path agrees as it did.
LEMMA AgreesStill ==
  ASSUME NEW E, NEW h, NEW rules, NEW cont, Agrees(E, h, rules, cont),
         NEW h2, h \subseteq h2, NEW rules2, NEW cont2,
         RestyleSelf \notin h2 =>
           \A x \in Entry : ClassOf(x) \notin h2 =>
             /\ x[1] \in rules <=> x[1] \in rules2
             /\ x[1] \in rules => cont[BlockIn(x)] = cont2[BlockIn(x)]
  PROVE  Agrees(E, h2, rules2, cont2)
BY DEF Agrees

\* What replacing does to the declarations of a path.
LEMMA UpdatedShape ==
  ASSUME NEW p, NEW E, PathIs(p, E), NEW y \in Entry, NEW relevant, NEW x \in Entry
  PROVE  /\ ~SameKey(x, y) => (x \in Updated(E, y, relevant) <=> x \in E)
         /\ SameKey(x, y) /\ x \in Updated(E, y, relevant) => x = y /\ (x \in E \/ relevant)
         /\ relevant => y \in Updated(E, y, relevant)
<1>1. SameKey(y, y)
  BY DEF SameKey
<1>2. PICK n, w : Listing(w, n, E)
  BY DEF PathIs
<1>3. /\ n \in Nat /\ w \in [1 .. n -> E] /\ (\A z \in E : \E i \in 1 .. n : w[i] = z)
      /\ \A i, j \in 1 .. n : i < j => EntryLess(w[i], w[j])
  BY <1>2 DEF Listing, Rising
<1>4. ASSUME x \in E, y \in E, SameKey(x, y) PROVE x = y
  <2>1. PICK i, j \in 1 .. n : w[i] = x /\ w[j] = y
    BY <1>3, <1>4
  <2>2. ~EntryLess(x, y) /\ ~EntryLess(y, x)
    BY <1>4, EntryOrder, EntryTransitive
  <2>3. ~(i < j) /\ ~(j < i)
    BY <1>3, <2>1, <2>2
  <2>4. i = j
    BY <1>3, <2>3
  <2>. QED  BY <2>1, <2>4
<1>. QED  BY <1>1, <1>4 DEF Updated

\* The declarations of an animation and of a style attribute as entries: they
\* are at the level that the code replaces, and share it with no others.
EffectEntry(e, b) == <<EffectRule(e, b), "normal">>
AttributeEntry(b, importance) == <<AuthorRuleOf(b, StyleAttributeLayer), importance>>

\* The entry of an animation, or of @position-try, is at the level of its
\* origin and shares its key only with others of that origin.
LEMMA EffectEntryIs ==
  ASSUME PartsNear, NEW e \in Effects \cup {PositionFallback}, NEW b \in SomeBlock \ AttributeBlock,
         NEW y, y = EffectEntry(e, b)
  PROVE  /\ y \in Entry /\ Replaceable(y) /\ IsNormal(y)
         /\ y[1] = EffectRule(e, b) /\ y[2] = "normal" /\ BlockIn(y) = b
         /\ LevelIn(y) = Level(e) /\ LayerIn(y) = RootLayer
         /\ \A x \in Entry : SameKey(x, y) <=> OriginIn(x) = e
<1>1. PICK r : r = EffectRule(e, b)
  OBVIOUS
<1>2. /\ r \in ElementRule
      /\ r.origin = e /\ r.depth = 0 /\ r.layer = RootLayer /\ r.specificity = 0 /\ r.block = b
  BY <1>1, EffectRuleIs
<1>3. y = <<r, "normal">> /\ y = Nor(r)
  BY <1>1 DEF EffectEntry, Nor
<1>4. /\ y \in Entry /\ IsNormal(y)
      /\ OriginIn(y) = r.origin /\ DepthIn(y) = r.depth /\ LayerIn(y) = r.layer
      /\ SpecificityIn(y) = r.specificity /\ BlockIn(y) = r.block
  BY <1>2, <1>3, NormalEntry
<1>5. Replaceable(y)
  BY <1>2, <1>4 DEF Replaceable
<1>6. e \in {4, 5, 6, 7}
  BY DEF Effects, PositionFallback, SMILOverride, Animations, Transitions
<1>7. LevelIn(y) = Level(e)
  <2>1. LevelIn(y) = LevelOf(Slots, r)
    BY <1>3, <1>4 DEF LevelIn
  <2>2. r.origin # Author
    BY <1>2, <1>6 DEF Author
  <2>. QED  BY <1>2, <2>1, <2>2 DEF LevelOf
<1>8. ASSUME NEW x \in Entry, OriginIn(x) = e PROVE SameKey(x, y)
  <2>1. PICK d, l, s, n : d = DepthIn(x) /\ l = LayerIn(x) /\ s = SpecificityIn(x) /\ n = IsNormal(x)
    OBVIOUS
  <2>2. /\ e # 3 => d = 0
        /\ e \in {4, 5, 6, 7} => l = RootLayer /\ s = 0
        /\ n \in BOOLEAN
        /\ ~n => e \in {0, 1, 3}
    BY <1>8, <2>1, EntryParts, Zenon DEF PartsFit
  <2>3. d = 0 /\ l = RootLayer /\ s = 0 /\ n
    BY <1>6, <2>2
  <2>4. /\ OriginIn(x) = OriginIn(y) /\ DepthIn(x) = DepthIn(y) /\ LayerIn(x) = LayerIn(y)
        /\ SpecificityIn(x) = SpecificityIn(y) /\ IsNormal(x) /\ IsNormal(y)
    BY <1>2, <1>4, <1>8, <2>1, <2>3, Zenon
  <2>. QED  BY <2>4, Zenon DEF SameKey, Tier, Distance, Attached, LayerTurn
<1>9. ASSUME NEW x \in Entry, SameKey(x, y) PROVE OriginIn(x) = e
  BY <1>2, <1>4, <1>9, KeyAndBlock
<1>. QED  BY <1>1, <1>2, <1>3, <1>4, <1>5, <1>7, <1>8, <1>9

\* That of the style attribute is at the level of the element's own author
\* rules and shares its key only with others of the style attribute.
LEMMA AttributeEntryIs ==
  ASSUME PartsNear, NEW b \in SomeBlock, NEW importance \in Importance,
         NEW y, y = AttributeEntry(b, importance)
  PROVE  /\ y \in Entry /\ Replaceable(y)
         /\ y[1] = AuthorRuleOf(b, StyleAttributeLayer) /\ y[2] = importance /\ BlockIn(y) = b
         /\ LevelIn(y) = IF importance = "normal" THEN AuthorNormal(0) ELSE Important(AuthorNormal(0))
         /\ LayerIn(y) = StyleAttributeLayer
         /\ \A x \in Entry : SameKey(x, y) <=> LayerIn(x) = StyleAttributeLayer /\ x[2] = importance
<1>1. PICK r : r = AuthorRuleOf(b, StyleAttributeLayer)
  OBVIOUS
<1>2. /\ r \in ElementRule
      /\ r.origin = Author /\ r.depth = 0 /\ r.layer = StyleAttributeLayer /\ r.specificity = 0
      /\ r.block = b
  BY <1>1, AttributeRuleIs
<1>3. y = <<r, importance>> /\ y[1] = r /\ y[2] = importance
  BY <1>1 DEF AttributeEntry
<1>4. y \in Entry
  <2>1. MayBeImportant(r.origin, r.layer)
    BY <1>2 DEF MayBeImportant
  <2>. QED  BY <1>2, <1>3, <2>1 DEF Entry
<1>5. /\ OriginIn(y) = Author /\ DepthIn(y) = 0 /\ LayerIn(y) = StyleAttributeLayer
      /\ SpecificityIn(y) = 0 /\ BlockIn(y) = b
  BY <1>2, <1>3 DEF OriginIn, DepthIn, LayerIn, SpecificityIn, BlockIn
<1>6. Replaceable(y)
  BY <1>5 DEF Replaceable
<1>7. LevelIn(y) = IF importance = "normal" THEN AuthorNormal(0) ELSE Important(AuthorNormal(0))
  <2>1. LevelOf(Slots, r) = AuthorNormal(0)
    <3>1. ShadowOrder(Slots, 0) = 0
      BY DEF ShadowOrder, Smaller, MaxShadowOrder
    <3>. QED  BY <1>2, <3>1 DEF LevelOf
  <2>. QED  BY <1>3, <2>1 DEF LevelIn, IsNormal
<1>8. ASSUME NEW x \in Entry, LayerIn(x) = StyleAttributeLayer, x[2] = importance PROVE SameKey(x, y)
  <2>1. PICK o, d, l, s : o = OriginIn(x) /\ d = DepthIn(x) /\ l = LayerIn(x) /\ s = SpecificityIn(x)
    OBVIOUS
  <2>2. o = 3 /\ d = 0 /\ s = 0
    BY <1>8, <2>1, EntryParts, Zenon DEF PartsFit
  <2>3. /\ OriginIn(x) = OriginIn(y) /\ DepthIn(x) = DepthIn(y) /\ LayerIn(x) = LayerIn(y)
        /\ SpecificityIn(x) = SpecificityIn(y) /\ (IsNormal(x) <=> IsNormal(y))
    BY <1>3, <1>5, <1>8, <2>1, <2>2 DEF Author, IsNormal
  <2>. QED  BY <2>3, Zenon DEF SameKey, Tier, Distance, Attached, LayerTurn
<1>9. ASSUME NEW x \in Entry, SameKey(x, y) PROVE LayerIn(x) = StyleAttributeLayer /\ x[2] = importance
  BY <1>3, <1>4, <1>5, <1>9, KeyAndBlock
<1>. QED  BY <1>1, <1>3, <1>4, <1>5, <1>6, <1>7, <1>8, <1>9

\* A path agrees with the rules on some entries.
AgreesOn(E, X, rules, cont) ==
  \A x \in X : /\ x \in E => x[1] \in rules
               /\ x[1] \in rules /\ x[2] \in cont[BlockIn(x)] => x \in E

\* After what has the key of an entry is replaced by the rule that applies, if
\* one does, the path agrees on what has that key too.
LEMMA UpdateAgrees ==
  ASSUME NEW p, NEW E, PathIs(p, E), BlocksOf(E) \subseteq Block, NEW y \in Entry,
         NEW X \in SUBSET Entry, NEW rules, NEW cont, AgreesOn(E, X, rules, cont),
         \A x \in Entry : SameKey(x, y) => (x[1] \in rules <=> x = y /\ BlockIn(y) # NoBlock)
  PROVE  /\ AgreesOn(Updated(E, y, RelevantIn(y, cont)), X \cup {x \in Entry : SameKey(x, y)}, rules, cont)
         /\ BlocksOf(Updated(E, y, RelevantIn(y, cont))) \subseteq Block
<1>1. PICK relevant, F : relevant = RelevantIn(y, cont) /\ F = Updated(E, y, relevant)
  OBVIOUS
<1>2. relevant = (BlockIn(y) # NoBlock /\ y[2] \in cont[BlockIn(y)])
  BY <1>1 DEF RelevantIn
<1>3. NoBlock \notin Block
  BY ElementRulesAssumption, Zenon
<1>4. \A x \in E : BlockIn(x) \in Block
  BY DEF BlocksOf
<1>5. ASSUME NEW x \in Entry
      PROVE  /\ ~SameKey(x, y) => (x \in F <=> x \in E)
             /\ SameKey(x, y) /\ x \in F => x = y /\ (x \in E \/ relevant)
             /\ relevant => y \in F
  BY <1>1, UpdatedShape
<1>6. ASSUME NEW x \in X \cup {z \in Entry : SameKey(z, y)}
      PROVE  /\ x \in F => x[1] \in rules
             /\ x[1] \in rules /\ x[2] \in cont[BlockIn(x)] => x \in F
  <2>1. x \in Entry
    BY <1>6
  <2>2. CASE SameKey(x, y)
    <3>1. x \in F => x = y /\ BlockIn(y) # NoBlock
      BY <1>2, <1>3, <1>4, <1>5, <2>1, <2>2
    <3>2. x[1] \in rules => x = y /\ BlockIn(y) # NoBlock
      BY <2>1, <2>2
    <3>3. x = y /\ BlockIn(y) # NoBlock /\ x[2] \in cont[BlockIn(x)] => relevant
      BY <1>2
    <3>. QED  BY <1>5, <2>1, <2>2, <3>1, <3>2, <3>3
  <2>3. CASE ~SameKey(x, y)
    BY <1>5, <1>6, <2>1, <2>3 DEF AgreesOn
  <2>. QED  BY <2>2, <2>3
<1>7. BlocksOf(F) \subseteq Block
  <2>1. ASSUME NEW x \in F PROVE BlockIn(x) \in Block
    <3>1. x \in E \/ (relevant /\ x = y)
      BY <1>1, <2>1 DEF Updated
    <3>2. BlockIn(y) \in SomeBlock
      BY EntryParts
    <3>. QED  BY <1>2, <1>4, <3>1, <3>2 DEF SomeBlock
  <2>. QED  BY <2>1 DEF BlocksOf
<1>8. AgreesOn(F, X \cup {x \in Entry : SameKey(x, y)}, rules, cont)
  BY <1>6 DEF AgreesOn
<1>. QED  BY <1>1, <1>7, <1>8

\* What overrides animations does not change when normal declarations are
\* replaced.
LEMMA NormalUpdate ==
  ASSUME NEW p, NEW E, PathIs(p, E), NEW y \in Entry, IsNormal(y), NEW relevant
  PROVE  {x \in Updated(E, y, relevant) : ~IsNormal(x)} = {x \in E : ~IsNormal(x)}
<1>1. E \in SUBSET Entry
  BY DEF PathIs
<1>2. ASSUME NEW x \in Entry, ~IsNormal(x) PROVE ~SameKey(x, y)
  BY <1>2, KeyAndBlock DEF IsNormal
<1>3. Updated(E, y, relevant) \subseteq E \cup {y}
  BY DEF Updated
<1>4. \A x \in Entry : ~SameKey(x, y) => (x \in Updated(E, y, relevant) <=> x \in E)
  BY UpdatedShape
<1>. QED  BY <1>1, <1>2, <1>3, <1>4

\* What animations know stays true while the important declarations stay and
\* hints are left.
LEMMA KnowsStill ==
  ASSUME NEW E, NEW F, {x \in F : ~IsNormal(x)} = {x \in E : ~IsNormal(x)},
         NEW h, NEW running, NEW cont, NEW over, Knows(E, h, running, cont, over),
         NEW h2, RestyleSelf \in h => RestyleSelf \in h2,
         RestyleStyleAttribute \in h => RestyleStyleAttribute \in h2
  PROVE  Knows(F, h2, running, cont, over)
<1>1. \A x : ~IsNormal(x) => (x \in F <=> x \in E)
  OBVIOUS
<1>2. ImportantBlocks(F, cont) = ImportantBlocks(E, cont)
  <2>1. {z \in F : ~IsNormal(z) /\ "important" \in cont[BlockIn(z)]}
          = {z \in E : ~IsNormal(z) /\ "important" \in cont[BlockIn(z)]}
    BY <1>1
  <2>. QED  BY <2>1, Zenon DEF ImportantBlocks
<1>. QED  BY <1>1, <1>2 DEF Knows

\* After the rule of an effect is replaced, the path agrees with it.
LEMMA EffectReplaced ==
  ASSUME PartsNear, NEW m \in MatchSets, NEW a \in SomeAttribute, NEW some, SomeEffects(some),
         NEW cont, NEW running, NEW over, NEW h, NEW e \in Effects,
         NEW p, Fits(p, h, RulesOf(m, a, some), cont, running, over)
  PROVE  Fits(UpdateRuleAtLevel(p, Level(e), RootLayer, some[e], cont).path, h \ {e},
              RulesOf(m, a, some), cont, running, over)
<1>1. PICK rules : rules = RulesOf(m, a, some)
  OBVIOUS
<1>2. PICK E : /\ PathIs(p, E) /\ BlocksOf(E) \subseteq Block
               /\ Agrees(E, h, rules, cont) /\ Knows(E, h, running, cont, over)
  BY <1>1 DEF Fits
<1>3. PICK b \in SomeBlock \ AttributeBlock : b = some[e]
  <2>1. some[e] \in EffectBlock[e] \cup {NoBlock}
    BY DEF SomeEffects
  <2>2. EffectBlock[e] \in SUBSET (Block \ AttributeBlock)
    BY ElementRulesAssumption
  <2>3. NoBlock \notin AttributeBlock
    BY ElementRulesAssumption, Zenon
  <2>. QED  BY <2>1, <2>2, <2>3 DEF SomeBlock
<1>4. PICK y : y = EffectEntry(e, b)
  OBVIOUS
<1>5. /\ y \in Entry /\ Replaceable(y) /\ IsNormal(y)
      /\ y[1] = EffectRule(e, b) /\ y[2] = "normal" /\ BlockIn(y) = b
      /\ LevelIn(y) = Level(e) /\ LayerIn(y) = RootLayer
      /\ \A x \in Entry : SameKey(x, y) <=> OriginIn(x) = e
  BY <1>4, EffectEntryIs
<1>6. UpdateRuleAtLevel(p, Level(e), RootLayer, some[e], cont) = UpdateOf(p, y, cont)
  BY <1>3, <1>5, Zenon DEF UpdateOf
<1>7. PICK F : F = Updated(E, y, RelevantIn(y, cont))
  OBVIOUS
<1>8. PathIs(UpdateOf(p, y, cont).path, F)
  BY <1>2, <1>5, <1>7, UpdateIs
<1>9. PICK X \in SUBSET Entry : X = IF RestyleSelf \in h THEN {} ELSE {x \in Entry : ClassOf(x) \notin h}
  OBVIOUS
<1>10. AgreesOn(E, X, rules, cont)
  BY <1>2, <1>9 DEF Agrees, AgreesOn
<1>11. ASSUME NEW x \in Entry, SameKey(x, y) PROVE x[1] \in rules <=> x = y /\ BlockIn(y) # NoBlock
  <2>1. OriginIn(x) = e
    BY <1>5, <1>11
  <2>2. ASSUME x[1] \in rules PROVE x = y /\ BlockIn(y) # NoBlock
    <3>1. PICK r \in RulesOf(m, a, some) : r = x[1]
      BY <1>1, <2>2
    <3>2. r.origin = e
      BY <2>1, <3>1 DEF OriginIn
    <3>3. some[e] # NoBlock /\ r = EffectRule(e, some[e])
      BY <3>2, AppliedRuleIs
    <3>4. x[1] = y[1] /\ x[2] = y[2]
      BY <1>3, <1>5, <1>11, <3>1, <3>3, KeyAndBlock
    <3>. QED  BY <1>3, <1>5, <3>3, <3>4, EntryPair
  <2>3. ASSUME x = y, BlockIn(y) # NoBlock PROVE x[1] \in rules
    <3>1. some[e] # NoBlock /\ x[1] = EffectRule(e, some[e])
      BY <1>3, <1>5, <2>3
    <3>. QED  BY <1>1, <3>1, AppliedRule
  <2>. QED  BY <2>2, <2>3
<1>12. /\ AgreesOn(F, X \cup {x \in Entry : SameKey(x, y)}, rules, cont)
       /\ BlocksOf(F) \subseteq Block
  BY <1>2, <1>5, <1>7, <1>10, <1>11, UpdateAgrees
<1>13. Agrees(F, h \ {e}, rules, cont)
  <2>1. SUFFICES ASSUME RestyleSelf \notin h \ {e}, NEW x \in Entry, ClassOf(x) \notin h \ {e}
                 PROVE  /\ x \in F => x[1] \in rules
                        /\ x[1] \in rules /\ x[2] \in cont[BlockIn(x)] => x \in F
    BY DEF Agrees
  <2>2. RestyleSelf \notin h
    BY <2>1, HintsApart
  <2>3. x \in X \cup {z \in Entry : SameKey(z, y)}
    <3>1. ClassOf(x) \notin h \/ ClassOf(x) = e
      BY <2>1
    <3>2. ClassOf(x) = e => OriginIn(x) = e
      BY HintsApart DEF ClassOf
    <3>. QED  BY <1>5, <1>9, <2>2, <3>1, <3>2
  <2>. QED  BY <1>12, <2>3 DEF AgreesOn
<1>14. Knows(F, h \ {e}, running, cont, over)
  <2>1. {x \in F : ~IsNormal(x)} = {x \in E : ~IsNormal(x)}
    BY <1>2, <1>5, <1>7, NormalUpdate
  <2>2. /\ RestyleSelf \in h => RestyleSelf \in h \ {e}
        /\ RestyleStyleAttribute \in h => RestyleStyleAttribute \in h \ {e}
    BY HintsApart
  <2>. QED  BY <1>2, <2>1, <2>2, KnowsStill
<1>. QED  BY <1>1, <1>6, <1>8, <1>12, <1>13, <1>14 DEF Fits

\* replace_rules: the effects are replaced in the order of the code.
Replaced(p, e, h) ==
  IF e \in h THEN UpdateRuleAtLevel(p, Level(e), RootLayer, effects[e], content).path ELSE p

\* The fold of replace_rules replaces the effects in turn.
LEMMA ReplaceInTurn ==
  ASSUME NEW old, NEW h
  PROVE  ReplaceEffects(old, h)
           = Replaced(Replaced(Replaced(old, SMILOverride, h), Transitions, h), Animations, h)
<1>. DEFINE n == 3
            v == <<SMILOverride, Transitions, Animations>>
            Eq(f) == f = [q \in SUBSET (1 .. n) |->
                            IF q = {} THEN old ELSE Replaced(f[q \ {Max(q)}], v[Max(q)], h)]
            one(q)   == IF 1 \in q THEN Replaced(old, v[1], h) ELSE old
            two(q)   == IF 2 \in q THEN Replaced(one(q), v[2], h) ELSE one(q)
            three(q) == IF 3 \in q THEN Replaced(two(q), v[3], h) ELSE two(q)
            g == [q \in SUBSET (1 .. n) |-> three(q)]
<1>1. n \in Nat /\ DOMAIN v = 1 .. n /\ Len(v) = n
  OBVIOUS
<1>2. ReplaceEffects(old, h) = FoldLeft(LAMBDA p, e : Replaced(p, e, h), old, v)
  BY Zenon DEF ReplaceEffects, Replaced
<1>3. v[1] = SMILOverride /\ v[2] = Transitions /\ v[3] = Animations
  OBVIOUS
<1>. HIDE DEF v
<1>4. Eq(g)
  <2>1. ASSUME NEW q \in SUBSET (1 .. n), q # {}
        PROVE  g[q] = Replaced(g[q \ {Max(q)}], v[Max(q)], h)
    <3>1. Max(q) \in q /\ (\A i \in q : i <= Max(q)) /\ Max(q) \in 1 .. 3
      BY <2>1, LastPosition
    <3>2. PICK k \in 1 .. 3 : k = Max(q) /\ k \in q /\ \A i \in q : i <= k
      BY <3>1
    <3>3. PICK s : s = q \ {k}
      OBVIOUS
    <3>4. s \in SUBSET (1 .. n) /\ g[s] = three(s) /\ g[q] = three(q)
      BY <2>1, <3>3
    <3>5. three(q) = Replaced(three(s), v[k], h)
      <4>1. CASE k = 1
        <5>1. 1 \in q /\ 2 \notin q /\ 3 \notin q /\ 1 \notin s /\ 2 \notin s /\ 3 \notin s
          BY <3>2, <3>3, <4>1
        <5>. QED  BY <4>1, <5>1, Zenon
      <4>2. CASE k = 2
        <5>1. 2 \in q /\ 3 \notin q /\ 2 \notin s /\ 3 \notin s /\ (1 \in s <=> 1 \in q)
          BY <3>2, <3>3, <4>2
        <5>. QED  BY <4>2, <5>1
      <4>3. CASE k = 3
        <5>1. 3 \in q /\ 3 \notin s /\ (1 \in s <=> 1 \in q) /\ (2 \in s <=> 2 \in q)
          BY <3>2, <3>3, <4>3
        <5>. QED  BY <4>3, <5>1
      <4>. QED  BY <4>1, <4>2, <4>3
    <3>. QED  BY <3>2, <3>3, <3>4, <3>5
  <2>2. g[{}] = old
    OBVIOUS
  <2>. HIDE DEF g
  <2>3. g = [q \in SUBSET (1 .. n) |-> g[q]]
    BY DEF g
  <2>. QED  BY <2>1, <2>2, <2>3
<1>5. PICK c : Eq(c) /\ ReplaceEffects(old, h) = c[1 .. n]
  <2>1. ReplaceEffects(old, h) = (CHOOSE c : Eq(c))[1 .. n]
    BY <1>1, <1>2 DEF FoldLeft, MapThenFoldSet
  <2>. HIDE DEF Eq
  <2>. QED  BY <1>4, <2>1
<1>6. ASSUME NEW i \in 1 .. n PROVE c[1 .. i] = Replaced(c[1 .. (i - 1)], v[i], h)
  <2>1. /\ (1 .. i) \in SUBSET (1 .. n) /\ 1 .. i # {}
        /\ Max(1 .. i) = i /\ (1 .. i) \ {Max(1 .. i)} = 1 .. (i - 1)
    BY <1>1, LastOfPrefix
  <2>. QED  BY <1>5, <2>1
<1>7. c[1 .. 0] = old
  <2>1. 1 .. 0 = {} /\ {} \in SUBSET (1 .. n)
    OBVIOUS
  <2>. QED  BY <1>5, <2>1
<1>8. /\ c[1 .. 1] = Replaced(c[1 .. 0], v[1], h) /\ c[1 .. 2] = Replaced(c[1 .. 1], v[2], h)
      /\ c[1 .. 3] = Replaced(c[1 .. 2], v[3], h)
  <2>1. 1 \in 1 .. n /\ 2 \in 1 .. n /\ 3 \in 1 .. n /\ 1 - 1 = 0 /\ 2 - 1 = 1 /\ 3 - 1 = 2
    OBVIOUS
  <2>. HIDE DEF n
  <2>. QED  BY <1>6, <2>1
<1>. QED  BY <1>3, <1>5, <1>7, <1>8

\* The rules of effects that hints name are replaced, each with its hint gone.
LEMMA OneReplaced ==
  ASSUME PartsNear, matched \in MatchSets, attribute \in SomeAttribute, SomeEffects(effects),
         NEW running, NEW over, NEW h, NEW g, g \subseteq h, NEW e \in Effects, e \in h => e \in g,
         NEW p, Fits(p, g, RulesOf(matched, attribute, effects), content, running, over)
  PROVE  Fits(Replaced(p, e, h), g \ {e}, RulesOf(matched, attribute, effects), content, running, over)
<1>1. CASE e \in h
  BY <1>1, EffectReplaced DEF Replaced
<1>2. CASE e \notin h
  <2>1. g \ {e} = g
    BY <1>2
  <2>. QED  BY <1>2, <2>1 DEF Replaced
<1>. QED  BY <1>1, <1>2

\* After all of them the path agrees on every effect.
LEMMA EffectsReplaced ==
  ASSUME PartsNear, matched \in MatchSets, attribute \in SomeAttribute, SomeEffects(effects),
         NEW running, NEW over, NEW h,
         NEW p, Fits(p, h, RulesOf(matched, attribute, effects), content, running, over)
  PROVE  Fits(ReplaceEffects(p, h), h \ Effects, RulesOf(matched, attribute, effects), content, running, over)
<1>1. PICK p1, p2, p3 : /\ p1 = Replaced(p, SMILOverride, h) /\ p2 = Replaced(p1, Transitions, h)
                        /\ p3 = Replaced(p2, Animations, h)
  OBVIOUS
<1>2. PICK h1, h2, h3 : h1 = h \ {SMILOverride} /\ h2 = h1 \ {Transitions} /\ h3 = h2 \ {Animations}
  OBVIOUS
<1>3. SMILOverride \in Effects /\ Transitions \in Effects /\ Animations \in Effects
  BY DEF Effects
<1>4. SMILOverride # Transitions /\ SMILOverride # Animations /\ Transitions # Animations
  BY DEF SMILOverride, Animations, Transitions
<1>5. Fits(p1, h1, RulesOf(matched, attribute, effects), content, running, over)
  BY <1>1, <1>2, <1>3, OneReplaced
<1>6. Fits(p2, h2, RulesOf(matched, attribute, effects), content, running, over)
  <2>1. h1 \subseteq h /\ (Transitions \in h => Transitions \in h1)
    BY <1>2, <1>4
  <2>. QED  BY <1>1, <1>2, <1>3, <1>5, <2>1, OneReplaced
<1>7. Fits(p3, h3, RulesOf(matched, attribute, effects), content, running, over)
  <2>1. h2 \subseteq h /\ (Animations \in h => Animations \in h2)
    BY <1>2, <1>4
  <2>. QED  BY <1>1, <1>2, <1>3, <1>6, <2>1, OneReplaced
<1>8. h3 = h \ Effects
  BY <1>2 DEF Effects
<1>9. p3 = ReplaceEffects(p, h)
  BY <1>1, ReplaceInTurn
<1>. QED  BY <1>7, <1>8, <1>9

\* After the style attribute's rules are replaced, the path agrees with them;
\* without a report, no important declaration went or came.
LEMMA AttributeReplaced ==
  ASSUME PartsNear, NEW m \in MatchSets, NEW a \in SomeAttribute, NEW some, SomeEffects(some),
         NEW cont, NEW running, NEW over,
         NEW p, Fits(p, {RestyleStyleAttribute}, RulesOf(m, a, some), cont, running, over),
         NEW normal, normal = UpdateRuleAtLevel(p, AuthorNormal(0), StyleAttributeLayer, a, cont),
         NEW both,
         both = UpdateRuleAtLevel(normal.path, Important(AuthorNormal(0)), StyleAttributeLayer, a, cont),
         NEW over2,
         over2 = IF (normal.importantChanged \/ both.importantChanged) /\ running
                   THEN OverridingAnimations(both.path, cont) ELSE over
  PROVE  Fits(both.path, {}, RulesOf(m, a, some), cont, running, over2)
<1>1. PICK rules, h : rules = RulesOf(m, a, some) /\ h = {RestyleStyleAttribute}
  OBVIOUS
<1>2. PICK E : /\ PathIs(p, E) /\ BlocksOf(E) \subseteq Block
               /\ Agrees(E, h, rules, cont) /\ Knows(E, h, running, cont, over)
  BY <1>1 DEF Fits
<1>3. a \in SomeBlock
  BY ElementRulesAssumption, Zenon DEF SomeBlock, SomeAttribute
<1>4. PICK y, z : y = AttributeEntry(a, "normal") /\ z = AttributeEntry(a, "important")
  OBVIOUS
<1>5. /\ y \in Entry /\ Replaceable(y) /\ IsNormal(y)
      /\ y[1] = AuthorRuleOf(a, StyleAttributeLayer) /\ y[2] = "normal" /\ BlockIn(y) = a
      /\ LevelIn(y) = AuthorNormal(0) /\ LayerIn(y) = StyleAttributeLayer
      /\ \A x \in Entry : SameKey(x, y) <=> LayerIn(x) = StyleAttributeLayer /\ x[2] = "normal"
  <2>1. "normal" \in Importance
    BY DEF Importance
  <2>. QED  BY <1>3, <1>4, <2>1, AttributeEntryIs DEF IsNormal
<1>6. /\ z \in Entry /\ Replaceable(z) /\ ~IsNormal(z)
      /\ z[1] = AuthorRuleOf(a, StyleAttributeLayer) /\ z[2] = "important" /\ BlockIn(z) = a
      /\ LevelIn(z) = Important(AuthorNormal(0)) /\ LayerIn(z) = StyleAttributeLayer
      /\ \A x \in Entry : SameKey(x, z) <=> LayerIn(x) = StyleAttributeLayer /\ x[2] = "important"
  <2>1. "important" \in Importance
    BY DEF Importance
  <2>. QED  BY <1>3, <1>4, <2>1, AttributeEntryIs DEF IsNormal
<1>7. normal = UpdateOf(p, y, cont) /\ both = UpdateOf(normal.path, z, cont)
  BY <1>5, <1>6, Zenon DEF UpdateOf
<1>8. PICK F, G : /\ F = Updated(E, y, RelevantIn(y, cont)) /\ G = Updated(F, z, RelevantIn(z, cont))
  OBVIOUS
<1>9. PathIs(normal.path, F) /\ ~normal.importantChanged
  <2>1. /\ PathIs(UpdateOf(p, y, cont).path, F)
        /\ UpdateOf(p, y, cont).importantChanged
             <=> ~IsNormal(y) /\ (RelevantIn(y, cont) \/ \E x \in E : SameKey(x, y))
    BY <1>2, <1>5, <1>8, UpdateIs
  <2>. QED  BY <1>5, <1>7, <2>1
<1>10. /\ PathIs(both.path, G)
       /\ both.importantChanged <=> RelevantIn(z, cont) \/ \E x \in F : SameKey(x, z)
  <2>1. /\ PathIs(UpdateOf(normal.path, z, cont).path, G)
        /\ UpdateOf(normal.path, z, cont).importantChanged
             <=> ~IsNormal(z) /\ (RelevantIn(z, cont) \/ \E x \in F : SameKey(x, z))
    BY <1>6, <1>8, <1>9, UpdateIs
  <2>. QED  BY <1>6, <1>7, <2>1
<1>11. PICK X \in SUBSET Entry : X = {x \in Entry : ClassOf(x) \notin h}
  OBVIOUS
<1>12. AgreesOn(E, X, rules, cont)
  BY <1>1, <1>2, <1>11, HintsApart DEF Agrees, AgreesOn
<1>13. ASSUME NEW t \in {y, z}, NEW x \in Entry, SameKey(x, t)
       PROVE  x[1] \in rules <=> x = t /\ BlockIn(t) # NoBlock
  <2>1. LayerIn(x) = StyleAttributeLayer /\ x[2] = t[2] /\ t \in Entry
    BY <1>5, <1>6, <1>13
  <2>2. ASSUME x[1] \in rules PROVE x = t /\ BlockIn(t) # NoBlock
    <3>1. PICK r \in RulesOf(m, a, some) : r = x[1]
      BY <1>1, <2>2
    <3>2. r.layer = StyleAttributeLayer
      BY <2>1, <3>1 DEF LayerIn
    <3>3. a # NoBlock /\ r = AuthorRuleOf(a, StyleAttributeLayer)
      BY <3>2, AppliedRuleIs
    <3>4. x[1] = t[1] /\ BlockIn(t) = a
      BY <1>5, <1>6, <1>13, <3>1, <3>3
    <3>. QED  BY <2>1, <3>3, <3>4, EntryPair
  <2>3. ASSUME x = t, BlockIn(t) # NoBlock PROVE x[1] \in rules
    <3>1. a # NoBlock /\ x[1] = AuthorRuleOf(a, StyleAttributeLayer)
      BY <1>5, <1>6, <1>13, <2>3
    <3>. QED  BY <1>1, <3>1, AppliedRule
  <2>. QED  BY <2>2, <2>3
<1>14. PICK Y \in SUBSET Entry, Z \in SUBSET Entry :
         Y = X \cup {x \in Entry : SameKey(x, y)} /\ Z = Y \cup {x \in Entry : SameKey(x, z)}
  OBVIOUS
<1>15. AgreesOn(F, Y, rules, cont) /\ BlocksOf(F) \subseteq Block
  <2>1. \A x \in Entry : SameKey(x, y) => (x[1] \in rules <=> x = y /\ BlockIn(y) # NoBlock)
    BY <1>13
  <2>. QED  BY <1>2, <1>5, <1>8, <1>12, <1>14, <2>1, UpdateAgrees
<1>16. AgreesOn(G, Z, rules, cont) /\ BlocksOf(G) \subseteq Block
  <2>1. \A x \in Entry : SameKey(x, z) => (x[1] \in rules <=> x = z /\ BlockIn(z) # NoBlock)
    BY <1>13
  <2>. QED  BY <1>6, <1>8, <1>9, <1>14, <1>15, <2>1, UpdateAgrees
<1>17. Agrees(G, {}, rules, cont)
  <2>1. \A x \in Entry : x \in Z
    <3>1. SUFFICES ASSUME NEW x \in Entry, ClassOf(x) \in h PROVE SameKey(x, y) \/ SameKey(x, z)
      BY <1>11, <1>14
    <3>2. LayerIn(x) = StyleAttributeLayer
      BY <1>1, <3>1, HintsApart DEF ClassOf
    <3>. QED  BY <1>5, <1>6, <3>1, <3>2, EntryPair
  <2>. QED  BY <1>16, <2>1 DEF Agrees, AgreesOn
<1>18. {x \in F : ~IsNormal(x)} = {x \in E : ~IsNormal(x)}
  BY <1>2, <1>5, <1>8, NormalUpdate
<1>19. CASE running /\ both.importantChanged
  <2>1. over2 = ImportantBlocks(G, cont)
    BY <1>10, <1>19, OverridingIs
  <2>2. ImportantBlocks(G, cont) \cap AttributeBlock # {}
          => \E x \in G : ~IsNormal(x) /\ LayerIn(x) = StyleAttributeLayer
    <3>1. ASSUME NEW x \in G, BlockIn(x) \in AttributeBlock PROVE LayerIn(x) = StyleAttributeLayer
      <4>1. x \in Entry
        BY <1>10, <3>1 DEF PathIs
      <4>. QED  BY <3>1, <4>1, EntryParts, Zenon DEF PartsFit
    <3>. QED  BY <3>1 DEF ImportantBlocks
  <2>3. Knows(G, {}, running, cont, over2)
    BY <2>1, <2>2 DEF Knows
  <2>. QED  BY <1>1, <1>10, <1>16, <1>17, <2>3 DEF Fits
<1>20. CASE ~both.importantChanged
  <2>1. over2 = over
    BY <1>9, <1>20
  <2>2. ~RelevantIn(z, cont) /\ \A x \in F : ~SameKey(x, z)
    BY <1>10, <1>20
  <2>3. F \in SUBSET Entry
    BY <1>9 DEF PathIs
  <2>4. G = F
    BY <1>8, <2>2 DEF Updated
  <2>5. ~\E x \in F : ~IsNormal(x) /\ LayerIn(x) = StyleAttributeLayer
    <3>1. SUFFICES ASSUME NEW x \in F, ~IsNormal(x), LayerIn(x) = StyleAttributeLayer PROVE FALSE
      OBVIOUS
    <3>2. x[2] = "important"
      BY <2>3, <3>1, EntryPair DEF IsNormal
    <3>. QED  BY <1>6, <2>2, <2>3, <3>1, <3>2
  <2>6. Knows(F, h, running, cont, over)
    BY <1>2, <1>18, KnowsStill
  <2>7. ImportantBlocks(F, cont) \cap AttributeBlock = {}
    <3>1. ASSUME NEW x \in F, BlockIn(x) \in AttributeBlock PROVE LayerIn(x) = StyleAttributeLayer
      BY <2>3, <3>1, EntryParts, Zenon DEF PartsFit
    <3>. QED  BY <2>5, <3>1 DEF ImportantBlocks
  <2>8. ASSUME running PROVE over = ImportantBlocks(F, cont)
    <3>1. RestyleSelf \notin h
      BY <1>1, HintsApart
    <3>. QED  BY <2>5, <2>6, <2>7, <2>8, <3>1 DEF Knows
  <2>9. Knows(G, {}, running, cont, over2)
    BY <2>1, <2>4, <2>7, <2>8 DEF Knows
  <2>. QED  BY <1>1, <1>10, <1>16, <1>17, <2>9 DEF Fits
<1>21. CASE ~running
  <2>1. Knows(G, {}, running, cont, over2)
    BY <1>21 DEF Knows
  <2>. QED  BY <1>1, <1>10, <1>16, <1>17, <2>1 DEF Fits
<1>. QED  BY <1>19, <1>20, <1>21

\* A change of one effect or of the style attribute leaves the other rules.
LEMMA OtherEffects ==
  ASSUME NEW m \in MatchSets, NEW a \in SomeAttribute, NEW some, SomeEffects(some),
         NEW some2, NEW e \in Effects, \A d \in Effects : d # e => some2[d] = some[d],
         NEW r \in RulesOf(m, a, some), r.origin # e
  PROVE  r \in RulesOf(m, a, some2)
<1>1. r \in RulesOf(m, a, some2)
        <=> \/ r \in m
            \/ a # NoBlock /\ r = AuthorRuleOf(a, StyleAttributeLayer)
            \/ \E d \in Effects : some2[d] # NoBlock /\ r = EffectRule(d, some2[d])
  BY Zenon DEF RulesOf
<1>2. /\ r.layer = StyleAttributeLayer => a # NoBlock /\ r = AuthorRuleOf(a, StyleAttributeLayer)
      /\ r.origin \in Effects => some[r.origin] # NoBlock /\ r = EffectRule(r.origin, some[r.origin])
      /\ r.layer # StyleAttributeLayer /\ r.origin \notin Effects => r \in m
  BY AppliedRuleIs
<1>3. r.origin \in Effects => some2[r.origin] # NoBlock /\ r = EffectRule(r.origin, some2[r.origin])
  BY <1>2
<1>. QED  BY <1>1, <1>2, <1>3, Zenon

\* Another style attribute changes no other rule.
LEMMA OtherAttribute ==
  ASSUME NEW m \in MatchSets, NEW a \in SomeAttribute, NEW some, SomeEffects(some),
         NEW a2, NEW r \in RulesOf(m, a, some), r.layer # StyleAttributeLayer
  PROVE  r \in RulesOf(m, a2, some)
<1>1. r \in RulesOf(m, a2, some)
        <=> \/ r \in m
            \/ a2 # NoBlock /\ r = AuthorRuleOf(a2, StyleAttributeLayer)
            \/ \E d \in Effects : some[d] # NoBlock /\ r = EffectRule(d, some[d])
  BY Zenon DEF RulesOf
<1>2. /\ r.origin \in Effects => some[r.origin] # NoBlock /\ r = EffectRule(r.origin, some[r.origin])
      /\ r.layer # StyleAttributeLayer /\ r.origin \notin Effects => r \in m
  BY AppliedRuleIs
<1>. QED  BY <1>1, <1>2, Zenon

\* Declarations of the style attribute are at its layer, so they have its hint.
LEMMA AttributeClass ==
  ASSUME NEW x \in Entry
  PROVE  /\ BlockIn(x) \in AttributeBlock => LayerIn(x) = StyleAttributeLayer
         /\ LayerIn(x) = StyleAttributeLayer => ClassOf(x) = RestyleStyleAttribute
         /\ OriginIn(x) \in Effects => ClassOf(x) = OriginIn(x)
<1>1. PICK o, l, b : o = OriginIn(x) /\ l = LayerIn(x) /\ b = BlockIn(x)
  OBVIOUS
<1>2. (b \in AttributeBlock => l = StyleAttributeLayer) /\ (l = StyleAttributeLayer => o = 3)
  BY <1>1, EntryParts, Zenon DEF PartsFit
<1>3. 3 \notin Effects
  BY DEF Effects, SMILOverride, Animations, Transitions
<1>. QED  BY <1>1, <1>2, <1>3 DEF ClassOf

\* Whoever is told when the declarations are known knows what overrides.
LEMMA KnowsExact ==
  ASSUME NEW E \in SUBSET Entry, NEW h, NEW running, NEW cont
  PROVE  Knows(E, h, running, cont, ImportantBlocks(E, cont))
<1>1. ImportantBlocks(E, cont) \cap AttributeBlock # {}
        => \E x \in E : ~IsNormal(x) /\ LayerIn(x) = StyleAttributeLayer
  BY AttributeClass DEF ImportantBlocks
<1>. QED  BY <1>1 DEF Knows

\* What overrides animations are blocks of rules.
LEMMA OverridingBlocks ==
  ASSUME PartsNear, NEW p, NEW h, NEW rules, NEW cont, NEW running, NEW over,
         Fits(p, h, rules, cont, running, over), NEW cont2
  PROVE  OverridingAnimations(p, cont2) \subseteq Block
<1>1. PICK E : PathIs(p, E) /\ BlocksOf(E) \subseteq Block
  BY DEF Fits
<1>2. OverridingAnimations(p, cont2) = ImportantBlocks(E, cont2)
  BY <1>1, OverridingIs
<1>. QED  BY <1>1, <1>2 DEF ImportantBlocks, BlocksOf

-----------------------------------------------------------------------------
(* The invariant.                                                           *)

Environment ==
  /\ matched \in MatchSets /\ attribute \in SomeAttribute
  /\ SomeEffects(effects) /\ ContentFits(content)

IInv ==
  /\ Environment
  /\ hint \subseteq Hints
  /\ overriding \subseteq Block
  /\ Fits(path, hint, RulesOf(matched, attribute, effects), content, effects[Animations] # NoBlock, overriding)

\* The initial path is one of matching.
LEMMA InitFits ==
  ASSUME PartsNear, ImportantUnlayered, Init
  PROVE  IInv
<1>1. /\ matched \in MatchSets /\ attribute \in SomeAttribute /\ content = InitialContent /\ hint = {}
      /\ effects = [e \in Effects |-> NoBlock]
      /\ path = MatchedPath /\ overriding = OverridingAnimations(path, content)
  BY DEF Init, NoEffects, SomeAttribute
<1>2. SomeEffects(effects)
  BY <1>1 DEF SomeEffects, SomeBlock
<1>3. ContentFits(content)
  BY <1>1, ElementRulesAssumption, Zenon DEF ContentFits
<1>4. PICK rules : rules = RulesOf(matched, attribute, effects)
  OBVIOUS
<1>5. Collectable(rules) /\ Insertable(rules, content)
  BY <1>1, <1>2, <1>3, <1>4, AppliedFit
<1>6. \A r \in rules : r.block \in Block
  BY <1>1, <1>2, <1>4, AppliedRuleIs
<1>7. path = InsertOrderedRulesWithImportant(Collect(rules, Slots, Outer), content)
  BY <1>1, <1>4, Zenon DEF MatchedPath, PathWith, RulesWith, RulesOf
<1>8. Fits(path, {}, rules, content, effects[Animations] # NoBlock, overriding)
  BY <1>1, <1>5, <1>6, <1>7, MatchFits
<1>9. overriding \subseteq Block
  BY <1>1, <1>8, OverridingBlocks
<1>. QED  BY <1>1, <1>2, <1>3, <1>4, <1>8, <1>9 DEF IInv, Environment

\* Each change of what applies leaves a hint for it.
LEMMA ChangeMatchesFits ==
  ASSUME IInv, NEW set \in MatchSets, ChangeMatches(set)
  PROVE  IInv'
<1>1. PICK E : PathIs(path, E) /\ BlocksOf(E) \subseteq Block
  BY DEF IInv, Fits
<1>2. /\ matched' = set /\ RestyleSelf \in hint' /\ hint' = hint \cup {RestyleSelf}
      /\ UNCHANGED <<attribute, effects, content, path, overriding>>
  BY DEF ChangeMatches
<1>3. PICK rules2, running2 : rules2 = RulesOf(matched, attribute, effects)' /\ running2 = (effects[Animations] # NoBlock)'
  OBVIOUS
<1>4. Agrees(E, hint', rules2, content') /\ Knows(E, hint', running2, content', overriding')
  BY <1>2 DEF Agrees, Knows
<1>5. Fits(path', hint', rules2, content', running2, overriding')
  BY <1>1, <1>2, <1>4 DEF Fits
<1>6. hint' \subseteq Hints
  BY <1>2 DEF IInv, Hints
<1>. QED  BY <1>2, <1>3, <1>5, <1>6 DEF IInv, Environment

\* Setting the style attribute leaves a hint, so the path fits.
LEMMA SetAttributeFits ==
  ASSUME IInv, NEW b \in SomeAttribute, SetAttribute(b)
  PROVE  IInv'
<1>1. PICK rules, rules2, running : /\ rules = RulesOf(matched, attribute, effects)
                                    /\ rules2 = RulesOf(matched, b, effects)
                                    /\ running = (effects[Animations] # NoBlock)
  OBVIOUS
<1>2. PICK E : /\ PathIs(path, E) /\ BlocksOf(E) \subseteq Block
               /\ Agrees(E, hint, rules, content) /\ Knows(E, hint, running, content, overriding)
  BY <1>1 DEF IInv, Fits
<1>3. /\ attribute' = b /\ hint' = hint \cup {RestyleStyleAttribute}
      /\ UNCHANGED <<matched, effects, content, path, overriding>>
  BY DEF SetAttribute
<1>4. ASSUME NEW x \in Entry, ClassOf(x) \notin hint' PROVE x[1] \in rules <=> x[1] \in rules2
  <2>1. PICK r : r = x[1] /\ r.layer # StyleAttributeLayer
    BY <1>3, <1>4, AttributeClass DEF LayerIn
  <2>2. matched \in MatchSets /\ attribute \in SomeAttribute /\ SomeEffects(effects)
    BY DEF IInv, Environment
  <2>3. r \in rules => r \in rules2
    BY <1>1, <2>1, <2>2, OtherAttribute
  <2>4. r \in rules2 => r \in rules
    BY <1>1, <2>1, <2>2, OtherAttribute
  <2>. QED  BY <2>1, <2>3, <2>4
<1>5. Agrees(E, hint', rules2, content)
  <2>1. hint \subseteq hint'
    BY <1>3
  <2>. QED  BY <1>2, <1>4, <2>1, AgreesStill
<1>6. Knows(E, hint', running, content, overriding)
  <2>1. (RestyleSelf \in hint => RestyleSelf \in hint')
        /\ (RestyleStyleAttribute \in hint => RestyleStyleAttribute \in hint')
    BY <1>3
  <2>. QED  BY <1>2, <2>1, KnowsStill
<1>7. Fits(path', hint', RulesOf(matched, attribute, effects)', content', (effects[Animations] # NoBlock)', overriding')
  <2>1. Fits(path, hint', rules2, content, running, overriding)
    BY <1>2, <1>5, <1>6 DEF Fits
  <2>. QED  BY <1>1, <1>3, <2>1
<1>8. hint' \subseteq Hints
  BY <1>3 DEF IInv, Hints
<1>. QED  BY <1>3, <1>7, <1>8 DEF IInv, Environment

\* So does changing its declarations in place.
LEMMA ChangeInPlaceFits ==
  ASSUME IInv, NEW importances \in SUBSET Importance, ChangeAttributeInPlace(importances)
  PROVE  IInv'
<1>1. PICK rules, running : /\ rules = RulesOf(matched, attribute, effects)
                            /\ running = (effects[Animations] # NoBlock)
  OBVIOUS
<1>2. PICK E : /\ PathIs(path, E) /\ BlocksOf(E) \subseteq Block
               /\ Agrees(E, hint, rules, content) /\ Knows(E, hint, running, content, overriding)
  BY <1>1 DEF IInv, Fits
<1>3. /\ attribute # NoBlock
      /\ content' = [content EXCEPT ![attribute] = importances]
      /\ hint' = hint \cup {RestyleStyleAttribute}
      /\ UNCHANGED <<matched, attribute, effects, path, overriding>>
  BY DEF ChangeAttributeInPlace
<1>4. ContentFits(content) /\ attribute \in AttributeBlock /\ attribute \in Block
  BY <1>3, ElementRulesAssumption, Zenon DEF IInv, Environment, SomeAttribute
<1>5. content \in [Block -> SUBSET Importance]
  BY <1>4 DEF ContentFits
<1>6. content' \in [Block -> SUBSET Importance] /\ \A b : b \notin AttributeBlock => content'[b] = content[b]
  BY <1>3, <1>4, <1>5
<1>7. ContentFits(content')
  BY <1>4, <1>6 DEF ContentFits
<1>8. E \in SUBSET Entry
  BY <1>2 DEF PathIs
<1>9. Agrees(E, hint', rules, content')
  <2>1. hint \subseteq hint'
    BY <1>3
  <2>2. ASSUME NEW x \in Entry, ClassOf(x) \notin hint' PROVE content[BlockIn(x)] = content'[BlockIn(x)]
    <3>1. BlockIn(x) \notin AttributeBlock
      BY <1>3, <2>2, AttributeClass
    <3>. QED  BY <1>6, <3>1
  <2>. QED  BY <1>2, <2>1, <2>2, AgreesStill
<1>10. ImportantBlocks(E, content') \ AttributeBlock = ImportantBlocks(E, content) \ AttributeBlock
  <2>1. \A x \in E : BlockIn(x) \notin AttributeBlock => content'[BlockIn(x)] = content[BlockIn(x)]
    BY <1>6
  <2>2. ASSUME NEW c, NEW d, \A x \in E : BlockIn(x) \notin AttributeBlock => c[BlockIn(x)] = d[BlockIn(x)]
        PROVE  ImportantBlocks(E, c) \ AttributeBlock \subseteq ImportantBlocks(E, d) \ AttributeBlock
    BY <2>2 DEF ImportantBlocks
  <2>. QED  BY <2>1, <2>2
<1>11. Knows(E, hint', running, content', overriding)
  BY <1>2, <1>3, <1>10 DEF Knows
<1>12. Fits(path', hint', RulesOf(matched, attribute, effects)', content', (effects[Animations] # NoBlock)', overriding')
  <2>1. Fits(path, hint', rules, content', running, overriding)
    BY <1>2, <1>9, <1>11 DEF Fits
  <2>. QED  BY <1>1, <1>3, <2>1
<1>13. hint' \subseteq Hints
  BY <1>3 DEF IInv, Hints
<1>. QED  BY <1>3, <1>7, <1>12, <1>13 DEF IInv, Environment

\* An animation that starts, ticks or ends leaves one too, and a new one is
\* told what overrides it.
LEMMA SetEffectFits ==
  ASSUME PartsNear, IInv, NEW e \in Effects, NEW b \in EffectBlock[e] \cup {NoBlock}, SetEffect(e, b)
  PROVE  IInv'
<1>1. PICK rules, rules2, running, running2 :
         /\ rules = RulesOf(matched, attribute, effects) /\ rules2 = RulesOf(matched, attribute, effects')
         /\ running = (effects[Animations] # NoBlock) /\ running2 = (effects'[Animations] # NoBlock)
  OBVIOUS
<1>2. PICK E : /\ PathIs(path, E) /\ BlocksOf(E) \subseteq Block
               /\ Agrees(E, hint, rules, content) /\ Knows(E, hint, running, content, overriding)
  BY <1>1 DEF IInv, Fits
<1>3. /\ effects' = [effects EXCEPT ![e] = b]
      /\ hint' = hint \cup {e}
      /\ overriding' = IF e = Animations /\ effects[e] = NoBlock
                         THEN OverridingAnimations(path, content) ELSE overriding
      /\ UNCHANGED <<matched, attribute, content, path>>
  BY DEF SetEffect
<1>4. matched \in MatchSets /\ attribute \in SomeAttribute /\ SomeEffects(effects)
  BY DEF IInv, Environment
<1>5. SomeEffects(effects') /\ \A d \in Effects : d # e => effects'[d] = effects[d]
  <2>1. EffectBlock[e] \in SUBSET (Block \ AttributeBlock)
    BY ElementRulesAssumption
  <2>2. b \in SomeBlock
    BY <2>1 DEF SomeBlock
  <2>. QED  BY <1>3, <1>4, <2>2 DEF SomeEffects
<1>6. ASSUME NEW x \in Entry, ClassOf(x) \notin hint' PROVE x[1] \in rules <=> x[1] \in rules2
  <2>1. PICK r : r = x[1] /\ r.origin # e
    BY <1>3, <1>6, AttributeClass DEF OriginIn
  <2>2. r \in rules => r \in rules2
    BY <1>1, <1>4, <1>5, <2>1, OtherEffects
  <2>3. r \in rules2 => r \in rules
    BY <1>1, <1>4, <1>5, <2>1, OtherEffects
  <2>. QED  BY <2>1, <2>2, <2>3
<1>7. Agrees(E, hint', rules2, content)
  <2>1. hint \subseteq hint'
    BY <1>3
  <2>. QED  BY <1>2, <1>6, <2>1, AgreesStill
<1>8. Knows(E, hint', running2, content, overriding')
  <2>1. CASE e = Animations /\ effects[e] = NoBlock
    <3>1. overriding' = ImportantBlocks(E, content)
      BY <1>2, <1>3, <2>1, OverridingIs
    <3>2. E \in SUBSET Entry
      BY <1>2 DEF PathIs
    <3>. QED  BY <3>1, <3>2, KnowsExact
  <2>2. CASE ~(e = Animations /\ effects[e] = NoBlock)
    <3>1. overriding' = overriding
      BY <1>3, <2>2
    <3>2. running2 => running
      <4>1. Animations \in Effects
        BY DEF Effects
      <4>. QED  BY <1>1, <1>5, <2>2, <4>1
    <3>3. /\ RestyleSelf \in hint => RestyleSelf \in hint'
          /\ RestyleStyleAttribute \in hint => RestyleStyleAttribute \in hint'
      BY <1>3
    <3>4. Knows(E, hint', running, content, overriding)
      BY <1>2, <3>3, KnowsStill
    <3>. QED  BY <3>1, <3>2, <3>4 DEF Knows
  <2>. QED  BY <2>1, <2>2
<1>9. Fits(path', hint', RulesOf(matched, attribute, effects)', content', (effects[Animations] # NoBlock)', overriding')
  <2>1. Fits(path, hint', rules2, content, running2, overriding')
    BY <1>2, <1>7, <1>8 DEF Fits
  <2>. QED  BY <1>1, <1>3, <2>1
<1>10. hint' \subseteq Hints
  BY <1>3 DEF IInv, Hints
<1>11. overriding' \subseteq Block
  <2>1. OverridingAnimations(path, content) \subseteq Block
    BY OverridingBlocks DEF IInv
  <2>. QED  BY <1>3, <2>1 DEF IInv
<1>. QED  BY <1>3, <1>5, <1>9, <1>10, <1>11 DEF IInv, Environment

\* Each traversal keeps the path as good as the hints that are left say.
LEMMA AnimationTraversalFits ==
  ASSUME PartsNear, IInv, AnimationTraversal
  PROVE  IInv'
<1>1. PICK rules, running : /\ rules = RulesOf(matched, attribute, effects)
                            /\ running = (effects[Animations] # NoBlock)
  OBVIOUS
<1>2. /\ path' = ReplaceEffects(path, hint) \/ (RestyleSelf \in hint /\ path' = path)
      /\ hint' = hint \ Effects
      /\ UNCHANGED <<matched, attribute, effects, content, overriding>>
  BY DEF AnimationTraversal
<1>3. matched \in MatchSets /\ attribute \in SomeAttribute /\ SomeEffects(effects)
  BY DEF IInv, Environment
<1>4. Fits(path, hint, rules, content, running, overriding)
  BY <1>1 DEF IInv
<1>5. Fits(path', hint', rules, content, running, overriding)
  <2>1. CASE path' = ReplaceEffects(path, hint)
    BY <1>1, <1>2, <1>3, <1>4, <2>1, EffectsReplaced
  <2>2. CASE RestyleSelf \in hint /\ path' = path
    <3>1. RestyleSelf \in hint'
      BY <1>2, <2>2, HintsApart
    <3>. QED  BY <1>4, <2>2, <3>1 DEF Fits, Agrees, Knows
  <2>. QED  BY <1>2, <2>1, <2>2
<1>6. Fits(path', hint', RulesOf(matched, attribute, effects)', content', (effects[Animations] # NoBlock)', overriding')
  BY <1>1, <1>2, <1>5
<1>. QED  BY <1>2, <1>6 DEF IInv, Environment

\* Matching in the normal traversal gives a path that fits.
LEMMA MatchStepFits ==
  ASSUME PartsNear, ImportantUnlayered, IInv, Match
  PROVE  IInv'
<1>1. PICK rules, running : /\ rules = RulesOf(matched, attribute, effects)
                            /\ running = (effects[Animations] # NoBlock)
  OBVIOUS
<1>2. /\ path' = MatchedPath /\ hint' = {}
      /\ overriding' = IF running THEN OverridingAnimations(path', content) ELSE overriding
      /\ UNCHANGED <<matched, attribute, effects, content>>
  BY <1>1 DEF Match, Tell
<1>3. /\ matched \in MatchSets /\ attribute \in SomeAttribute /\ SomeEffects(effects)
      /\ ContentFits(content)
  BY DEF IInv, Environment
<1>4. Collectable(rules) /\ Insertable(rules, content)
  BY <1>1, <1>3, AppliedFit
<1>5. \A r \in rules : r.block \in Block
  BY <1>1, <1>3, AppliedRuleIs
<1>6. path' = InsertOrderedRulesWithImportant(Collect(rules, Slots, Outer), content)
  BY <1>1, <1>2, Zenon DEF MatchedPath, PathWith, RulesWith, RulesOf
<1>7. Fits(path', {}, rules, content, running, overriding')
  <2>1. PICK p, over : p = path' /\ over = overriding'
    OBVIOUS
  <2>2. running => over = OverridingAnimations(InsertOrderedRulesWithImportant(Collect(rules, Slots, Outer), content), content)
    BY <1>2, <1>6, <2>1
  <2>3. Fits(InsertOrderedRulesWithImportant(Collect(rules, Slots, Outer), content), {}, rules, content, running, over)
    BY <1>4, <1>5, <2>2, MatchFits
  <2>. QED  BY <1>6, <2>1, <2>3
<1>8. Fits(path', hint', RulesOf(matched, attribute, effects)', content', (effects[Animations] # NoBlock)', overriding')
  BY <1>1, <1>2, <1>7
<1>9. overriding' \subseteq Block
  <2>1. OverridingAnimations(path', content) \subseteq Block
    BY <1>7, OverridingBlocks
  <2>. QED  BY <1>2, <2>1 DEF IInv
<1>. QED  BY <1>2, <1>8, <1>9 DEF IInv, Environment

\* Replacing the style attribute's rules gives one too, and reports what
\* animations need to know.
LEMMA ReplaceAttributeFits ==
  ASSUME PartsNear, IInv, ReplaceAttribute
  PROVE  IInv'
<1>1. PICK rules, running : /\ rules = RulesOf(matched, attribute, effects)
                            /\ running = (effects[Animations] # NoBlock)
  OBVIOUS
<1>2. PICK normal, both :
         /\ normal = UpdateRuleAtLevel(path, AuthorNormal(0), StyleAttributeLayer, attribute, content)
         /\ both = UpdateRuleAtLevel(normal.path, Important(AuthorNormal(0)), StyleAttributeLayer,
                                     attribute, content)
  OBVIOUS
<1>3. /\ hint = {RestyleStyleAttribute} /\ hint' = {}
      /\ path' = both.path
      /\ overriding' = IF (normal.importantChanged \/ both.importantChanged) /\ running
                         THEN OverridingAnimations(path', content) ELSE overriding
      /\ UNCHANGED <<matched, attribute, effects, content>>
  BY <1>1, <1>2, Zenon DEF ReplaceAttribute, Tell
<1>4. matched \in MatchSets /\ attribute \in SomeAttribute /\ SomeEffects(effects)
  BY DEF IInv, Environment
<1>5. Fits(path, {RestyleStyleAttribute}, rules, content, running, overriding)
  BY <1>1, <1>3 DEF IInv
<1>6. Fits(both.path, {}, rules, content, running, overriding')
  <2>1. PICK over2 : over2 = overriding'
    OBVIOUS
  <2>2. over2 = IF (normal.importantChanged \/ both.importantChanged) /\ running
                  THEN OverridingAnimations(both.path, content) ELSE overriding
    BY <1>3, <2>1
  <2>3. Fits(both.path, {}, rules, content, running, over2)
    BY <1>1, <1>2, <1>4, <1>5, <2>2, AttributeReplaced
  <2>. QED  BY <2>1, <2>3
<1>7. Fits(path', hint', RulesOf(matched, attribute, effects)', content', (effects[Animations] # NoBlock)', overriding')
  BY <1>1, <1>3, <1>6
<1>8. overriding' \subseteq Block
  <2>1. OverridingAnimations(path', content) \subseteq Block
    BY <1>3, <1>6, OverridingBlocks
  <2>. QED  BY <1>3, <2>1 DEF IInv
<1>. QED  BY <1>3, <1>7, <1>8 DEF IInv, Environment

\* Every state keeps the invariant.
LEMMA StepFits ==
  ASSUME PartsNear, ImportantUnlayered, IInv, [Next]_vars
  PROVE  IInv'
<1>1. CASE \E set \in MatchSets : ChangeMatches(set)
  BY <1>1, ChangeMatchesFits
<1>2. CASE \E b \in AttributeBlock \cup {NoBlock} : SetAttribute(b)
  BY <1>2, SetAttributeFits DEF SomeAttribute
<1>3. CASE \E importances \in SUBSET Importance : ChangeAttributeInPlace(importances)
  BY <1>3, ChangeInPlaceFits
<1>4. CASE \E e \in Effects : \E b \in EffectBlock[e] \cup {NoBlock} : SetEffect(e, b)
  BY <1>4, SetEffectFits
<1>5. CASE AnimationTraversal
  BY <1>5, AnimationTraversalFits
<1>6. CASE Match
  BY <1>6, MatchStepFits
<1>7. CASE ReplaceAttribute
  BY <1>7, ReplaceAttributeFits
<1>8. CASE UNCHANGED vars
  BY <1>8 DEF vars, IInv, Environment
<1>. QED  BY <1>1, <1>2, <1>3, <1>4, <1>5, <1>6, <1>7, <1>8 DEF Next

-----------------------------------------------------------------------------
(* The theorems.                                                            *)

\* In every state the path is one of known declarations.
THEOREM PathsFit ==
  ASSUME PartsNear, ImportantUnlayered
  PROVE  Spec => []IInv
<1>1. Init => IInv
  BY InitFits
<1>2. IInv /\ [Next]_vars => IInv'
  BY StepFits
<1>. QED  BY <1>1, <1>2, PTL DEF Spec

\* A path of known declarations is in order, and has the type of a path.
LEMMA FitsOrdered ==
  ASSUME PartsNear, NEW p, NEW h, NEW rules, NEW cont, NEW running, NEW over,
         Fits(p, h, rules, cont, running, over)
  PROVE  p \in Seq([source : Block, priority : Priority]) /\ Ordered(p)
<1>1. PICK E : PathIs(p, E) /\ BlocksOf(E) \subseteq Block
  BY DEF Fits
<1>2. PICK n, w : Listing(w, n, E) /\ p = NodesOf(w, n)
  BY <1>1 DEF PathIs
<1>3. /\ n \in Nat /\ w \in [1 .. n -> E] /\ p = [i \in 1 .. n |-> NodeOf(w[i])] /\ E \in SUBSET Entry
  BY <1>1, <1>2 DEF Listing, PathIs, NodesOf
<1>4. ASSUME NEW x \in E PROVE NodeOf(x) \in [source : Block, priority : Priority]
  <2>1. x \in Entry /\ BlockIn(x) \in Block
    BY <1>1, <1>3 DEF BlocksOf
  <2>2. PICK s, q : s = BlockIn(x) /\ q = [level |-> LevelIn(x), layer |-> LayerIn(x)]
    OBVIOUS
  <2>3. s \in Block /\ q \in Priority /\ NodeOf(x) = [source |-> s, priority |-> q]
    BY <2>1, <2>2, NodeByParts DEF NodeOf
  <2>. QED  BY <2>3
<1>5. PICK X : X = [source : Block, priority : Priority]
  OBVIOUS
<1>6. p \in Seq(X)
  BY <1>3, <1>4, <1>5
<1>. QED  BY <1>1, <1>5, <1>6, PathIsOrdered

\* The path is in order of priority whatever was matched or replaced, and the
\* state has its type: ensure_child's assertion ("Should be ordered") holds.
THEOREM PathsOrdered ==
  ASSUME PartsNear, ImportantUnlayered
  PROVE  Spec => []PathOrdered
<1>1. ASSUME IInv PROVE PathOrdered
  <2>1. path \in Seq([source : Block, priority : Priority]) /\ Ordered(path)
    BY <1>1, FitsOrdered DEF IInv
  <2>2. /\ attribute \in AttributeBlock \cup {NoBlock}
        /\ \A e \in Effects : effects[e] \in EffectBlock[e] \cup {NoBlock}
        /\ content \in [Block -> SUBSET Importance]
    BY <1>1 DEF IInv, Environment, SomeAttribute, SomeEffects, ContentFits
  <2>. QED  BY <1>1, <2>1, <2>2 DEF IInv, Environment, PathOrdered, TypeOK
<1>. QED  BY <1>1, PathsFit, PTL

\* Animations that run know which declarations override them: an important
\* declaration of the style attribute never comes or goes without a report.
THEOREM OverridesKnown ==
  ASSUME PartsNear, ImportantUnlayered
  PROVE  Spec => []AnimationsKnowOverrides
<1>1. ASSUME IInv PROVE AnimationsKnowOverrides
  <2>1. SUFFICES ASSUME hint = {}, effects[Animations] # NoBlock
                 PROVE  overriding = OverridingAnimations(path, content)
    BY DEF AnimationsKnowOverrides
  <2>2. PICK E : PathIs(path, E) /\ Knows(E, hint, effects[Animations] # NoBlock, content, overriding)
    BY <1>1 DEF IInv, Fits
  <2>3. overriding = ImportantBlocks(E, content)
    BY <2>1, <2>2 DEF Knows
  <2>. QED  BY <2>2, <2>3, OverridingIs
<1>. QED  BY <1>1, PathsFit, PTL

\* The declarations that there are of some rules, as the cascade order has
\* them, and those that the cascade takes from a path.
DeclaredBy(rules, cont) == {x \in rules \X Importance : x[2] \in cont[x[1].block]}
ShownBy(node) == <<node.source, IF node.priority.level.important THEN "important" ELSE "normal">>
DeclarationOf(x) == <<x[1].block, x[2]>>
Filled(E) == {x \in E : x[2] \in content[BlockIn(x)]}
PlaceInCascade(S, k) ==
  CHOOSE x \in S :
    Cardinality({y \in S : KeyLess(CascadeKey(y[1], y[2]), CascadeKey(x[1], x[2]))}) = k - 1

\* The declarations of the rules in cascade order are a listing of them.
LEMMA CascadedIs ==
  ASSUME NEW rules, NEW S \in SUBSET Entry, S = DeclaredBy(rules, content),
         NEW n, NEW w, Listing(w, n, S)
  PROVE  Cascaded(rules) = [i \in 1 .. n |-> DeclarationOf(w[i])]
<1>1. PICK R : R = {q \in S \X S : EntryLess(q[1], q[2])}
  OBVIOUS
<1>2. IsFiniteSet(S) /\ n = Cardinality(S) /\ StrictOrder(S, R) /\ InOrder(w, S, R)
  BY <1>1, ListingInOrder
<1>. DEFINE sorted == [k \in 1 .. Cardinality(S) |-> PlaceInCascade(S, k)]
<1>3. /\ DOMAIN sorted = 1 .. Cardinality(S) /\ sorted = [k \in 1 .. Cardinality(S) |-> sorted[k]]
      /\ \A k \in 1 .. Cardinality(S) : sorted[k] = PlaceInCascade(S, k)
  OBVIOUS
<1>4. Cascaded(rules) = [i \in DOMAIN sorted |-> DeclarationOf(sorted[i])]
  <2>1. S = {x \in rules \X Importance : x[2] \in content[x[1].block]}
    BY Zenon DEF DeclaredBy
  <2>2. Cascaded(rules)
          = LET order == [k \in 1 .. Cardinality({x \in rules \X Importance : x[2] \in content[x[1].block]})
                            |-> PlaceInCascade({x \in rules \X Importance : x[2] \in content[x[1].block]}, k)]
            IN  [i \in DOMAIN order |-> DeclarationOf(order[i])]
    BY Zenon DEF Cascaded, Ascending, PlaceInCascade, DeclarationOf
  <2>. QED  BY <2>1, <2>2, Zenon
<1>. HIDE DEF sorted
<1>5. InOrder(sorted, S, R)
  <2>1. ASSUME NEW x \in S
        PROVE  {y \in S : KeyLess(CascadeKey(y[1], y[2]), CascadeKey(x[1], x[2]))} = Earlier(S, R, x)
    <3>1. \A y \in S : KeyLess(CascadeKey(y[1], y[2]), CascadeKey(x[1], x[2])) <=> <<y, x>> \in R
      BY <1>1, KeyByParts
    <3>. QED  BY <3>1 DEF Earlier
  <2>2. ASSUME NEW k \in 1 .. Cardinality(S), \E x \in S : Cardinality(Earlier(S, R, x)) = k - 1
        PROVE  sorted[k] \in S /\ Cardinality(Earlier(S, R, sorted[k])) = k - 1
    <3>. DEFINE Turn(x) == {y \in S : KeyLess(CascadeKey(y[1], y[2]), CascadeKey(x[1], x[2]))}
    <3>1. \E x \in S : Cardinality(Turn(x)) = k - 1
      BY <2>1, <2>2
    <3>2. sorted[k] = CHOOSE x \in S : Cardinality(Turn(x)) = k - 1
      BY <1>3, Zenon DEF PlaceInCascade
    <3>3. \A x \in S : Turn(x) = Earlier(S, R, x)
      BY <2>1
    <3>. HIDE DEF Turn
    <3>4. sorted[k] \in S /\ Cardinality(Turn(sorted[k])) = k - 1
      BY <3>1, <3>2
    <3>. QED  BY <3>3, <3>4
  <2>. QED  BY <1>2, <1>3, <2>2, ChosenInOrder
<1>6. sorted = w
  BY <1>2, <1>5, OneOrder
<1>. QED  BY <1>2, <1>3, <1>4, <1>6

\* What the cascade takes from a path is a listing of the declarations in it
\* that there are any of.
LEMMA EffectiveIs ==
  ASSUME PartsNear, NEW p, NEW E, PathIs(p, E)
  PROVE  \E n, w : Listing(w, n, Filled(E)) /\ Effective(p) = [i \in 1 .. n |-> DeclarationOf(w[i])]
<1>. DEFINE S == Filled(E)
<1>1. E \in SUBSET Entry /\ S \in SUBSET E
  BY DEF PathIs, Filled
<1>2. \A x \in E : ShownBy(NodeOf(x)) = DeclarationOf(x) /\ DeclarationOf(x) = <<BlockIn(x), x[2]>>
  <2>1. SUFFICES ASSUME NEW x \in E
                 PROVE  ShownBy(NodeOf(x)) = DeclarationOf(x) /\ DeclarationOf(x) = <<BlockIn(x), x[2]>>
    OBVIOUS
  <2>2. x \in Entry
    BY <1>1
  <2>3. (IF LevelIn(x).important THEN "important" ELSE "normal") = x[2]
    BY <2>2, LevelByParts, EntryPair DEF IsNormal
  <2>4. DeclarationOf(x) = <<BlockIn(x), x[2]>>
    BY DEF DeclarationOf, BlockIn
  <2>. QED  BY <2>2, <2>3, <2>4, NodeByParts DEF ShownBy
<1>. DEFINE P == {i \in DOMAIN p : ShownBy(p[i])[2] \in content[ShownBy(p[i])[1]]}
<1>3. Effective(p) = [i \in DOMAIN PartAt(p, P) |-> ShownBy(PartAt(p, P)[i])]
  BY Zenon DEF Effective, Passing, ShownBy
<1>4. PathIs(PartAt(p, P), S)
  <2>1. ASSUME NEW x \in E, NEW i \in DOMAIN p, p[i] = NodeOf(x) PROVE i \in P <=> x \in S
    BY <1>2, <2>1 DEF Filled
  <2>2. P \subseteq DOMAIN p
    OBVIOUS
  <2>. HIDE DEF P
  <2>. QED  BY <1>1, <2>1, <2>2, PathIsPassing
<1>. HIDE DEF P
<1>5. PICK n, w : Listing(w, n, S) /\ PartAt(p, P) = NodesOf(w, n)
  BY <1>4 DEF PathIs
<1>6. n \in Nat /\ w \in [1 .. n -> S] /\ PartAt(p, P) = [i \in 1 .. n |-> NodeOf(w[i])]
  BY <1>5 DEF Listing, NodesOf
<1>7. Effective(p) = [i \in 1 .. n |-> DeclarationOf(w[i])]
  <2>1. \A i \in 1 .. n : ShownBy(PartAt(p, P)[i]) = DeclarationOf(w[i])
    BY <1>1, <1>2, <1>6
  <2>. QED  BY <1>3, <1>6, <2>1
<1>. QED  BY <1>5, <1>7

\* A path with all the declarations that there are of some rules gives these
\* in cascade order.
LEMMA GivesCascaded ==
  ASSUME PartsNear, NEW p, NEW E, PathIs(p, E), NEW rules,
         Filled(E) = DeclaredBy(rules, content)
  PROVE  Effective(p) = Cascaded(rules)
<1>1. PICK S : S = Filled(E) /\ S = DeclaredBy(rules, content)
  OBVIOUS
<1>2. S \in SUBSET Entry
  BY <1>1 DEF PathIs, Filled
<1>3. PICK n, w : Listing(w, n, S) /\ Effective(p) = [i \in 1 .. n |-> DeclarationOf(w[i])]
  BY <1>1, EffectiveIs
<1>. QED  BY <1>1, <1>2, <1>3, CascadedIs

\* Declarations that there are of the rules that apply are entries.
LEMMA DeclaredEntries ==
  ASSUME ImportantUnlayered, Environment, NEW some, SomeEffects(some)
  PROVE  DeclaredBy(RulesOf(matched, attribute, some), content) \subseteq Entry
<1>1. PICK rules : rules = RulesOf(matched, attribute, some)
  OBVIOUS
<1>2. Collectable(rules) /\ Insertable(rules, content)
  BY <1>1, AppliedFit DEF Environment
<1>3. ASSUME NEW x \in DeclaredBy(rules, content) PROVE x \in Entry
  <2>1. x \in rules \X Importance /\ x[2] \in content[x[1].block]
    BY DEF DeclaredBy
  <2>2. x[1] \in ElementRule
    BY <1>2, <2>1 DEF Collectable
  <2>3. x[2] = "important" => MayBeImportant(x[1].origin, x[1].layer)
    BY <1>2, <2>1 DEF Insertable
  <2>. QED  BY <2>1, <2>2, <2>3 DEF Entry
<1>. QED  BY <1>1, <1>3

\* Once all hints are handled, the path has the declarations of the rules that
\* apply, and all those that there are any of.
Settled(p, E, rules) ==
  PathIs(p, E) /\ (\A x \in E : x[1] \in rules) /\ Filled(E) = DeclaredBy(rules, content)

\* In every state without hints the path is such a one.
LEMMA SettledPath ==
  ASSUME ImportantUnlayered, IInv, hint = {}
  PROVE  \E E : Settled(path, E, RulesOf(matched, attribute, effects))
<1>2. PICK rules : rules = RulesOf(matched, attribute, effects)
  OBVIOUS
<1>3. PICK E : PathIs(path, E) /\ Agrees(E, {}, rules, content)
  BY <1>2 DEF IInv, Fits
<1>4. DeclaredBy(rules, content) \subseteq Entry
  BY <1>2, DeclaredEntries DEF IInv, Environment
<1>5. E \in SUBSET Entry
  BY <1>3 DEF PathIs
<1>6. \A x \in Entry : /\ x \in E => x[1] \in rules
                       /\ x[1] \in rules /\ x[2] \in content[BlockIn(x)] => x \in E
  BY <1>3 DEF Agrees
<1>7. Filled(E) = DeclaredBy(rules, content)
  <2>1. ASSUME NEW x \in E, x[2] \in content[BlockIn(x)] PROVE x \in DeclaredBy(rules, content)
    <3>1. x = <<x[1], x[2]>> /\ x[1] \in rules /\ x[2] \in Importance
      BY <1>5, <1>6, <2>1, EntryPair DEF Importance
    <3>2. x \in rules \X Importance
      BY <3>1
    <3>. QED  BY <2>1, <3>2 DEF DeclaredBy, BlockIn
  <2>2. ASSUME NEW x \in DeclaredBy(rules, content) PROVE x \in E /\ x[2] \in content[BlockIn(x)]
    BY <1>4, <1>6, <2>2 DEF DeclaredBy, BlockIn
  <2>. QED  BY <2>1, <2>2 DEF Filled
<1>8. \A x \in E : x[1] \in rules
  BY <1>5, <1>6
<1>. QED  BY <1>2, <1>3, <1>7, <1>8 DEF Settled

\* Once all hints are handled, the path gives the declarations that apply in
\* cascade order, whether they were matched or replaced.
THEOREM OrderRespected ==
  ASSUME PartsNear, ImportantUnlayered
  PROVE  Spec => []CascadeOrderRespected
<1>1. ASSUME IInv PROVE CascadeOrderRespected
  <2>1. SUFFICES ASSUME hint = {} PROVE Effective(path) = Cascaded(RulesWith(effects))
    BY DEF CascadeOrderRespected
  <2>2. RulesOf(matched, attribute, effects) = RulesWith(effects)
    BY Zenon DEF RulesWith, RulesOf
  <2>3. PICK E : Settled(path, E, RulesWith(effects))
    BY <1>1, <2>1, <2>2, SettledPath
  <2>. QED  BY <2>3, GivesCascaded DEF Settled
<1>. QED  BY <1>1, PathsFit, PTL

-----------------------------------------------------------------------------
(* The styles that are derived from a path.                                 *)

\* The rules that apply without some of the effects.
LEMMA WithoutEffects ==
  ASSUME Environment, NEW D \in SUBSET Effects, NEW some, SomeEffects(some),
         \A e \in Effects : some[e] = IF e \in D THEN NoBlock ELSE effects[e]
  PROVE  RulesOf(matched, attribute, some)
           = {r \in RulesOf(matched, attribute, effects) : r.origin \notin D}
<1>1. PICK rules, fewer : /\ rules = RulesOf(matched, attribute, effects)
                          /\ fewer = RulesOf(matched, attribute, some)
  OBVIOUS
<1>2. matched \in MatchSets /\ attribute \in SomeAttribute /\ SomeEffects(effects)
  BY DEF Environment
<1>3. ASSUME NEW r \in fewer PROVE r \in rules /\ r.origin \notin D
  <2>1. \/ r \in matched
        \/ attribute # NoBlock /\ r = AuthorRuleOf(attribute, StyleAttributeLayer)
        \/ \E e \in Effects : some[e] # NoBlock /\ r = EffectRule(e, some[e])
    BY <1>1, <1>2, AppliedRule
  <2>2. r.origin \in Effects => some[r.origin] # NoBlock
    BY <1>1, <1>2, AppliedRuleIs
  <2>3. r.origin \notin D
    BY <2>2
  <2>4. ASSUME NEW e \in Effects, some[e] # NoBlock PROVE effects[e] = some[e]
    BY <2>4
  <2>5. r \in rules
    BY <1>1, <1>2, <2>1, <2>4, AppliedRule
  <2>. QED  BY <2>3, <2>5
<1>4. ASSUME NEW r \in rules, r.origin \notin D PROVE r \in fewer
  <2>1. /\ r.layer = StyleAttributeLayer => attribute # NoBlock /\ r = AuthorRuleOf(attribute, StyleAttributeLayer)
        /\ r.origin \in Effects => effects[r.origin] # NoBlock /\ r = EffectRule(r.origin, effects[r.origin])
        /\ r.layer # StyleAttributeLayer /\ r.origin \notin Effects => r \in matched
    BY <1>1, <1>2, AppliedRuleIs
  <2>2. r.origin \in Effects => some[r.origin] = effects[r.origin]
    BY <1>4
  <2>3. r \in fewer
          <=> \/ r \in matched
              \/ attribute # NoBlock /\ r = AuthorRuleOf(attribute, StyleAttributeLayer)
              \/ \E e \in Effects : some[e] # NoBlock /\ r = EffectRule(e, some[e])
    BY <1>1, <1>2, AppliedRule
  <2>. QED  BY <2>1, <2>2, <2>3
<1>. QED  BY <1>1, <1>3, <1>4

\* A path without the declarations of some effects gives what applies without
\* them.
LEMMA WithoutGives ==
  ASSUME PartsNear, Environment, NEW p, NEW D \in SUBSET Effects, NEW some, SomeEffects(some),
         \A e \in Effects : some[e] = IF e \in D THEN NoBlock ELSE effects[e],
         NEW E, Settled(path, E, RulesOf(matched, attribute, effects)),
         PathIs(p, {x \in E : OriginIn(x) \notin D})
  PROVE  Effective(p) = Cascaded(RulesOf(matched, attribute, some))
<1>1. PICK rules, fewer, F : /\ rules = RulesOf(matched, attribute, effects)
                             /\ fewer = RulesOf(matched, attribute, some)
                             /\ F = {x \in E : OriginIn(x) \notin D}
  OBVIOUS
<1>2. fewer = {r \in rules : r.origin \notin D}
  BY <1>1, WithoutEffects
<1>3. Filled(E) = DeclaredBy(rules, content) /\ PathIs(p, F)
  BY <1>1 DEF Settled
<1>4. Filled(F) = {x \in Filled(E) : x[1].origin \notin D}
  BY <1>1 DEF Filled, OriginIn
<1>5. DeclaredBy(fewer, content) = {x \in DeclaredBy(rules, content) : x[1].origin \notin D}
  BY <1>2 DEF DeclaredBy
<1>. QED  BY <1>1, <1>3, <1>4, <1>5, GivesCascaded

\* The walk up past the animations stops at a rule below them or at the root.
StopBelow(nodes) ==
  SelectLastInSubSeq(nodes, 1, Len(nodes), LAMBDA node : LevelLess(node.priority.level, LowestAnimationLevel))

\* What is up to there is no animation.
LEMMA BelowAnimations ==
  ASSUME PartsNear, NEW E \in SUBSET Entry, NEW n, NEW w, Listing(w, n, E),
         NEW p, p = NodesOf(w, n), NEW below, below = StopBelow(p)
  PROVE  below \in 0 .. n /\ \A i \in 1 .. below : OriginIn(w[i]) \notin Effects
<1>1. n \in Nat /\ w \in [1 .. n -> E] /\ \A i, j \in 1 .. n : i < j => EntryLess(w[i], w[j])
  BY DEF Listing, Rising
<1>2. Len(p) = n /\ \A i \in 1 .. n : p[i] = NodeOf(w[i])
  BY <1>1 DEF NodesOf
<1>3. PICK I : I = {i \in 1 .. n : LevelLess(p[i].priority.level, LowestAnimationLevel)}
  OBVIOUS
<1>4. below = IF I # {} THEN Max(I) ELSE 0
  BY <1>2, <1>3 DEF StopBelow, SelectLastInSubSeq
<1>5. CASE I = {}
  BY <1>1, <1>4, <1>5
<1>6. CASE I # {}
  <2>1. Max(I) \in I
    BY <1>1, <1>3, <1>6, LastPosition
  <2>2. below \in 1 .. n /\ LevelLess(p[below].priority.level, LowestAnimationLevel)
    BY <1>3, <1>4, <1>6, <2>1
  <2>3. w[below] \in Entry /\ p[below].priority.level = LevelIn(w[below])
    BY <1>1, <1>2, <2>2, NodeByParts
  <2>4. Tier(w[below]) < 5
    <3>1. PICK x \in Entry : x = w[below]
      BY <2>3
    <3>2. PICK level \in CascadeLevel : level = LevelIn(x) /\ LevelLess(level, LowestAnimationLevel)
      BY <2>2, <2>3, <3>1, LevelByParts
    <3>3. PICK o, d, n0 : o = OriginIn(x) /\ d = DepthIn(x) /\ n0 = IsNormal(x)
      OBVIOUS
    <3>4. o \in 0 .. 7 /\ d \in Int /\ (o # 3 => d = 0) /\ n0 \in BOOLEAN
      BY <3>3, EntryParts, Zenon DEF PartsFit
    <3>5. level.origin = o /\ level.order = d /\ (level.important <=> ~n0)
      BY <3>2, <3>3, LevelByParts
    <3>6. PICK b, no : /\ no = FALSE /\ b = LowestAnimationLevel
                       /\ b = [origin |-> 5, order |-> 0, important |-> no]
      BY DEF LowestAnimationLevel, Level, SMILOverride
    <3>7. b.origin = 5 /\ b.order = 0 /\ b.important = FALSE
      BY <3>6
    <3>8. CASE n0
      <4>1. level.important = FALSE
        BY <3>2, <3>5, <3>8 DEF CascadeLevel
      <4>2. o < 5 \/ (o = 5 /\ d < 0)
        BY <3>2, <3>5, <3>6, <3>7, <4>1 DEF LevelLess
      <4>3. o < 5 /\ o # Transitions
        BY <3>4, <4>2 DEF Transitions
      <4>4. Tier(x) = o
        BY <3>3, <3>8, <4>3, Zenon DEF Tier
      <4>. QED  BY <3>1, <4>3, <4>4
    <3>9. CASE ~n0
      <4>1. level.important = TRUE
        BY <3>2, <3>5, <3>9 DEF CascadeLevel
      <4>. QED  BY <3>2, <3>6, <3>7, <4>1 DEF LevelLess, Transitions
    <3>. QED  BY <3>4, <3>8, <3>9
  <2>5. ASSUME NEW i \in 1 .. below PROVE OriginIn(w[i]) \notin Effects
    <3>1. i \in 1 .. n /\ w[i] \in Entry
      BY <1>1, <2>2
    <3>2. i = below \/ EntryLess(w[i], w[below])
      BY <1>1, <2>2
    <3>3. PICK o, t, n0 : o = OriginIn(w[i]) /\ t = Tier(w[i]) /\ n0 = IsNormal(w[i])
      OBVIOUS
    <3>4. Tier(w[i]) \in Int /\ Tier(w[below]) \in Int /\ Tier(w[i]) <= Tier(w[below])
      <4>1. Tier(w[i]) \in Int /\ Tier(w[below]) \in Int
        BY <2>3, <3>1, KeyParts
      <4>. QED  BY <3>2, <4>1 DEF EntryLess
    <3>5. t \in Int /\ t < 5
      BY <2>4, <3>3, <3>4
    <3>6. o \in 0 .. 7 /\ n0 \in BOOLEAN /\ (~n0 => o \in {0, 1, 3})
      BY <3>1, <3>3, EntryParts, Zenon DEF PartsFit
    <3>7. t = IF n0 THEN IF o = Transitions THEN 20 ELSE o ELSE 10 + (Author - o)
      BY <3>3, Zenon DEF Tier
    <3>. QED  BY <3>3, <3>5, <3>6, <3>7 DEF Effects, SMILOverride, Animations, Transitions, Author
  <2>. QED  BY <2>2, <2>5
<1>. QED  BY <1>5, <1>6

\* remove_animation_rules leaves out the declarations of animations.
LEMMA AnimationsRemoved ==
  ASSUME PartsNear, NEW p, NEW E, PathIs(p, E)
  PROVE  PathIs(RemoveAnimationRules(p), {x \in E : OriginIn(x) \notin Effects})
<1>1. PICK n, w : Listing(w, n, E) /\ p = NodesOf(w, n)
  BY DEF PathIs
<1>2. /\ n \in Nat /\ w \in [1 .. n -> E] /\ (\A x \in E : \E i \in 1 .. n : w[i] = x) /\ E \in SUBSET Entry
      /\ \A i, j \in 1 .. n : i < j => EntryLess(w[i], w[j])
  BY <1>1 DEF Listing, Rising, PathIs
<1>3. Len(p) = n
  BY <1>1, <1>2 DEF NodesOf
<1>4. PICK below : below = StopBelow(p)
  OBVIOUS
<1>5. below \in 0 .. n /\ \A i \in 1 .. below : OriginIn(w[i]) \notin Effects
  BY <1>1, <1>2, <1>4, BelowAnimations
<1>6. PICK rest : rest = SubSeq(p, below + 1, Len(p))
  OBVIOUS
<1>. DEFINE P == {i \in DOMAIN rest : ~IsAnimation(rest[i].priority.level)}
<1>7. RemoveAnimationRules(p) = SubSeq(p, 1, below) \o PartAt(rest, P)
  BY <1>4, <1>6, Zenon DEF RemoveAnimationRules, StopBelow, Passing
<1>8. PICK A, B, C : /\ A = FromTo(w, 1, below) /\ B = FromTo(w, below + 1, n)
                     /\ C = {x \in B : OriginIn(x) \notin Effects}
  OBVIOUS
<1>9. PathIs(SubSeq(p, 1, below), A)
  <2>1. 1 \in 1 .. n + 1 /\ 1 <= below + 1
    BY <1>2, <1>5
  <2>. QED  BY <1>1, <1>2, <1>5, <1>8, <2>1, PathIsSub
<1>10. PathIs(rest, B)
  <2>1. below + 1 \in 1 .. n + 1 /\ n \in 0 .. n /\ below + 1 <= n + 1
    BY <1>2, <1>5
  <2>. QED  BY <1>1, <1>2, <1>3, <1>6, <1>8, <2>1, PathIsSub
<1>11. A \subseteq E /\ B \subseteq E /\ A \cup B = E /\ (\A x \in A : OriginIn(x) \notin Effects) /\ AllLess(A, C)
  <2>1. \A i \in 1 .. below : i \in 1 .. n
    BY <1>2, <1>5
  <2>2. \A i \in below + 1 .. n : i \in 1 .. n
    BY <1>2, <1>5
  <2>3. \A i \in 1 .. n : i \in 1 .. below \/ i \in below + 1 .. n
    BY <1>2, <1>5
  <2>4. \A i \in 1 .. below, j \in below + 1 .. n : i < j
    BY <1>2, <1>5
  <2>5. A \subseteq E /\ B \subseteq E
    BY <1>2, <1>8, <2>1, <2>2 DEF FromTo
  <2>6. A \cup B = E
    BY <1>2, <1>8, <2>3, <2>5 DEF FromTo
  <2>7. \A x \in A : OriginIn(x) \notin Effects
    BY <1>5, <1>8 DEF FromTo
  <2>8. AllLess(A, B)
    BY <1>2, <1>8, <2>1, <2>2, <2>4 DEF FromTo, AllLess
  <2>. QED  BY <1>8, <2>5, <2>6, <2>7, <2>8 DEF AllLess
<1>12. PathIs(PartAt(rest, P), C)
  <2>1. ASSUME NEW x \in B, NEW i \in DOMAIN rest, rest[i] = NodeOf(x) PROVE i \in P <=> x \in C
    <3>1. rest[i].priority.level.origin = OriginIn(x)
      BY <1>2, <1>11, <2>1, NodeShows
    <3>. QED  BY <1>8, <3>1 DEF IsAnimation, Effects
  <2>2. P \subseteq DOMAIN rest /\ C \in SUBSET B
    BY <1>8
  <2>. HIDE DEF P
  <2>. QED  BY <1>10, <2>1, <2>2, PathIsPassing
<1>. HIDE DEF P
<1>13. PathIs(SubSeq(p, 1, below) \o PartAt(rest, P), A \cup C)
  BY <1>9, <1>11, <1>12, PathIsConcat
<1>14. A \cup C = {x \in E : OriginIn(x) \notin Effects}
  BY <1>8, <1>11
<1>. QED  BY <1>7, <1>13, <1>14

\* Transitions are the last of a path.
LEMMA TransitionLast ==
  ASSUME NEW x \in Entry, NEW y \in Entry, OriginIn(x) = Transitions
  PROVE  /\ OriginIn(y) # Transitions => EntryLess(y, x)
         /\ OriginIn(y) = Transitions => SameKey(x, y)
<1>1. ASSUME NEW z \in Entry, OriginIn(z) = Transitions
      PROVE  /\ Tier(z) = 20 /\ Distance(z) = 0 /\ Attached(z) = 0 /\ LayerTurn(z) = RootLayer
             /\ SpecificityIn(z) = 0
  <2>1. PICK o, d, l, s, n : /\ o = OriginIn(z) /\ d = DepthIn(z) /\ l = LayerIn(z)
                             /\ s = SpecificityIn(z) /\ n = IsNormal(z)
    OBVIOUS
  <2>2. /\ o # 3 => d = 0
        /\ o \in {4, 5, 6, 7} => l = RootLayer /\ s = 0
        /\ n \in BOOLEAN /\ (~n => o \in {0, 1, 3})
    BY <2>1, EntryParts, Zenon DEF PartsFit
  <2>3. o = 7 /\ d = 0 /\ l = RootLayer /\ s = 0 /\ n
    BY <1>1, <2>1, <2>2 DEF Transitions
  <2>4. l # StyleAttributeLayer
    BY <2>3, LayerNumbers
  <2>. QED  BY <1>1, <2>1, <2>3, <2>4, Zenon DEF Tier, Distance, Attached, LayerTurn
<1>2. ASSUME OriginIn(y) # Transitions PROVE Tier(y) < 20
  <2>1. PICK o, n, t : o = OriginIn(y) /\ n = IsNormal(y) /\ t = Tier(y)
    OBVIOUS
  <2>2. o \in 0 .. 7
    BY <2>1, EntryParts, Zenon DEF PartsFit
  <2>3. t = IF n THEN IF o = Transitions THEN 20 ELSE o ELSE 10 + (Author - o)
    BY <2>1, Zenon DEF Tier
  <2>. QED  BY <1>2, <2>1, <2>2, <2>3 DEF Author
<1>3. OriginIn(y) # Transitions => EntryLess(y, x)
  BY <1>1, <1>2 DEF EntryLess
<1>4. OriginIn(y) = Transitions => SameKey(x, y)
  BY <1>1 DEF SameKey
<1>. QED  BY <1>3, <1>4

\* remove_transition_rule_if_applicable leaves out the one that there may be.
LEMMA TransitionRemoved ==
  ASSUME PartsNear, NEW p, NEW E, PathIs(p, E)
  PROVE  PathIs(RemoveTransitionRule(p), {x \in E : OriginIn(x) \notin {Transitions}})
<1>1. PICK n, w : Listing(w, n, E) /\ p = NodesOf(w, n)
  BY DEF PathIs
<1>2. /\ n \in Nat /\ w \in [1 .. n -> E] /\ (\A x \in E : \E i \in 1 .. n : w[i] = x) /\ E \in SUBSET Entry
      /\ \A i, j \in 1 .. n : i < j => EntryLess(w[i], w[j])
  BY <1>1 DEF Listing, Rising, PathIs
<1>3. p = [i \in 1 .. n |-> NodeOf(w[i])] /\ Len(p) = n /\ (p = << >> <=> n = 0)
  BY <1>1, <1>2 DEF NodesOf
<1>4. PICK F : F = {x \in E : OriginIn(x) \notin {Transitions}}
  OBVIOUS
<1>5. n > 0 => p[n].priority.level.origin = OriginIn(w[n])
  <2>1. ASSUME n > 0 PROVE p[n] = NodeOf(w[n]) /\ w[n] \in Entry
    BY <1>2, <1>3, <2>1
  <2>. QED  BY <2>1, NodeShows
<1>6. CASE n > 0 /\ OriginIn(w[n]) = Transitions
  <2>1. RemoveTransitionRule(p) = SubSeq(p, 1, n - 1)
    <3>1. n # 0
      BY <1>2, <1>6
    <3>2. p # << >> /\ Len(p) = n /\ p[n].priority.level.origin = Transitions
      BY <1>3, <1>5, <1>6, <3>1
    <3>. QED  BY <3>2, Zenon DEF RemoveTransitionRule
  <2>2. 1 \in 1 .. n + 1 /\ n - 1 \in 0 .. n /\ 1 <= (n - 1) + 1
    BY <1>2, <1>6
  <2>3. PathIs(SubSeq(p, 1, n - 1), FromTo(w, 1, n - 1))
    BY <1>1, <1>2, <2>2, PathIsSub
  <2>4. ASSUME NEW i \in 1 .. n PROVE i \in 1 .. n - 1 <=> OriginIn(w[i]) # Transitions
    <3>1. w[i] \in Entry /\ w[n] \in Entry /\ n \in 1 .. n
      BY <1>2, <1>6
    <3>2. CASE i < n
      <4>1. EntryLess(w[i], w[n])
        BY <1>2, <3>1, <3>2
      <4>2. OriginIn(w[i]) # Transitions
        BY <1>6, <3>1, <4>1, TransitionLast, EntryOrder
      <4>. QED  BY <1>2, <3>2, <4>2
    <3>3. CASE i = n
      BY <1>2, <1>6, <3>3
    <3>. QED  BY <1>2, <3>2, <3>3
  <2>5. FromTo(w, 1, n - 1) = F
    <3>1. \A i \in 1 .. n - 1 : i \in 1 .. n
      BY <1>2
    <3>. QED  BY <1>2, <1>4, <2>4, <3>1 DEF FromTo
  <2>. QED  BY <1>4, <2>1, <2>3, <2>5
<1>7. CASE ~(n > 0 /\ OriginIn(w[n]) = Transitions)
  <2>1. RemoveTransitionRule(p) = p
    <3>1. n = 0 \/ OriginIn(w[n]) # Transitions
      BY <1>2, <1>7
    <3>. QED  BY <1>2, <1>3, <1>5, <3>1 DEF RemoveTransitionRule
  <2>2. ASSUME NEW x \in E PROVE OriginIn(x) # Transitions
    <3>1. PICK i \in 1 .. n : w[i] = x
      BY <1>2
    <3>2. n \in 1 .. n /\ n > 0 /\ w[n] \in Entry /\ x \in Entry
      BY <1>2, <3>1
    <3>3. OriginIn(x) = Transitions => EntryLess(w[n], x)
      BY <1>7, <3>2, TransitionLast
    <3>4. i = n \/ EntryLess(x, w[n])
      BY <1>2, <3>1, <3>2
    <3>. QED  BY <1>7, <3>1, <3>2, <3>3, <3>4, EntryOrder
  <2>3. F = E
    BY <1>4, <2>2
  <2>. QED  BY <1>4, <2>1, <2>3
<1>. QED  BY <1>6, <1>7

\* A @position-try rule in a path: what insertion gives, and once is enough.
Tried(p) == UpdateRuleAtLevel(p, Level(PositionFallback), RootLayer, FallbackBlock, content).path
FallbackEntry == EffectEntry(PositionFallback, FallbackBlock)
FallbackRule  == EffectRule(PositionFallback, FallbackBlock)

\* It is at its own level and shares its key with no other rule.
LEMMA FallbackEntryIs ==
  ASSUME PartsNear
  PROVE  /\ FallbackEntry \in Entry /\ Replaceable(FallbackEntry)
         /\ FallbackEntry = <<FallbackRule, "normal">>
         /\ FallbackRule.block = FallbackBlock /\ FallbackRule.origin = PositionFallback
         /\ BlockIn(FallbackEntry) = FallbackBlock
         /\ LevelIn(FallbackEntry) = Level(PositionFallback) /\ LayerIn(FallbackEntry) = RootLayer
         /\ \A x \in Entry : SameKey(x, FallbackEntry) <=> OriginIn(x) = PositionFallback
<1>1. FallbackBlock \in SomeBlock \ AttributeBlock
  BY ElementRulesAssumption, Zenon DEF SomeBlock
<1>2. PositionFallback \in Effects \cup {PositionFallback}
  OBVIOUS
<1>3. FallbackRule.block = FallbackBlock /\ FallbackRule.origin = PositionFallback
  BY <1>1, <1>2, EffectRuleIs DEF FallbackRule
<1>4. FallbackEntry = <<FallbackRule, "normal">>
  BY DEF FallbackEntry, EffectEntry, FallbackRule
<1>. QED  BY <1>1, <1>2, <1>3, <1>4, EffectEntryIs DEF FallbackEntry

\* Trying it is a replacement at its level.
LEMMA TriedIs ==
  ASSUME PartsNear, NEW p, NEW E, PathIs(p, E)
  PROVE  PathIs(Tried(p), Updated(E, FallbackEntry, RelevantIn(FallbackEntry, content)))
<1>1. PICK y : y = FallbackEntry
  OBVIOUS
<1>2. y \in Entry /\ Replaceable(y)
      /\ BlockIn(y) = FallbackBlock /\ LevelIn(y) = Level(PositionFallback) /\ LayerIn(y) = RootLayer
  BY <1>1, FallbackEntryIs
<1>3. Tried(p) = UpdateOf(p, y, content).path
  BY <1>2, Zenon DEF Tried, UpdateOf
<1>. QED  BY <1>1, <1>2, <1>3, UpdateIs

\* The path stays in order, and trying the same rule again changes nothing.
LEMMA TriedOnce ==
  ASSUME PartsNear, NEW p, NEW E, PathIs(p, E)
  PROVE  Ordered(Tried(p)) /\ Tried(Tried(p)) = Tried(p)
<1>1. PICK y, v, F, G : /\ y = FallbackEntry /\ v = RelevantIn(y, content)
                        /\ F = Updated(E, y, v) /\ G = Updated(F, y, v)
  OBVIOUS
<1>2. PathIs(Tried(p), F)
  BY <1>1, TriedIs
<1>3. PathIs(Tried(Tried(p)), G)
  BY <1>1, <1>2, TriedIs
<1>4. G = F
  <2>1. SameKey(y, y)
    BY DEF SameKey
  <2>2. v \in BOOLEAN
    BY <1>1 DEF RelevantIn
  <2>3. CASE y \in E
    BY <1>1, <2>3 DEF Updated
  <2>4. CASE y \notin E /\ v
    BY <1>1, <2>4 DEF Updated
  <2>5. CASE y \notin E /\ ~v
    BY <1>1, <2>1, <2>5 DEF Updated
  <2>. QED  BY <2>2, <2>3, <2>4, <2>5
<1>. QED  BY <1>2, <1>3, <1>4, OnePath, PathIsOrdered

\* The style is the one that the rules give with it.
LEMMA TriedGives ==
  ASSUME PartsNear, Environment,
         NEW E, Settled(path, E, RulesOf(matched, attribute, effects))
  PROVE  Effective(Tried(path)) = Cascaded(RulesOf(matched, attribute, effects) \cup {FallbackRule})
<1>1. PICK rules, more, y, F : /\ rules = RulesOf(matched, attribute, effects)
                               /\ more = rules \cup {FallbackRule} /\ y = FallbackEntry
                               /\ F = Updated(E, y, RelevantIn(y, content))
  OBVIOUS
<1>2. /\ PathIs(path, E) /\ (\A x \in E : x[1] \in rules) /\ Filled(E) = DeclaredBy(rules, content)
      /\ E \subseteq Entry
  BY <1>1 DEF Settled, PathIs
<1>3. /\ y \in Entry /\ y = <<FallbackRule, "normal">> /\ FallbackRule.block = FallbackBlock
      /\ BlockIn(y) = FallbackBlock /\ FallbackRule.origin = PositionFallback
      /\ \A x \in Entry : SameKey(x, y) <=> OriginIn(x) = PositionFallback
  BY <1>1, FallbackEntryIs
<1>4. ASSUME NEW x \in E PROVE ~SameKey(x, y)
  <2>1. x[1] \in RulesOf(matched, attribute, effects)
    BY <1>1, <1>2
  <2>2. OriginIn(x) # PositionFallback
    BY <2>1, AppliedRuleIs DEF Environment, OriginIn
  <2>. QED  BY <1>2, <1>3, <2>2
<1>5. y \notin E
  <2>1. SameKey(y, y)
    BY DEF SameKey
  <2>. QED  BY <1>4, <2>1
<1>6. FallbackBlock \in Block /\ FallbackBlock # NoBlock /\ content[FallbackBlock] \subseteq {"normal"}
  <2>1. FallbackBlock \in Block \ AttributeBlock /\ NoBlock \notin Block
    BY ElementRulesAssumption, Zenon
  <2>2. content[FallbackBlock] = InitialContent[FallbackBlock] /\ content \in [Block -> SUBSET Importance]
    BY <2>1 DEF Environment, ContentFits
  <2>3. "important" \notin InitialContent[FallbackBlock]
    <3>1. SMILOverride \in Effects
      BY DEF Effects
    <3>. QED  BY <3>1, ElementRulesAssumption, Zenon
  <2>4. content[FallbackBlock] \subseteq Importance
    BY <2>1, <2>2
  <2>. QED  BY <2>1, <2>2, <2>3, <2>4 DEF Importance
<1>7. RelevantIn(y, content) <=> "normal" \in content[FallbackBlock]
  BY <1>3, <1>6 DEF RelevantIn
<1>8. F = E \cup {z \in {y} : "normal" \in content[FallbackBlock]}
  BY <1>1, <1>4, <1>5, <1>7 DEF Updated
<1>9. PathIs(Tried(path), F)
  BY <1>1, <1>2, TriedIs
<1>10. Filled(F) = Filled(E) \cup {z \in {y} : "normal" \in content[FallbackBlock]}
  BY <1>3, <1>8 DEF Filled
<1>11. DeclaredBy(more, content)
         = DeclaredBy(rules, content) \cup {z \in {y} : "normal" \in content[FallbackBlock]}
  <2>1. ASSUME NEW x \in DeclaredBy(more, content)
        PROVE  x \in DeclaredBy(rules, content) \cup {z \in {y} : "normal" \in content[FallbackBlock]}
    <3>1. x = <<x[1], x[2]>> /\ x[1] \in more /\ x[2] \in Importance /\ x[2] \in content[x[1].block]
      BY DEF DeclaredBy
    <3>2. CASE x[1] \in rules
      <4>1. x \in rules \X Importance
        BY <3>1, <3>2
      <4>. QED  BY <3>1, <4>1 DEF DeclaredBy
    <3>3. CASE x[1] = FallbackRule
      <4>1. x[2] = "normal" /\ "normal" \in content[FallbackBlock]
        BY <1>3, <1>6, <3>1, <3>3
      <4>2. x = y
        BY <1>3, <3>1, <3>3, <4>1
      <4>. QED  BY <4>1, <4>2
    <3>. QED  BY <1>1, <3>1, <3>2, <3>3
  <2>2. ASSUME NEW x \in DeclaredBy(rules, content) PROVE x \in DeclaredBy(more, content)
    BY <1>1, <2>2 DEF DeclaredBy
  <2>3. ASSUME "normal" \in content[FallbackBlock] PROVE y \in DeclaredBy(more, content)
    <3>1. y[1] = FallbackRule /\ y[2] = "normal" /\ y \in more \X Importance
      BY <1>1, <1>3 DEF Importance
    <3>. QED  BY <1>3, <2>3, <3>1 DEF DeclaredBy
  <2>. QED  BY <2>1, <2>2, <2>3
<1>. QED  BY <1>1, <1>2, <1>9, <1>10, <1>11, GivesCascaded

\* What is derived from the path of a settled element is what it stands for:
\* the style before a change has no animations, the one after it no
\* transitions, and a @position-try rule goes in at its place, once.
THEOREM DerivedRight ==
  ASSUME PartsNear, ImportantUnlayered
  PROVE  Spec => []DerivedPathsRight
<1>1. ASSUME IInv, hint = {}
      PROVE  /\ Effective(RemoveAnimationRules(path)) = Cascaded(RulesWith(NoEffects))
             /\ Effective(RemoveTransitionRule(path))
                  = Cascaded(RulesWith([effects EXCEPT ![Transitions] = NoBlock]))
             /\ Effective(Tried(path)) = Cascaded(RulesWith(effects) \cup {FallbackRule})
             /\ Ordered(Tried(path)) /\ Tried(Tried(path)) = Tried(path)
  <2>1. \A some : RulesOf(matched, attribute, some) = RulesWith(some)
    BY Zenon DEF RulesWith, RulesOf
  <2>2. PICK E : Settled(path, E, RulesOf(matched, attribute, effects))
    BY <1>1, SettledPath
  <2>3. PathIs(path, E) /\ Environment /\ SomeEffects(effects)
    BY <1>1, <2>2 DEF Settled, IInv, Environment
  <2>4. Effective(RemoveAnimationRules(path)) = Cascaded(RulesWith(NoEffects))
    <3>1. SomeEffects(NoEffects) /\ \A e \in Effects : NoEffects[e] = IF e \in Effects THEN NoBlock ELSE effects[e]
      BY DEF NoEffects, SomeEffects, SomeBlock
    <3>2. PathIs(RemoveAnimationRules(path), {x \in E : OriginIn(x) \notin Effects})
      BY <2>3, AnimationsRemoved
    <3>. QED  BY <2>1, <2>2, <2>3, <3>1, <3>2, WithoutGives
  <2>5. Effective(RemoveTransitionRule(path)) = Cascaded(RulesWith([effects EXCEPT ![Transitions] = NoBlock]))
    <3>1. PICK some : some = [effects EXCEPT ![Transitions] = NoBlock]
      OBVIOUS
    <3>2. /\ SomeEffects(some)
          /\ \A e \in Effects : some[e] = IF e \in {Transitions} THEN NoBlock ELSE effects[e]
          /\ {Transitions} \in SUBSET Effects
      BY <2>3, <3>1 DEF SomeEffects, SomeBlock, Effects
    <3>3. PathIs(RemoveTransitionRule(path), {x \in E : OriginIn(x) \notin {Transitions}})
      BY <2>3, TransitionRemoved
    <3>. QED  BY <2>1, <2>2, <2>3, <3>1, <3>2, <3>3, WithoutGives
  <2>. QED  BY <2>1, <2>2, <2>3, <2>4, <2>5, TriedGives, TriedOnce
<1>2. IInv => DerivedPathsRight
  BY <1>1, Zenon DEF DerivedPathsRight, Tried, FallbackRule
<1>. QED  BY <1>2, PathsFit, PTL
=============================================================================
