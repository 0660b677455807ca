----------------------- MODULE ParallelTraversalProofs -----------------------
(* That the parallel traversal keeps its queues sound and implements           *)
(* TraversalOrder, for every tree, every number of threads and every size of   *)
(* a work unit and of a local queue, whichever children an element notes; and, *)
(* before that, facts about the tree: who is above whom, and how deep.         *)
EXTENDS ParallelTraversal, FiniteSetTheorems, SequenceTheorems, TLAPS

-----------------------------------------------------------------------------
(* The tree of elements.                                                     *)

\* Every element has finitely many children, all of them elements.
LEMMA KidsAreElements ==
  ASSUME NEW e \in Element
  PROVE  Kids(e) \in SUBSET Element /\ IsFiniteSet(Kids(e))
<1>1. Kids(e) \in SUBSET Element
  BY TreeAssumption DEF Kids
<1>. QED  BY <1>1, TreeAssumption, FS_Subset

\* An element is a child of one element only (traversal_parent).
LEMMA OneParent ==
  ASSUME NEW p \in Element, NEW e \in Kids(p)
  PROVE  /\ TraversalParent(e) = p
         /\ \A q \in Element : e \in Kids(q) => q = p
<1>1. \A q \in Element : e \in Kids(q) => q = p
  BY TreeAssumption
<1>. QED  BY <1>1 DEF TraversalParent

\* Every set of elements with a parent of each in it is empty: the tree ends at its root.
LEMMA NoCycle ==
  ASSUME NEW s \in SUBSET Element, \A e \in s : \E p \in s : e \in Kids(p)
  PROVE  s = {}
BY TreeAssumption

\* Children are below their parent, and so are the children of what is below it; nothing else is.
LEMMA DescendantsAreClosed ==
  ASSUME NEW a \in Element
  PROVE  /\ Descendants(a) \in SUBSET Element
         /\ Kids(a) \subseteq Descendants(a)
         /\ \A x \in Descendants(a) : Kids(x) \subseteq Descendants(a)
         /\ \A d \in Descendants(a) : \E q \in {a} \cup Descendants(a) : d \in Kids(q)
<1>. DEFINE Below(s) == Kids(a) \subseteq s /\ \A x \in s : Kids(x) \subseteq s
<1>1. Descendants(a) = {d \in Element : \A s \in SUBSET Element : Below(s) => d \in s}
  BY DEF Descendants, DescendantSets
<1>. HIDE DEF Below
<1>2. Descendants(a) \in SUBSET Element
  BY <1>1
<1>3. Kids(a) \subseteq Descendants(a)
  BY <1>1, KidsAreElements DEF Below
<1>4. ASSUME NEW x \in Descendants(a), NEW k \in Kids(x)
      PROVE  k \in Descendants(a)
  <2>1. k \in Element /\ x \in Element
    BY <1>2, KidsAreElements
  <2>2. \A s \in SUBSET Element : Below(s) => x \in s
    BY <1>1
  <2>3. \A s \in SUBSET Element : Below(s) => k \in s
    BY <2>2 DEF Below
  <2>. QED  BY <1>1, <2>1, <2>3
<1>5. ASSUME NEW d \in Descendants(a)
      PROVE  \E q \in {a} \cup Descendants(a) : d \in Kids(q)
  <2>. DEFINE s == {x \in Descendants(a) : \E q \in {a} \cup Descendants(a) : x \in Kids(q)}
  <2>1. s \in SUBSET Element
    BY <1>2
  <2>2. Kids(a) \subseteq s
    BY <1>3
  <2>3. \A x \in s : Kids(x) \subseteq s
    BY <1>4
  <2>. HIDE DEF s
  <2>4. Below(s)
    BY <2>2, <2>3 DEF Below
  <2>5. d \in s
    BY <1>1, <2>1, <2>4
  <2>. QED  BY <2>5 DEF s
<1>. QED  BY <1>2, <1>3, <1>4, <1>5

\* No element is below itself.
LEMMA NotBelowItself ==
  ASSUME NEW a \in Element
  PROVE  a \notin Descendants(a)
<1>1. SUFFICES ASSUME a \in Descendants(a)
               PROVE  FALSE
  OBVIOUS
<1>2. Descendants(a) \in SUBSET Element /\ \A d \in Descendants(a) : \E q \in Descendants(a) : d \in Kids(q)
  BY <1>1, DescendantsAreClosed
<1>. QED  BY <1>1, <1>2, NoCycle

\* What is below something below an element is below the element; none of it is above the element.
LEMMA DescendantsTransitive ==
  ASSUME NEW a \in Element, NEW b \in Descendants(a)
  PROVE  Descendants(b) \subseteq Descendants(a) /\ a \notin Descendants(b)
<1>1. b \in Element /\ Descendants(a) \in SUBSET Element
  BY DescendantsAreClosed
<1>2. Kids(b) \subseteq Descendants(a) /\ \A x \in Descendants(a) : Kids(x) \subseteq Descendants(a)
  BY DescendantsAreClosed
<1>3. Descendants(b) \subseteq Descendants(a)
  BY <1>1, <1>2 DEF Descendants, DescendantSets
<1>. QED  BY <1>3, NotBelowItself

\* The elements above a child are its parent and those above that one.
LEMMA AncestorsOfChild ==
  ASSUME NEW p \in Element, NEW e \in Kids(p)
  PROVE  /\ Ancestors(e) = Ancestors(p) \cup {p}
         /\ p \notin Ancestors(p)
<1>1. e \in Element
  BY KidsAreElements
<1>2. \A a \in Element : e \in Descendants(a) <=> a = p \/ p \in Descendants(a)
  <2>1. ASSUME NEW a \in Element, e \in Descendants(a)
        PROVE  a = p \/ p \in Descendants(a)
    <3>1. PICK q \in {a} \cup Descendants(a) : e \in Kids(q)
      BY <2>1, DescendantsAreClosed
    <3>2. q \in Element
      BY DescendantsAreClosed
    <3>. QED  BY <3>1, <3>2, OneParent
  <2>2. ASSUME NEW a \in Element, a = p \/ p \in Descendants(a)
        PROVE  e \in Descendants(a)
    BY <2>2, DescendantsAreClosed
  <2>. QED  BY <2>1, <2>2
<1>3. /\ Ancestors(e) = {a \in Element : e \in Descendants(a)}
      /\ Ancestors(p) = {a \in Element : p \in Descendants(a)}
  BY <1>1 DEF Ancestors, AncestorSets
<1>4. p \notin Ancestors(p)
  BY <1>3, NotBelowItself
<1>. QED  BY <1>2, <1>3, <1>4

\* A child is one level deeper than its parent: what a thread counts on when it goes on to the next level.
THEOREM DepthOfChild ==
  ASSUME NEW p \in Element, NEW e \in Kids(p)
  PROVE  Depth(p) \in Nat /\ Depth(e) = Depth(p) + 1
<1>1. Ancestors(p) \in SUBSET Element
  BY DEF Ancestors, AncestorSets
<1>2. IsFiniteSet(Ancestors(p))
  BY <1>1, TreeAssumption, FS_Subset
<1>3. Depth(p) \in Nat
  BY <1>2, FS_CardinalityType DEF Depth
<1>4. Cardinality(Ancestors(p) \cup {p}) = Cardinality(Ancestors(p)) + 1
  BY <1>2, AncestorsOfChild, FS_AddElement
<1>. QED  BY <1>3, <1>4, AncestorsOfChild DEF Depth

\* A depth is a natural number.
LEMMA DepthIsNatural ==
  ASSUME NEW e \in Element
  PROVE  Depth(e) \in Nat
<1>1. Ancestors(e) \in SUBSET Element
  BY DEF Ancestors, AncestorSets
<1>2. IsFiniteSet(Ancestors(e))
  BY <1>1, TreeAssumption, FS_Subset
<1>. QED  BY <1>2, FS_CardinalityType DEF Depth

\* Of the elements that a traversal has asked for, from one downwards, nothing below one that is not
\* visited yet is among them.
THEOREM NothingAskedBelow ==
  ASSUME NEW wanted \in SUBSET Element, NEW seen \in SUBSET wanted, NEW first \in wanted,
         \A e \in wanted \ {first} : \E p \in seen : e \in Kids(p),
         NEW a \in wanted \ seen
  PROVE  Descendants(a) \cap wanted = {}
<1>. DEFINE found == Descendants(a) \cap wanted
<1>0. a \in Element /\ Descendants(a) \in SUBSET Element
  BY DescendantsAreClosed
<1>1. ASSUME NEW e \in found, e # first
      PROVE  \E p \in found : e \in Kids(p)
  <2>1. PICK p \in seen : e \in Kids(p)
    BY <1>1
  <2>2. PICK q \in {a} \cup Descendants(a) : e \in Kids(q)
    BY DescendantsAreClosed
  <2>3. p = q
    BY <1>0, <2>1, <2>2, OneParent
  <2>. QED  BY <2>1, <2>2, <2>3
<1>2. CASE first \notin found
  <2>1. found \in SUBSET Element /\ \A e \in found : \E p \in found : e \in Kids(p)
    BY <1>0, <1>1, <1>2
  <2>. QED  BY <2>1, NoCycle
<1>3. CASE first \in found
  <2>. DEFINE s == wanted \cup Descendants(a)
  <2>1. \A e \in Descendants(a) : \E p \in s : e \in Kids(p)
    BY DescendantsAreClosed
  <2>2. \A e \in wanted : \E p \in s : e \in Kids(p)
    BY <1>3, <2>1
  <2>3. s \in SUBSET Element /\ \A e \in s : \E p \in s : e \in Kids(p)
    BY <1>0, <2>1, <2>2
  <2>. QED  BY <2>3, NoCycle
<1>. QED  BY <1>2, <1>3

\* It comes from above only: where it began is not below any of them.
LEMMA FirstIsNoChild ==
  ASSUME NEW wanted \in SUBSET Element, NEW seen \in SUBSET wanted, NEW first \in wanted,
         \A e \in wanted \ {first} : \E p \in seen : e \in Kids(p),
         NEW e \in wanted
  PROVE  first \notin Kids(e)
<1>1. SUFFICES ASSUME first \in Kids(e)
               PROVE  FALSE
  OBVIOUS
<1>2. \A x \in wanted : \E p \in wanted : x \in Kids(p)
  BY <1>1
<1>. QED  BY <1>2, NoCycle

-----------------------------------------------------------------------------
(* The inductive invariant.                                                  *)

\* What was asked for was noted by its parent, which had been visited.
AskedSound ==
  /\ start \in asked
  /\ \A e \in Element : noted[e] \subseteq asked \cap Kids(e)
  /\ \A e \in Element \ down : noted[e] = {}
  /\ \A e \in asked \ {start} : \E p \in down : e \in noted[p]

\* What was asked for and not visited is in one queue, once.
QueuesDisjoint ==
  /\ Waiting = asked \ down
  /\ \A t \in Thread : IsInjective(discovered[t])
  /\ \A task \in pool : IsInjective(task.items)
  /\ \A t, u \in Thread : t # u => ToSet(discovered[t]) \cap ToSet(discovered[u]) = {}
  /\ \A task \in pool : \A t \in Thread : ToSet(task.items) \cap ToSet(discovered[t]) = {}
  /\ \A task, other \in pool : task # other => ToSet(task.items) \cap ToSet(other.items) = {}
  /\ \A t \in Thread : at[t] = "idle" => discovered[t] = <<>>

\* No two threads are at the same element on its way up, or count the same element.
HandsSound ==
  /\ \A t \in Thread : at[t] = "noted" => node[t] \in down \ up
  /\ \A t \in Thread : at[t] = "processed" => node[t] \in up \ {start} /\ toProcess[t] = 0
  /\ \A t, u \in Thread : t # u /\ at[t] = "noted" /\ at[u] = "noted" => node[t] # node[u]
  /\ \A t, u \in Thread : t # u /\ at[t] = "processed" /\ at[u] = "processed" => node[t] # node[u]

\* The children of e that have not been counted down.
Uncounted(e) ==
  {c \in noted[e] : c \notin up \/ \E t \in Thread : at[t] = "processed" /\ node[t] = c}

Held(e) == \E t \in Thread : at[t] = "noted" /\ node[t] = e

\* A counter is the number of children not counted, from when it is stored until the last of them; until
\* then they are in the queue of the thread that noted them, where nobody else finds them.
CountersSound ==
  /\ \A t \in Thread : at[t] = "noted" /\ toProcess[t] = 0 => Uncounted(node[t]) = {}
  /\ \A t \in Thread : at[t] = "noted" /\ toProcess[t] # 0 =>
       /\ toProcess[t] = Cardinality(noted[node[t]])
       /\ noted[node[t]] \subseteq ToSet(discovered[t])
  /\ \A e \in up : Uncounted(e) = {}
  /\ \A e \in down \ up : ~ Held(e) => counter[e] = Cardinality(Uncounted(e))

\* What is left of the level once the element in hand is done.
LeftOfLevel(t) == IF at[t] = "next" THEN remaining[t] ELSE remaining[t] - 1

\* A queue has what is left of a level and then elements of the next one.
LevelsSound ==
  /\ \A task \in pool : \A e \in ToSet(task.items) : Depth(e) = task.depth
  /\ \A t \in Thread : at[t] # "idle" =>
       /\ LeftOfLevel(t) \in 0..Len(discovered[t])
       /\ at[t] = "next" /\ discovered[t] # <<>> => remaining[t] # 0
       /\ \A i \in DOMAIN discovered[t] :
            Depth(discovered[t][i]) = IF i <= LeftOfLevel(t) THEN depth[t] ELSE depth[t] + 1

PInv ==
  TypeOK /\ AskedSound /\ QueuesDisjoint /\ HandsSound /\ CountersSound /\ LevelsSound

-----------------------------------------------------------------------------
(* Queues.                                                                   *)

\* The elements of a sequence.
LEMMA ElementsOf ==
  ASSUME NEW S, NEW q \in Seq(S)
  PROVE  /\ Len(q) \in Nat /\ DOMAIN q = 1..Len(q)
         /\ ToSet(q) = {q[i] : i \in 1..Len(q)}
         /\ ToSet(q) \subseteq S
BY DEF ToSet

\* A queue without its first element.
LEMMA TailOf ==
  ASSUME NEW S, NEW q \in Seq(S), q # <<>>
  PROVE  /\ Head(q) \in ToSet(q) /\ Head(q) \in S /\ Head(q) = q[1]
         /\ Tail(q) \in Seq(S) /\ Len(Tail(q)) = Len(q) - 1 /\ Len(q) > 0
         /\ \A i \in 1..(Len(q) - 1) : Tail(q)[i] = q[i + 1]
         /\ ToSet(q) = {Head(q)} \cup ToSet(Tail(q))
         /\ IsInjective(q) => IsInjective(Tail(q)) /\ Head(q) \notin ToSet(Tail(q))
<1>1. /\ Len(q) \in Nat /\ Len(q) > 0 /\ DOMAIN q = 1..Len(q) /\ Head(q) = q[1]
      /\ \A i \in 1..Len(q) : q[i] \in S
  OBVIOUS
<1>2. /\ Tail(q) \in Seq(S) /\ Len(Tail(q)) = Len(q) - 1
      /\ DOMAIN Tail(q) = 1..(Len(q) - 1)
      /\ \A i \in 1..(Len(q) - 1) : Tail(q)[i] = q[i + 1]
  OBVIOUS
<1>. DEFINE r == Tail(q)  n == Len(q)
<1>. HIDE DEF r, n
<1>3. ToSet(q) = {q[i] : i \in 1..n} /\ ToSet(r) = {r[i] : i \in 1..(n - 1)}
  BY <1>1, <1>2 DEF ToSet, r, n
<1>4. n \in Nat /\ n > 0 /\ \A i \in 1..(n - 1) : r[i] = q[i + 1]
  BY <1>1, <1>2 DEF r, n
<1>5. ToSet(q) = {q[1]} \cup ToSet(r)
  <2>1. ToSet(r) \subseteq ToSet(q) /\ q[1] \in ToSet(q)
    BY <1>3, <1>4
  <2>2. ASSUME NEW i \in 1..n, i # 1
        PROVE  q[i] \in ToSet(r)
    <3>1. i - 1 \in 1..(n - 1) /\ (i - 1) + 1 = i
      BY <1>4, <2>2
    <3>2. r[i - 1] = q[i]
      BY <1>4, <3>1
    <3>. QED  BY <1>3, <3>1, <3>2
  <2>. QED  BY <1>3, <2>1, <2>2
<1>6. ASSUME IsInjective(q)
      PROVE  IsInjective(r) /\ q[1] \notin ToSet(r)
  <2>1. \A i, j \in 1..n : q[i] = q[j] => i = j
    BY <1>1, <1>6 DEF IsInjective, n
  <2>2. q[1] \notin ToSet(r)
    BY <1>3, <1>4, <2>1
  <2>3. \A i, j \in 1..(n - 1) : r[i] = r[j] => i = j
    BY <1>4, <2>1
  <2>4. DOMAIN r = 1..(n - 1)
    BY <1>2 DEF r, n
  <2>. QED  BY <2>2, <2>3, <2>4 DEF IsInjective
<1>7. q[1] \in ToSet(q)
  BY <1>3, <1>4
<1>. QED  BY <1>1, <1>2, <1>5, <1>6, <1>7 DEF r, n

\* Children at the end of a queue.
LEMMA ConcatenationOf ==
  ASSUME NEW S, NEW q \in Seq(S), NEW k \in Seq(S)
  PROVE  /\ q \o k \in Seq(S) /\ Len(q \o k) = Len(q) + Len(k)
         /\ \A i \in 1..Len(q) : (q \o k)[i] = q[i]
         /\ \A i \in (Len(q) + 1)..(Len(q) + Len(k)) :
              (q \o k)[i] = k[i - Len(q)] /\ i - Len(q) \in 1..Len(k)
         /\ ToSet(q \o k) = ToSet(q) \cup ToSet(k)
         /\ IsInjective(q) /\ IsInjective(k) /\ ToSet(q) \cap ToSet(k) = {} => IsInjective(q \o k)
<1>. DEFINE r == q \o k  n == Len(q)  m == Len(k)
<1>1. n \in Nat /\ m \in Nat /\ DOMAIN q = 1..n /\ DOMAIN k = 1..m
  OBVIOUS
<1>2. r \in Seq(S) /\ Len(r) = n + m /\ DOMAIN r = 1..(n + m)
  OBVIOUS
<1>3. \A i \in 1..(n + m) : r[i] = IF i <= n THEN q[i] ELSE k[i - n]
  OBVIOUS
<1>4. ToSet(q) = {q[i] : i \in 1..n} /\ ToSet(k) = {k[i] : i \in 1..m} /\ ToSet(r) = {r[i] : i \in 1..(n + m)}
  BY <1>1, <1>2 DEF ToSet
<1>. HIDE DEF r, n, m
<1>5. \A i \in 1..n : r[i] = q[i]
  BY <1>1, <1>3
<1>6. \A i \in (n + 1)..(n + m) : r[i] = k[i - n] /\ i - n \in 1..m
  BY <1>1, <1>3
<1>7. ToSet(r) = ToSet(q) \cup ToSet(k)
  <2>1. ToSet(r) \subseteq ToSet(q) \cup ToSet(k)
    <3>1. ASSUME NEW i \in 1..(n + m)
          PROVE  r[i] \in ToSet(q) \cup ToSet(k)
      <4>1. CASE i \in 1..n
        BY <1>4, <1>5, <4>1
      <4>2. CASE i \in (n + 1)..(n + m)
        BY <1>4, <1>6, <4>2
      <4>. QED  BY <1>1, <4>1, <4>2
    <3>. QED  BY <1>4, <3>1
  <2>2. ToSet(q) \subseteq ToSet(r)
    BY <1>1, <1>4, <1>5
  <2>3. ASSUME NEW j \in 1..m
        PROVE  k[j] \in ToSet(r)
    <3>1. j + n \in (n + 1)..(n + m) /\ (j + n) - n = j /\ j + n \in 1..(n + m)
      BY <1>1
    <3>2. r[j + n] = k[j]
      BY <1>6, <3>1
    <3>. QED  BY <1>4, <3>1, <3>2
  <2>. QED  BY <1>4, <2>1, <2>2, <2>3
<1>8. ASSUME IsInjective(q), IsInjective(k), ToSet(q) \cap ToSet(k) = {}
      PROVE  IsInjective(r)
  <2>1. \A i, j \in 1..n : q[i] = q[j] => i = j
    BY <1>1, <1>8 DEF IsInjective
  <2>2. \A i, j \in 1..m : k[i] = k[j] => i = j
    BY <1>1, <1>8 DEF IsInjective
  <2>3. \A i \in 1..n, j \in 1..m : q[i] # k[j]
    BY <1>4, <1>8
  <2>4. ASSUME NEW i \in 1..(n + m), NEW j \in 1..(n + m), r[i] = r[j]
        PROVE  i = j
    <3>1. CASE i <= n /\ j <= n
      BY <1>1, <1>3, <2>1, <2>4, <3>1
    <3>2. CASE i > n /\ j > n
      <4>1. i - n \in 1..m /\ j - n \in 1..m /\ r[i] = k[i - n] /\ r[j] = k[j - n]
        BY <1>1, <1>3, <3>2
      <4>2. i - n = j - n
        BY <2>2, <2>4, <4>1
      <4>. QED  BY <1>1, <4>2
    <3>3. CASE i <= n /\ j > n
      <4>1. i \in 1..n /\ j - n \in 1..m /\ r[i] = q[i] /\ r[j] = k[j - n]
        BY <1>1, <1>3, <3>3
      <4>. QED  BY <2>3, <2>4, <4>1
    <3>4. CASE i > n /\ j <= n
      <4>1. j \in 1..n /\ i - n \in 1..m /\ r[j] = q[j] /\ r[i] = k[i - n]
        BY <1>1, <1>3, <3>4
      <4>. QED  BY <2>3, <2>4, <4>1
    <3>. QED  BY <1>1, <3>1, <3>2, <3>3, <3>4
  <2>. QED  BY <1>2, <2>4 DEF IsInjective
<1>. QED  BY <1>1, <1>2, <1>5, <1>6, <1>7, <1>8 DEF r, n, m

\* A part of a queue.
LEMMA PartOf ==
  ASSUME NEW S, NEW q \in Seq(S), NEW a \in Nat \ {0}, NEW b \in Nat, b <= Len(q), a <= b + 1
  PROVE  /\ SubSeq(q, a, b) \in Seq(S) /\ Len(SubSeq(q, a, b)) = b - a + 1
         /\ \A i \in 1..(b - a + 1) : SubSeq(q, a, b)[i] = q[a + i - 1] /\ a + i - 1 \in 1..Len(q)
         /\ ToSet(SubSeq(q, a, b)) = {q[i] : i \in a..b}
         /\ ToSet(SubSeq(q, a, b)) \subseteq ToSet(q)
         /\ IsInjective(q) => IsInjective(SubSeq(q, a, b))
<1>. DEFINE r == SubSeq(q, a, b)  n == Len(q)  m == b - a + 1
<1>0. n \in Nat /\ DOMAIN q = 1..n /\ a \in 1..(n + 1) /\ b \in 0..n /\ m \in Nat
  OBVIOUS
<1>1. r \in Seq(S)
  <2>1. \A i \in a..b : q[i] \in S
    BY <1>0
  <2>. QED  BY <1>0, <2>1, SubSeqProperties
<1>2. Len(r) = m /\ DOMAIN r = 1..m /\ \A i \in 1..m : r[i] = q[a + i - 1]
  BY <1>0, SubSeqProperties
<1>. HIDE DEF r, n
<1>3. \A i \in 1..m : a + i - 1 \in 1..n /\ a + i - 1 \in a..b
  BY <1>0
<1>4. ToSet(q) = {q[i] : i \in 1..n} /\ ToSet(r) = {r[i] : i \in 1..m}
  BY <1>0, <1>2 DEF ToSet
<1>5. ToSet(r) = {q[i] : i \in a..b}
  <2>1. ASSUME NEW i \in a..b
        PROVE  q[i] \in ToSet(r)
    <3>1. i - a + 1 \in 1..m /\ a + (i - a + 1) - 1 = i
      BY <1>0
    <3>2. r[i - a + 1] = q[i]
      BY <1>2, <3>1
    <3>. QED  BY <1>4, <3>1, <3>2
  <2>2. ASSUME NEW i \in 1..m
        PROVE  r[i] \in {q[j] : j \in a..b}
    BY <1>2, <1>3
  <2>. QED  BY <1>4, <2>1, <2>2
<1>6. ToSet(r) \subseteq ToSet(q)
  <2>1. a..b \subseteq 1..n
    BY <1>0
  <2>. QED  BY <1>4, <1>5, <2>1
<1>7. ASSUME IsInjective(q)
      PROVE  IsInjective(r)
  <2>1. \A i, j \in 1..n : q[i] = q[j] => i = j
    BY <1>0, <1>7 DEF IsInjective
  <2>2. ASSUME NEW i \in 1..m, NEW j \in 1..m, r[i] = r[j]
        PROVE  i = j
    <3>1. q[a + i - 1] = q[a + j - 1]
      BY <1>2, <2>2
    <3>2. a + i - 1 = a + j - 1
      BY <1>3, <2>1, <3>1
    <3>. QED  BY <1>0, <3>2
  <2>. QED  BY <1>2, <2>2 DEF IsInjective
<1>. QED  BY <1>0, <1>1, <1>2, <1>3, <1>5, <1>6, <1>7 DEF r, n

\* The first elements of a sequence.
LEMMA FirstPart ==
  ASSUME NEW S, NEW q \in Seq(S), NEW b \in Nat, b <= Len(q)
  PROVE  /\ Len(SubSeq(q, 1, b)) = b
         /\ \A i \in 1..b : SubSeq(q, 1, b)[i] = q[i]
         /\ ToSet(SubSeq(q, 1, b)) = {q[i] : i \in 1..b}
         /\ IsInjective(q) => IsInjective(SubSeq(q, 1, b))
<1>1. PICK a \in Nat \ {0} : a = 1
  OBVIOUS
<1>2. a <= b + 1
  BY <1>1
<1>3. /\ Len(SubSeq(q, a, b)) = b - a + 1
      /\ \A i \in 1..(b - a + 1) : SubSeq(q, a, b)[i] = q[a + i - 1]
  BY <1>2, PartOf
<1>4. /\ ToSet(SubSeq(q, a, b)) = {q[i] : i \in a..b}
      /\ IsInjective(q) => IsInjective(SubSeq(q, a, b))
  BY <1>2, PartOf
<1>5. b - a + 1 = b /\ \A i \in 1..b : a + i - 1 = i
  BY <1>1
<1>6. /\ Len(SubSeq(q, a, b)) = b
      /\ \A i \in 1..b : SubSeq(q, a, b)[i] = q[i]
  BY <1>3, <1>5
<1>. QED  BY <1>1, <1>4, <1>6

\* Chunks of one size: one ends before the next begins.
LEMMA Multiples ==
  ASSUME NEW i \in Nat, NEW j \in Nat, i < j
  PROVE  (i + 1) * WorkUnitMax <= j * WorkUnitMax
<1>1. PICK k \in Nat : j = i + 1 + k
  <2>1. j - i - 1 \in Nat /\ j = i + 1 + (j - i - 1)
    OBVIOUS
  <2>. QED  BY <2>1
<1>2. WorkUnitMax \in Nat
  BY ParallelAssumption
<1>3. (i + 1 + k) * WorkUnitMax = (i + 1) * WorkUnitMax + k * WorkUnitMax
  BY <1>2
<1>4. k * WorkUnitMax \in Nat /\ (i + 1) * WorkUnitMax \in Nat
  BY <1>2
<1>. QED  BY <1>1, <1>3, <1>4

\* The product of two naturals.
LEMMA Product ==
  ASSUME NEW i \in Nat
  PROVE  i * WorkUnitMax \in Nat /\ (i + 1) * WorkUnitMax = i * WorkUnitMax + WorkUnitMax
BY ParallelAssumption

\* distribute_work hands out every element of what it is given once, in one chunk.
LEMMA ChunksPartition ==
  ASSUME NEW items \in Seq(Element)
  PROVE  /\ \A c \in Chunks(items) : c \in Seq(Element) /\ ToSet(c) \subseteq ToSet(items)
         /\ ToSet(items) = UNION {ToSet(c) : c \in Chunks(items)}
         /\ IsInjective(items) =>
              /\ \A c \in Chunks(items) : IsInjective(c)
              /\ \A c, d \in Chunks(items) : c # d => ToSet(c) \cap ToSet(d) = {}
<1>. DEFINE n == Len(items)
            W == WorkUnitMax
            from(i) == i * W + 1
            to(i) == IF (i + 1) * W < n THEN (i + 1) * W ELSE n
            chunk(i) == SubSeq(items, from(i), to(i))
            I == {i \in 0..n : i * W < n}
<1>1. n \in Nat /\ W \in Nat \ {0} /\ DOMAIN items = 1..n
  BY ParallelAssumption
<1>2. Chunks(items) = {chunk(i) : i \in I}
  BY DEF Chunks
<1>3. \A i \in I : /\ from(i) \in Nat \ {0} /\ to(i) \in Nat
                   /\ from(i) <= to(i) /\ to(i) <= n
  <2>1. SUFFICES ASSUME NEW i \in I
                 PROVE  /\ from(i) \in Nat \ {0} /\ to(i) \in Nat
                        /\ from(i) <= to(i) /\ to(i) <= n
    OBVIOUS
  <2>2. i \in Nat /\ i * W < n
    OBVIOUS
  <2>3. i * W \in Nat /\ (i + 1) * W = i * W + W
    BY <2>2, Product
  <2>. QED  BY <1>1, <2>2, <2>3
<1>. HIDE DEF n, from, to, W
<1>4. \A i \in I : /\ chunk(i) \in Seq(Element)
                   /\ ToSet(chunk(i)) = {items[j] : j \in from(i)..to(i)}
                   /\ ToSet(chunk(i)) \subseteq ToSet(items)
                   /\ IsInjective(items) => IsInjective(chunk(i))
  <2>1. SUFFICES ASSUME NEW i \in I
                 PROVE  /\ chunk(i) \in Seq(Element)
                        /\ ToSet(chunk(i)) = {items[j] : j \in from(i)..to(i)}
                        /\ ToSet(chunk(i)) \subseteq ToSet(items)
                        /\ IsInjective(items) => IsInjective(chunk(i))
    OBVIOUS
  <2>2. /\ from(i) \in Nat \ {0} /\ to(i) \in Nat
        /\ from(i) <= to(i) + 1 /\ to(i) <= n
    BY <1>3
  <2>. QED  BY <2>2, PartOf DEF n
<1>5. ToSet(items) = {items[j] : j \in 1..n}
  BY <1>1 DEF ToSet
<1>6. ASSUME NEW j \in 1..n
      PROVE  \E i \in I : j \in from(i)..to(i)
  <2>. DEFINE i == (j - 1) \div W
              r == (j - 1) % W
  <2>1. j - 1 \in Nat /\ j - 1 < n
    BY <1>1
  <2>2. i \in Nat /\ r \in 0..(W - 1) /\ j - 1 = i * W + r
    <3>1. i \in Int /\ r \in 0..(W - 1) /\ j - 1 = W * i + r
      BY <1>1, <2>1
    <3>2. i >= 0
      BY <1>1, <2>1
    <3>. QED  BY <1>1, <3>1, <3>2
  <2>. HIDE DEF i, r
  <2>3. i * W \in Nat /\ (i + 1) * W = i * W + W
    BY <2>2, Product DEF W
  <2>4. i <= i * W
    <3>1. i * W = i * (W - 1) + i
      BY <1>1, <2>2
    <3>2. i * (W - 1) >= 0
      BY <1>1, <2>2
    <3>3. i * (W - 1) \in Int
      BY <1>1, <2>2
    <3>. QED  BY <2>2, <2>3, <3>1, <3>2, <3>3
  <2>5. i * W < n /\ i \in 0..n
    BY <1>1, <2>1, <2>2, <2>3, <2>4
  <2>6. j \in from(i)..to(i)
    BY <1>1, <2>1, <2>2, <2>3, <2>5 DEF from, to
  <2>. QED  BY <2>5, <2>6
<1>7. ASSUME NEW i \in I, NEW j \in I, i < j
      PROVE  to(i) < from(j)
  <2>1. i \in Nat /\ j \in Nat
    BY <1>1
  <2>2. (i + 1) * W <= j * W /\ j * W \in Nat /\ (i + 1) * W \in Nat
    <3>1. i + 1 \in Nat
      BY <2>1
    <3>. QED  BY <1>7, <2>1, <3>1, Multiples, Product DEF W
  <2>3. to(i) <= (i + 1) * W
    BY <1>1, <2>2 DEF to
  <2>. QED  BY <1>3, <2>2, <2>3 DEF from
<1>8. ASSUME IsInjective(items), NEW i \in I, NEW j \in I, i # j
      PROVE  ToSet(chunk(i)) \cap ToSet(chunk(j)) = {}
  <2>1. \A k, l \in 1..n : items[k] = items[l] => k = l
    BY <1>1, <1>8 DEF IsInjective
  <2>2. i \in Int /\ j \in Int
    BY <1>1
  <2>3. \A k \in from(i)..to(i), l \in from(j)..to(j) : k # l /\ k \in 1..n /\ l \in 1..n
    <3>1. i < j \/ j < i
      BY <1>8, <2>2
    <3>2. to(i) < from(j) \/ to(j) < from(i)
      BY <1>7, <3>1
    <3>. QED  BY <1>1, <1>3, <3>2
  <2>4. \A k \in from(i)..to(i), l \in from(j)..to(j) : items[k] # items[l]
    BY <2>1, <2>3
  <2>. QED  BY <1>4, <2>4
<1>. HIDE DEF chunk, I
<1>9. ToSet(items) = UNION {ToSet(c) : c \in Chunks(items)}
  <2>1. \A j \in 1..n : \E i \in I : items[j] \in ToSet(chunk(i))
    BY <1>4, <1>6
  <2>. QED  BY <1>2, <1>4, <1>5, <2>1
<1>. QED  BY <1>2, <1>4, <1>8, <1>9

-----------------------------------------------------------------------------
(* The invariant: the initial states, and one lemma per action.              *)

\* What waits is in a task or in a queue.
LEMMA WaitingMembers ==
  \A e : e \in Waiting <=> \/ \E task \in pool : e \in ToSet(task.items)
                           \/ \E t \in Thread : e \in ToSet(discovered[t])
<1>. DEFINE given == UNION {ToSet(task.items) : task \in pool}
            kept == UNION {ToSet(discovered[t]) : t \in Thread}
<1>1. \A e : e \in given <=> \E task \in pool : e \in ToSet(task.items)
  BY Zenon
<1>2. \A e : e \in kept <=> \E t \in Thread : e \in ToSet(discovered[t])
  BY Zenon
<1>3. Waiting = given \cup kept
  BY DEF Waiting
<1>. HIDE DEF given, kept
<1>. QED  BY <1>1, <1>2, <1>3

\* The same after a step.
LEMMA WaitingMembersNext ==
  \A e : e \in Waiting' <=> \/ \E task \in pool' : e \in ToSet(task.items)
                            \/ \E t \in Thread : e \in ToSet(discovered'[t])
<1>. DEFINE given == UNION {ToSet(task.items) : task \in pool'}
            kept == UNION {ToSet(discovered'[t]) : t \in Thread}
<1>1. \A e : e \in given <=> \E task \in pool' : e \in ToSet(task.items)
  BY Zenon
<1>2. \A e : e \in kept <=> \E t \in Thread : e \in ToSet(discovered'[t])
  BY Zenon
<1>3. Waiting' = given \cup kept
  BY DEF Waiting
<1>. HIDE DEF given, kept
<1>. QED  BY <1>1, <1>2, <1>3

\* An empty queue has nothing.
LEMMA EmptyQueue == ToSet(<<>>) = {} /\ IsInjective(<<>>)
BY DEF ToSet, IsInjective

\* The parts of a task.
LEMMA TaskParts ==
  ASSUME NEW task \in Task
  PROVE  task.items \in Seq(Element) /\ task.depth \in Nat
BY DEF Task

\* It holds at first.
LEMMA InitPInv == ParallelInit => PInv
<1>. SUFFICES ASSUME ParallelInit PROVE PInv
  OBVIOUS
<1>. USE DEF ParallelInit
<1>1. TypeOK
  <2>1. Depth(start) \in Nat
    BY DepthIsNatural
  <2>2. Root \in Element /\ MainThread \in Thread
    BY TreeAssumption, ParallelAssumption
  <2>3. <<start>> \in Seq(Element) /\ <<>> \in Seq(Element)
    OBVIOUS
  <2>. QED  BY <2>1, <2>2, <2>3 DEF TypeOK
<1>2. AskedSound
  BY DEF AskedSound
<1>3. QueuesDisjoint
  <2>1. ToSet(<<start>>) = {start} /\ IsInjective(<<start>>)
    BY DEF ToSet, IsInjective
  <2>2. \A t \in Thread : ToSet(discovered[t]) = IF t = MainThread THEN {start} ELSE {}
    BY <2>1, EmptyQueue
  <2>3. Waiting = {start}
    BY <2>2, WaitingMembers, ParallelAssumption
  <2>4. \A t \in Thread : IsInjective(discovered[t])
    BY <2>1, EmptyQueue
  <2>. QED  BY <2>2, <2>3, <2>4 DEF QueuesDisjoint
<1>4. HandsSound /\ CountersSound
  BY DEF HandsSound, CountersSound
<1>5. LevelsSound
  <2>1. \A t \in Thread : at[t] # "idle" => t = MainThread
    OBVIOUS
  <2>2. /\ at[MainThread] = "next" /\ remaining[MainThread] = 1 /\ discovered[MainThread] = <<start>>
        /\ depth[MainThread] = Depth(start)
    BY ParallelAssumption
  <2>. QED  BY <2>1, <2>2 DEF LevelsSound, LeftOfLevel
<1>. QED  BY <1>1, <1>2, <1>3, <1>4, <1>5 DEF PInv

\* A queue that is taken over was in no other.
LEMMA TakeTaskPInv ==
  ASSUME PInv, NEW t \in Thread, TakeTask(t)
  PROVE  PInv'
<1>1. PICK task \in pool : /\ pool' = pool \ {task}
                           /\ discovered' = [discovered EXCEPT ![t] = task.items]
                           /\ remaining' = [remaining EXCEPT ![t] = Len(task.items)]
                           /\ depth' = [depth EXCEPT ![t] = task.depth]
  BY DEF TakeTask
<1>2. /\ at[t] = "idle" /\ at' = [at EXCEPT ![t] = "next"]
      /\ UNCHANGED <<node, toProcess, counter, start, asked, down, noted, up>>
  BY DEF TakeTask, history
<1>3. TypeOK
  BY DEF PInv
<1>4. task.items \in Seq(Element) /\ task.depth \in Nat /\ Len(task.items) \in Nat
  BY <1>3, TaskParts DEF TypeOK
<1>5. TypeOK'
  BY <1>1, <1>2, <1>3, <1>4 DEF TypeOK
<1>6. AskedSound'
  BY <1>2 DEF PInv, AskedSound
<1>7. QueuesDisjoint'
  <2>. USE DEF QueuesDisjoint
  <2>1. discovered[t] = <<>> /\ ToSet(discovered[t]) = {}
    BY <1>2, EmptyQueue DEF PInv
  <2>2. discovered'[t] = task.items /\ \A u \in Thread \ {t} : discovered'[u] = discovered[u]
    BY <1>1, <1>3 DEF TypeOK
  <2>3. \A e : e \in Waiting' <=> e \in Waiting
    BY <1>1, <2>1, <2>2, WaitingMembers, WaitingMembersNext
  <2>4. Waiting' = asked' \ down'
    BY <1>2, <2>3 DEF PInv
  <2>. QED  BY <1>1, <1>2, <1>3, <2>2, <2>4 DEF PInv, TypeOK
<1>8. HandsSound'
  BY <1>2, <1>3 DEF PInv, HandsSound, TypeOK
<1>9. CountersSound'
  <2>1. \A u \in Thread : at'[u] \in {"noted", "processed"} => at'[u] = at[u] /\ u # t
    BY <1>2, <1>3 DEF TypeOK
  <2>2. \A u \in Thread : at[u] \in {"noted", "processed"} => at'[u] = at[u] /\ u # t
    BY <1>2, <1>3 DEF TypeOK
  <2>3. \A e : Uncounted(e)' = Uncounted(e) /\ Held(e)' = Held(e)
    BY <1>2, <2>1, <2>2 DEF Uncounted, Held
  <2>4. \A u \in Thread \ {t} : discovered'[u] = discovered[u]
    BY <1>1, <1>3 DEF TypeOK
  <2>. QED  BY <1>2, <2>1, <2>3, <2>4 DEF PInv, CountersSound
<1>10. LevelsSound'
  <2>. USE DEF LevelsSound, LeftOfLevel
  <2>1. \A e \in ToSet(task.items) : Depth(e) = task.depth
    BY DEF PInv
  <2>2. \A i \in DOMAIN task.items : i \in 1..Len(task.items) /\ Depth(task.items[i]) = task.depth
    BY <1>4, <2>1 DEF ToSet
  <2>3. /\ at'[t] = "next" /\ discovered'[t] = task.items /\ remaining'[t] = Len(task.items)
        /\ depth'[t] = task.depth
    BY <1>1, <1>2, <1>3 DEF TypeOK
  <2>4. \A u \in Thread \ {t} : /\ at'[u] = at[u] /\ discovered'[u] = discovered[u]
                                /\ remaining'[u] = remaining[u] /\ depth'[u] = depth[u]
    BY <1>1, <1>2, <1>3 DEF TypeOK
  <2>5. task.items # <<>> => Len(task.items) # 0
    BY <1>4
  <2>. QED  BY <1>1, <1>4, <2>2, <2>3, <2>4, <2>5 DEF PInv
<1>. QED  BY <1>5, <1>6, <1>7, <1>8, <1>9, <1>10 DEF PInv

\* A thread whose queue is empty becomes idle.
LEMMA EndTaskPInv ==
  ASSUME PInv, NEW t \in Thread, EndTask(t)
  PROVE  PInv'
<1>1. /\ at[t] = "next" /\ discovered[t] = <<>> /\ at' = [at EXCEPT ![t] = "idle"]
      /\ UNCHANGED <<pool, discovered, remaining, depth, node, toProcess, counter, start,
                     asked, down, noted, up>>
  BY DEF EndTask, history
<1>2. TypeOK
  BY DEF PInv
<1>3. \A u \in Thread : at'[u] = IF u = t THEN "idle" ELSE at[u]
  BY <1>1, <1>2 DEF TypeOK
<1>4. TypeOK'
  BY <1>1, <1>2 DEF TypeOK
<1>5. AskedSound' /\ HandsSound'
  BY <1>1, <1>3 DEF PInv, AskedSound, HandsSound
<1>6. QueuesDisjoint'
  <2>1. \A e : e \in Waiting' <=> e \in Waiting
    BY <1>1, WaitingMembers, WaitingMembersNext
  <2>2. Waiting' = asked' \ down'
    BY <1>1, <2>1 DEF PInv, QueuesDisjoint
  <2>. QED  BY <1>1, <1>3, <2>2 DEF PInv, QueuesDisjoint
<1>7. CountersSound'
  <2>1. \A e : Uncounted(e)' = Uncounted(e) /\ Held(e)' = Held(e)
    BY <1>1, <1>3 DEF Uncounted, Held
  <2>. QED  BY <1>1, <1>3, <2>1 DEF PInv, CountersSound
<1>8. LevelsSound'
  BY <1>1, <1>3 DEF PInv, LevelsSound, LeftOfLevel
<1>. QED  BY <1>4, <1>5, <1>6, <1>7, <1>8 DEF PInv

\* As many children are noted as there are in the list.
LEMMA NotedCount ==
  ASSUME NEW S, NEW k \in Seq(S), IsInjective(k)
  PROVE  Cardinality(ToSet(k)) = Len(k) /\ IsFiniteSet(ToSet(k))
<1>1. Len(k) \in Nat /\ DOMAIN k = 1..Len(k) /\ ToSet(k) = {k[i] : i \in 1..Len(k)}
  BY ElementsOf
<1>2. IsFiniteSet(1..Len(k)) /\ Cardinality(1..Len(k)) = Len(k)
  <2>1. 1 \in Int /\ Len(k) \in Int /\ Len(k) >= 0
    BY <1>1
  <2>2. /\ IsFiniteSet(1..Len(k))
        /\ Cardinality(1..Len(k)) = IF 1 > Len(k) THEN 0 ELSE Len(k) - 1 + 1
    BY <2>1, FS_Interval
  <2>. QED  BY <2>1, <2>2
<1>3. k \in Bijection(1..Len(k), ToSet(k))
  <2>1. k \in [1..Len(k) -> ToSet(k)]
    BY <1>1
  <2>2. \A a, b \in 1..Len(k) : k[a] = k[b] => a = b
    BY <1>1 DEF IsInjective
  <2>3. \A x \in ToSet(k) : \E i \in 1..Len(k) : k[i] = x
    BY <1>1
  <2>. QED  BY <2>1, <2>2, <2>3 DEF Bijection, Injection, Surjection, IsInjective
<1>4. ExistsBijection(1..Len(k), ToSet(k))
  BY <1>3 DEF ExistsBijection
<1>. QED  BY <1>2, <1>4, FS_Bijection

\* Children of an element that was not visited yet have not been asked for.
LEMMA NotedAreNew ==
  ASSUME TypeOK, AskedSound, NEW e \in asked \ down
  PROVE  Kids(e) \cap asked = {}
<1>1. /\ asked \in SUBSET Element /\ down \in SUBSET asked /\ start \in asked
      /\ \A x \in asked \ {start} : \E p \in down : x \in Kids(p)
  BY DEF TypeOK, AskedSound
<1>2. start \notin Kids(e)
  BY <1>1, FirstIsNoChild
<1>3. ASSUME NEW x \in Kids(e), x \in asked
      PROVE  FALSE
  <2>1. PICK p \in down : x \in Kids(p)
    BY <1>1, <1>2, <1>3
  <2>2. p = e
    BY <1>1, <2>1, OneParent
  <2>. QED  BY <2>1, <2>2
<1>. QED  BY <1>3

\* The first element of a queue is visited and its children join the queue.
LEMMA PreorderPInv ==
  ASSUME PInv, NEW t \in Thread, discovered[t] # <<>>,
         NEW kids \in Seq(Kids(Head(discovered[t]))), IsInjective(kids), PreorderNoting(t, kids)
  PROVE  PInv'
<1>0. PICK e \in Element : e = Head(discovered[t])
  <2>1. discovered[t] \in Seq(Element)
    BY DEF PInv, TypeOK
  <2>. QED  BY <2>1, TailOf
<1>. DEFINE rest == Tail(discovered[t])
            K == ToSet(kids)
<1>1. /\ at[t] = "next" /\ at' = [at EXCEPT ![t] = "noted"]
      /\ node' = [node EXCEPT ![t] = e]
      /\ discovered' = [discovered EXCEPT ![t] = rest \o kids]
      /\ toProcess' = [toProcess EXCEPT ![t] = Len(kids)]
      /\ down' = down \cup {e} /\ asked' = asked \cup K
      /\ noted' = [noted EXCEPT ![e] = K]
      /\ UNCHANGED <<pool, remaining, depth, counter, start, up>>
  BY <1>0 DEF PreorderNoting
<1>2. TypeOK /\ AskedSound /\ QueuesDisjoint /\ HandsSound /\ CountersSound /\ LevelsSound
  BY DEF PInv
<1>3. discovered[t] \in Seq(Element) /\ IsInjective(discovered[t])
  BY <1>2 DEF TypeOK, QueuesDisjoint
<1>4. /\ e \in Element /\ e \in ToSet(discovered[t]) /\ rest \in Seq(Element)
      /\ ToSet(discovered[t]) = {e} \cup ToSet(rest)
      /\ IsInjective(rest) /\ e \notin ToSet(rest)
  BY <1>0, <1>3, TailOf
<1>5. \A u \in Thread : ToSet(discovered[u]) \subseteq asked \ down
  BY <1>2, WaitingMembers DEF QueuesDisjoint
<1>6. e \in asked \ down /\ e \notin up
  BY <1>2, <1>4, <1>5 DEF TypeOK
<1>7. K \subseteq Kids(e) /\ Kids(e) \in SUBSET Element /\ kids \in Seq(Element)
      /\ Len(kids) \in Nat /\ Cardinality(K) = Len(kids)
  <2>1. K \subseteq Kids(e) /\ Kids(e) \in SUBSET Element
    BY <1>0, <1>4, ElementsOf, KidsAreElements
  <2>2. kids \in Seq(Element)
    <3>1. kids \in Seq(Kids(e))
      BY <1>0
    <3>. QED  BY <2>1, <3>1
  <2>. QED  BY <2>1, <2>2, NotedCount
<1>8. K \cap asked = {}
  BY <1>0, <1>2, <1>6, <1>7, NotedAreNew
<1>. HIDE DEF rest, K
<1>9. /\ at'[t] = "noted" /\ node'[t] = e /\ discovered'[t] = rest \o kids /\ toProcess'[t] = Len(kids)
      /\ noted'[e] = K /\ \A x \in Element \ {e} : noted'[x] = noted[x]
      /\ \A u \in Thread \ {t} : /\ at'[u] = at[u] /\ node'[u] = node[u]
                                 /\ discovered'[u] = discovered[u] /\ toProcess'[u] = toProcess[u]
  BY <1>1, <1>2, <1>4 DEF TypeOK
<1>10. TypeOK'
  <2>1. rest \o kids \in Seq(Element)
    BY <1>4, <1>7, ConcatenationOf
  <2>2. K \subseteq Element
    BY <1>7
  <2>. QED  BY <1>1, <1>2, <1>4, <1>6, <1>7, <2>1, <2>2 DEF TypeOK
<1>11. AskedSound'
  <2>1. \A x \in asked \ {start} : \E p \in down : p # e /\ x \in noted[p]
    BY <1>2, <1>6 DEF AskedSound
  <2>2. down \subseteq Element
    BY <1>2 DEF TypeOK
  <2>3. \A x \in asked' \ {start} : \E p \in down' : x \in noted'[p]
    BY <1>1, <1>9, <2>1, <2>2
  <2>. QED  BY <1>1, <1>2, <1>4, <1>7, <1>9, <2>3 DEF AskedSound
<1>12. QueuesDisjoint'
  <2>1. ToSet(rest) \cap K = {}
    BY <1>4, <1>5, <1>8
  <2>2. ToSet(discovered'[t]) = ToSet(rest) \cup K /\ IsInjective(discovered'[t])
    <3>1. ToSet(kids) \cap ToSet(rest) = {}
      BY <2>1 DEF K
    <3>2. ToSet(rest \o kids) = ToSet(rest) \cup ToSet(kids) /\ IsInjective(rest \o kids)
      BY <1>4, <1>7, <3>1, ConcatenationOf
    <3>. QED  BY <1>9, <3>2 DEF K
  <2>3. \A task \in pool : ToSet(task.items) \subseteq asked \ down
    BY <1>2, WaitingMembers DEF QueuesDisjoint
  <2>4. \A x : x \in Waiting' <=> (x \in Waiting /\ x # e) \/ x \in K
    <3>1. ASSUME NEW x, x \in Waiting'
          PROVE  (x \in Waiting /\ x # e) \/ x \in K
      <4>1. CASE \E task \in pool : x \in ToSet(task.items)
        <5>1. x # e
          BY <1>2, <1>4, <4>1 DEF QueuesDisjoint
        <5>. QED  BY <4>1, <5>1, WaitingMembers
      <4>2. CASE x \in ToSet(discovered'[t])
        BY <1>4, <2>2, <4>2, WaitingMembers
      <4>3. CASE \E u \in Thread \ {t} : x \in ToSet(discovered[u])
        <5>1. x # e
          BY <1>2, <1>4, <4>3 DEF QueuesDisjoint
        <5>. QED  BY <4>3, <5>1, WaitingMembers
      <4>. QED  BY <1>1, <1>9, <3>1, <4>1, <4>2, <4>3, WaitingMembersNext
    <3>2. ASSUME NEW x, (x \in Waiting /\ x # e) \/ x \in K
          PROVE  x \in Waiting'
      <4>1. CASE x \in K
        BY <2>2, <4>1, WaitingMembersNext
      <4>2. CASE x \in Waiting /\ x # e
        <5>1. CASE \E task \in pool : x \in ToSet(task.items)
          BY <1>1, <5>1, WaitingMembersNext
        <5>2. CASE \E u \in Thread \ {t} : x \in ToSet(discovered[u])
          BY <1>9, <5>2, WaitingMembersNext
        <5>3. CASE x \in ToSet(discovered[t])
          BY <1>4, <2>2, <4>2, <5>3, WaitingMembersNext
        <5>. QED  BY <4>2, <5>1, <5>2, <5>3, WaitingMembers
      <4>. QED  BY <3>2, <4>1, <4>2
    <3>. QED  BY <3>1, <3>2
  <2>5. Waiting = asked \ down
    BY <1>2 DEF QueuesDisjoint
  <2>6. Waiting' = asked' \ down'
    BY <1>1, <1>2, <1>6, <1>8, <2>4, <2>5 DEF TypeOK
  <2>7. \A u \in Thread \ {t} : ToSet(discovered'[u]) \cap ToSet(discovered'[t]) = {}
    BY <1>2, <1>4, <1>5, <1>8, <1>9, <2>2 DEF QueuesDisjoint
  <2>8. \A task \in pool : ToSet(task.items) \cap ToSet(discovered'[t]) = {}
    BY <1>2, <1>4, <1>8, <2>2, <2>3 DEF QueuesDisjoint
  <2>9. \A u, v \in Thread \ {t} : u # v => ToSet(discovered'[u]) \cap ToSet(discovered'[v]) = {}
    BY <1>2, <1>9 DEF QueuesDisjoint
  <2>10. \A task \in pool : \A u \in Thread \ {t} : ToSet(task.items) \cap ToSet(discovered'[u]) = {}
    BY <1>2, <1>9 DEF QueuesDisjoint
  <2>11. \A u \in Thread : IsInjective(discovered'[u]) /\ (at'[u] = "idle" => discovered'[u] = <<>>)
    BY <1>2, <1>9, <2>2 DEF QueuesDisjoint
  <2>12. /\ \A u, v \in Thread : u # v => ToSet(discovered'[u]) \cap ToSet(discovered'[v]) = {}
         /\ \A task \in pool : \A u \in Thread : ToSet(task.items) \cap ToSet(discovered'[u]) = {}
    BY <2>7, <2>8, <2>9, <2>10
  <2>. QED  BY <1>1, <1>2, <2>6, <2>11, <2>12 DEF QueuesDisjoint
<1>13. HandsSound'
  <2>1. \A u \in Thread \ {t} : at[u] = "noted" => node[u] # e
    BY <1>2, <1>6 DEF HandsSound
  <2>. QED  BY <1>1, <1>2, <1>6, <1>9, <2>1 DEF HandsSound
<1>14. CountersSound'
  <2>. USE DEF CountersSound
  <2>1. \A u \in Thread : /\ at'[u] = "processed" <=> at[u] = "processed"
                          /\ at[u] = "processed" => node'[u] = node[u]
    BY <1>1, <1>9
  <2>2. \A x \in Element \ {e} : Uncounted(x)' = Uncounted(x)
    BY <1>1, <1>9, <2>1 DEF Uncounted
  <2>3. Uncounted(e)' \subseteq K
    BY <1>9 DEF Uncounted
  <2>4. \A u \in Thread \ {t} : at[u] = "noted" => node[u] \in Element \ {e} /\ node[u] \in down
    BY <1>2, <1>6 DEF HandsSound, TypeOK
  <2>5. toProcess'[t] = 0 => K = {}
    <3>1. Len(kids) = 0 => kids = <<>>
      BY <1>7
    <3>. QED  BY <1>9, <3>1, EmptyQueue DEF K
  <2>6. K \subseteq ToSet(discovered'[t])
    <3>1. ToSet(rest \o kids) = ToSet(rest) \cup ToSet(kids)
      BY <1>4, <1>7, ConcatenationOf
    <3>. QED  BY <1>9, <3>1 DEF K
  <2>7. \A x \in Element \ {e} : Held(x)' <=> Held(x)
    BY <1>1, <1>9 DEF Held
  <2>8. Held(e)'
    BY <1>9 DEF Held
  <2>9. up \subseteq Element \ {e} /\ down \subseteq Element
    BY <1>2, <1>6 DEF TypeOK
  <2>10. ASSUME NEW u \in Thread, at'[u] = "noted", toProcess'[u] = 0
         PROVE  Uncounted(node[u])' = {}
    <3>1. Uncounted(node[u])' =
            {c \in noted'[node'[u]] : c \notin up' \/ \E v \in Thread : at'[v] = "processed" /\ node'[v] = c}
      BY DEF Uncounted
    <3>2. CASE u = t
      BY <1>9, <2>5, <2>10, <3>1, <3>2
    <3>3. CASE u # t
      <4>1. /\ node[u] \in Element \ {e} /\ node'[u] = node[u] /\ noted'[node[u]] = noted[node[u]]
            /\ Uncounted(node[u]) = {}
        BY <1>2, <1>9, <2>4, <2>10, <3>3
      <4>. QED  BY <1>1, <1>9, <2>1, <3>1, <4>1 DEF Uncounted
    <3>. QED  BY <3>2, <3>3
  <2>12. ASSUME NEW u \in Thread, at'[u] = "noted", toProcess'[u] # 0
         PROVE  /\ toProcess'[u] = Cardinality(noted'[node'[u]])
                /\ noted'[node'[u]] \subseteq ToSet(discovered'[u])
    <3>1. CASE u = t
      BY <1>7, <1>9, <2>6, <3>1
    <3>2. CASE u # t
      <4>1. /\ node[u] \in Element \ {e} /\ node'[u] = node[u] /\ noted'[node[u]] = noted[node[u]]
            /\ toProcess'[u] = toProcess[u] /\ at[u] = "noted" /\ discovered'[u] = discovered[u]
        BY <1>9, <2>4, <2>12, <3>2
      <4>2. toProcess[u] = Cardinality(noted[node[u]]) /\ noted[node[u]] \subseteq ToSet(discovered[u])
        BY <1>2, <2>12, <4>1
      <4>. QED  BY <4>1, <4>2
    <3>. QED  BY <3>1, <3>2
  <2>13. \A x \in up : Uncounted(x)' = {}
    BY <1>2, <2>2, <2>9
  <2>14. \A x \in down' \ up : ~ Held(x)' => x \in Element \ {e} /\ x \in down
    BY <1>1, <2>8, <2>9
  <2>15. \A x \in down' \ up : ~ Held(x)' => counter[x] = Cardinality(Uncounted(x)')
    BY <1>2, <2>2, <2>7, <2>14
  <2>. QED  BY <1>1, <2>10, <2>12, <2>13, <2>15
<1>15. LevelsSound'
  <2>. USE DEF LevelsSound, LeftOfLevel
  <2>. DEFINE n == Len(rest)  r == remaining[t]
  <2>1. /\ Len(discovered[t]) = n + 1 /\ n \in Nat /\ Head(discovered[t]) = discovered[t][1]
        /\ \A i \in 1..n : rest[i] = discovered[t][i + 1]
        /\ DOMAIN discovered[t] = 1..(n + 1)
    <3>1. /\ Len(discovered[t]) \in Nat /\ DOMAIN discovered[t] = 1..Len(discovered[t])
          /\ Len(rest) = Len(discovered[t]) - 1 /\ Len(discovered[t]) > 0
          /\ \A i \in 1..(Len(discovered[t]) - 1) : rest[i] = discovered[t][i + 1]
          /\ Head(discovered[t]) = discovered[t][1]
      BY <1>3, TailOf, ElementsOf DEF rest
    <3>. QED  BY <3>1
  <2>2. r \in 1..(n + 1) /\ depth[t] \in Nat
    BY <1>1, <1>2, <2>1 DEF TypeOK
  <2>3. \A i \in 1..(n + 1) : Depth(discovered[t][i]) = IF i <= r THEN depth[t] ELSE depth[t] + 1
    BY <1>1, <1>2, <2>1
  <2>4. Depth(e) = depth[t]
    BY <1>0, <2>1, <2>2, <2>3
  <2>5. \A x \in K : Depth(x) = depth[t] + 1
    BY <1>4, <1>7, <2>4, DepthOfChild
  <2>. DEFINE m == Len(kids)  q == rest \o kids
  <2>6. /\ q \in Seq(Element) /\ Len(q) = n + m /\ m \in Nat /\ DOMAIN q = 1..(n + m)
        /\ \A i \in 1..n : q[i] = rest[i]
        /\ \A i \in (n + 1)..(n + m) : q[i] \in K
    <3>1. \A i \in 1..m : kids[i] \in K
      BY <1>7, ElementsOf DEF K
    <3>2. /\ q \in Seq(Element) /\ Len(q) = n + m
          /\ \A i \in 1..n : q[i] = rest[i]
          /\ \A i \in (n + 1)..(n + m) : q[i] = kids[i - n] /\ i - n \in 1..m
      BY <1>4, <1>7, ConcatenationOf
    <3>. QED  BY <1>7, <3>1, <3>2
  <2>. HIDE DEF n, r, m, q
  <2>7. \A i \in 1..(n + m) : Depth(q[i]) = IF i <= r - 1 THEN depth[t] ELSE depth[t] + 1
    <3>1. \A i \in 1..n : Depth(q[i]) = IF i <= r - 1 THEN depth[t] ELSE depth[t] + 1
      BY <2>1, <2>2, <2>3, <2>6
    <3>2. \A i \in (n + 1)..(n + m) : Depth(q[i]) = depth[t] + 1 /\ ~ (i <= r - 1)
      BY <2>1, <2>2, <2>5, <2>6
    <3>3. \A i \in 1..(n + m) : i \in 1..n \/ i \in (n + 1)..(n + m)
      BY <2>1, <2>6
    <3>. QED  BY <3>1, <3>2, <3>3
  <2>8. r - 1 \in 0..(n + m)
    BY <2>1, <2>2, <2>6
  <2>9. /\ at'[t] = "noted" /\ discovered'[t] = q /\ remaining'[t] = r /\ depth'[t] = depth[t]
    BY <1>1, <1>9 DEF q, r
  <2>10. /\ LeftOfLevel(t)' \in 0..Len(discovered'[t])
         /\ \A i \in DOMAIN discovered'[t] :
              Depth(discovered'[t][i]) = IF i <= LeftOfLevel(t)' THEN depth'[t] ELSE depth'[t] + 1
    BY <2>6, <2>7, <2>8, <2>9
  <2>11. \A u \in Thread \ {t} : LeftOfLevel(u)' = LeftOfLevel(u)
    BY <1>1, <1>9
  <2>. QED  BY <1>1, <1>2, <1>9, <2>10, <2>11
<1>. QED  BY <1>10, <1>11, <1>12, <1>13, <1>14, <1>15 DEF PInv

\* No element that was asked for has noted the one where the traversal began.
LEMMA StartIsNotNoted ==
  ASSUME TypeOK, AskedSound, NEW x \in Element
  PROVE  start \notin noted[x]
<1>1. /\ asked \in SUBSET Element /\ down \in SUBSET asked /\ start \in asked
      /\ \A y \in asked \ {start} : \E p \in down : y \in Kids(p)
  BY DEF TypeOK, AskedSound
<1>2. CASE x \in asked
  <2>1. start \notin Kids(x)
    BY <1>1, <1>2, FirstIsNoChild
  <2>. QED  BY <2>1 DEF AskedSound
<1>3. CASE x \notin asked
  BY <1>1, <1>3 DEF AskedSound
<1>. QED  BY <1>2, <1>3

\* What a step leaves alone that moves no element from one queue to another.
LEMMA QueuesUntouched ==
  ASSUME PInv, NEW t \in Thread, at[t] # "idle",
         at' \in [Thread -> {"idle", "next", "noted", "processed", "handled"}], at'[t] # "idle",
         \A u \in Thread \ {t} : at'[u] = at[u],
         UNCHANGED <<pool, discovered, asked, down>>
  PROVE  QueuesDisjoint'
<1>1. \A x : x \in Waiting' <=> x \in Waiting
  BY WaitingMembers, WaitingMembersNext
<1>2. Waiting' = asked' \ down'
  BY <1>1 DEF PInv, QueuesDisjoint
<1>. QED  BY <1>2 DEF PInv, QueuesDisjoint

\* The counter is set while the children are in the thread's own queue.
LEMMA StoreChildrenPInv ==
  ASSUME PInv, NEW t \in Thread, StoreChildrenToProcess(t)
  PROVE  PInv'
<1>0. PICK e \in Element : e = node[t]
  BY DEF PInv, TypeOK
<1>1. /\ at[t] = "noted" /\ toProcess[t] # 0
      /\ counter' = [counter EXCEPT ![e] = toProcess[t]]
      /\ at' = [at EXCEPT ![t] = "handled"]
      /\ UNCHANGED <<pool, discovered, remaining, depth, node, toProcess, start, asked, down, noted, up>>
  BY <1>0 DEF StoreChildrenToProcess, history
<1>2. TypeOK /\ AskedSound /\ QueuesDisjoint /\ HandsSound /\ CountersSound /\ LevelsSound
  BY DEF PInv
<1>3. \A u \in Thread : at'[u] = IF u = t THEN "handled" ELSE at[u]
  BY <1>1, <1>2 DEF TypeOK
<1>4. TypeOK'
  BY <1>1, <1>2 DEF TypeOK
<1>5. AskedSound' /\ HandsSound'
  BY <1>1, <1>2, <1>3 DEF AskedSound, HandsSound
<1>6. QueuesDisjoint'
  BY <1>1, <1>3, <1>4, QueuesUntouched DEF TypeOK
<1>7. CountersSound'
  <2>1. \A x : Uncounted(x)' = Uncounted(x)
    BY <1>1, <1>3 DEF Uncounted
  <2>2. e \in down \ up /\ \A u \in Thread \ {t} : at[u] = "noted" => node[u] # e
    BY <1>0, <1>1, <1>2 DEF HandsSound
  <2>3. \A x \in Element \ {e} : Held(x)' <=> Held(x)
    BY <1>0, <1>1, <1>3 DEF Held
  <2>4. Uncounted(e) = noted[e]
    <3>1. noted[e] \subseteq ToSet(discovered[t])
      BY <1>0, <1>1, <1>2 DEF CountersSound
    <3>2. ToSet(discovered[t]) \subseteq asked \ down
      BY <1>2, WaitingMembers DEF QueuesDisjoint
    <3>. QED  BY <1>2, <3>1, <3>2 DEF Uncounted, TypeOK
  <2>5. counter'[e] = Cardinality(Uncounted(e)')
    <3>1. counter'[e] = toProcess[t]
      BY <1>1, <1>2 DEF TypeOK
    <3>2. toProcess[t] = Cardinality(noted[e])
      BY <1>0, <1>1, <1>2 DEF CountersSound
    <3>. QED  BY <2>1, <2>4, <3>1, <3>2
  <2>6. \A x \in Element \ {e} : counter'[x] = counter[x]
    BY <1>1, <1>2 DEF TypeOK
  <2>7. down \subseteq Element
    BY <1>2 DEF TypeOK
  <2>8. \A x \in down \ up : ~ Held(x)' => counter'[x] = Cardinality(Uncounted(x)')
    BY <1>2, <2>1, <2>3, <2>5, <2>6, <2>7 DEF CountersSound
  <2>9. \A u \in Thread : at'[u] = "noted" => at[u] = "noted"
    BY <1>3
  <2>. QED  BY <1>1, <1>2, <2>1, <2>8, <2>9 DEF CountersSound
<1>8. LevelsSound'
  BY <1>1, <1>2, <1>3 DEF LevelsSound, LeftOfLevel
<1>. QED  BY <1>4, <1>5, <1>6, <1>7, <1>8 DEF PInv

\* An element with no child left is processed on the way up; its parent still waits for it.
LEMMA PostorderPInv ==
  ASSUME PInv, NEW t \in Thread, Postorder(t)
  PROVE  PInv'
<1>0. PICK e \in Element : e = node[t]
  BY DEF PInv, TypeOK
<1>1. /\ at[t] = "noted" /\ toProcess[t] = 0
      /\ up' = up \cup {e}
      /\ at' = [at EXCEPT ![t] = IF e = start THEN "handled" ELSE "processed"]
      /\ UNCHANGED <<pool, discovered, remaining, depth, node, toProcess, counter, start, asked, down, noted>>
  BY <1>0 DEF Postorder
<1>2. TypeOK /\ AskedSound /\ QueuesDisjoint /\ HandsSound /\ CountersSound /\ LevelsSound
  BY DEF PInv
<1>3. /\ \A u \in Thread \ {t} : at'[u] = at[u]
      /\ at'[t] = IF e = start THEN "handled" ELSE "processed"
  BY <1>1, <1>2 DEF TypeOK
<1>4. e \in down \ up /\ Uncounted(e) = {}
  BY <1>0, <1>1, <1>2 DEF HandsSound, CountersSound
<1>5. TypeOK'
  BY <1>1, <1>2, <1>4 DEF TypeOK
<1>6. AskedSound'
  BY <1>1, <1>2 DEF AskedSound
<1>7. QueuesDisjoint'
  BY <1>1, <1>3, <1>5, QueuesUntouched DEF TypeOK
<1>8. HandsSound'
  <2>1. \A u \in Thread \ {t} : at[u] = "noted" => node[u] # e
    BY <1>0, <1>1, <1>2 DEF HandsSound
  <2>2. \A u \in Thread \ {t} : at[u] = "processed" => node[u] # e
    BY <1>2, <1>4 DEF HandsSound
  <2>. QED  BY <1>0, <1>1, <1>2, <1>3, <2>1, <2>2 DEF HandsSound
<1>9. CountersSound'
  <2>1. \A x \in Element : start \notin noted[x]
    BY <1>2, StartIsNotNoted
  <2>2. \A x \in Element : Uncounted(x)' = Uncounted(x)
    <3>1. SUFFICES ASSUME NEW x \in Element, NEW c \in noted[x]
                   PROVE  (c \notin up' \/ \E u \in Thread : at'[u] = "processed" /\ node'[u] = c)
                          <=> (c \notin up \/ \E u \in Thread : at[u] = "processed" /\ node[u] = c)
      BY <1>1 DEF Uncounted
    <3>2. CASE c = e
      <4>1. at'[t] = "processed" /\ node'[t] = c
        BY <1>0, <1>1, <1>3, <2>1, <3>1, <3>2
      <4>. QED  BY <1>4, <3>2, <4>1
    <3>3. CASE c # e
      BY <1>0, <1>1, <1>3, <3>3
    <3>. QED  BY <3>2, <3>3
  <2>3. \A x \in Element \ {e} : Held(x)' <=> Held(x)
    BY <1>0, <1>1, <1>3 DEF Held
  <2>4. \A u \in Thread : at'[u] = "noted" => at[u] = "noted" /\ node[u] \in Element
    BY <1>2, <1>3 DEF TypeOK
  <2>5. up \subseteq Element /\ down \subseteq Element
    BY <1>2 DEF TypeOK
  <2>6. \A u \in Thread : at'[u] = "noted" /\ toProcess'[u] = 0 => Uncounted(node[u])' = {}
    <3>1. SUFFICES ASSUME NEW u \in Thread, at'[u] = "noted", toProcess'[u] = 0
                   PROVE  Uncounted(node[u])' = {}
      OBVIOUS
    <3>2. PICK x \in Element : x = node[u]
      BY <2>4, <3>1
    <3>3. Uncounted(x)' = {}
      BY <1>1, <1>2, <2>2, <2>4, <3>1, <3>2 DEF CountersSound
    <3>. QED  BY <1>1, <3>2, <3>3 DEF Uncounted
  <2>7. \A u \in Thread : at'[u] = "noted" /\ toProcess'[u] # 0 =>
          /\ toProcess'[u] = Cardinality(noted'[node'[u]])
          /\ noted'[node'[u]] \subseteq ToSet(discovered'[u])
    BY <1>1, <1>2, <2>4 DEF CountersSound
  <2>8. \A x \in up' : Uncounted(x)' = {}
    BY <1>1, <1>2, <1>4, <2>2, <2>5 DEF CountersSound
  <2>9. \A x \in down' \ up' : ~ Held(x)' => counter'[x] = Cardinality(Uncounted(x)')
    BY <1>1, <1>2, <2>2, <2>3, <2>5 DEF CountersSound
  <2>. QED  BY <2>6, <2>7, <2>8, <2>9 DEF CountersSound
<1>10. LevelsSound'
  BY <1>1, <1>2, <1>3 DEF LevelsSound, LeftOfLevel
<1>. QED  BY <1>5, <1>6, <1>7, <1>8, <1>9, <1>10 DEF PInv

\* A child is counted down once; the thread that counts the last one finds all of them processed.
LEMMA DidProcessChildPInv ==
  ASSUME PInv, NEW t \in Thread, DidProcessChild(t)
  PROVE  PInv'
<1>2. TypeOK /\ AskedSound /\ QueuesDisjoint /\ HandsSound /\ CountersSound /\ LevelsSound
  BY DEF PInv
<1>0. PICK c \in Element : c = node[t]
  BY <1>2 DEF TypeOK
<1>3. at[t] = "processed" /\ c \in up /\ c # start /\ toProcess[t] = 0
  BY <1>0, <1>2 DEF DidProcessChild, HandsSound
<1>4. PICK p \in down : c \in noted[p]
  BY <1>2, <1>3 DEF AskedSound, TypeOK
<1>5. p \in Element /\ c \in Kids(p) /\ TraversalParent(c) = p
      /\ \A q \in Element : c \in noted[q] => q = p
  <2>1. p \in Element
    BY <1>2 DEF TypeOK
  <2>2. \A q \in Element : noted[q] \subseteq Kids(q)
    BY <1>2 DEF AskedSound
  <2>. QED  BY <1>4, <2>1, <2>2, OneParent
<1>6. c \in Uncounted(p)
  BY <1>0, <1>3, <1>4 DEF Uncounted
<1>7. p \in down \ up
  BY <1>2, <1>4, <1>6 DEF CountersSound
<1>8. ~ Held(p)
  <2>1. ASSUME NEW u \in Thread, at[u] = "noted", node[u] = p
        PROVE  FALSE
    <3>1. CASE toProcess[u] = 0
      <4>1. Uncounted(node[u]) = {}
        BY <1>2, <2>1, <3>1 DEF CountersSound
      <4>2. Uncounted(node[u]) = Uncounted(p)
        BY <2>1
      <4>. QED  BY <1>6, <4>1, <4>2
    <3>2. CASE toProcess[u] # 0
      <4>1. c \in ToSet(discovered[u])
        BY <1>2, <1>4, <2>1, <3>2 DEF CountersSound
      <4>2. c \notin down
        BY <1>2, <4>1, WaitingMembers DEF QueuesDisjoint
      <4>. QED  BY <1>2, <1>3, <4>2 DEF TypeOK
    <3>. QED  BY <3>1, <3>2
  <2>. QED  BY <2>1 DEF Held
<1>9. counter[p] = Cardinality(Uncounted(p))
  BY <1>2, <1>7, <1>8 DEF CountersSound
<1>10. IsFiniteSet(Uncounted(p))
  <2>1. Uncounted(p) \subseteq Kids(p)
    BY <1>2, <1>5 DEF Uncounted, AskedSound
  <2>. QED  BY <1>5, <2>1, KidsAreElements, FS_Subset
<1>11. /\ Cardinality(Uncounted(p)) \in Nat \ {0}
       /\ Cardinality(Uncounted(p) \ {c}) = Cardinality(Uncounted(p)) - 1
       /\ Cardinality(Uncounted(p)) = 1 => Uncounted(p) = {c}
  <2>1. Cardinality(Uncounted(p)) \in Nat /\ Cardinality(Uncounted(p)) # 0
    BY <1>6, <1>10, FS_CardinalityType, FS_EmptySet
  <2>2. Cardinality(Uncounted(p)) = 1 => \E x : Uncounted(p) = {x}
    BY <1>10, FS_Singleton
  <2>. QED  BY <1>6, <1>10, <2>1, <2>2, FS_RemoveElement
<1>12. /\ counter' = [counter EXCEPT ![p] = @ - 1]
       /\ UNCHANGED <<pool, discovered, remaining, depth, toProcess, start, asked, down, noted, up>>
       /\ \/ counter[p] = 1 /\ node' = [node EXCEPT ![t] = p] /\ at' = [at EXCEPT ![t] = "noted"]
          \/ counter[p] # 1 /\ node' = node /\ at' = [at EXCEPT ![t] = "handled"]
  BY <1>0, <1>5 DEF DidProcessChild, IsLastChild, history
<1>13. \A u \in Thread \ {t} : at'[u] = at[u] /\ node'[u] = node[u]
  BY <1>2, <1>12 DEF TypeOK
<1>14. \/ counter[p] = 1 /\ at'[t] = "noted" /\ node'[t] = p
       \/ counter[p] # 1 /\ at'[t] = "handled"
  BY <1>2, <1>12 DEF TypeOK
<1>15. \A u \in Thread \ {t} : ~ (at[u] = "processed" /\ node[u] = c)
  BY <1>0, <1>2, <1>3 DEF HandsSound
<1>16. \A x \in Element : Uncounted(x)' = Uncounted(x) \ {c}
  <2>1. SUFFICES ASSUME NEW x \in Element, NEW d \in noted[x]
                 PROVE  (d \notin up' \/ \E u \in Thread : at'[u] = "processed" /\ node'[u] = d)
                        <=> (d # c /\ (d \notin up \/ \E u \in Thread : at[u] = "processed" /\ node[u] = d))
    BY <1>12 DEF Uncounted
  <2>2. CASE d = c
    BY <1>3, <1>12, <1>13, <1>14, <1>15, <2>2
  <2>3. CASE d # c
    BY <1>0, <1>3, <1>12, <1>13, <1>14, <2>3
  <2>. QED  BY <2>2, <2>3
<1>17. \A x \in Element \ {p} : Uncounted(x)' = Uncounted(x)
  BY <1>5, <1>16 DEF Uncounted
<1>18. TypeOK'
  <2>1. counter[p] - 1 \in Nat
    BY <1>9, <1>11
  <2>2. counter' \in [Element -> Nat]
    BY <1>2, <1>12, <2>1 DEF TypeOK
  <2>3. /\ node' \in [Thread -> Element]
        /\ at' \in [Thread -> {"idle", "next", "noted", "processed", "handled"}]
    BY <1>2, <1>5, <1>12 DEF TypeOK
  <2>. QED  BY <1>2, <1>12, <2>2, <2>3 DEF TypeOK
<1>19. AskedSound'
  BY <1>2, <1>12 DEF AskedSound
<1>20. QueuesDisjoint'
  <2>1. at[t] # "idle" /\ at'[t] # "idle"
    BY <1>3, <1>14
  <2>. QED  BY <1>12, <1>13, <1>18, <2>1, QueuesUntouched DEF TypeOK
<1>21. HandsSound'
  <2>1. \A u \in Thread \ {t} : at[u] = "noted" => node[u] # p
    BY <1>8 DEF Held
  <2>. QED  BY <1>2, <1>7, <1>12, <1>13, <1>14, <2>1 DEF HandsSound
<1>22. CountersSound'
  <2>1. /\ counter'[p] = Cardinality(Uncounted(p)')
        /\ \A x \in Element \ {p} : counter'[x] = counter[x]
    <3>1. counter'[p] = counter[p] - 1 /\ \A x \in Element \ {p} : counter'[x] = counter[x]
      BY <1>2, <1>5, <1>12 DEF TypeOK
    <3>2. Uncounted(p)' = Uncounted(p) \ {c}
      BY <1>5, <1>16
    <3>. QED  BY <1>9, <1>11, <3>1, <3>2
  <2>2. counter[p] = 1 => Uncounted(p)' = {}
    BY <1>5, <1>9, <1>11, <1>16
  <2>3. \A x \in Element \ {p} : Held(x)' <=> Held(x)
    BY <1>3, <1>13, <1>14 DEF Held
  <2>4. \A u \in Thread : node[u] \in Element
    BY <1>2 DEF TypeOK
  <2>5. up \subseteq Element /\ down \subseteq Element
    BY <1>2 DEF TypeOK
  <2>6. ASSUME NEW u \in Thread, at'[u] = "noted"
        PROVE  u = t \/ (u # t /\ at[u] = "noted" /\ node'[u] = node[u] /\ node[u] # p)
    BY <1>8, <1>13, <2>6 DEF Held
  <2>7. ASSUME NEW u \in Thread, at'[u] = "noted", toProcess'[u] = 0
        PROVE  Uncounted(node[u])' = {}
    <3>1. Uncounted(node[u])' =
            {d \in noted'[node'[u]] : d \notin up' \/ \E v \in Thread : at'[v] = "processed" /\ node'[v] = d}
      BY DEF Uncounted
    <3>2. CASE u = t
      <4>1. node'[u] = p /\ Uncounted(p)' = {}
        BY <1>14, <2>2, <2>7, <3>2
      <4>. QED  BY <3>1, <4>1 DEF Uncounted
    <3>3. CASE u # t
      <4>1. PICK x \in Element : x = node[u]
        BY <2>4
      <4>2. x # p /\ node'[u] = x /\ at[u] = "noted" /\ toProcess[u] = 0
        BY <1>12, <2>6, <2>7, <3>3, <4>1
      <4>3. Uncounted(x) = {}
        BY <1>2, <4>1, <4>2 DEF CountersSound
      <4>4. Uncounted(x)' = {}
        BY <1>17, <4>2, <4>3
      <4>. QED  BY <3>1, <4>2, <4>4 DEF Uncounted
    <3>. QED  BY <3>2, <3>3
  <2>8. ASSUME NEW u \in Thread, at'[u] = "noted", toProcess'[u] # 0
        PROVE  /\ toProcess'[u] = Cardinality(noted'[node'[u]])
               /\ noted'[node'[u]] \subseteq ToSet(discovered'[u])
    <3>1. u # t
      BY <1>3, <1>12, <2>8
    <3>2. at[u] = "noted" /\ node'[u] = node[u] /\ toProcess[u] # 0
      BY <1>12, <2>6, <2>8, <3>1
    <3>. QED  BY <1>2, <1>12, <3>2 DEF CountersSound
  <2>9. \A x \in up : Uncounted(x)' = {}
    BY <1>2, <1>16, <2>5 DEF CountersSound
  <2>10. \A x \in down \ up : ~ Held(x)' => counter'[x] = Cardinality(Uncounted(x)')
    BY <1>2, <1>17, <2>1, <2>3, <2>5 DEF CountersSound
  <2>. QED  BY <1>12, <2>7, <2>8, <2>9, <2>10 DEF CountersSound
<1>23. LevelsSound'
  <2>1. \A u \in Thread : LeftOfLevel(u)' = LeftOfLevel(u)
    BY <1>3, <1>12, <1>13, <1>14 DEF LeftOfLevel
  <2>2. at'[t] # "next" /\ at[t] # "idle"
    BY <1>3, <1>14
  <2>. QED  BY <1>2, <1>12, <1>13, <2>1, <2>2 DEF LevelsSound
<1>. QED  BY <1>18, <1>19, <1>20, <1>21, <1>22, <1>23 DEF PInv

\* What is kept of a queue and the tasks made of the rest have its elements, each once, and know their depth.
LEMMA FinishNodePInv ==
  ASSUME PInv, NEW t \in Thread, FinishNode(t)
  PROVE  PInv'
<1>1. TypeOK /\ AskedSound /\ QueuesDisjoint /\ HandsSound /\ CountersSound /\ LevelsSound
  BY DEF PInv
<1>2. PICK q \in Seq(Element) : q = discovered[t]
  BY <1>1 DEF TypeOK
<1>3. PICK left \in Int : left = remaining[t] - 1
  BY <1>1 DEF TypeOK
<1>4. PICK n \in Nat : n = Len(q)
  OBVIOUS
<1>5. PICK d \in Nat : d = depth[t]
  BY <1>1 DEF TypeOK
<1>6. at[t] = "handled" /\ left \in 0..n /\ IsInjective(q) /\ DOMAIN q = 1..n
      /\ \A i \in 1..n : Depth(q[i]) = IF i <= left THEN d ELSE d + 1
  <2>1. at[t] = "handled"
    BY DEF FinishNode
  <2>2. LeftOfLevel(t) = left
    BY <1>3, <2>1 DEF LeftOfLevel
  <2>3. left \in 0..n
    BY <1>1, <1>2, <1>4, <2>1, <2>2 DEF LevelsSound
  <2>4. DOMAIN q = 1..n
    BY <1>4
  <2>5. \A i \in 1..n : Depth(q[i]) = IF i <= left THEN d ELSE d + 1
    BY <1>1, <1>2, <1>5, <2>1, <2>2, <2>4 DEF LevelsSound
  <2>6. IsInjective(q)
    BY <1>1, <1>2 DEF QueuesDisjoint
  <2>. QED  BY <2>1, <2>3, <2>4, <2>5, <2>6
<1>. DEFINE keeps == IF HasWorkToShare(t, left) THEN KeptWork(t, left) ELSE n
<1>7. keeps \in 0..n /\ left <= keeps
  <2>1. LocalQueueSize[t] \in Nat /\ WorkUnitMax \in Nat /\ WorkUnitMax # 0
    BY ParallelAssumption
  <2>. QED  BY <1>2, <1>4, <1>6, <2>1 DEF HasWorkToShare, KeptWork
<1>8. PICK keep \in Nat : keep = keeps
  BY <1>7
<1>8a. /\ keep + 1 \in Nat \ {0} /\ n \in Nat /\ n <= Len(q) /\ keep + 1 <= n + 1
       /\ 1 \in Nat \ {0} /\ keep <= Len(q) /\ 1 <= keep + 1 /\ keep \in Nat
  BY <1>4, <1>7, <1>8
<1>9. PICK given \in Seq(Element) : given = SubSeq(q, keep + 1, n)
  <2>1. SubSeq(q, keep + 1, n) \in Seq(Element)
    BY <1>8a, PartOf
  <2>. QED  BY <2>1
<1>10. PICK kept \in Seq(Element) : kept = SubSeq(q, 1, keep)
  <2>1. SubSeq(q, 1, keep) \in Seq(Element)
    BY <1>8a, PartOf
  <2>. QED  BY <2>1
<1>11. /\ pool' = pool \cup Tasks(given, d + 1)
       /\ discovered' = [discovered EXCEPT ![t] = kept]
       /\ remaining' = [remaining EXCEPT ![t] = IF left = 0 THEN keep ELSE left]
       /\ depth' = [depth EXCEPT ![t] = IF left = 0 THEN d + 1 ELSE d]
       /\ at' = [at EXCEPT ![t] = "next"]
       /\ UNCHANGED <<node, toProcess, counter, start, asked, down, noted, up>>
  BY <1>2, <1>3, <1>4, <1>5, <1>8, <1>9, <1>10 DEF FinishNode, history
<1>. HIDE DEF keeps
<1>12. keep <= n /\ left <= keep /\ left \in Nat
  BY <1>6, <1>7, <1>8
<1>13. /\ Len(kept) = keep /\ DOMAIN kept = 1..keep /\ \A i \in 1..keep : kept[i] = q[i]
       /\ ToSet(kept) = {q[i] : i \in 1..keep} /\ IsInjective(kept)
  <2>1. /\ Len(SubSeq(q, 1, keep)) = keep
        /\ \A i \in 1..keep : SubSeq(q, 1, keep)[i] = q[i]
    BY <1>8a, FirstPart
  <2>2. /\ ToSet(SubSeq(q, 1, keep)) = {q[i] : i \in 1..keep}
        /\ IsInjective(SubSeq(q, 1, keep))
    BY <1>6, <1>8a, FirstPart
  <2>3. DOMAIN kept = 1..keep
    BY <1>10, <2>1
  <2>. QED  BY <1>10, <2>1, <2>2, <2>3
<1>14. ToSet(given) = {q[i] : i \in (keep + 1)..n} /\ IsInjective(given)
  <2>1. PICK a \in Nat \ {0} : a = keep + 1
    BY <1>8a
  <2>2. a <= n + 1 /\ given = SubSeq(q, a, n)
    BY <1>9, <1>8a, <2>1
  <2>3. ToSet(SubSeq(q, a, n)) = {q[i] : i \in a..n} /\ IsInjective(SubSeq(q, a, n))
    BY <1>6, <1>8a, <2>2, PartOf
  <2>. QED  BY <2>1, <2>2, <2>3
<1>15. ToSet(q) = ToSet(kept) \cup ToSet(given) /\ ToSet(kept) \cap ToSet(given) = {}
  <2>1. \A i \in 1..n : i \in 1..keep \/ i \in (keep + 1)..n
    BY <1>12
  <2>2. \A i \in 1..keep : i \in 1..n
    BY <1>12
  <2>3. \A i \in (keep + 1)..n : i \in 1..n
    BY <1>12
  <2>4. ToSet(q) = {q[i] : i \in 1..n}
    BY <1>6 DEF ToSet
  <2>5. \A i \in 1..keep, j \in (keep + 1)..n : q[i] # q[j]
    <3>1. \A i \in 1..keep, j \in (keep + 1)..n : i # j
      OBVIOUS
    <3>. QED  BY <1>6, <2>2, <2>3, <3>1 DEF IsInjective
  <2>6. {q[i] : i \in 1..n} = {q[i] : i \in 1..keep} \cup {q[i] : i \in (keep + 1)..n}
    BY ONLY <2>1, <2>2, <2>3
  <2>7. {q[i] : i \in 1..keep} \cap {q[i] : i \in (keep + 1)..n} = {}
    BY ONLY <2>5
  <2>8. ToSet(kept) = {q[i] : i \in 1..keep} /\ ToSet(given) = {q[i] : i \in (keep + 1)..n}
    BY <1>13, <1>14
  <2>. QED  BY ONLY <2>4, <2>6, <2>7, <2>8
<1>16. \A task \in Tasks(given, d + 1) : task \in Task /\ task.depth = d + 1 /\ task.items \in Chunks(given)
                                       /\ IsInjective(task.items) /\ ToSet(task.items) \subseteq ToSet(given)
  BY <1>14, ChunksPartition DEF Tasks, Task
<1>17. \A task, other \in Tasks(given, d + 1) : task # other => ToSet(task.items) \cap ToSet(other.items) = {}
  <2>1. \A task, other \in Tasks(given, d + 1) : task # other => task.items # other.items
    BY DEF Tasks
  <2>. QED  BY <1>14, <1>16, <2>1, ChunksPartition
<1>18. \A x : x \in ToSet(given) <=> \E task \in Tasks(given, d + 1) : x \in ToSet(task.items)
  <2>1. \A x \in ToSet(given) : \E c \in Chunks(given) : x \in ToSet(c)
    BY ChunksPartition
  <2>2. ASSUME NEW c \in Chunks(given)
        PROVE  \E task \in Tasks(given, d + 1) : task.items = c
    <3>1. [items |-> c, depth |-> d + 1] \in Tasks(given, d + 1)
      BY DEF Tasks
    <3>2. [items |-> c, depth |-> d + 1].items = c
      OBVIOUS
    <3>. QED  BY <3>1, <3>2
  <2>. QED  BY <1>16, <2>1, <2>2
<1>19. /\ at'[t] = "next" /\ discovered'[t] = kept
       /\ remaining'[t] = IF left = 0 THEN keep ELSE left
       /\ depth'[t] = IF left = 0 THEN d + 1 ELSE d
       /\ \A u \in Thread \ {t} : /\ at'[u] = at[u] /\ discovered'[u] = discovered[u]
                                  /\ remaining'[u] = remaining[u] /\ depth'[u] = depth[u]
  BY <1>1, <1>11 DEF TypeOK
<1>20. TypeOK'
  <2>1. pool' \subseteq Task
    BY <1>1, <1>11, <1>16 DEF TypeOK
  <2>. QED  BY <1>1, <1>5, <1>11, <1>12, <2>1 DEF TypeOK
<1>21. AskedSound'
  BY <1>1, <1>11 DEF AskedSound
<1>22. QueuesDisjoint'
  <2>1. \A u \in Thread \ {t} : ToSet(discovered[u]) \cap ToSet(q) = {}
    BY <1>1, <1>2 DEF QueuesDisjoint
  <2>2. \A task \in pool : ToSet(task.items) \cap ToSet(q) = {}
    BY <1>1, <1>2 DEF QueuesDisjoint
  <2>3. \A x : x \in Waiting' <=> x \in Waiting
    <3>1. \A x : x \in Waiting' <=> \/ \E task \in pool : x \in ToSet(task.items)
                                    \/ x \in ToSet(given) \/ x \in ToSet(kept)
                                    \/ \E u \in Thread \ {t} : x \in ToSet(discovered[u])
      BY <1>11, <1>18, <1>19, WaitingMembersNext
    <3>2. \A x : x \in Waiting <=> \/ \E task \in pool : x \in ToSet(task.items)
                                   \/ x \in ToSet(q)
                                   \/ \E u \in Thread \ {t} : x \in ToSet(discovered[u])
      BY <1>2, WaitingMembers
    <3>. QED  BY <1>15, <3>1, <3>2
  <2>4. Waiting' = asked' \ down'
    BY <1>1, <1>11, <2>3 DEF QueuesDisjoint
  <2>5. \A u \in Thread : IsInjective(discovered'[u]) /\ (at'[u] = "idle" => discovered'[u] = <<>>)
    BY <1>1, <1>13, <1>19 DEF QueuesDisjoint
  <2>6. \A task \in pool' : IsInjective(task.items)
    BY <1>1, <1>11, <1>16 DEF QueuesDisjoint
  <2>7. \A u, v \in Thread : u # v => ToSet(discovered'[u]) \cap ToSet(discovered'[v]) = {}
    <3>1. \A u \in Thread \ {t} : ToSet(discovered'[u]) \cap ToSet(discovered'[t]) = {}
      BY <1>15, <1>19, <2>1
    <3>2. \A u, v \in Thread \ {t} : u # v => ToSet(discovered'[u]) \cap ToSet(discovered'[v]) = {}
      BY <1>1, <1>19 DEF QueuesDisjoint
    <3>. QED  BY <3>1, <3>2
  <2>8. \A task \in pool' : \A u \in Thread : ToSet(task.items) \cap ToSet(discovered'[u]) = {}
    <3>1. ASSUME NEW task \in pool, NEW u \in Thread
          PROVE  ToSet(task.items) \cap ToSet(discovered'[u]) = {}
      BY <1>1, <1>15, <1>19, <2>2 DEF QueuesDisjoint
    <3>2. ASSUME NEW task \in Tasks(given, d + 1), NEW u \in Thread
          PROVE  ToSet(task.items) \cap ToSet(discovered'[u]) = {}
      BY <1>15, <1>16, <1>19, <2>1
    <3>. QED  BY <1>11, <3>1, <3>2
  <2>9. \A task, other \in pool' : task # other => ToSet(task.items) \cap ToSet(other.items) = {}
    <3>1. \A task \in pool, other \in Tasks(given, d + 1) : ToSet(task.items) \cap ToSet(other.items) = {}
      BY <1>15, <1>16, <2>2
    <3>2. \A task, other \in pool : task # other => ToSet(task.items) \cap ToSet(other.items) = {}
      BY <1>1 DEF QueuesDisjoint
    <3>. QED  BY <1>11, <1>17, <3>1, <3>2
  <2>. QED  BY <2>4, <2>5, <2>6, <2>7, <2>8, <2>9 DEF QueuesDisjoint
<1>23. \A u \in Thread : at'[u] \in {"noted", "processed"} <=> at[u] \in {"noted", "processed"}
  BY <1>6, <1>19
<1>24. \A u \in Thread : at'[u] \in {"noted", "processed"} => at'[u] = at[u] /\ u # t
  BY <1>6, <1>19
<1>25. HandsSound'
  BY <1>1, <1>11, <1>24 DEF HandsSound
<1>26. CountersSound'
  <2>1. \A x : Uncounted(x)' = Uncounted(x) /\ (Held(x)' <=> Held(x))
    <3>1. \A u \in Thread : /\ at'[u] = "noted" <=> at[u] = "noted"
                            /\ at'[u] = "processed" <=> at[u] = "processed"
      BY <1>6, <1>19
    <3>. QED  BY <1>11, <3>1 DEF Uncounted, Held
  <2>. QED  BY <1>1, <1>11, <1>19, <1>24, <2>1 DEF CountersSound
<1>27. LevelsSound'
  <2>. USE DEF LevelsSound, LeftOfLevel
  <2>1. \A task \in pool' : \A x \in ToSet(task.items) : Depth(x) = task.depth
    <3>1. \A i \in (keep + 1)..n : Depth(q[i]) = d + 1
      BY <1>6, <1>12
    <3>2. \A x \in ToSet(given) : Depth(x) = d + 1
      BY <1>14, <3>1
    <3>. QED  BY <1>1, <1>11, <1>16, <3>2
  <2>2. LeftOfLevel(t)' = IF left = 0 THEN keep ELSE left
    BY <1>19
  <2>3. LeftOfLevel(t)' \in 0..Len(discovered'[t])
    BY <1>12, <1>13, <1>19, <2>2
  <2>4. discovered'[t] # <<>> => remaining'[t] # 0
    <3>1. kept # <<>> => keep # 0
      BY <1>13
    <3>. QED  BY <1>19, <3>1
  <2>5. \A i \in DOMAIN discovered'[t] :
          Depth(discovered'[t][i]) = IF i <= LeftOfLevel(t)' THEN depth'[t] ELSE depth'[t] + 1
    <3>1. SUFFICES ASSUME NEW i \in 1..keep
                   PROVE  Depth(kept[i]) = IF i <= (IF left = 0 THEN keep ELSE left)
                                           THEN (IF left = 0 THEN d + 1 ELSE d)
                                           ELSE (IF left = 0 THEN d + 1 ELSE d) + 1
      BY <1>13, <1>19, <2>2
    <3>2. kept[i] = q[i] /\ i \in 1..n
      BY <1>12, <1>13
    <3>3. Depth(q[i]) = IF i <= left THEN d ELSE d + 1
      BY <1>6, <3>2
    <3>. QED  BY <1>12, <3>2, <3>3
  <2>6. \A u \in Thread \ {t} : LeftOfLevel(u)' = LeftOfLevel(u)
    BY <1>19
  <2>. QED  BY <1>1, <1>19, <2>1, <2>3, <2>4, <2>5, <2>6
<1>. QED  BY <1>20, <1>21, <1>22, <1>25, <1>26, <1>27 DEF PInv

-----------------------------------------------------------------------------
(* The theorems.                                                             *)

\* What is noted is a sequence of children.
LEMMA NotingIsASequence ==
  ASSUME NEW S, NEW n \in Nat, NEW k \in BoundedSeq(S, n)
  PROVE  k \in Seq(S)
BY DEF BoundedSeq, SeqOf

\* The preorder step, as a case of the next-state relation.
LEMMA PreorderCase ==
  ASSUME PInv, NEW t \in Thread, AnyPreorder(t)
  PROVE  \E kids \in Seq(Kids(Head(discovered[t]))) :
           discovered[t] # <<>> /\ IsInjective(kids) /\ PreorderNoting(t, kids)
<1>. DEFINE kidsOf == Kids(Head(discovered[t]))
<1>1. Cardinality(kidsOf) \in Nat
  <2>1. discovered[t] # <<>> /\ discovered[t] \in Seq(Element)
    BY DEF PInv, TypeOK, AnyPreorder
  <2>2. IsFiniteSet(kidsOf)
    BY <2>1, TailOf, KidsAreElements
  <2>. QED  BY <2>2, FS_CardinalityType
<1>2. PICK noting \in BoundedSeq(kidsOf, Cardinality(kidsOf)) :
        discovered[t] # <<>> /\ IsInjective(noting) /\ PreorderNoting(t, noting)
  BY DEF AnyPreorder
<1>. HIDE DEF kidsOf
<1>3. noting \in Seq(kidsOf)
  BY <1>1, NotingIsASequence
<1>. QED  BY <1>2, <1>3 DEF kidsOf

\* A step of something else.
LEMMA StutterPInv == PInv /\ UNCHANGED pvars => PInv'
<1>. SUFFICES ASSUME PInv, UNCHANGED pvars
              PROVE  PInv'
  OBVIOUS
<1>1. UNCHANGED <<pool, at, discovered, remaining, depth, node, toProcess, counter, start,
                  asked, down, noted, up>>
  BY DEF pvars, locals, history
<1>2. TypeOK' /\ AskedSound' /\ HandsSound'
  BY <1>1 DEF PInv, TypeOK, AskedSound, HandsSound
<1>3. QueuesDisjoint'
  BY <1>1 DEF PInv, QueuesDisjoint, Waiting
<1>4. CountersSound'
  BY <1>1 DEF PInv, CountersSound, Uncounted, Held
<1>5. LevelsSound'
  BY <1>1 DEF PInv, LevelsSound, LeftOfLevel
<1>. QED  BY <1>2, <1>3, <1>4, <1>5 DEF PInv

\* What a thread does but for visiting keeps PInv.
LEMMA TaskStepPInv ==
  ASSUME PInv, NEW t \in Thread, TaskStep(t)
  PROVE  PInv'
<1>1. CASE TakeTask(t)
  BY <1>1, TakeTaskPInv
<1>2. CASE EndTask(t)
  BY <1>2, EndTaskPInv
<1>3. CASE StoreChildrenToProcess(t)
  BY <1>3, StoreChildrenPInv
<1>4. CASE Postorder(t)
  BY <1>4, PostorderPInv
<1>5. CASE DidProcessChild(t)
  BY <1>5, DidProcessChildPInv
<1>6. CASE FinishNode(t)
  BY <1>6, FinishNodePInv
<1>. QED  BY <1>1, <1>2, <1>3, <1>4, <1>5, <1>6 DEF TaskStep

\* And so does visiting, whichever children are noted.
LEMMA AnyPreorderPInv ==
  ASSUME PInv, NEW t \in Thread, AnyPreorder(t)
  PROVE  PInv'
BY PreorderCase, PreorderPInv

\* Every reachable state of the traversal satisfies PInv (style_trees, handle_postorder_traversal).
THEOREM TraversalInductive == ParallelSpec => []PInv
<1>1. ParallelInit => PInv
  BY InitPInv
<1>2. PInv /\ [ParallelNext]_pvars => PInv'
  <2>. QED  BY TaskStepPInv, AnyPreorderPInv, StutterPInv DEF ParallelNext
<1>. QED  BY <1>1, <1>2, PTL DEF ParallelSpec

\* An element that waits has nothing that waits below it.
LEMMA WaitingIsFlat ==
  ASSUME PInv, NEW e \in Waiting
  PROVE  Ancestors(e) \cap Waiting = {}
<1>1. Waiting = asked \ down
  BY DEF PInv, QueuesDisjoint
<1>2. /\ asked \in SUBSET Element /\ down \in SUBSET asked /\ start \in asked
      /\ \A x \in asked \ {start} : \E p \in down : x \in Kids(p)
  BY DEF PInv, TypeOK, AskedSound
<1>3. ASSUME NEW a \in Ancestors(e), a \in Waiting
      PROVE  FALSE
  <2>1. e \in Descendants(a) /\ e \in asked
    BY <1>1, <1>2 DEF Ancestors, AncestorSets
  <2>2. Descendants(a) \cap asked = {}
    BY <1>1, <1>2, <1>3, NothingAskedBelow
  <2>. QED  BY <2>1, <2>2
<1>. QED  BY <1>3

\* QueuesSound: nobody visits an element twice, or while another thread is above or below it, and each
\* thread knows how deep it is.
THEOREM QueuesStaySound == ParallelSpec => []QueuesSound
<1>1. PInv => QueuesSound
  <2>. SUFFICES ASSUME PInv PROVE QueuesSound
    OBVIOUS
  <2>1. TypeOK /\ QueuesDisjoint /\ LevelsSound
    BY DEF PInv
  <2>2. WaitingAreUnrelated
    <3>1. \A e \in Waiting : Ancestors(e) \cap Waiting = {}
      BY WaitingIsFlat
    <3>. QED  BY <2>1, <3>1 DEF QueuesDisjoint, WaitingAreUnrelated, IsInjective
  <2>3. DepthsAreKnown
    BY <2>1 DEF LevelsSound, LeftOfLevel, DepthsAreKnown
  <2>. QED  BY <2>1, <2>2, <2>3 DEF QueuesSound
<1>. QED  BY <1>1, TraversalInductive, PTL

\* The traversal implements TraversalOrder: down once and after the parent, up once and after all the
\* children, whichever threads they are on.
THEOREM TraversalRefines == ParallelSpec => ImplementsOrder
<1>1. ParallelInit => Order!OrderInit
  BY DEF ParallelInit, Order!OrderInit
<1>2. PInv /\ [ParallelNext]_pvars => [Order!OrderNext]_(Order!ovars)
  <2>. SUFFICES ASSUME PInv, [ParallelNext]_pvars
                PROVE  [Order!OrderNext]_(Order!ovars)
    OBVIOUS
  <2>0. TypeOK /\ AskedSound /\ QueuesDisjoint /\ HandsSound /\ CountersSound
    BY DEF PInv
  <2>1. ASSUME NEW t \in Thread, AnyPreorder(t)
        PROVE  Order!OrderNext
    <3>1. PICK kids \in Seq(Kids(Head(discovered[t]))) :
            discovered[t] # <<>> /\ IsInjective(kids) /\ PreorderNoting(t, kids)
      BY <2>1, PreorderCase
    <3>2. discovered[t] \in Seq(Element)
      BY <2>0 DEF TypeOK
    <3>3. PICK e \in Element : e = Head(discovered[t]) /\ e \in ToSet(discovered[t])
      BY <3>1, <3>2, TailOf
    <3>4. e \in asked \ down
      BY <2>0, <3>3, WaitingMembers DEF QueuesDisjoint
    <3>5. ToSet(kids) \subseteq Kids(e) /\ Kids(e) \subseteq Element
      BY <3>3, ElementsOf, KidsAreElements
    <3>6. ToSet(kids) \cap asked = {}
      BY <2>0, <3>4, <3>5, NotedAreNew
    <3>7. /\ down' = down \cup {e} /\ asked' = asked \cup ToSet(kids)
          /\ noted' = [noted EXCEPT ![e] = ToSet(kids)] /\ up' = up
      BY <3>1, <3>3 DEF PreorderNoting
    <3>8. asked' \ asked = ToSet(kids)
      BY <3>6, <3>7
    <3>9. asked \subseteq asked' /\ asked' \subseteq Element
      BY <2>0, <3>5, <3>7 DEF TypeOK
    <3>10. Order!GoDown(e)
      BY <3>4, <3>7, <3>8, <3>9 DEF Order!GoDown
    <3>. QED  BY <3>10 DEF Order!OrderNext
  <2>2. ASSUME NEW t \in Thread, Postorder(t)
        PROVE  Order!OrderNext
    <3>1. PICK e \in Element : e = node[t]
      BY <2>0 DEF TypeOK
    <3>2. at[t] = "noted" /\ toProcess[t] = 0 /\ up' = up \cup {e} /\ UNCHANGED <<asked, down, noted>>
      BY <2>2, <3>1 DEF Postorder
    <3>3. e \in down \ up /\ Uncounted(e) = {}
      BY <2>0, <3>1, <3>2 DEF HandsSound, CountersSound
    <3>4. noted[e] \subseteq up
      BY <3>3 DEF Uncounted
    <3>5. Order!ComeUp(e)
      BY <3>2, <3>3, <3>4 DEF Order!ComeUp
    <3>. QED  BY <3>5 DEF Order!OrderNext
  <2>3. ASSUME NEW t \in Thread,
               TakeTask(t) \/ EndTask(t) \/ StoreChildrenToProcess(t) \/ DidProcessChild(t) \/ FinishNode(t)
        PROVE  UNCHANGED Order!ovars
    BY <2>3 DEF TakeTask, EndTask, StoreChildrenToProcess, DidProcessChild, FinishNode, history, Order!ovars
  <2>4. CASE UNCHANGED pvars
    BY <2>4 DEF pvars, history, Order!ovars
  <2>. QED  BY <2>1, <2>2, <2>3, <2>4 DEF ParallelNext, TaskStep
<1>. QED  BY <1>1, <1>2, TraversalInductive, PTL DEF ParallelSpec, ImplementsOrder, Order!OrderSpec
=============================================================================
