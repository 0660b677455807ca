--------------------------- MODULE RuleTreeProofs ---------------------------
(***************************************************************************)
(* The proofs about the rule tree, for any number of threads, addresses    *)
(* and keys.  First, what an exact count tells (Counted, LastHandle,       *)
(* LastHolder, LastIsAlone) and what a step does to counts, links and heap *)
(* (RefcountStep, LinksFrame, HeapFrame, SpinnersFrame).  Then one lemma   *)
(* per action, or per outcome of an action: <1>1 is what it assigns, <1>2  *)
(* what the thread knows where it is, and <1>3 to <1>13 are the conjuncts  *)
(* of IInv in the next state, and the theorems that follow from it.  The   *)
(* second part is about the free lists as wholes: a list has no cycle and  *)
(* no loose end, so that a walk along it finds every listed node           *)
(* (FreeListSound), nothing is left when the tree and the handles are gone *)
(* (NoLeak), and, when gc() is called as its contract says, the counter is *)
(* no less than the list and no one waits in vain.                         *)
(***************************************************************************)
EXTENDS RuleTreeInductive, TLAPS, FiniteSetTheorems, SetInduction

\* What the other proofs need to know of the constants.
LEMMA Addresses ==
  /\ Root \in Node /\ Root \notin NonRoot /\ NonRoot \subseteq Node
  /\ \A n \in Node : n \in NonRoot <=> n # Root
  /\ NULL \notin Node /\ DANGLING \notin Node /\ NULL # DANGLING /\ NULL \notin Key
  /\ Node \subseteq Pointer /\ NULL \in Pointer /\ DANGLING \in Pointer
  /\ \A v \in Pointer : v \in Node \/ v = NULL \/ v = DANGLING
  BY RuleTreeAssumption DEF Node, Pointer

\* The owners that a count counts are finitely many.
LEMMA FiniteOwners ==
  ASSUME TypeOK, NEW n \in Node
  PROVE  /\ IsFiniteSet(Children(n)) /\ Cardinality(Children(n)) \in Nat
         /\ IsFiniteSet(Holders(n)) /\ Cardinality(Holders(n)) \in Nat
<1>1. IsFiniteSet(Node)
  BY RuleTreeAssumption, FS_AddElement DEF Node
<1>2. IsFiniteSet(Children(n))
  BY <1>1, FS_Subset DEF Children, TypeOK
<1>3. IsFiniteSet(Holders(n))
  BY RuleTreeAssumption, FS_Subset DEF Holders
<1>4. QED
  BY <1>2, <1>3, FS_CardinalityType

\* A count that is there is counted, and a count of one is the only one.
LEMMA Counted ==
  ASSUME TypeOK, RefcountExact, NEW n \in Node
  PROVE  /\ refcount[n] \in Nat
         /\ strong[n] > 0 => refcount[n] > 0
         /\ \A c \in alloc : parent[c] = n => refcount[n] > 0
         /\ \A t \in Thread : pc[t] \in HoldingState /\ node[t] = n => refcount[n] > 0
         /\ Listed(n) => refcount[n] > 0
         /\ n = Root /\ tree # "dropped" => refcount[n] > 0
<1> DEFINE C == Cardinality(Children(n)) H == Cardinality(Holders(n))
<1>1. refcount[n] = strong[n] + C + H + Bit(Listed(n)) + Bit(n = Root /\ tree # "dropped")
  BY DEF RefcountExact
<1>2. C \in Nat /\ H \in Nat /\ strong[n] \in Nat /\ refcount[n] \in Nat
  BY FiniteOwners DEF TypeOK
<1>3. (C = 0 => Children(n) = {}) /\ (H = 0 => Holders(n) = {})
  BY FiniteOwners, FS_EmptySet
<1>4. /\ Bit(Listed(n)) \in Nat /\ Bit(n = Root /\ tree # "dropped") \in Nat
      /\ Listed(n) => Bit(Listed(n)) = 1
      /\ n = Root /\ tree # "dropped" => Bit(n = Root /\ tree # "dropped") = 1
  BY DEF Bit
<1>5. \A c \in alloc : parent[c] = n => C > 0
  BY <1>2, <1>3 DEF Children
<1>6. \A t \in Thread : pc[t] \in HoldingState /\ node[t] = n => H > 0
  BY <1>2, <1>3 DEF Holders
<1> HIDE DEF C, H
<1>7. QED
  BY <1>1, <1>2, <1>4, <1>5, <1>6

\* A handle whose node has a count of one is the node's only owner.
LEMMA LastHandle ==
  ASSUME TypeOK, RefcountExact, NEW n \in Node, refcount[n] = 1, strong[n] > 0
  PROVE  /\ strong[n] = 1
         /\ \A c \in alloc : parent[c] # n
         /\ \A t \in Thread : ~ (pc[t] \in HoldingState /\ node[t] = n)
         /\ ~ Listed(n)
         /\ ~ (n = Root /\ tree # "dropped")
<1> DEFINE C == Cardinality(Children(n)) H == Cardinality(Holders(n))
<1>1. refcount[n] = strong[n] + C + H + Bit(Listed(n)) + Bit(n = Root /\ tree # "dropped")
  BY DEF RefcountExact
<1>2. C \in Nat /\ H \in Nat /\ strong[n] \in Nat /\ refcount[n] \in Nat
  BY FiniteOwners DEF TypeOK
<1>3. (C = 0 => Children(n) = {}) /\ (H = 0 => Holders(n) = {})
  BY FiniteOwners, FS_EmptySet
<1>4. /\ Bit(Listed(n)) \in Nat /\ Bit(n = Root /\ tree # "dropped") \in Nat
      /\ Listed(n) => Bit(Listed(n)) = 1
      /\ n = Root /\ tree # "dropped" => Bit(n = Root /\ tree # "dropped") = 1
  BY DEF Bit
<1> HIDE DEF C, H
<1>5. strong[n] = 1 /\ C = 0 /\ H = 0 /\ ~ Listed(n) /\ ~ (n = Root /\ tree # "dropped")
  BY <1>1, <1>2, <1>4
<1>6. QED
  BY <1>3, <1>5 DEF Children, Holders

\* So is a reference in flight.
LEMMA LastHolder ==
  ASSUME TypeOK, RefcountExact, NEW t \in Thread, pc[t] \in HoldingState, node[t] \in Node,
         refcount[node[t]] = 1
  PROVE  /\ strong[node[t]] = 0
         /\ \A c \in alloc : parent[c] # node[t]
         /\ \A u \in Thread : pc[u] \in HoldingState /\ node[u] = node[t] => u = t
         /\ ~ Listed(node[t])
         /\ ~ (node[t] = Root /\ tree # "dropped")
<1> DEFINE n == node[t] C == Cardinality(Children(n)) H == Cardinality(Holders(n))
<1>1. refcount[n] = strong[n] + C + H + Bit(Listed(n)) + Bit(n = Root /\ tree # "dropped")
  BY DEF RefcountExact
<1>2. C \in Nat /\ H \in Nat /\ strong[n] \in Nat /\ refcount[n] \in Nat
  BY FiniteOwners DEF TypeOK
<1>3. (C = 0 => Children(n) = {})
  BY FiniteOwners, FS_EmptySet
<1>4. /\ Bit(Listed(n)) \in Nat /\ Bit(n = Root /\ tree # "dropped") \in Nat
      /\ Listed(n) => Bit(Listed(n)) = 1
      /\ n = Root /\ tree # "dropped" => Bit(n = Root /\ tree # "dropped") = 1
  BY DEF Bit
<1>5. t \in Holders(n) /\ IsFiniteSet(Holders(n))
  BY FiniteOwners DEF Holders
<1>6. /\ IsFiniteSet(Holders(n) \ {t}) /\ Cardinality(Holders(n) \ {t}) \in Nat
      /\ Cardinality(Holders(n) \ {t}) = H - 1
      /\ Cardinality(Holders(n) \ {t}) = 0 => Holders(n) \ {t} = {}
  BY <1>5, FS_RemoveElement, FS_EmptySet, FS_CardinalityType
<1> HIDE DEF C, H
<1>7. strong[n] = 0 /\ C = 0 /\ H = 1 /\ ~ Listed(n) /\ ~ (n = Root /\ tree # "dropped")
  BY <1>1, <1>2, <1>4, <1>6
<1>8. Holders(n) \ {t} = {}
  BY <1>6, <1>7
<1>9. QED
  BY <1>3, <1>7, <1>8 DEF Children, Holders

\* So is the reference of the tree to its root.
LEMMA TreeReferenceLast ==
  ASSUME TypeOK, RefcountExact, refcount[Root] = 1, tree # "dropped"
  PROVE  /\ strong[Root] = 0
         /\ \A c \in alloc : parent[c] # Root
         /\ \A t \in Thread : ~ (pc[t] \in HoldingState /\ node[t] = Root)
<1> USE Addresses
<1> DEFINE C == Cardinality(Children(Root)) H == Cardinality(Holders(Root))
<1>1. refcount[Root] = strong[Root] + C + H + Bit(Listed(Root)) + 1
  BY DEF RefcountExact, Bit
<1>2. C \in Nat /\ H \in Nat /\ strong[Root] \in Nat /\ Bit(Listed(Root)) \in Nat
  BY FiniteOwners DEF TypeOK, Bit
<1>3. (C = 0 => Children(Root) = {}) /\ (H = 0 => Holders(Root) = {})
  BY FiniteOwners, FS_EmptySet
<1> HIDE DEF C, H
<1>4. strong[Root] = 0 /\ C = 0 /\ H = 0
  BY <1>1, <1>2
<1>5. QED
  BY <1>3, <1>4 DEF Children, Holders

\* What a step of t does to the counts: only t's own reference, and the child c,
\* come or go.
LEMMA HoldersStep ==
  ASSUME TypeOK, NEW t \in Thread, NEW n \in Node,
         \A u \in Thread \ {t} : pc'[u] = pc[u] /\ node'[u] = node[u]
  PROVE  Cardinality(Holders(n))' = Cardinality(Holders(n))
           + Bit(pc'[t] \in HoldingState /\ node'[t] = n)
           - Bit(pc[t] \in HoldingState /\ node[t] = n)
<1> DEFINE held == pc[t] \in HoldingState /\ node[t] = n
           heldNext == pc'[t] \in HoldingState /\ node'[t] = n
<1>1. IsFiniteSet(Holders(n)) /\ Cardinality(Holders(n)) \in Nat
  BY FiniteOwners
<1>2. CASE held <=> heldNext
  <2>1. Holders(n)' = Holders(n)
    BY <1>2 DEF Holders
  <2>2. QED
    BY <1>1, <1>2, <2>1 DEF Bit
<1>3. CASE ~ held /\ heldNext
  <2>1. Holders(n)' = Holders(n) \cup {t} /\ t \notin Holders(n)
    BY <1>3 DEF Holders
  <2>2. Cardinality(Holders(n))' = Cardinality(Holders(n)) + 1
    BY <1>1, <2>1, FS_AddElement
  <2>3. Bit(held) = 0 /\ Bit(heldNext) = 1
    BY <1>3 DEF Bit
  <2>4. QED
    BY <1>1, <2>2, <2>3
<1>4. CASE held /\ ~ heldNext
  <2>1. Holders(n)' = Holders(n) \ {t} /\ t \in Holders(n)
    BY <1>4 DEF Holders
  <2>2. Cardinality(Holders(n))' = Cardinality(Holders(n)) - 1
    BY <1>1, <2>1, FS_RemoveElement
  <2>3. Bit(held) = 1 /\ Bit(heldNext) = 0
    BY <1>4 DEF Bit
  <2>4. QED
    BY <1>1, <2>2, <2>3
<1>5. QED
  BY <1>2, <1>3, <1>4

\* The children of n, when only c comes, goes or moves.
LEMMA ChildrenStep ==
  ASSUME TypeOK, NEW c \in Node, NEW n \in Node,
         \A d \in Node \ {c} : (d \in alloc' /\ parent'[d] = n) <=> (d \in alloc /\ parent[d] = n),
         alloc' \subseteq Node
  PROVE  Cardinality(Children(n))' = Cardinality(Children(n))
           + Bit(c \in alloc' /\ parent'[c] = n) - Bit(c \in alloc /\ parent[c] = n)
<1> DEFINE was == c \in alloc /\ parent[c] = n
           is == c \in alloc' /\ parent'[c] = n
<1>1. IsFiniteSet(Children(n)) /\ Cardinality(Children(n)) \in Nat
  BY FiniteOwners
<1>2. CASE was <=> is
  <2>1. Children(n)' = Children(n)
    BY <1>2 DEF Children, TypeOK
  <2>2. QED
    BY <1>1, <1>2, <2>1 DEF Bit
<1>3. CASE ~ was /\ is
  <2>1. Children(n)' = Children(n) \cup {c} /\ c \notin Children(n)
    BY <1>3 DEF Children, TypeOK
  <2>2. Cardinality(Children(n))' = Cardinality(Children(n)) + 1
    BY <1>1, <2>1, FS_AddElement
  <2>3. Bit(was) = 0 /\ Bit(is) = 1
    BY <1>3 DEF Bit
  <2>4. QED
    BY <1>1, <2>2, <2>3
<1>4. CASE was /\ ~ is
  <2>1. Children(n)' = Children(n) \ {c} /\ c \in Children(n)
    BY <1>4 DEF Children, TypeOK
  <2>2. Cardinality(Children(n))' = Cardinality(Children(n)) - 1
    BY <1>1, <2>1, FS_RemoveElement
  <2>3. Bit(was) = 1 /\ Bit(is) = 0
    BY <1>4 DEF Bit
  <2>4. QED
    BY <1>1, <2>2, <2>3
<1>5. QED
  BY <1>2, <1>3, <1>4

\* RefcountExact is kept when every count moves with its owners.
LEMMA RefcountStep ==
  ASSUME TypeOK, TypeOK', RefcountExact, NEW t \in Thread, NEW c \in Node,
         \A u \in Thread \ {t} : pc'[u] = pc[u] /\ node'[u] = node[u],
         \A d \in Node \ {c} : d \in alloc' <=> d \in alloc,
         \A d \in Node \ {c} : parent'[d] = parent[d],
         \A n \in Node :
           refcount'[n] - refcount[n]
             = (strong'[n] - strong[n])
               + (Bit(pc'[t] \in HoldingState /\ node'[t] = n)
                    - Bit(pc[t] \in HoldingState /\ node[t] = n))
               + (Bit(c \in alloc' /\ parent'[c] = n) - Bit(c \in alloc /\ parent[c] = n))
               + (Bit(Listed(n)') - Bit(Listed(n)))
               + (Bit(n = Root /\ tree' # "dropped") - Bit(n = Root /\ tree # "dropped"))
  PROVE  RefcountExact'
<1> SUFFICES ASSUME NEW n \in Node
             PROVE  refcount'[n] = strong'[n] + Cardinality(Children(n))' + Cardinality(Holders(n))'
                      + Bit(Listed(n)') + Bit(n = Root /\ tree' # "dropped")
  BY DEF RefcountExact
<1> DEFINE C == Cardinality(Children(n)) CN == Cardinality(Children(n))'
           H == Cardinality(Holders(n)) HN == Cardinality(Holders(n))'
           h1 == Bit(pc'[t] \in HoldingState /\ node'[t] = n)
           h0 == Bit(pc[t] \in HoldingState /\ node[t] = n)
           c1 == Bit(c \in alloc' /\ parent'[c] = n)
           c0 == Bit(c \in alloc /\ parent[c] = n)
           l1 == Bit(Listed(n)')
           l0 == Bit(Listed(n))
           r1 == Bit(n = Root /\ tree' # "dropped")
           r0 == Bit(n = Root /\ tree # "dropped")
<1>1. HN = H + h1 - h0
  BY HoldersStep
<1>2. CN = C + c1 - c0
  <2>1. \A d \in Node \ {c} : (d \in alloc' /\ parent'[d] = n) <=> (d \in alloc /\ parent[d] = n)
    OBVIOUS
  <2>2. alloc' \subseteq Node
    BY DEF TypeOK
  <2>3. QED
    BY <2>1, <2>2, ChildrenStep
<1>3. refcount[n] = strong[n] + C + H + l0 + r0
  BY DEF RefcountExact
<1>4. /\ C \in Nat /\ H \in Nat /\ strong[n] \in Nat /\ refcount[n] \in Nat
      /\ strong'[n] \in Nat /\ refcount'[n] \in Nat
  BY FiniteOwners DEF TypeOK
<1>5. h1 \in Nat /\ h0 \in Nat /\ c1 \in Nat /\ c0 \in Nat /\ l1 \in Nat /\ l0 \in Nat /\ r1 \in Nat /\ r0 \in Nat
  BY DEF Bit
<1>6. refcount'[n] - refcount[n] = (strong'[n] - strong[n]) + (h1 - h0) + (c1 - c0) + (l1 - l0) + (r1 - r0)
  OBVIOUS
<1> HIDE DEF C, CN, H, HN, h1, h0, c1, c0, l1, l0, r1, r0
<1>7. refcount'[n] = strong'[n] + CN + HN + l1 + r1
  BY <1>1, <1>2, <1>3, <1>4, <1>5, <1>6
<1>8. QED
  BY <1>7 DEF CN, HN, l1, r1

USE Addresses

\* A node with a count is in memory.
LEMMA Alive ==
  ASSUME IInv, NEW n \in Node, refcount[n] # 0
  PROVE  n \in alloc
  BY DEF IInv, HeapShape

\* The parents of live nodes lead to the root.
LEMMA RootHasChild ==
  ASSUME HeapShape, alloc \ {Root} # {}
  PROVE  \E c \in alloc : parent[c] = Root
<1>1. alloc \ {Root} \in SUBSET (alloc \ {Root})
  OBVIOUS
<1>2. PICK n \in alloc \ {Root} : parent[n] \notin alloc \ {Root}
  BY <1>1 DEF HeapShape
<1>3. parent[n] \in alloc
  BY DEF HeapShape
<1>4. QED
  BY <1>2, <1>3

\* Who takes a count from one to zero, t, is alone with the node: nobody else
\* answers for it, and it is not on the free list.
LEMMA LastIsAlone ==
  ASSUME IInv, NEW t \in Thread, NEW n \in Node, refcount[n] = 1, ~ Listed(n),
         pc[t] \notin CustodyState \cup SpinState,
         \A u \in Thread \ {t} : ~ (pc[u] \in HoldingState /\ node[u] = n)
  PROVE  /\ n \in alloc
         /\ \A u \in Thread : ~ Custody(u, n)
         /\ n # Root => next_free[n] = NULL
         /\ \A u \in Thread \ {t} :
              pc[u] \in {"pretend", "pretend_store", "push_count", "push_load", "push_store",
                         "push_exchange", "unlink", "unlink_dec", "gc_dec", "spin_read",
                         "spin_write", "dec_parent"} => node[u] # n
<1>1. n \in alloc
  BY Alive
<1>2. \A u \in Thread : ~ Custody(u, n)
  <2> SUFFICES ASSUME NEW u \in Thread, Custody(u, n) PROVE FALSE
    OBVIOUS
  <2>1. u # t /\ pc[u] = "pretend" /\ node[u] = n
    BY DEF Custody, CustodyState, HoldingState
  <2>2. PICK v \in Thread : pc[v] \in SpinState /\ node[v] = n
    BY <2>1 DEF IInv, OnlySpinnersResurrect
  <2>3. v # t /\ pc[v] \in HoldingState
    BY <2>2 DEF SpinState, HoldingState
  <2>4. QED
    BY <2>2, <2>3
<1>3. n # Root => next_free[n] = NULL
  BY <1>1, <1>2 DEF Listed
<1>4. QED
  BY <1>1, <1>2, <1>3 DEF Custody, CustodyState, HoldingState

\* A step that neither boxes nor frees a node keeps the shape of the heap.
LEMMA HeapFrame ==
  ASSUME HeapShape, UNCHANGED <<alloc, parent, key, children>>,
         \A n \in Node \ alloc : refcount'[n] = refcount[n]
  PROVE  HeapShape'
<1>1. \A n \in Node \ alloc : refcount'[n] = 0 /\ parent[n] = NULL
  BY DEF HeapShape
<1>2. \A S \in SUBSET (alloc \ {Root}) : S # {} => \E n \in S : parent[n] \notin S
  BY DEF HeapShape
<1>3. \A S \in SUBSET (alloc' \ {Root}) : S # {} => \E n \in S : parent'[n] \notin S
  BY <1>2, Zenon
<1>4. QED
  BY <1>1, <1>3 DEF HeapShape

\* A step that moves no link keeps the lists.
LEMMA LinksFrame ==
  ASSUME TypeOK, LinksSound,
         \A x \in Node : Listed(x)' <=> Listed(x),
         \A x \in Node : Linked(x) => next_free'[x] = next_free[x],
         \A u \in Thread : Walking(u)' => Walking(u) /\ head'[u] = head[u],
         \A u \in Thread : pc'[u] = "gc_swap" => next_free[Root] # NULL,
         \A u \in Thread : Dropping(u)' /\ pc'[u] # "gc_swap" => next_free[Root] = NULL,
         next_free[Root] = NULL => tree' # "alive",
         tree' = "dropped" => next_free[Root] = NULL
  PROVE  LinksSound'
<1>1. \A v : Link(v)' <=> Link(v)
  BY DEF Link
<1>2. \A x \in Node : Linked(x)' <=> Linked(x)
  BY DEF Linked
<1>3. next_free'[Root] = next_free[Root] /\ Linked(Root)
  BY DEF Linked
<1>4. QED
  BY <1>1, <1>2, <1>3 DEF LinksSound, Linked

\* A thread that pretends keeps a spinner, if its node has been found again.
LEMMA SpinnersFrame ==
  ASSUME OnlySpinnersResurrect,
         \A u \in Thread : pc'[u] = "pretend" =>
           \/ refcount'[node'[u]] = 0
           \/ \E v \in Thread : pc'[v] \in SpinState /\ node'[v] = node'[u]
           \/ /\ pc[u] = "pretend" /\ node'[u] = node[u] /\ refcount[node[u]] > 0
              /\ \A v \in Thread : pc[v] \in SpinState /\ node[v] = node[u]
                                     => pc'[v] \in SpinState /\ node'[v] = node[v]
  PROVE  OnlySpinnersResurrect'
  BY DEF OnlySpinnersResurrect

\* The custodian of a dead node takes the count it pretends with.
LEMMA StepPretendIncrement ==
  ASSUME IInv, NEW t \in Thread, PretendIncrement(t)
  PROVE  IInv'
<1>1. /\ refcount' = [refcount EXCEPT ![node[t]] = @ + 1]
      /\ pc' = [pc EXCEPT ![t] = "pretend_store"]
      /\ UNCHANGED <<alloc, next_free, children, parent, key, strong, tree, approximate_free_count, node, head, base, want, ret, job>>
  BY DEF PretendIncrement, Goto, heap, world, locals, Advance, AddRef
<1>2. /\ node[t] \in Node /\ node[t] # Root /\ node[t] \in alloc /\ refcount[node[t]] \in Nat
      /\ Custody(t, node[t]) /\ \A u \in Thread \ {t} : ~ Custody(u, node[t])
      /\ pc[t] = "pretend"
      /\ next_free[node[t]] = NULL
  BY DEF PretendIncrement, IInv, TypeOK, ThreadShape, NextFreeShape, OneCustody, Custody, CustodyState, HeapShape
<1>3. TypeOK'
  BY <1>1, <1>2 DEF IInv, TypeOK, ControlState
<1>4. HeapShape'
  BY <1>1, <1>2, HeapFrame DEF IInv, TypeOK, ThreadShape, CustodyState
<1>5. ThreadShape'
  BY <1>1, <1>2 DEF IInv, TypeOK, HeapShape, ThreadShape, CustodyState, EnsureState, SpinState, WriteState, Dropping
<1>6. LocksExclusive'
  BY <1>1, <1>2 DEF IInv, TypeOK, LocksExclusive, WriteState
<1>7. OneDropper'
  BY <1>1, <1>2 DEF IInv, TypeOK, OneDropper, Dropping
<1>8. OneCustody'
  BY <1>1, <1>2 DEF IInv, TypeOK, OneCustody, Custody, CustodyState
<1>9. PoppedIsFree'
  BY <1>1, <1>2 DEF IInv, TypeOK, PoppedIsFree, Custody, CustodyState
<1>10. OnlySpinnersResurrect'
  <2>1. \A u \in Thread : pc'[u] = "pretend" =>
           \/ refcount'[node'[u]] = 0
           \/ \E v \in Thread : pc'[v] \in SpinState /\ node'[v] = node'[u]
           \/ /\ pc[u] = "pretend" /\ node'[u] = node[u] /\ refcount[node[u]] > 0
              /\ \A v \in Thread : pc[v] \in SpinState /\ node[v] = node[u]
                                     => pc'[v] \in SpinState /\ node'[v] = node[v]
    BY <1>1, <1>2 DEF IInv, TypeOK, SpinState, ThreadShape, CustodyState, OneCustody, Custody
  <2>2. QED
    BY <2>1, SpinnersFrame DEF IInv
<1>11. NextFreeShape'
  BY <1>1, <1>2 DEF IInv, TypeOK, NextFreeShape, OneCustody, PoppedIsFree, Custody, CustodyState, ThreadShape
<1>12. LinksSound'
  <2>1. \A x \in Node : Listed(x)' <=> Listed(x)
    BY <1>1, <1>2 DEF IInv, TypeOK, Listed, Custody, CustodyState, ThreadShape
  <2>2. \A x \in Node : Linked(x) => next_free'[x] = next_free[x]
    BY <1>1, <1>2 DEF IInv, TypeOK, Linked, Listed, Custody, CustodyState, ThreadShape
  <2>3. /\ \A u \in Thread :
             /\ Walking(u)' => Walking(u) /\ head'[u] = head[u]
             /\ pc'[u] = "gc_swap" => next_free[Root] # NULL
             /\ Dropping(u)' /\ pc'[u] # "gc_swap" => next_free[Root] = NULL
        /\ next_free[Root] = NULL => tree' # "alive"
        /\ tree' = "dropped" => next_free[Root] = NULL
    BY <1>1, <1>2 DEF IInv, TypeOK, Walking, Dropping, ThreadShape, LinksSound
  <2>4. QED
    BY <2>1, <2>2, <2>3, LinksFrame DEF IInv
<1>13. RefcountExact'
  <2>1. \A m \in Node :
           refcount'[m] - refcount[m]
             = (strong'[m] - strong[m])
               + (Bit(pc'[t] \in HoldingState /\ node'[t] = m)
                    - Bit(pc[t] \in HoldingState /\ node[t] = m))
               + (Bit(Root \in alloc' /\ parent'[Root] = m) - Bit(Root \in alloc /\ parent[Root] = m))
               + (Bit(Listed(m)') - Bit(Listed(m)))
               + (Bit(m = Root /\ tree' # "dropped") - Bit(m = Root /\ tree # "dropped"))
    BY <1>1, <1>2 DEF IInv, TypeOK, ThreadShape, Bit, Listed, Custody, CustodyState, HoldingState
  <2>2. /\ \A u \in Thread \ {t} : pc'[u] = pc[u] /\ node'[u] = node[u]
        /\ Root \in Node
        /\ \A d \in Node \ {Root} : (d \in alloc' <=> d \in alloc) /\ parent'[d] = parent[d]
    BY <1>1, <1>2 DEF IInv, TypeOK
  <2>3. QED
    BY <1>3, <2>1, <2>2, RefcountStep DEF IInv
<1>14. QED
  BY <1>3, <1>4, <1>5, <1>6, <1>7, <1>8, <1>9, <1>10, <1>11, <1>12, <1>13 DEF IInv

\* The custodian marks its node; those who wait for the node go on.
LEMMA StepPretendStore ==
  ASSUME IInv, NEW t \in Thread, PretendStore(t)
  PROVE  IInv'
<1>1. /\ next_free' = [next_free EXCEPT ![node[t]] = DANGLING]
      /\ pc' = [pc EXCEPT ![t] = ret[t]]
      /\ UNCHANGED <<alloc, refcount, children, parent, key, strong, tree, approximate_free_count, node, head, base, want, ret, job>>
  BY DEF PretendStore, Goto, heap, world, locals, Advance
<1>2. /\ node[t] \in Node /\ node[t] # Root /\ node[t] \in alloc /\ refcount[node[t]] \in Nat
      /\ Custody(t, node[t]) /\ \A u \in Thread \ {t} : ~ Custody(u, node[t])
      /\ pc[t] = "pretend_store"
      /\ ret[t] \in {"push_count", "unlink"}
  BY DEF PretendStore, IInv, TypeOK, ThreadShape, NextFreeShape, OneCustody, Custody, CustodyState, HeapShape
<1>3. TypeOK'
  BY <1>1, <1>2 DEF IInv, TypeOK, ControlState
<1>4. HeapShape'
  BY <1>1, <1>2, HeapFrame DEF IInv, TypeOK, ThreadShape, CustodyState
<1>5. ThreadShape'
  BY <1>1, <1>2 DEF IInv, TypeOK, HeapShape, ThreadShape, CustodyState, EnsureState, SpinState, WriteState, Dropping
<1>6. LocksExclusive'
  BY <1>1, <1>2 DEF IInv, TypeOK, LocksExclusive, WriteState
<1>7. OneDropper'
  BY <1>1, <1>2 DEF IInv, TypeOK, OneDropper, Dropping
<1>8. OneCustody'
  BY <1>1, <1>2 DEF IInv, TypeOK, OneCustody, Custody, CustodyState
<1>9. PoppedIsFree'
  BY <1>1, <1>2 DEF IInv, TypeOK, PoppedIsFree, Custody, CustodyState
<1>10. OnlySpinnersResurrect'
  <2>1. \A u \in Thread : pc'[u] = "pretend" =>
           \/ refcount'[node'[u]] = 0
           \/ \E v \in Thread : pc'[v] \in SpinState /\ node'[v] = node'[u]
           \/ /\ pc[u] = "pretend" /\ node'[u] = node[u] /\ refcount[node[u]] > 0
              /\ \A v \in Thread : pc[v] \in SpinState /\ node[v] = node[u]
                                     => pc'[v] \in SpinState /\ node'[v] = node[v]
    BY <1>1, <1>2 DEF IInv, TypeOK, SpinState, ThreadShape, CustodyState
  <2>2. QED
    BY <2>1, SpinnersFrame DEF IInv
<1>11. NextFreeShape'
  BY <1>1, <1>2 DEF IInv, TypeOK, NextFreeShape, OneCustody, PoppedIsFree, Custody, CustodyState, ThreadShape
<1>12. LinksSound'
  <2>1. \A x \in Node : Listed(x)' <=> Listed(x)
    BY <1>1, <1>2 DEF IInv, TypeOK, Listed, Custody, CustodyState, ThreadShape
  <2>2. \A x \in Node : Linked(x) => next_free'[x] = next_free[x]
    BY <1>1, <1>2 DEF IInv, TypeOK, Linked, Listed, Custody, CustodyState, ThreadShape
  <2>3. /\ \A u \in Thread :
             /\ Walking(u)' => Walking(u) /\ head'[u] = head[u]
             /\ pc'[u] = "gc_swap" => next_free[Root] # NULL
             /\ Dropping(u)' /\ pc'[u] # "gc_swap" => next_free[Root] = NULL
        /\ next_free[Root] = NULL => tree' # "alive"
        /\ tree' = "dropped" => next_free[Root] = NULL
    BY <1>1, <1>2 DEF IInv, TypeOK, Walking, Dropping, ThreadShape, LinksSound
  <2>4. QED
    BY <2>1, <2>2, <2>3, LinksFrame DEF IInv
<1>13. RefcountExact'
  <2>1. \A m \in Node :
           refcount'[m] - refcount[m]
             = (strong'[m] - strong[m])
               + (Bit(pc'[t] \in HoldingState /\ node'[t] = m)
                    - Bit(pc[t] \in HoldingState /\ node[t] = m))
               + (Bit(Root \in alloc' /\ parent'[Root] = m) - Bit(Root \in alloc /\ parent[Root] = m))
               + (Bit(Listed(m)') - Bit(Listed(m)))
               + (Bit(m = Root /\ tree' # "dropped") - Bit(m = Root /\ tree # "dropped"))
    BY <1>1, <1>2 DEF IInv, TypeOK, ThreadShape, Bit, Listed, Custody, CustodyState, HoldingState
  <2>2. /\ \A u \in Thread \ {t} : pc'[u] = pc[u] /\ node'[u] = node[u]
        /\ Root \in Node
        /\ \A d \in Node \ {Root} : (d \in alloc' <=> d \in alloc) /\ parent'[d] = parent[d]
    BY <1>1, <1>2 DEF IInv, TypeOK
  <2>3. QED
    BY <1>3, <2>1, <2>2, RefcountStep DEF IInv
<1>14. QED
  BY <1>3, <1>4, <1>5, <1>6, <1>7, <1>8, <1>9, <1>10, <1>11, <1>12, <1>13 DEF IInv

\* A push is counted before it happens.
LEMMA StepPushCount ==
  ASSUME IInv, NEW t \in Thread, PushCount(t)
  PROVE  IInv'
<1>1. /\ approximate_free_count' = approximate_free_count + 1
      /\ pc' = [pc EXCEPT ![t] = "push_load"]
      /\ UNCHANGED <<alloc, refcount, next_free, children, parent, key, strong, tree, node, head, base, want, ret, job>>
  BY DEF PushCount, Goto, heap, world, locals, Advance
<1>2. /\ node[t] \in Node /\ node[t] # Root /\ node[t] \in alloc /\ refcount[node[t]] \in Nat
      /\ Custody(t, node[t]) /\ \A u \in Thread \ {t} : ~ Custody(u, node[t])
      /\ pc[t] = "push_count"
  BY DEF PushCount, IInv, TypeOK, ThreadShape, NextFreeShape, OneCustody, Custody, CustodyState, HeapShape
<1>3. TypeOK'
  BY <1>1, <1>2 DEF IInv, TypeOK, ControlState
<1>4. HeapShape'
  BY <1>1, <1>2, HeapFrame DEF IInv, TypeOK, ThreadShape, CustodyState
<1>5. ThreadShape'
  BY <1>1, <1>2 DEF IInv, TypeOK, HeapShape, ThreadShape, CustodyState, EnsureState, SpinState, WriteState, Dropping
<1>6. LocksExclusive'
  BY <1>1, <1>2 DEF IInv, TypeOK, LocksExclusive, WriteState
<1>7. OneDropper'
  BY <1>1, <1>2 DEF IInv, TypeOK, OneDropper, Dropping
<1>8. OneCustody'
  BY <1>1, <1>2 DEF IInv, TypeOK, OneCustody, Custody, CustodyState
<1>9. PoppedIsFree'
  BY <1>1, <1>2 DEF IInv, TypeOK, PoppedIsFree, Custody, CustodyState
<1>10. OnlySpinnersResurrect'
  <2>1. \A u \in Thread : pc'[u] = "pretend" =>
           \/ refcount'[node'[u]] = 0
           \/ \E v \in Thread : pc'[v] \in SpinState /\ node'[v] = node'[u]
           \/ /\ pc[u] = "pretend" /\ node'[u] = node[u] /\ refcount[node[u]] > 0
              /\ \A v \in Thread : pc[v] \in SpinState /\ node[v] = node[u]
                                     => pc'[v] \in SpinState /\ node'[v] = node[v]
    BY <1>1, <1>2 DEF IInv, TypeOK, SpinState, ThreadShape, CustodyState
  <2>2. QED
    BY <2>1, SpinnersFrame DEF IInv
<1>11. NextFreeShape'
  BY <1>1, <1>2 DEF IInv, TypeOK, NextFreeShape, OneCustody, PoppedIsFree, Custody, CustodyState, ThreadShape
<1>12. LinksSound'
  <2>1. \A x \in Node : Listed(x)' <=> Listed(x)
    BY <1>1, <1>2 DEF IInv, TypeOK, Listed, Custody, CustodyState, ThreadShape
  <2>2. \A x \in Node : Linked(x) => next_free'[x] = next_free[x]
    BY <1>1, <1>2 DEF IInv, TypeOK, Linked, Listed, Custody, CustodyState, ThreadShape
  <2>3. /\ \A u \in Thread :
             /\ Walking(u)' => Walking(u) /\ head'[u] = head[u]
             /\ pc'[u] = "gc_swap" => next_free[Root] # NULL
             /\ Dropping(u)' /\ pc'[u] # "gc_swap" => next_free[Root] = NULL
        /\ next_free[Root] = NULL => tree' # "alive"
        /\ tree' = "dropped" => next_free[Root] = NULL
    BY <1>1, <1>2 DEF IInv, TypeOK, Walking, Dropping, ThreadShape, LinksSound
  <2>4. QED
    BY <2>1, <2>2, <2>3, LinksFrame DEF IInv
<1>13. RefcountExact'
  <2>1. \A m \in Node :
           refcount'[m] - refcount[m]
             = (strong'[m] - strong[m])
               + (Bit(pc'[t] \in HoldingState /\ node'[t] = m)
                    - Bit(pc[t] \in HoldingState /\ node[t] = m))
               + (Bit(Root \in alloc' /\ parent'[Root] = m) - Bit(Root \in alloc /\ parent[Root] = m))
               + (Bit(Listed(m)') - Bit(Listed(m)))
               + (Bit(m = Root /\ tree' # "dropped") - Bit(m = Root /\ tree # "dropped"))
    BY <1>1, <1>2 DEF IInv, TypeOK, ThreadShape, Bit, Listed, Custody, CustodyState, HoldingState
  <2>2. /\ \A u \in Thread \ {t} : pc'[u] = pc[u] /\ node'[u] = node[u]
        /\ Root \in Node
        /\ \A d \in Node \ {Root} : (d \in alloc' <=> d \in alloc) /\ parent'[d] = parent[d]
    BY <1>1, <1>2 DEF IInv, TypeOK
  <2>3. QED
    BY <1>3, <2>1, <2>2, RefcountStep DEF IInv
<1>14. QED
  BY <1>3, <1>4, <1>5, <1>6, <1>7, <1>8, <1>9, <1>10, <1>11, <1>12, <1>13 DEF IInv

\* The head of the free list is read; without a list the node is dropped.
LEMMA StepPushLoad ==
  ASSUME IInv, NEW t \in Thread, PushLoad(t)
  PROVE  IInv'
<1>1. /\ pc' = [pc EXCEPT ![t] = IF next_free[Root] = NULL THEN "unlink" ELSE "push_store"]
      /\ head' = [head EXCEPT ![t] = next_free[Root]]
      /\ UNCHANGED <<alloc, refcount, next_free, children, parent, key, strong, tree, approximate_free_count, node, base, want, ret, job>>
  BY DEF PushLoad, Goto, heap, world, locals, PushLoop
<1>2. /\ node[t] \in Node /\ node[t] # Root /\ node[t] \in alloc /\ refcount[node[t]] \in Nat
      /\ Custody(t, node[t]) /\ \A u \in Thread \ {t} : ~ Custody(u, node[t])
      /\ pc[t] = "push_load"
      /\ next_free[Root] \in Pointer
  BY DEF PushLoad, IInv, TypeOK, ThreadShape, NextFreeShape, OneCustody, Custody, CustodyState, HeapShape
<1>3. TypeOK'
  BY <1>1, <1>2 DEF IInv, TypeOK, ControlState
<1>4. HeapShape'
  BY <1>1, <1>2, HeapFrame DEF IInv, TypeOK, ThreadShape, CustodyState
<1>5. ThreadShape'
  BY <1>1, <1>2 DEF IInv, TypeOK, HeapShape, ThreadShape, CustodyState, EnsureState, SpinState, WriteState, Dropping
<1>6. LocksExclusive'
  BY <1>1, <1>2 DEF IInv, TypeOK, LocksExclusive, WriteState
<1>7. OneDropper'
  BY <1>1, <1>2 DEF IInv, TypeOK, OneDropper, Dropping
<1>8. OneCustody'
  BY <1>1, <1>2 DEF IInv, TypeOK, OneCustody, Custody, CustodyState
<1>9. PoppedIsFree'
  BY <1>1, <1>2 DEF IInv, TypeOK, PoppedIsFree, Custody, CustodyState
<1>10. OnlySpinnersResurrect'
  <2>1. \A u \in Thread : pc'[u] = "pretend" =>
           \/ refcount'[node'[u]] = 0
           \/ \E v \in Thread : pc'[v] \in SpinState /\ node'[v] = node'[u]
           \/ /\ pc[u] = "pretend" /\ node'[u] = node[u] /\ refcount[node[u]] > 0
              /\ \A v \in Thread : pc[v] \in SpinState /\ node[v] = node[u]
                                     => pc'[v] \in SpinState /\ node'[v] = node[v]
    BY <1>1, <1>2 DEF IInv, TypeOK, SpinState, ThreadShape, CustodyState
  <2>2. QED
    BY <2>1, SpinnersFrame DEF IInv
<1>11. NextFreeShape'
  BY <1>1, <1>2 DEF IInv, TypeOK, NextFreeShape, OneCustody, PoppedIsFree, Custody, CustodyState, ThreadShape, LinksSound, Link, Listed
<1>12. LinksSound'
  <2>1. \A x \in Node : Listed(x)' <=> Listed(x)
    BY <1>1, <1>2 DEF IInv, TypeOK, Listed, Custody, CustodyState, ThreadShape
  <2>2. \A x \in Node : Linked(x) => next_free'[x] = next_free[x]
    BY <1>1, <1>2 DEF IInv, TypeOK, Linked, Listed, Custody, CustodyState, ThreadShape
  <2>3. /\ \A u \in Thread :
             /\ Walking(u)' => Walking(u) /\ head'[u] = head[u]
             /\ pc'[u] = "gc_swap" => next_free[Root] # NULL
             /\ Dropping(u)' /\ pc'[u] # "gc_swap" => next_free[Root] = NULL
        /\ next_free[Root] = NULL => tree' # "alive"
        /\ tree' = "dropped" => next_free[Root] = NULL
    BY <1>1, <1>2 DEF IInv, TypeOK, Walking, Dropping, ThreadShape, LinksSound
  <2>4. QED
    BY <2>1, <2>2, <2>3, LinksFrame DEF IInv
<1>13. RefcountExact'
  <2>1. \A m \in Node :
           refcount'[m] - refcount[m]
             = (strong'[m] - strong[m])
               + (Bit(pc'[t] \in HoldingState /\ node'[t] = m)
                    - Bit(pc[t] \in HoldingState /\ node[t] = m))
               + (Bit(Root \in alloc' /\ parent'[Root] = m) - Bit(Root \in alloc /\ parent[Root] = m))
               + (Bit(Listed(m)') - Bit(Listed(m)))
               + (Bit(m = Root /\ tree' # "dropped") - Bit(m = Root /\ tree # "dropped"))
    BY <1>1, <1>2 DEF IInv, TypeOK, ThreadShape, Bit, Listed, Custody, CustodyState, HoldingState
  <2>2. /\ \A u \in Thread \ {t} : pc'[u] = pc[u] /\ node'[u] = node[u]
        /\ Root \in Node
        /\ \A d \in Node \ {Root} : (d \in alloc' <=> d \in alloc) /\ parent'[d] = parent[d]
    BY <1>1, <1>2 DEF IInv, TypeOK
  <2>3. QED
    BY <1>3, <2>1, <2>2, RefcountStep DEF IInv
<1>14. QED
  BY <1>3, <1>4, <1>5, <1>6, <1>7, <1>8, <1>9, <1>10, <1>11, <1>12, <1>13 DEF IInv

\* The head has moved, or not: the push starts over.
LEMMA StepPushExchangeFails ==
  ASSUME IInv, NEW t \in Thread, PushExchangeFails(t)
  PROVE  IInv'
<1>1. /\ pc' = [pc EXCEPT ![t] = IF next_free[Root] = NULL THEN "unlink" ELSE "push_store"]
      /\ head' = [head EXCEPT ![t] = next_free[Root]]
      /\ UNCHANGED <<alloc, refcount, next_free, children, parent, key, strong, tree, approximate_free_count, node, base, want, ret, job>>
  BY DEF PushExchangeFails, Goto, heap, world, locals, PushLoop
<1>2. /\ node[t] \in Node /\ node[t] # Root /\ node[t] \in alloc /\ refcount[node[t]] \in Nat
      /\ Custody(t, node[t]) /\ \A u \in Thread \ {t} : ~ Custody(u, node[t])
      /\ pc[t] = "push_exchange"
      /\ next_free[Root] \in Pointer
  BY DEF PushExchangeFails, IInv, TypeOK, ThreadShape, NextFreeShape, OneCustody, Custody, CustodyState, HeapShape
<1>3. TypeOK'
  BY <1>1, <1>2 DEF IInv, TypeOK, ControlState
<1>4. HeapShape'
  BY <1>1, <1>2, HeapFrame DEF IInv, TypeOK, ThreadShape, CustodyState
<1>5. ThreadShape'
  BY <1>1, <1>2 DEF IInv, TypeOK, HeapShape, ThreadShape, CustodyState, EnsureState, SpinState, WriteState, Dropping
<1>6. LocksExclusive'
  BY <1>1, <1>2 DEF IInv, TypeOK, LocksExclusive, WriteState
<1>7. OneDropper'
  BY <1>1, <1>2 DEF IInv, TypeOK, OneDropper, Dropping
<1>8. OneCustody'
  BY <1>1, <1>2 DEF IInv, TypeOK, OneCustody, Custody, CustodyState
<1>9. PoppedIsFree'
  BY <1>1, <1>2 DEF IInv, TypeOK, PoppedIsFree, Custody, CustodyState
<1>10. OnlySpinnersResurrect'
  <2>1. \A u \in Thread : pc'[u] = "pretend" =>
           \/ refcount'[node'[u]] = 0
           \/ \E v \in Thread : pc'[v] \in SpinState /\ node'[v] = node'[u]
           \/ /\ pc[u] = "pretend" /\ node'[u] = node[u] /\ refcount[node[u]] > 0
              /\ \A v \in Thread : pc[v] \in SpinState /\ node[v] = node[u]
                                     => pc'[v] \in SpinState /\ node'[v] = node[v]
    BY <1>1, <1>2 DEF IInv, TypeOK, SpinState, ThreadShape, CustodyState
  <2>2. QED
    BY <2>1, SpinnersFrame DEF IInv
<1>11. NextFreeShape'
  BY <1>1, <1>2 DEF IInv, TypeOK, NextFreeShape, OneCustody, PoppedIsFree, Custody, CustodyState, ThreadShape, LinksSound, Link, Listed
<1>12. LinksSound'
  <2>1. \A x \in Node : Listed(x)' <=> Listed(x)
    BY <1>1, <1>2 DEF IInv, TypeOK, Listed, Custody, CustodyState, ThreadShape
  <2>2. \A x \in Node : Linked(x) => next_free'[x] = next_free[x]
    BY <1>1, <1>2 DEF IInv, TypeOK, Linked, Listed, Custody, CustodyState, ThreadShape
  <2>3. /\ \A u \in Thread :
             /\ Walking(u)' => Walking(u) /\ head'[u] = head[u]
             /\ pc'[u] = "gc_swap" => next_free[Root] # NULL
             /\ Dropping(u)' /\ pc'[u] # "gc_swap" => next_free[Root] = NULL
        /\ next_free[Root] = NULL => tree' # "alive"
        /\ tree' = "dropped" => next_free[Root] = NULL
    BY <1>1, <1>2 DEF IInv, TypeOK, Walking, Dropping, ThreadShape, LinksSound
  <2>4. QED
    BY <2>1, <2>2, <2>3, LinksFrame DEF IInv
<1>13. RefcountExact'
  <2>1. \A m \in Node :
           refcount'[m] - refcount[m]
             = (strong'[m] - strong[m])
               + (Bit(pc'[t] \in HoldingState /\ node'[t] = m)
                    - Bit(pc[t] \in HoldingState /\ node[t] = m))
               + (Bit(Root \in alloc' /\ parent'[Root] = m) - Bit(Root \in alloc /\ parent[Root] = m))
               + (Bit(Listed(m)') - Bit(Listed(m)))
               + (Bit(m = Root /\ tree' # "dropped") - Bit(m = Root /\ tree # "dropped"))
    BY <1>1, <1>2 DEF IInv, TypeOK, ThreadShape, Bit, Listed, Custody, CustodyState, HoldingState
  <2>2. /\ \A u \in Thread \ {t} : pc'[u] = pc[u] /\ node'[u] = node[u]
        /\ Root \in Node
        /\ \A d \in Node \ {Root} : (d \in alloc' <=> d \in alloc) /\ parent'[d] = parent[d]
    BY <1>1, <1>2 DEF IInv, TypeOK
  <2>3. QED
    BY <1>3, <2>1, <2>2, RefcountStep DEF IInv
<1>14. QED
  BY <1>3, <1>4, <1>5, <1>6, <1>7, <1>8, <1>9, <1>10, <1>11, <1>12, <1>13 DEF IInv

\* The node points to the head that was read; it is still in custody.
LEMMA StepPushStore ==
  ASSUME IInv, NEW t \in Thread, PushStore(t)
  PROVE  IInv'
<1>1. /\ next_free' = [next_free EXCEPT ![node[t]] = head[t]]
      /\ pc' = [pc EXCEPT ![t] = "push_exchange"]
      /\ UNCHANGED <<alloc, refcount, children, parent, key, strong, tree, approximate_free_count, node, head, base, want, ret, job>>
  BY DEF PushStore, Goto, heap, world, locals, Advance
<1>2. /\ node[t] \in Node /\ node[t] # Root /\ node[t] \in alloc /\ refcount[node[t]] \in Nat
      /\ Custody(t, node[t]) /\ \A u \in Thread \ {t} : ~ Custody(u, node[t])
      /\ pc[t] = "push_store"
      /\ head[t] \in Pointer /\ head[t] # NULL
  BY DEF PushStore, IInv, TypeOK, ThreadShape, NextFreeShape, OneCustody, Custody, CustodyState, HeapShape
<1>3. TypeOK'
  BY <1>1, <1>2 DEF IInv, TypeOK, ControlState
<1>4. HeapShape'
  BY <1>1, <1>2, HeapFrame DEF IInv, TypeOK, ThreadShape, CustodyState
<1>5. ThreadShape'
  BY <1>1, <1>2 DEF IInv, TypeOK, HeapShape, ThreadShape, CustodyState, EnsureState, SpinState, WriteState, Dropping
<1>6. LocksExclusive'
  BY <1>1, <1>2 DEF IInv, TypeOK, LocksExclusive, WriteState
<1>7. OneDropper'
  BY <1>1, <1>2 DEF IInv, TypeOK, OneDropper, Dropping
<1>8. OneCustody'
  BY <1>1, <1>2 DEF IInv, TypeOK, OneCustody, Custody, CustodyState
<1>9. PoppedIsFree'
  BY <1>1, <1>2 DEF IInv, TypeOK, PoppedIsFree, Custody, CustodyState
<1>10. OnlySpinnersResurrect'
  <2>1. \A u \in Thread : pc'[u] = "pretend" =>
           \/ refcount'[node'[u]] = 0
           \/ \E v \in Thread : pc'[v] \in SpinState /\ node'[v] = node'[u]
           \/ /\ pc[u] = "pretend" /\ node'[u] = node[u] /\ refcount[node[u]] > 0
              /\ \A v \in Thread : pc[v] \in SpinState /\ node[v] = node[u]
                                     => pc'[v] \in SpinState /\ node'[v] = node[v]
    BY <1>1, <1>2 DEF IInv, TypeOK, SpinState, ThreadShape, CustodyState
  <2>2. QED
    BY <2>1, SpinnersFrame DEF IInv
<1>11. NextFreeShape'
  BY <1>1, <1>2 DEF IInv, TypeOK, NextFreeShape, OneCustody, PoppedIsFree, Custody, CustodyState, ThreadShape
<1>12. LinksSound'
  <2>1. \A x \in Node : Listed(x)' <=> Listed(x)
    BY <1>1, <1>2 DEF IInv, TypeOK, Listed, Custody, CustodyState, ThreadShape
  <2>2. \A x \in Node : Linked(x) => next_free'[x] = next_free[x]
    BY <1>1, <1>2 DEF IInv, TypeOK, Linked, Listed, Custody, CustodyState, ThreadShape
  <2>3. /\ \A u \in Thread :
             /\ Walking(u)' => Walking(u) /\ head'[u] = head[u]
             /\ pc'[u] = "gc_swap" => next_free[Root] # NULL
             /\ Dropping(u)' /\ pc'[u] # "gc_swap" => next_free[Root] = NULL
        /\ next_free[Root] = NULL => tree' # "alive"
        /\ tree' = "dropped" => next_free[Root] = NULL
    BY <1>1, <1>2 DEF IInv, TypeOK, Walking, Dropping, ThreadShape, LinksSound
  <2>4. QED
    BY <2>1, <2>2, <2>3, LinksFrame DEF IInv
<1>13. RefcountExact'
  <2>1. \A m \in Node :
           refcount'[m] - refcount[m]
             = (strong'[m] - strong[m])
               + (Bit(pc'[t] \in HoldingState /\ node'[t] = m)
                    - Bit(pc[t] \in HoldingState /\ node[t] = m))
               + (Bit(Root \in alloc' /\ parent'[Root] = m) - Bit(Root \in alloc /\ parent[Root] = m))
               + (Bit(Listed(m)') - Bit(Listed(m)))
               + (Bit(m = Root /\ tree' # "dropped") - Bit(m = Root /\ tree # "dropped"))
    BY <1>1, <1>2 DEF IInv, TypeOK, ThreadShape, Bit, Listed, Custody, CustodyState, HoldingState
  <2>2. /\ \A u \in Thread \ {t} : pc'[u] = pc[u] /\ node'[u] = node[u]
        /\ Root \in Node
        /\ \A d \in Node \ {Root} : (d \in alloc' <=> d \in alloc) /\ parent'[d] = parent[d]
    BY <1>1, <1>2 DEF IInv, TypeOK
  <2>3. QED
    BY <1>3, <2>1, <2>2, RefcountStep DEF IInv
<1>14. QED
  BY <1>3, <1>4, <1>5, <1>6, <1>7, <1>8, <1>9, <1>10, <1>11, <1>12, <1>13 DEF IInv

\* The node becomes the head: the pretended count is the list's from now on.
LEMMA StepPushExchange ==
  ASSUME IInv, NEW t \in Thread, PushExchange(t)
  PROVE  IInv'
<1>1. /\ next_free' = [next_free EXCEPT ![Root] = node[t]]
      /\ pc' = [pc EXCEPT ![t] = "idle"]
      /\ node' = [node EXCEPT ![t] = NULL]
      /\ head' = [head EXCEPT ![t] = NULL]
      /\ ret' = [ret EXCEPT ![t] = "none"]
      /\ job' = [job EXCEPT ![t] = "none"]
      /\ UNCHANGED <<alloc, refcount, children, parent, key, strong, tree, approximate_free_count, base, want>>
  BY DEF PushExchange, Goto, heap, world, locals
<1>2. /\ node[t] \in Node /\ node[t] # Root /\ node[t] \in alloc /\ refcount[node[t]] \in Nat
      /\ Custody(t, node[t]) /\ \A u \in Thread \ {t} : ~ Custody(u, node[t])
      /\ pc[t] = "push_exchange"
      /\ next_free[node[t]] = next_free[Root] /\ next_free[node[t]] # NULL /\ node[t] \in NonRoot
  BY DEF PushExchange, IInv, TypeOK, ThreadShape, NextFreeShape, OneCustody, Custody, CustodyState, HeapShape
<1>3. TypeOK'
  BY <1>1, <1>2 DEF IInv, TypeOK, ControlState
<1>4. HeapShape'
  BY <1>1, <1>2, HeapFrame DEF IInv, TypeOK, ThreadShape, CustodyState
<1>5. ThreadShape'
  BY <1>1, <1>2 DEF IInv, TypeOK, HeapShape, ThreadShape, CustodyState, EnsureState, SpinState, WriteState, Dropping
<1>6. LocksExclusive'
  BY <1>1, <1>2 DEF IInv, TypeOK, LocksExclusive, WriteState
<1>7. OneDropper'
  BY <1>1, <1>2 DEF IInv, TypeOK, OneDropper, Dropping
<1>8. OneCustody'
  BY <1>1, <1>2 DEF IInv, TypeOK, OneCustody, Custody, CustodyState
<1>9. PoppedIsFree'
  BY <1>1, <1>2 DEF IInv, TypeOK, PoppedIsFree, Custody, CustodyState
<1>10. OnlySpinnersResurrect'
  <2>1. \A u \in Thread : pc'[u] = "pretend" =>
           \/ refcount'[node'[u]] = 0
           \/ \E v \in Thread : pc'[v] \in SpinState /\ node'[v] = node'[u]
           \/ /\ pc[u] = "pretend" /\ node'[u] = node[u] /\ refcount[node[u]] > 0
              /\ \A v \in Thread : pc[v] \in SpinState /\ node[v] = node[u]
                                     => pc'[v] \in SpinState /\ node'[v] = node[v]
    BY <1>1, <1>2 DEF IInv, TypeOK, SpinState, ThreadShape, CustodyState
  <2>2. QED
    BY <2>1, SpinnersFrame DEF IInv
<1>11. NextFreeShape'
  BY <1>1, <1>2 DEF IInv, TypeOK, NextFreeShape, OneCustody, PoppedIsFree, Custody, CustodyState, ThreadShape
<1>12. LinksSound'
  <2>0. PICK n \in Node : n = node[t]
    BY <1>2
  <2>1. next_free'[Root] = n /\ \A x \in Node \ {Root} : next_free'[x] = next_free[x]
    BY <2>0, <1>1, <1>2 DEF IInv, TypeOK
  <2>2. /\ \A u \in Thread : ~ Custody(u, n)'
        /\ \A u \in Thread, x \in Node \ {n} : Custody(u, x)' <=> Custody(u, x)
    <3>1. ~ Custody(t, n)' /\ \A x \in Node \ {n} : ~ Custody(t, x)' /\ ~ Custody(t, x)
      BY <2>0, <1>1, <1>2 DEF IInv, TypeOK, Custody, CustodyState
    <3>2. \A u \in Thread \ {t}, x \in Node : Custody(u, x)' <=> Custody(u, x)
      BY <2>0, <1>1, <1>2 DEF IInv, TypeOK, Custody
    <3>3. QED
      BY <2>0, <1>2, <3>1, <3>2
  <2>3. Listed(n)' /\ ~ Listed(n) /\ \A x \in Node \ {n} : Listed(x)' <=> Listed(x)
    BY <2>0, <1>1, <1>2, <2>1, <2>2 DEF Listed
  <2>4. /\ \A v \in Pointer : Link(v)' <=> Link(v) \/ v = n
        /\ \A x \in Node : Linked(x)' <=> Linked(x) \/ x = n
    BY <2>0, <1>2, <2>3 DEF Link, Linked
  <2>5. \A u \in Thread :
          /\ Walking(u)' => Walking(u) /\ head'[u] = head[u]
          /\ Dropping(u)' => Dropping(u)
          /\ pc'[u] = "gc_swap" <=> pc[u] = "gc_swap"
    BY <2>0, <1>1, <1>2 DEF IInv, TypeOK, Walking, Dropping, ThreadShape
  <2>6. /\ \A x \in Node : Linked(x) => next_free[x] # n
        /\ \A u \in Thread : Walking(u) => head[u] # n
    BY <2>0, <1>2, <2>3 DEF IInv, LinksSound, Link, Linked
  <2>7. Linked(Root) /\ ~ Linked(n) /\ tree' = tree
    BY <2>0, <1>1, <1>2, <2>3 DEF Linked
  <2>8. LinksSound /\ next_free \in [Node -> Pointer] /\ head \in [Thread -> Pointer] /\ n \in NonRoot
    BY <2>0, <1>2 DEF IInv, TypeOK
  <2>9. QED
    BY <2>0, <1>2, <2>1, <2>3, <2>4, <2>5, <2>6, <2>7, <2>8 DEF LinksSound, Linked
<1>13. RefcountExact'
  <2>1. \A m \in Node :
           refcount'[m] - refcount[m]
             = (strong'[m] - strong[m])
               + (Bit(pc'[t] \in HoldingState /\ node'[t] = m)
                    - Bit(pc[t] \in HoldingState /\ node[t] = m))
               + (Bit(Root \in alloc' /\ parent'[Root] = m) - Bit(Root \in alloc /\ parent[Root] = m))
               + (Bit(Listed(m)') - Bit(Listed(m)))
               + (Bit(m = Root /\ tree' # "dropped") - Bit(m = Root /\ tree # "dropped"))
    BY <1>1, <1>2 DEF IInv, TypeOK, ThreadShape, Bit, Listed, Custody, CustodyState, HoldingState
  <2>2. /\ \A u \in Thread \ {t} : pc'[u] = pc[u] /\ node'[u] = node[u]
        /\ Root \in Node
        /\ \A d \in Node \ {Root} : (d \in alloc' <=> d \in alloc) /\ parent'[d] = parent[d]
    BY <1>1, <1>2 DEF IInv, TypeOK
  <2>3. QED
    BY <1>3, <2>1, <2>2, RefcountStep DEF IInv
<1>14. QED
  BY <1>3, <1>4, <1>5, <1>6, <1>7, <1>8, <1>9, <1>10, <1>11, <1>12, <1>13 DEF IInv

\* The parent's map is locked and the node stops pretending.
LEMMA StepUnlinkLock ==
  ASSUME IInv, NEW t \in Thread, UnlinkLock(t)
  PROVE  IInv'
<1>1. /\ next_free' = [next_free EXCEPT ![node[t]] = NULL]
      /\ pc' = [pc EXCEPT ![t] = "unlink_dec"]
      /\ base' = [base EXCEPT ![t] = parent[node[t]]]
      /\ UNCHANGED <<alloc, refcount, children, parent, key, strong, tree, approximate_free_count, node, head, want, ret, job>>
  BY DEF UnlinkLock, Goto, heap, world, locals
<1>2. /\ node[t] \in Node /\ node[t] # Root /\ node[t] \in alloc /\ refcount[node[t]] \in Nat
      /\ Custody(t, node[t]) /\ \A u \in Thread \ {t} : ~ Custody(u, node[t])
      /\ pc[t] = "unlink"
      /\ parent[node[t]] \in Node /\ ~ WriteHeld(parent[node[t]]) /\ ~ ReadHeld(parent[node[t]])
  BY DEF UnlinkLock, IInv, TypeOK, ThreadShape, NextFreeShape, OneCustody, Custody, CustodyState, HeapShape
<1>3. TypeOK'
  BY <1>1, <1>2 DEF IInv, TypeOK, ControlState
<1>4. HeapShape'
  BY <1>1, <1>2, HeapFrame DEF IInv, TypeOK, ThreadShape, CustodyState
<1>5. ThreadShape'
  BY <1>1, <1>2 DEF IInv, TypeOK, HeapShape, ThreadShape, CustodyState, EnsureState, SpinState, WriteState, Dropping
<1>6. LocksExclusive'
  BY <1>1, <1>2 DEF IInv, TypeOK, LocksExclusive, WriteState, WriteHeld, ReadHeld
<1>7. OneDropper'
  BY <1>1, <1>2 DEF IInv, TypeOK, OneDropper, Dropping
<1>8. OneCustody'
  BY <1>1, <1>2 DEF IInv, TypeOK, OneCustody, Custody, CustodyState
<1>9. PoppedIsFree'
  BY <1>1, <1>2 DEF IInv, TypeOK, PoppedIsFree, Custody, CustodyState
<1>10. OnlySpinnersResurrect'
  <2>1. \A u \in Thread : pc'[u] = "pretend" =>
           \/ refcount'[node'[u]] = 0
           \/ \E v \in Thread : pc'[v] \in SpinState /\ node'[v] = node'[u]
           \/ /\ pc[u] = "pretend" /\ node'[u] = node[u] /\ refcount[node[u]] > 0
              /\ \A v \in Thread : pc[v] \in SpinState /\ node[v] = node[u]
                                     => pc'[v] \in SpinState /\ node'[v] = node[v]
    BY <1>1, <1>2 DEF IInv, TypeOK, SpinState, ThreadShape, CustodyState
  <2>2. QED
    BY <2>1, SpinnersFrame DEF IInv
<1>11. NextFreeShape'
  BY <1>1, <1>2 DEF IInv, TypeOK, NextFreeShape, OneCustody, PoppedIsFree, Custody, CustodyState, ThreadShape
<1>12. LinksSound'
  <2>1. \A x \in Node : Listed(x)' <=> Listed(x)
    BY <1>1, <1>2 DEF IInv, TypeOK, Listed, Custody, CustodyState, ThreadShape
  <2>2. \A x \in Node : Linked(x) => next_free'[x] = next_free[x]
    BY <1>1, <1>2 DEF IInv, TypeOK, Linked, Listed, Custody, CustodyState, ThreadShape
  <2>3. /\ \A u \in Thread :
             /\ Walking(u)' => Walking(u) /\ head'[u] = head[u]
             /\ pc'[u] = "gc_swap" => next_free[Root] # NULL
             /\ Dropping(u)' /\ pc'[u] # "gc_swap" => next_free[Root] = NULL
        /\ next_free[Root] = NULL => tree' # "alive"
        /\ tree' = "dropped" => next_free[Root] = NULL
    BY <1>1, <1>2 DEF IInv, TypeOK, Walking, Dropping, ThreadShape, LinksSound
  <2>4. QED
    BY <2>1, <2>2, <2>3, LinksFrame DEF IInv
<1>13. RefcountExact'
  <2>1. \A m \in Node :
           refcount'[m] - refcount[m]
             = (strong'[m] - strong[m])
               + (Bit(pc'[t] \in HoldingState /\ node'[t] = m)
                    - Bit(pc[t] \in HoldingState /\ node[t] = m))
               + (Bit(Root \in alloc' /\ parent'[Root] = m) - Bit(Root \in alloc /\ parent[Root] = m))
               + (Bit(Listed(m)') - Bit(Listed(m)))
               + (Bit(m = Root /\ tree' # "dropped") - Bit(m = Root /\ tree # "dropped"))
    BY <1>1, <1>2 DEF IInv, TypeOK, ThreadShape, Bit, Listed, Custody, CustodyState, HoldingState
  <2>2. /\ \A u \in Thread \ {t} : pc'[u] = pc[u] /\ node'[u] = node[u]
        /\ Root \in Node
        /\ \A d \in Node \ {Root} : (d \in alloc' <=> d \in alloc) /\ parent'[d] = parent[d]
    BY <1>1, <1>2 DEF IInv, TypeOK
  <2>3. QED
    BY <1>3, <2>1, <2>2, RefcountStep DEF IInv
<1>14. QED
  BY <1>3, <1>4, <1>5, <1>6, <1>7, <1>8, <1>9, <1>10, <1>11, <1>12, <1>13 DEF IInv

\* Another thread has found the node meanwhile: the pretended count goes.
LEMMA StepUnlinkResurrected ==
  ASSUME IInv, NEW t \in Thread, UnlinkResurrected(t)
  PROVE  IInv'
<1>1. /\ refcount' = [refcount EXCEPT ![node[t]] = @ - 1]
      /\ pc' = [pc EXCEPT ![t] = "unlock"]
      /\ node' = [node EXCEPT ![t] = NULL]
      /\ UNCHANGED <<alloc, next_free, children, parent, key, strong, tree, approximate_free_count, head, base, want, ret, job>>
  BY DEF UnlinkResurrected, Goto, heap, world, locals, SubRef
<1>2. /\ node[t] \in Node /\ node[t] # Root /\ node[t] \in alloc /\ refcount[node[t]] \in Nat
      /\ Custody(t, node[t]) /\ \A u \in Thread \ {t} : ~ Custody(u, node[t])
      /\ pc[t] = "unlink_dec" /\ refcount[node[t]] > 1 /\ next_free[node[t]] = NULL
      /\ parent[node[t]] \in Node /\ base[t] = parent[node[t]]
  BY Counted DEF UnlinkResurrected, IInv, TypeOK, HeapShape, ThreadShape, NextFreeShape, OneCustody, Custody, CustodyState, HoldingState
<1>3. TypeOK'
  BY <1>1, <1>2 DEF IInv, TypeOK, ControlState
<1>4. HeapShape'
  BY <1>1, <1>2, HeapFrame DEF IInv, TypeOK, ThreadShape, CustodyState
<1>5. ThreadShape'
  BY <1>1, <1>2 DEF IInv, TypeOK, HeapShape, ThreadShape, CustodyState, EnsureState, SpinState, WriteState, Dropping
<1>6. LocksExclusive'
  BY <1>1, <1>2 DEF IInv, TypeOK, LocksExclusive, WriteState
<1>7. OneDropper'
  BY <1>1, <1>2 DEF IInv, TypeOK, OneDropper, Dropping
<1>8. OneCustody'
  BY <1>1, <1>2 DEF IInv, TypeOK, OneCustody, Custody, CustodyState
<1>9. PoppedIsFree'
  BY <1>1, <1>2 DEF IInv, TypeOK, PoppedIsFree, Custody, CustodyState
<1>10. OnlySpinnersResurrect'
  <2>1. \A u \in Thread : pc'[u] = "pretend" =>
           \/ refcount'[node'[u]] = 0
           \/ \E v \in Thread : pc'[v] \in SpinState /\ node'[v] = node'[u]
           \/ /\ pc[u] = "pretend" /\ node'[u] = node[u] /\ refcount[node[u]] > 0
              /\ \A v \in Thread : pc[v] \in SpinState /\ node[v] = node[u]
                                     => pc'[v] \in SpinState /\ node'[v] = node[v]
    BY <1>1, <1>2 DEF IInv, TypeOK, SpinState, ThreadShape, CustodyState
  <2>2. QED
    BY <2>1, SpinnersFrame DEF IInv
<1>11. NextFreeShape'
  BY <1>1, <1>2 DEF IInv, TypeOK, NextFreeShape, OneCustody, PoppedIsFree, Custody, CustodyState, ThreadShape
<1>12. LinksSound'
  <2>1. \A x \in Node : Listed(x)' <=> Listed(x)
    BY <1>1, <1>2 DEF IInv, TypeOK, Listed, Custody, CustodyState, ThreadShape
  <2>2. \A x \in Node : Linked(x) => next_free'[x] = next_free[x]
    BY <1>1, <1>2 DEF IInv, TypeOK, Linked, Listed, Custody, CustodyState, ThreadShape
  <2>3. /\ \A u \in Thread :
             /\ Walking(u)' => Walking(u) /\ head'[u] = head[u]
             /\ pc'[u] = "gc_swap" => next_free[Root] # NULL
             /\ Dropping(u)' /\ pc'[u] # "gc_swap" => next_free[Root] = NULL
        /\ next_free[Root] = NULL => tree' # "alive"
        /\ tree' = "dropped" => next_free[Root] = NULL
    BY <1>1, <1>2 DEF IInv, TypeOK, Walking, Dropping, ThreadShape, LinksSound
  <2>4. QED
    BY <2>1, <2>2, <2>3, LinksFrame DEF IInv
<1>13. RefcountExact'
  <2>1. \A m \in Node :
           refcount'[m] - refcount[m]
             = (strong'[m] - strong[m])
               + (Bit(pc'[t] \in HoldingState /\ node'[t] = m)
                    - Bit(pc[t] \in HoldingState /\ node[t] = m))
               + (Bit(Root \in alloc' /\ parent'[Root] = m) - Bit(Root \in alloc /\ parent[Root] = m))
               + (Bit(Listed(m)') - Bit(Listed(m)))
               + (Bit(m = Root /\ tree' # "dropped") - Bit(m = Root /\ tree # "dropped"))
    BY <1>1, <1>2 DEF IInv, TypeOK, ThreadShape, Bit, Listed, Custody, CustodyState, HoldingState
  <2>2. /\ \A u \in Thread \ {t} : pc'[u] = pc[u] /\ node'[u] = node[u]
        /\ Root \in Node
        /\ \A d \in Node \ {Root} : (d \in alloc' <=> d \in alloc) /\ parent'[d] = parent[d]
    BY <1>1, <1>2 DEF IInv, TypeOK
  <2>3. QED
    BY <1>3, <2>1, <2>2, RefcountStep DEF IInv
<1>14. QED
  BY <1>3, <1>4, <1>5, <1>6, <1>7, <1>8, <1>9, <1>10, <1>11, <1>12, <1>13 DEF IInv

\* The guard of the early return goes: nothing but the lock changes.
LEMMA StepUnlock ==
  ASSUME IInv, NEW t \in Thread, Unlock(t)
  PROVE  IInv'
<1>1. /\ pc' = [pc EXCEPT ![t] = IF job[t] = "drop" THEN "idle" ELSE "gc_pop"]
      /\ node' = [node EXCEPT ![t] = NULL]
      /\ base' = [base EXCEPT ![t] = NULL]
      /\ ret' = [ret EXCEPT ![t] = "none"]
      /\ job' = [job EXCEPT ![t] = IF @ = "drop" THEN "none" ELSE @]
      /\ UNCHANGED <<alloc, refcount, next_free, children, parent, key, strong, tree, approximate_free_count, head, want>>
  BY DEF Unlock, Goto, heap, world, locals, Return
<1>2. pc[t] = "unlock" /\ node[t] = NULL /\ job[t] \in {"drop", "gc", "droptree"}
  BY DEF Unlock, IInv, TypeOK, ThreadShape, EnsureState
<1>3. TypeOK'
  BY <1>1, <1>2 DEF IInv, TypeOK, ControlState
<1>4. HeapShape'
  BY <1>1, <1>2, HeapFrame DEF IInv, TypeOK, ThreadShape, CustodyState
<1>5. ThreadShape'
  BY <1>1, <1>2 DEF IInv, TypeOK, HeapShape, ThreadShape, CustodyState, EnsureState, SpinState, WriteState, Dropping
<1>6. LocksExclusive'
  BY <1>1, <1>2 DEF IInv, TypeOK, LocksExclusive, WriteState
<1>7. OneDropper'
  BY <1>1, <1>2 DEF IInv, TypeOK, OneDropper, Dropping
<1>8. OneCustody'
  BY <1>1, <1>2 DEF IInv, TypeOK, OneCustody, Custody, CustodyState
<1>9. PoppedIsFree'
  BY <1>1, <1>2 DEF IInv, TypeOK, PoppedIsFree, Custody, CustodyState
<1>10. OnlySpinnersResurrect'
  <2>1. \A u \in Thread : pc'[u] = "pretend" =>
           \/ refcount'[node'[u]] = 0
           \/ \E v \in Thread : pc'[v] \in SpinState /\ node'[v] = node'[u]
           \/ /\ pc[u] = "pretend" /\ node'[u] = node[u] /\ refcount[node[u]] > 0
              /\ \A v \in Thread : pc[v] \in SpinState /\ node[v] = node[u]
                                     => pc'[v] \in SpinState /\ node'[v] = node[v]
    BY <1>1, <1>2 DEF IInv, TypeOK, SpinState, ThreadShape, CustodyState
  <2>2. QED
    BY <2>1, SpinnersFrame DEF IInv
<1>11. NextFreeShape'
  BY <1>1, <1>2 DEF IInv, TypeOK, NextFreeShape, OneCustody, PoppedIsFree, Custody, CustodyState, ThreadShape
<1>12. LinksSound'
  <2>1. \A x \in Node : Listed(x)' <=> Listed(x)
    BY <1>1, <1>2 DEF IInv, TypeOK, Listed, Custody, CustodyState, ThreadShape
  <2>2. \A x \in Node : Linked(x) => next_free'[x] = next_free[x]
    BY <1>1, <1>2 DEF IInv, TypeOK, Linked, Listed, Custody, CustodyState, ThreadShape
  <2>3. /\ \A u \in Thread :
             /\ Walking(u)' => Walking(u) /\ head'[u] = head[u]
             /\ pc'[u] = "gc_swap" => next_free[Root] # NULL
             /\ Dropping(u)' /\ pc'[u] # "gc_swap" => next_free[Root] = NULL
        /\ next_free[Root] = NULL => tree' # "alive"
        /\ tree' = "dropped" => next_free[Root] = NULL
    BY <1>1, <1>2 DEF IInv, TypeOK, Walking, Dropping, ThreadShape, LinksSound
  <2>4. QED
    BY <2>1, <2>2, <2>3, LinksFrame DEF IInv
<1>13. RefcountExact'
  <2>1. \A m \in Node :
           refcount'[m] - refcount[m]
             = (strong'[m] - strong[m])
               + (Bit(pc'[t] \in HoldingState /\ node'[t] = m)
                    - Bit(pc[t] \in HoldingState /\ node[t] = m))
               + (Bit(Root \in alloc' /\ parent'[Root] = m) - Bit(Root \in alloc /\ parent[Root] = m))
               + (Bit(Listed(m)') - Bit(Listed(m)))
               + (Bit(m = Root /\ tree' # "dropped") - Bit(m = Root /\ tree # "dropped"))
    BY <1>1, <1>2 DEF IInv, TypeOK, ThreadShape, Bit, Listed, Custody, CustodyState, HoldingState
  <2>2. /\ \A u \in Thread \ {t} : pc'[u] = pc[u] /\ node'[u] = node[u]
        /\ Root \in Node
        /\ \A d \in Node \ {Root} : (d \in alloc' <=> d \in alloc) /\ parent'[d] = parent[d]
    BY <1>1, <1>2 DEF IInv, TypeOK
  <2>3. QED
    BY <1>3, <2>1, <2>2, RefcountStep DEF IInv
<1>14. QED
  BY <1>3, <1>4, <1>5, <1>6, <1>7, <1>8, <1>9, <1>10, <1>11, <1>12, <1>13 DEF IInv

\* A handle is cloned: the node it comes from is alive, so its count is not zero.
LEMMA StepClone ==
  ASSUME IInv, NEW t \in Thread, NEW n \in Node, Clone(t, n)
  PROVE  IInv'
<1>1. /\ refcount' = [refcount EXCEPT ![n] = @ + 1]
      /\ strong' = [strong EXCEPT ![n] = @ + 1]
      /\ UNCHANGED <<alloc, next_free, children, parent, key, tree, approximate_free_count, pc, node, head, base, want, ret, job>>
  BY DEF Clone, Goto, heap, world, locals, AddRef
<1>2. n \in alloc /\ refcount[n] \in Nat /\ refcount[n] > 0 /\ strong[n] \in Nat
  BY Counted, Alive DEF Clone, Reachable, IInv, TypeOK
<1>3. TypeOK'
  BY <1>1, <1>2 DEF IInv, TypeOK, ControlState
<1>4. HeapShape'
  BY <1>1, <1>2, HeapFrame DEF IInv, TypeOK, ThreadShape, CustodyState
<1>5. ThreadShape'
  BY <1>1, <1>2 DEF IInv, TypeOK, HeapShape, ThreadShape, CustodyState, EnsureState, SpinState, WriteState, Dropping
<1>6. LocksExclusive'
  BY <1>1, <1>2 DEF IInv, TypeOK, LocksExclusive, WriteState
<1>7. OneDropper'
  BY <1>1, <1>2 DEF IInv, TypeOK, OneDropper, Dropping
<1>8. OneCustody'
  BY <1>1, <1>2 DEF IInv, TypeOK, OneCustody, Custody, CustodyState
<1>9. PoppedIsFree'
  BY <1>1, <1>2 DEF IInv, TypeOK, PoppedIsFree, Custody, CustodyState
<1>10. OnlySpinnersResurrect'
  <2>1. \A u \in Thread : pc'[u] = "pretend" =>
           \/ refcount'[node'[u]] = 0
           \/ \E v \in Thread : pc'[v] \in SpinState /\ node'[v] = node'[u]
           \/ /\ pc[u] = "pretend" /\ node'[u] = node[u] /\ refcount[node[u]] > 0
              /\ \A v \in Thread : pc[v] \in SpinState /\ node[v] = node[u]
                                     => pc'[v] \in SpinState /\ node'[v] = node[v]
    BY <1>1, <1>2 DEF IInv, TypeOK, SpinState, ThreadShape, CustodyState
  <2>2. QED
    BY <2>1, SpinnersFrame DEF IInv
<1>11. NextFreeShape'
  BY <1>1, <1>2 DEF IInv, TypeOK, NextFreeShape, OneCustody, PoppedIsFree, Custody, CustodyState, ThreadShape
<1>12. LinksSound'
  <2>1. \A x \in Node : Listed(x)' <=> Listed(x)
    BY <1>1, <1>2 DEF IInv, TypeOK, Listed, Custody, CustodyState, ThreadShape
  <2>2. \A x \in Node : Linked(x) => next_free'[x] = next_free[x]
    BY <1>1, <1>2 DEF IInv, TypeOK, Linked, Listed, Custody, CustodyState, ThreadShape
  <2>3. /\ \A u \in Thread :
             /\ Walking(u)' => Walking(u) /\ head'[u] = head[u]
             /\ pc'[u] = "gc_swap" => next_free[Root] # NULL
             /\ Dropping(u)' /\ pc'[u] # "gc_swap" => next_free[Root] = NULL
        /\ next_free[Root] = NULL => tree' # "alive"
        /\ tree' = "dropped" => next_free[Root] = NULL
    BY <1>1, <1>2 DEF IInv, TypeOK, Walking, Dropping, ThreadShape, LinksSound
  <2>4. QED
    BY <2>1, <2>2, <2>3, LinksFrame DEF IInv
<1>13. RefcountExact'
  <2>1. \A m \in Node :
           refcount'[m] - refcount[m]
             = (strong'[m] - strong[m])
               + (Bit(pc'[t] \in HoldingState /\ node'[t] = m)
                    - Bit(pc[t] \in HoldingState /\ node[t] = m))
               + (Bit(Root \in alloc' /\ parent'[Root] = m) - Bit(Root \in alloc /\ parent[Root] = m))
               + (Bit(Listed(m)') - Bit(Listed(m)))
               + (Bit(m = Root /\ tree' # "dropped") - Bit(m = Root /\ tree # "dropped"))
    BY <1>1, <1>2 DEF IInv, TypeOK, ThreadShape, Bit, Listed, Custody, CustodyState, HoldingState
  <2>2. /\ \A u \in Thread \ {t} : pc'[u] = pc[u] /\ node'[u] = node[u]
        /\ Root \in Node
        /\ \A d \in Node \ {Root} : (d \in alloc' <=> d \in alloc) /\ parent'[d] = parent[d]
    BY <1>1, <1>2 DEF IInv, TypeOK
  <2>3. QED
    BY <1>3, <2>1, <2>2, RefcountStep DEF IInv
<1>14. QED
  BY <1>3, <1>4, <1>5, <1>6, <1>7, <1>8, <1>9, <1>10, <1>11, <1>12, <1>13 DEF IInv

\* A handle is dropped that is not the last owner.
LEMMA StepStrongDropKept ==
  ASSUME IInv, NEW t \in Thread, NEW n \in Node, StrongDrop(t, n),
         refcount[n] # 1
  PROVE  IInv'
<1>1. /\ refcount' = [refcount EXCEPT ![n] = @ - 1]
      /\ strong' = [strong EXCEPT ![n] = @ - 1]
      /\ UNCHANGED <<alloc, next_free, children, parent, key, tree, approximate_free_count, pc, node, head, base, want, ret, job>>
  BY DEF StrongDrop, Goto, heap, world, locals, SubRef
<1>2. /\ pc[t] = "idle" /\ node[t] = NULL /\ base[t] = NULL /\ strong[n] \in Nat /\ strong[n] > 0
      /\ refcount[n] \in Nat /\ n \in alloc
      /\ \A u \in Thread : pc[u] \in EnsureState /\ base[u] = n /\ n # Root => strong[n] > 1
      /\ refcount[n] > 1
  <2>1. pc[t] = "idle" /\ strong[n] > 0
    BY DEF StrongDrop, CanCall
  <2>2. refcount[n] > 0 /\ n \in alloc /\ refcount[n] \in Nat /\ strong[n] \in Nat
    BY <2>1, Counted, Alive DEF IInv, TypeOK
  <2>3. \A u \in Thread : pc[u] \in EnsureState /\ base[u] = n /\ n # Root => strong[n] > 1
    BY DEF StrongDrop, Borrowed, EnsureState
  <2>4. node[t] = NULL /\ base[t] = NULL
    BY <2>1 DEF IInv, ThreadShape, EnsureState, WriteState
  <2>5. QED
    BY <2>1, <2>2, <2>3, <2>4
<1>3. TypeOK'
  BY <1>1, <1>2 DEF IInv, TypeOK, ControlState
<1>4. HeapShape'
  BY <1>1, <1>2, HeapFrame DEF IInv, TypeOK, ThreadShape, CustodyState
<1>5. ThreadShape'
  BY <1>1, <1>2 DEF IInv, TypeOK, HeapShape, ThreadShape, CustodyState, EnsureState, SpinState, WriteState, Dropping
<1>6. LocksExclusive'
  BY <1>1, <1>2 DEF IInv, TypeOK, LocksExclusive, WriteState
<1>7. OneDropper'
  BY <1>1, <1>2 DEF IInv, TypeOK, OneDropper, Dropping
<1>8. OneCustody'
  BY <1>1, <1>2 DEF IInv, TypeOK, OneCustody, Custody, CustodyState
<1>9. PoppedIsFree'
  BY <1>1, <1>2 DEF IInv, TypeOK, PoppedIsFree, Custody, CustodyState
<1>10. OnlySpinnersResurrect'
  <2>1. \A u \in Thread : pc'[u] = "pretend" =>
           \/ refcount'[node'[u]] = 0
           \/ \E v \in Thread : pc'[v] \in SpinState /\ node'[v] = node'[u]
           \/ /\ pc[u] = "pretend" /\ node'[u] = node[u] /\ refcount[node[u]] > 0
              /\ \A v \in Thread : pc[v] \in SpinState /\ node[v] = node[u]
                                     => pc'[v] \in SpinState /\ node'[v] = node[v]
    BY <1>1, <1>2 DEF IInv, TypeOK, SpinState, ThreadShape, CustodyState
  <2>2. QED
    BY <2>1, SpinnersFrame DEF IInv
<1>11. NextFreeShape'
  BY <1>1, <1>2 DEF IInv, TypeOK, NextFreeShape, OneCustody, PoppedIsFree, Custody, CustodyState, ThreadShape
<1>12. LinksSound'
  <2>1. \A x \in Node : Listed(x)' <=> Listed(x)
    BY <1>1, <1>2 DEF IInv, TypeOK, Listed, Custody, CustodyState, ThreadShape
  <2>2. \A x \in Node : Linked(x) => next_free'[x] = next_free[x]
    BY <1>1, <1>2 DEF IInv, TypeOK, Linked, Listed, Custody, CustodyState, ThreadShape
  <2>3. /\ \A u \in Thread :
             /\ Walking(u)' => Walking(u) /\ head'[u] = head[u]
             /\ pc'[u] = "gc_swap" => next_free[Root] # NULL
             /\ Dropping(u)' /\ pc'[u] # "gc_swap" => next_free[Root] = NULL
        /\ next_free[Root] = NULL => tree' # "alive"
        /\ tree' = "dropped" => next_free[Root] = NULL
    BY <1>1, <1>2 DEF IInv, TypeOK, Walking, Dropping, ThreadShape, LinksSound
  <2>4. QED
    BY <2>1, <2>2, <2>3, LinksFrame DEF IInv
<1>13. RefcountExact'
  <2>1. \A m \in Node :
           refcount'[m] - refcount[m]
             = (strong'[m] - strong[m])
               + (Bit(pc'[t] \in HoldingState /\ node'[t] = m)
                    - Bit(pc[t] \in HoldingState /\ node[t] = m))
               + (Bit(Root \in alloc' /\ parent'[Root] = m) - Bit(Root \in alloc /\ parent[Root] = m))
               + (Bit(Listed(m)') - Bit(Listed(m)))
               + (Bit(m = Root /\ tree' # "dropped") - Bit(m = Root /\ tree # "dropped"))
    BY <1>1, <1>2 DEF IInv, TypeOK, ThreadShape, Bit, Listed, Custody, CustodyState, HoldingState
  <2>2. /\ \A u \in Thread \ {t} : pc'[u] = pc[u] /\ node'[u] = node[u]
        /\ Root \in Node
        /\ \A d \in Node \ {Root} : (d \in alloc' <=> d \in alloc) /\ parent'[d] = parent[d]
    BY <1>1, <1>2 DEF IInv, TypeOK
  <2>3. QED
    BY <1>3, <2>1, <2>2, RefcountStep DEF IInv
<1>14. QED
  BY <1>3, <1>4, <1>5, <1>6, <1>7, <1>8, <1>9, <1>10, <1>11, <1>12, <1>13 DEF IInv

\* The last owner of a node is a handle: whoever drops it is alone with the node.
LEMMA StepStrongDropLast ==
  ASSUME IInv, NEW t \in Thread, NEW n \in Node, StrongDrop(t, n),
         refcount[n] = 1, n # Root
  PROVE  IInv'
<1>1. /\ refcount' = [refcount EXCEPT ![n] = @ - 1]
      /\ strong' = [strong EXCEPT ![n] = @ - 1]
      /\ pc' = [pc EXCEPT ![t] = "pretend"]
      /\ node' = [node EXCEPT ![t] = n]
      /\ ret' = [ret EXCEPT ![t] = "push_count"]
      /\ job' = [job EXCEPT ![t] = "drop"]
      /\ UNCHANGED <<alloc, next_free, children, parent, key, tree, approximate_free_count, head, base, want>>
  BY DEF StrongDrop, Goto, heap, world, locals, SubRef, OnZero
<1>2. /\ pc[t] = "idle" /\ node[t] = NULL /\ base[t] = NULL /\ strong[n] \in Nat /\ strong[n] > 0
      /\ refcount[n] \in Nat /\ n \in alloc
      /\ \A u \in Thread : pc[u] \in EnsureState /\ base[u] = n /\ n # Root => strong[n] > 1
      /\ strong[n] = 1
      /\ \A u \in Thread : ~ Custody(u, n)
      /\ \A u \in Thread \ {t} : pc[u] \in CustodyState \cup HoldingState => node[u] # n
      /\ next_free[n] = NULL /\ ~ Listed(n)
  <2>1. pc[t] = "idle" /\ strong[n] > 0
    BY DEF StrongDrop, CanCall
  <2>2. /\ strong[n] = 1 /\ ~ Listed(n)
        /\ \A u \in Thread : ~ (pc[u] \in HoldingState /\ node[u] = n)
    BY <2>1, LastHandle DEF IInv
  <2>3. pc[t] \notin CustodyState \cup SpinState
    BY <2>1 DEF CustodyState, SpinState
  <2>4. n \in alloc /\ next_free[n] = NULL /\ \A u \in Thread : ~ Custody(u, n)
    BY <2>2, <2>3, LastIsAlone
  <2>5. \A u \in Thread : pc[u] \in EnsureState /\ base[u] = n /\ n # Root => strong[n] > 1
    BY DEF StrongDrop, Borrowed, EnsureState
  <2>6. node[t] = NULL /\ base[t] = NULL
    BY <2>1 DEF IInv, ThreadShape, EnsureState, WriteState
  <2>7. QED
    BY <2>1, <2>2, <2>4, <2>5, <2>6 DEF Custody
<1>3. TypeOK'
  BY <1>1, <1>2 DEF IInv, TypeOK, ControlState
<1>4. HeapShape'
  BY <1>1, <1>2, HeapFrame DEF IInv, TypeOK, ThreadShape, CustodyState
<1>5. ThreadShape'
  BY <1>1, <1>2 DEF IInv, TypeOK, HeapShape, ThreadShape, CustodyState, EnsureState, SpinState, WriteState, Dropping
<1>6. LocksExclusive'
  BY <1>1, <1>2 DEF IInv, TypeOK, LocksExclusive, WriteState
<1>7. OneDropper'
  BY <1>1, <1>2 DEF IInv, TypeOK, OneDropper, Dropping
<1>8. OneCustody'
  BY <1>1, <1>2 DEF IInv, TypeOK, OneCustody, Custody, CustodyState
<1>9. PoppedIsFree'
  BY <1>1, <1>2 DEF IInv, TypeOK, PoppedIsFree, Custody, CustodyState, HoldingState
<1>10. OnlySpinnersResurrect'
  <2>1. \A u \in Thread : pc'[u] = "pretend" =>
           \/ refcount'[node'[u]] = 0
           \/ \E v \in Thread : pc'[v] \in SpinState /\ node'[v] = node'[u]
           \/ /\ pc[u] = "pretend" /\ node'[u] = node[u] /\ refcount[node[u]] > 0
              /\ \A v \in Thread : pc[v] \in SpinState /\ node[v] = node[u]
                                     => pc'[v] \in SpinState /\ node'[v] = node[v]
    BY <1>1, <1>2 DEF IInv, TypeOK, SpinState, ThreadShape, CustodyState
  <2>2. QED
    BY <2>1, SpinnersFrame DEF IInv
<1>11. NextFreeShape'
  BY <1>1, <1>2 DEF IInv, TypeOK, NextFreeShape, OneCustody, PoppedIsFree, Custody, CustodyState, ThreadShape
<1>12. LinksSound'
  <2>1. \A x \in Node : Listed(x)' <=> Listed(x)
    BY <1>1, <1>2 DEF IInv, TypeOK, Listed, Custody, CustodyState, ThreadShape
  <2>2. \A x \in Node : Linked(x) => next_free'[x] = next_free[x]
    BY <1>1, <1>2 DEF IInv, TypeOK, Linked, Listed, Custody, CustodyState, ThreadShape
  <2>3. /\ \A u \in Thread :
             /\ Walking(u)' => Walking(u) /\ head'[u] = head[u]
             /\ pc'[u] = "gc_swap" => next_free[Root] # NULL
             /\ Dropping(u)' /\ pc'[u] # "gc_swap" => next_free[Root] = NULL
        /\ next_free[Root] = NULL => tree' # "alive"
        /\ tree' = "dropped" => next_free[Root] = NULL
    BY <1>1, <1>2 DEF IInv, TypeOK, Walking, Dropping, ThreadShape, LinksSound
  <2>4. QED
    BY <2>1, <2>2, <2>3, LinksFrame DEF IInv
<1>13. RefcountExact'
  <2>1. \A m \in Node :
           refcount'[m] - refcount[m]
             = (strong'[m] - strong[m])
               + (Bit(pc'[t] \in HoldingState /\ node'[t] = m)
                    - Bit(pc[t] \in HoldingState /\ node[t] = m))
               + (Bit(Root \in alloc' /\ parent'[Root] = m) - Bit(Root \in alloc /\ parent[Root] = m))
               + (Bit(Listed(m)') - Bit(Listed(m)))
               + (Bit(m = Root /\ tree' # "dropped") - Bit(m = Root /\ tree # "dropped"))
    BY <1>1, <1>2 DEF IInv, TypeOK, ThreadShape, Bit, Listed, Custody, CustodyState, HoldingState
  <2>2. /\ \A u \in Thread \ {t} : pc'[u] = pc[u] /\ node'[u] = node[u]
        /\ Root \in Node
        /\ \A d \in Node \ {Root} : (d \in alloc' <=> d \in alloc) /\ parent'[d] = parent[d]
    BY <1>1, <1>2 DEF IInv, TypeOK
  <2>3. QED
    BY <1>3, <2>1, <2>2, RefcountStep DEF IInv
<1>14. QED
  BY <1>3, <1>4, <1>5, <1>6, <1>7, <1>8, <1>9, <1>10, <1>11, <1>12, <1>13 DEF IInv

\* The last owner of the root is a handle: the tree is gone.
LEMMA StepStrongDropRoot ==
  ASSUME IInv, NEW t \in Thread, NEW n \in Node, StrongDrop(t, n),
         refcount[n] = 1, n = Root
  PROVE  IInv'
<1>1. /\ refcount' = [refcount EXCEPT ![n] = @ - 1]
      /\ strong' = [strong EXCEPT ![n] = @ - 1]
      /\ pc' = [pc EXCEPT ![t] = "free_root"]
      /\ node' = [node EXCEPT ![t] = n]
      /\ ret' = [ret EXCEPT ![t] = "push_count"]
      /\ job' = [job EXCEPT ![t] = "drop"]
      /\ UNCHANGED <<alloc, next_free, children, parent, key, tree, approximate_free_count, head, base, want>>
  BY DEF StrongDrop, Goto, heap, world, locals, SubRef, OnZero
<1>2. /\ pc[t] = "idle" /\ node[t] = NULL /\ base[t] = NULL /\ strong[n] \in Nat /\ strong[n] > 0
      /\ refcount[n] \in Nat /\ n \in alloc
      /\ \A u \in Thread : pc[u] \in EnsureState /\ base[u] = n /\ n # Root => strong[n] > 1
      /\ strong[n] = 1
      /\ \A u \in Thread : pc[u] \in HoldingState => node[u] # n
      /\ tree = "dropped" /\ \A u \in Thread : pc[u] # "free_root"
  BY LastHandle, Alive DEF StrongDrop, CanCall, Borrowed, IInv, TypeOK, ThreadShape, EnsureState, WriteState, SpinState
<1>3. TypeOK'
  BY <1>1, <1>2 DEF IInv, TypeOK, ControlState
<1>4. HeapShape'
  BY <1>1, <1>2, HeapFrame DEF IInv, TypeOK, ThreadShape, CustodyState
<1>5. ThreadShape'
  BY <1>1, <1>2 DEF IInv, TypeOK, HeapShape, ThreadShape, CustodyState, EnsureState, SpinState, WriteState, Dropping
<1>6. LocksExclusive'
  BY <1>1, <1>2 DEF IInv, TypeOK, LocksExclusive, WriteState
<1>7. OneDropper'
  BY <1>1, <1>2 DEF IInv, TypeOK, OneDropper, Dropping
<1>8. OneCustody'
  BY <1>1, <1>2 DEF IInv, TypeOK, OneCustody, Custody, CustodyState
<1>9. PoppedIsFree'
  BY <1>1, <1>2 DEF IInv, TypeOK, PoppedIsFree, Custody, CustodyState
<1>10. OnlySpinnersResurrect'
  <2>1. \A u \in Thread : pc'[u] = "pretend" =>
           \/ refcount'[node'[u]] = 0
           \/ \E v \in Thread : pc'[v] \in SpinState /\ node'[v] = node'[u]
           \/ /\ pc[u] = "pretend" /\ node'[u] = node[u] /\ refcount[node[u]] > 0
              /\ \A v \in Thread : pc[v] \in SpinState /\ node[v] = node[u]
                                     => pc'[v] \in SpinState /\ node'[v] = node[v]
    BY <1>1, <1>2 DEF IInv, TypeOK, SpinState, ThreadShape, CustodyState
  <2>2. QED
    BY <2>1, SpinnersFrame DEF IInv
<1>11. NextFreeShape'
  BY <1>1, <1>2 DEF IInv, TypeOK, NextFreeShape, OneCustody, PoppedIsFree, Custody, CustodyState, ThreadShape
<1>12. LinksSound'
  <2>1. \A x \in Node : Listed(x)' <=> Listed(x)
    BY <1>1, <1>2 DEF IInv, TypeOK, Listed, Custody, CustodyState, ThreadShape
  <2>2. \A x \in Node : Linked(x) => next_free'[x] = next_free[x]
    BY <1>1, <1>2 DEF IInv, TypeOK, Linked, Listed, Custody, CustodyState, ThreadShape
  <2>3. /\ \A u \in Thread :
             /\ Walking(u)' => Walking(u) /\ head'[u] = head[u]
             /\ pc'[u] = "gc_swap" => next_free[Root] # NULL
             /\ Dropping(u)' /\ pc'[u] # "gc_swap" => next_free[Root] = NULL
        /\ next_free[Root] = NULL => tree' # "alive"
        /\ tree' = "dropped" => next_free[Root] = NULL
    BY <1>1, <1>2 DEF IInv, TypeOK, Walking, Dropping, ThreadShape, LinksSound
  <2>4. QED
    BY <2>1, <2>2, <2>3, LinksFrame DEF IInv
<1>13. RefcountExact'
  <2>1. \A m \in Node :
           refcount'[m] - refcount[m]
             = (strong'[m] - strong[m])
               + (Bit(pc'[t] \in HoldingState /\ node'[t] = m)
                    - Bit(pc[t] \in HoldingState /\ node[t] = m))
               + (Bit(Root \in alloc' /\ parent'[Root] = m) - Bit(Root \in alloc /\ parent[Root] = m))
               + (Bit(Listed(m)') - Bit(Listed(m)))
               + (Bit(m = Root /\ tree' # "dropped") - Bit(m = Root /\ tree # "dropped"))
    BY <1>1, <1>2 DEF IInv, TypeOK, ThreadShape, Bit, Listed, Custody, CustodyState, HoldingState
  <2>2. /\ \A u \in Thread \ {t} : pc'[u] = pc[u] /\ node'[u] = node[u]
        /\ Root \in Node
        /\ \A d \in Node \ {Root} : (d \in alloc' <=> d \in alloc) /\ parent'[d] = parent[d]
    BY <1>1, <1>2 DEF IInv, TypeOK
  <2>3. QED
    BY <1>3, <2>1, <2>2, RefcountStep DEF IInv
<1>14. QED
  BY <1>3, <1>4, <1>5, <1>6, <1>7, <1>8, <1>9, <1>10, <1>11, <1>12, <1>13 DEF IInv

\* The reference of a freed child to its parent is not the last owner.
LEMMA StepDropParentRefKept ==
  ASSUME IInv, NEW t \in Thread, DropParentRef(t),
         refcount[node[t]] # 1
  PROVE  IInv'
<1>1. /\ refcount' = [refcount EXCEPT ![node[t]] = @ - 1]
      /\ pc' = [pc EXCEPT ![t] = IF job[t] = "drop" THEN "idle" ELSE "gc_pop"]
      /\ node' = [node EXCEPT ![t] = NULL]
      /\ base' = [base EXCEPT ![t] = NULL]
      /\ ret' = [ret EXCEPT ![t] = "none"]
      /\ job' = [job EXCEPT ![t] = IF @ = "drop" THEN "none" ELSE @]
      /\ UNCHANGED <<alloc, next_free, children, parent, key, strong, tree, approximate_free_count, head, want>>
  BY DEF DropParentRef, Goto, heap, world, locals, SubRef, Return
<1>2. /\ pc[t] = "dec_parent" /\ node[t] \in Node /\ base[t] = NULL /\ job[t] \in {"drop", "gc", "droptree"}
      /\ node[t] \in alloc /\ refcount[node[t]] \in Nat
      /\ refcount[node[t]] > 1
  BY Counted, Alive DEF DropParentRef, IInv, TypeOK, ThreadShape, EnsureState, WriteState, SpinState, HoldingState, PoppedIsFree, NextFreeShape
<1>3. TypeOK'
  BY <1>1, <1>2 DEF IInv, TypeOK, ControlState
<1>4. HeapShape'
  BY <1>1, <1>2, HeapFrame DEF IInv, TypeOK, ThreadShape, CustodyState
<1>5. ThreadShape'
  BY <1>1, <1>2 DEF IInv, TypeOK, HeapShape, ThreadShape, CustodyState, EnsureState, SpinState, WriteState, Dropping
<1>6. LocksExclusive'
  BY <1>1, <1>2 DEF IInv, TypeOK, LocksExclusive, WriteState
<1>7. OneDropper'
  BY <1>1, <1>2 DEF IInv, TypeOK, OneDropper, Dropping
<1>8. OneCustody'
  BY <1>1, <1>2 DEF IInv, TypeOK, OneCustody, Custody, CustodyState
<1>9. PoppedIsFree'
  BY <1>1, <1>2 DEF IInv, TypeOK, PoppedIsFree, Custody, CustodyState
<1>10. OnlySpinnersResurrect'
  <2>1. \A u \in Thread : pc'[u] = "pretend" =>
           \/ refcount'[node'[u]] = 0
           \/ \E v \in Thread : pc'[v] \in SpinState /\ node'[v] = node'[u]
           \/ /\ pc[u] = "pretend" /\ node'[u] = node[u] /\ refcount[node[u]] > 0
              /\ \A v \in Thread : pc[v] \in SpinState /\ node[v] = node[u]
                                     => pc'[v] \in SpinState /\ node'[v] = node[v]
    BY <1>1, <1>2 DEF IInv, TypeOK, SpinState, ThreadShape, CustodyState
  <2>2. QED
    BY <2>1, SpinnersFrame DEF IInv
<1>11. NextFreeShape'
  BY <1>1, <1>2 DEF IInv, TypeOK, NextFreeShape, OneCustody, PoppedIsFree, Custody, CustodyState, ThreadShape
<1>12. LinksSound'
  <2>1. \A x \in Node : Listed(x)' <=> Listed(x)
    BY <1>1, <1>2 DEF IInv, TypeOK, Listed, Custody, CustodyState, ThreadShape
  <2>2. \A x \in Node : Linked(x) => next_free'[x] = next_free[x]
    BY <1>1, <1>2 DEF IInv, TypeOK, Linked, Listed, Custody, CustodyState, ThreadShape
  <2>3. /\ \A u \in Thread :
             /\ Walking(u)' => Walking(u) /\ head'[u] = head[u]
             /\ pc'[u] = "gc_swap" => next_free[Root] # NULL
             /\ Dropping(u)' /\ pc'[u] # "gc_swap" => next_free[Root] = NULL
        /\ next_free[Root] = NULL => tree' # "alive"
        /\ tree' = "dropped" => next_free[Root] = NULL
    BY <1>1, <1>2 DEF IInv, TypeOK, Walking, Dropping, ThreadShape, LinksSound
  <2>4. QED
    BY <2>1, <2>2, <2>3, LinksFrame DEF IInv
<1>13. RefcountExact'
  <2>1. \A m \in Node :
           refcount'[m] - refcount[m]
             = (strong'[m] - strong[m])
               + (Bit(pc'[t] \in HoldingState /\ node'[t] = m)
                    - Bit(pc[t] \in HoldingState /\ node[t] = m))
               + (Bit(Root \in alloc' /\ parent'[Root] = m) - Bit(Root \in alloc /\ parent[Root] = m))
               + (Bit(Listed(m)') - Bit(Listed(m)))
               + (Bit(m = Root /\ tree' # "dropped") - Bit(m = Root /\ tree # "dropped"))
    BY <1>1, <1>2 DEF IInv, TypeOK, ThreadShape, Bit, Listed, Custody, CustodyState, HoldingState
  <2>2. /\ \A u \in Thread \ {t} : pc'[u] = pc[u] /\ node'[u] = node[u]
        /\ Root \in Node
        /\ \A d \in Node \ {Root} : (d \in alloc' <=> d \in alloc) /\ parent'[d] = parent[d]
    BY <1>1, <1>2 DEF IInv, TypeOK
  <2>3. QED
    BY <1>3, <2>1, <2>2, RefcountStep DEF IInv
<1>14. QED
  BY <1>3, <1>4, <1>5, <1>6, <1>7, <1>8, <1>9, <1>10, <1>11, <1>12, <1>13 DEF IInv

\* It is the last one: the parent is dropped in its turn.
LEMMA StepDropParentRefLast ==
  ASSUME IInv, NEW t \in Thread, DropParentRef(t),
         refcount[node[t]] = 1, node[t] # Root
  PROVE  IInv'
<1>1. /\ refcount' = [refcount EXCEPT ![node[t]] = @ - 1]
      /\ pc' = [pc EXCEPT ![t] = "pretend"]
      /\ node' = [node EXCEPT ![t] = node[t]]
      /\ ret' = [ret EXCEPT ![t] = "unlink"]
      /\ UNCHANGED <<alloc, next_free, children, parent, key, strong, tree, approximate_free_count, head, base, want, job>>
  BY DEF DropParentRef, Goto, heap, world, locals, SubRef, OnZero
<1>2. /\ pc[t] = "dec_parent" /\ node[t] \in Node /\ base[t] = NULL /\ job[t] \in {"drop", "gc", "droptree"}
      /\ node[t] \in alloc /\ refcount[node[t]] \in Nat /\ strong[node[t]] = 0
      /\ \A u \in Thread : ~ Custody(u, node[t])
      /\ \A u \in Thread \ {t} : pc[u] \in CustodyState \cup HoldingState => node[u] # node[t]
      /\ next_free[node[t]] = NULL /\ ~ Listed(node[t])
  <2>1. pc[t] = "dec_parent" /\ pc[t] \in HoldingState /\ node[t] \in Node
    BY DEF DropParentRef, IInv, ThreadShape, HoldingState
  <2>2. /\ strong[node[t]] = 0 /\ ~ Listed(node[t])
        /\ \A u \in Thread : pc[u] \in HoldingState /\ node[u] = node[t] => u = t
        /\ ~ (node[t] = Root /\ tree # "dropped")
    BY <2>1, LastHolder DEF IInv
  <2>3. pc[t] \notin CustodyState \cup SpinState
    BY <2>1 DEF CustodyState, SpinState
  <2>4. node[t] \in alloc /\ (\A u \in Thread : ~ Custody(u, node[t])) /\ (node[t] # Root => next_free[node[t]] = NULL)
    BY <2>1, <2>2, <2>3, LastIsAlone
  <2>5. base[t] = NULL /\ job[t] \in {"drop", "gc", "droptree"}
    BY <2>1 DEF IInv, TypeOK, ThreadShape, EnsureState, WriteState
  <2>6. QED
    BY <2>1, <2>2, <2>4, <2>5 DEF Custody
<1>3. TypeOK'
  BY <1>1, <1>2 DEF IInv, TypeOK, ControlState
<1>4. HeapShape'
  BY <1>1, <1>2, HeapFrame DEF IInv, TypeOK, ThreadShape, CustodyState
<1>5. ThreadShape'
  BY <1>1, <1>2 DEF IInv, TypeOK, HeapShape, ThreadShape, CustodyState, EnsureState, SpinState, WriteState, Dropping
<1>6. LocksExclusive'
  BY <1>1, <1>2 DEF IInv, TypeOK, LocksExclusive, WriteState
<1>7. OneDropper'
  BY <1>1, <1>2 DEF IInv, TypeOK, OneDropper, Dropping
<1>8. OneCustody'
  BY <1>1, <1>2 DEF IInv, TypeOK, OneCustody, Custody, CustodyState
<1>9. PoppedIsFree'
  BY <1>1, <1>2 DEF IInv, TypeOK, PoppedIsFree, Custody, CustodyState, HoldingState
<1>10. OnlySpinnersResurrect'
  <2>1. \A u \in Thread : pc'[u] = "pretend" =>
           \/ refcount'[node'[u]] = 0
           \/ \E v \in Thread : pc'[v] \in SpinState /\ node'[v] = node'[u]
           \/ /\ pc[u] = "pretend" /\ node'[u] = node[u] /\ refcount[node[u]] > 0
              /\ \A v \in Thread : pc[v] \in SpinState /\ node[v] = node[u]
                                     => pc'[v] \in SpinState /\ node'[v] = node[v]
    BY <1>1, <1>2 DEF IInv, TypeOK, SpinState, ThreadShape, CustodyState
  <2>2. QED
    BY <2>1, SpinnersFrame DEF IInv
<1>11. NextFreeShape'
  BY <1>1, <1>2 DEF IInv, TypeOK, NextFreeShape, OneCustody, PoppedIsFree, Custody, CustodyState, ThreadShape
<1>12. LinksSound'
  <2>1. \A x \in Node : Listed(x)' <=> Listed(x)
    BY <1>1, <1>2 DEF IInv, TypeOK, Listed, Custody, CustodyState, ThreadShape
  <2>2. \A x \in Node : Linked(x) => next_free'[x] = next_free[x]
    BY <1>1, <1>2 DEF IInv, TypeOK, Linked, Listed, Custody, CustodyState, ThreadShape
  <2>3. /\ \A u \in Thread :
             /\ Walking(u)' => Walking(u) /\ head'[u] = head[u]
             /\ pc'[u] = "gc_swap" => next_free[Root] # NULL
             /\ Dropping(u)' /\ pc'[u] # "gc_swap" => next_free[Root] = NULL
        /\ next_free[Root] = NULL => tree' # "alive"
        /\ tree' = "dropped" => next_free[Root] = NULL
    BY <1>1, <1>2 DEF IInv, TypeOK, Walking, Dropping, ThreadShape, LinksSound
  <2>4. QED
    BY <2>1, <2>2, <2>3, LinksFrame DEF IInv
<1>13. RefcountExact'
  <2>1. \A m \in Node :
           refcount'[m] - refcount[m]
             = (strong'[m] - strong[m])
               + (Bit(pc'[t] \in HoldingState /\ node'[t] = m)
                    - Bit(pc[t] \in HoldingState /\ node[t] = m))
               + (Bit(Root \in alloc' /\ parent'[Root] = m) - Bit(Root \in alloc /\ parent[Root] = m))
               + (Bit(Listed(m)') - Bit(Listed(m)))
               + (Bit(m = Root /\ tree' # "dropped") - Bit(m = Root /\ tree # "dropped"))
    BY <1>1, <1>2 DEF IInv, TypeOK, ThreadShape, Bit, Listed, Custody, CustodyState, HoldingState
  <2>2. /\ \A u \in Thread \ {t} : pc'[u] = pc[u] /\ node'[u] = node[u]
        /\ Root \in Node
        /\ \A d \in Node \ {Root} : (d \in alloc' <=> d \in alloc) /\ parent'[d] = parent[d]
    BY <1>1, <1>2 DEF IInv, TypeOK
  <2>3. QED
    BY <1>3, <2>1, <2>2, RefcountStep DEF IInv
<1>14. QED
  BY <1>3, <1>4, <1>5, <1>6, <1>7, <1>8, <1>9, <1>10, <1>11, <1>12, <1>13 DEF IInv

\* It is the last one, and the parent is the root: the tree is gone.
LEMMA StepDropParentRefRoot ==
  ASSUME IInv, NEW t \in Thread, DropParentRef(t),
         refcount[node[t]] = 1, node[t] = Root
  PROVE  IInv'
<1>1. /\ refcount' = [refcount EXCEPT ![node[t]] = @ - 1]
      /\ pc' = [pc EXCEPT ![t] = "free_root"]
      /\ node' = [node EXCEPT ![t] = node[t]]
      /\ ret' = [ret EXCEPT ![t] = "unlink"]
      /\ UNCHANGED <<alloc, next_free, children, parent, key, strong, tree, approximate_free_count, head, base, want, job>>
  BY DEF DropParentRef, Goto, heap, world, locals, SubRef, OnZero
<1>2. /\ pc[t] = "dec_parent" /\ node[t] \in Node /\ base[t] = NULL /\ job[t] \in {"drop", "gc", "droptree"}
      /\ node[t] \in alloc /\ refcount[node[t]] \in Nat /\ strong[node[t]] = 0
      /\ \A u \in Thread \ {t} : pc[u] \in HoldingState => node[u] # node[t]
      /\ tree = "dropped" /\ \A u \in Thread : pc[u] # "free_root"
  BY LastHolder, Alive DEF DropParentRef, IInv, TypeOK, ThreadShape, EnsureState, WriteState, SpinState, HoldingState
<1>3. TypeOK'
  BY <1>1, <1>2 DEF IInv, TypeOK, ControlState
<1>4. HeapShape'
  BY <1>1, <1>2, HeapFrame DEF IInv, TypeOK, ThreadShape, CustodyState
<1>5. ThreadShape'
  BY <1>1, <1>2 DEF IInv, TypeOK, HeapShape, ThreadShape, CustodyState, EnsureState, SpinState, WriteState, Dropping
<1>6. LocksExclusive'
  BY <1>1, <1>2 DEF IInv, TypeOK, LocksExclusive, WriteState
<1>7. OneDropper'
  BY <1>1, <1>2 DEF IInv, TypeOK, OneDropper, Dropping
<1>8. OneCustody'
  BY <1>1, <1>2 DEF IInv, TypeOK, OneCustody, Custody, CustodyState
<1>9. PoppedIsFree'
  BY <1>1, <1>2 DEF IInv, TypeOK, PoppedIsFree, Custody, CustodyState
<1>10. OnlySpinnersResurrect'
  <2>1. \A u \in Thread : pc'[u] = "pretend" =>
           \/ refcount'[node'[u]] = 0
           \/ \E v \in Thread : pc'[v] \in SpinState /\ node'[v] = node'[u]
           \/ /\ pc[u] = "pretend" /\ node'[u] = node[u] /\ refcount[node[u]] > 0
              /\ \A v \in Thread : pc[v] \in SpinState /\ node[v] = node[u]
                                     => pc'[v] \in SpinState /\ node'[v] = node[v]
    BY <1>1, <1>2 DEF IInv, TypeOK, SpinState, ThreadShape, CustodyState
  <2>2. QED
    BY <2>1, SpinnersFrame DEF IInv
<1>11. NextFreeShape'
  BY <1>1, <1>2 DEF IInv, TypeOK, NextFreeShape, OneCustody, PoppedIsFree, Custody, CustodyState, ThreadShape
<1>12. LinksSound'
  <2>1. \A x \in Node : Listed(x)' <=> Listed(x)
    BY <1>1, <1>2 DEF IInv, TypeOK, Listed, Custody, CustodyState, ThreadShape
  <2>2. \A x \in Node : Linked(x) => next_free'[x] = next_free[x]
    BY <1>1, <1>2 DEF IInv, TypeOK, Linked, Listed, Custody, CustodyState, ThreadShape
  <2>3. /\ \A u \in Thread :
             /\ Walking(u)' => Walking(u) /\ head'[u] = head[u]
             /\ pc'[u] = "gc_swap" => next_free[Root] # NULL
             /\ Dropping(u)' /\ pc'[u] # "gc_swap" => next_free[Root] = NULL
        /\ next_free[Root] = NULL => tree' # "alive"
        /\ tree' = "dropped" => next_free[Root] = NULL
    BY <1>1, <1>2 DEF IInv, TypeOK, Walking, Dropping, ThreadShape, LinksSound
  <2>4. QED
    BY <2>1, <2>2, <2>3, LinksFrame DEF IInv
<1>13. RefcountExact'
  <2>1. \A m \in Node :
           refcount'[m] - refcount[m]
             = (strong'[m] - strong[m])
               + (Bit(pc'[t] \in HoldingState /\ node'[t] = m)
                    - Bit(pc[t] \in HoldingState /\ node[t] = m))
               + (Bit(Root \in alloc' /\ parent'[Root] = m) - Bit(Root \in alloc /\ parent[Root] = m))
               + (Bit(Listed(m)') - Bit(Listed(m)))
               + (Bit(m = Root /\ tree' # "dropped") - Bit(m = Root /\ tree # "dropped"))
    BY <1>1, <1>2 DEF IInv, TypeOK, ThreadShape, Bit, Listed, Custody, CustodyState, HoldingState
  <2>2. /\ \A u \in Thread \ {t} : pc'[u] = pc[u] /\ node'[u] = node[u]
        /\ Root \in Node
        /\ \A d \in Node \ {Root} : (d \in alloc' <=> d \in alloc) /\ parent'[d] = parent[d]
    BY <1>1, <1>2 DEF IInv, TypeOK
  <2>3. QED
    BY <1>3, <2>1, <2>2, RefcountStep DEF IInv
<1>14. QED
  BY <1>3, <1>4, <1>5, <1>6, <1>7, <1>8, <1>9, <1>10, <1>11, <1>12, <1>13 DEF IInv

\* The count of a stolen list is not the last owner: the node is in use again.
LEMMA StepGCReleaseKept ==
  ASSUME IInv, NEW t \in Thread, GCRelease(t),
         refcount[node[t]] # 1
  PROVE  IInv'
<1>1. /\ refcount' = [refcount EXCEPT ![node[t]] = @ - 1]
      /\ pc' = [pc EXCEPT ![t] = IF job[t] = "drop" THEN "idle" ELSE "gc_pop"]
      /\ node' = [node EXCEPT ![t] = NULL]
      /\ base' = [base EXCEPT ![t] = NULL]
      /\ ret' = [ret EXCEPT ![t] = "none"]
      /\ job' = [job EXCEPT ![t] = IF @ = "drop" THEN "none" ELSE @]
      /\ UNCHANGED <<alloc, next_free, children, parent, key, strong, tree, approximate_free_count, head, want>>
  BY DEF GCRelease, Goto, heap, world, locals, SubRef, Return
<1>2. /\ pc[t] = "gc_dec" /\ node[t] \in Node /\ base[t] = NULL /\ job[t] \in {"drop", "gc", "droptree"}
      /\ node[t] \in alloc /\ refcount[node[t]] \in Nat /\ node[t] \in NonRoot
      /\ refcount[node[t]] > 1
  BY Counted, Alive DEF GCRelease, IInv, TypeOK, ThreadShape, EnsureState, WriteState, SpinState, HoldingState, PoppedIsFree, NextFreeShape
<1>3. TypeOK'
  BY <1>1, <1>2 DEF IInv, TypeOK, ControlState
<1>4. HeapShape'
  BY <1>1, <1>2, HeapFrame DEF IInv, TypeOK, ThreadShape, CustodyState
<1>5. ThreadShape'
  BY <1>1, <1>2 DEF IInv, TypeOK, HeapShape, ThreadShape, CustodyState, EnsureState, SpinState, WriteState, Dropping
<1>6. LocksExclusive'
  BY <1>1, <1>2 DEF IInv, TypeOK, LocksExclusive, WriteState
<1>7. OneDropper'
  BY <1>1, <1>2 DEF IInv, TypeOK, OneDropper, Dropping
<1>8. OneCustody'
  BY <1>1, <1>2 DEF IInv, TypeOK, OneCustody, Custody, CustodyState
<1>9. PoppedIsFree'
  BY <1>1, <1>2 DEF IInv, TypeOK, PoppedIsFree, Custody, CustodyState
<1>10. OnlySpinnersResurrect'
  <2>1. \A u \in Thread : pc'[u] = "pretend" =>
           \/ refcount'[node'[u]] = 0
           \/ \E v \in Thread : pc'[v] \in SpinState /\ node'[v] = node'[u]
           \/ /\ pc[u] = "pretend" /\ node'[u] = node[u] /\ refcount[node[u]] > 0
              /\ \A v \in Thread : pc[v] \in SpinState /\ node[v] = node[u]
                                     => pc'[v] \in SpinState /\ node'[v] = node[v]
    BY <1>1, <1>2 DEF IInv, TypeOK, SpinState, ThreadShape, CustodyState
  <2>2. QED
    BY <2>1, SpinnersFrame DEF IInv
<1>11. NextFreeShape'
  BY <1>1, <1>2 DEF IInv, TypeOK, NextFreeShape, OneCustody, PoppedIsFree, Custody, CustodyState, ThreadShape
<1>12. LinksSound'
  <2>1. \A x \in Node : Listed(x)' <=> Listed(x)
    BY <1>1, <1>2 DEF IInv, TypeOK, Listed, Custody, CustodyState, ThreadShape
  <2>2. \A x \in Node : Linked(x) => next_free'[x] = next_free[x]
    BY <1>1, <1>2 DEF IInv, TypeOK, Linked, Listed, Custody, CustodyState, ThreadShape
  <2>3. /\ \A u \in Thread :
             /\ Walking(u)' => Walking(u) /\ head'[u] = head[u]
             /\ pc'[u] = "gc_swap" => next_free[Root] # NULL
             /\ Dropping(u)' /\ pc'[u] # "gc_swap" => next_free[Root] = NULL
        /\ next_free[Root] = NULL => tree' # "alive"
        /\ tree' = "dropped" => next_free[Root] = NULL
    BY <1>1, <1>2 DEF IInv, TypeOK, Walking, Dropping, ThreadShape, LinksSound
  <2>4. QED
    BY <2>1, <2>2, <2>3, LinksFrame DEF IInv
<1>13. RefcountExact'
  <2>1. \A m \in Node :
           refcount'[m] - refcount[m]
             = (strong'[m] - strong[m])
               + (Bit(pc'[t] \in HoldingState /\ node'[t] = m)
                    - Bit(pc[t] \in HoldingState /\ node[t] = m))
               + (Bit(Root \in alloc' /\ parent'[Root] = m) - Bit(Root \in alloc /\ parent[Root] = m))
               + (Bit(Listed(m)') - Bit(Listed(m)))
               + (Bit(m = Root /\ tree' # "dropped") - Bit(m = Root /\ tree # "dropped"))
    BY <1>1, <1>2 DEF IInv, TypeOK, ThreadShape, Bit, Listed, Custody, CustodyState, HoldingState
  <2>2. /\ \A u \in Thread \ {t} : pc'[u] = pc[u] /\ node'[u] = node[u]
        /\ Root \in Node
        /\ \A d \in Node \ {Root} : (d \in alloc' <=> d \in alloc) /\ parent'[d] = parent[d]
    BY <1>1, <1>2 DEF IInv, TypeOK
  <2>3. QED
    BY <1>3, <2>1, <2>2, RefcountStep DEF IInv
<1>14. QED
  BY <1>3, <1>4, <1>5, <1>6, <1>7, <1>8, <1>9, <1>10, <1>11, <1>12, <1>13 DEF IInv

\* It is the last one: the collection is alone with the node.
LEMMA StepGCReleaseLast ==
  ASSUME IInv, NEW t \in Thread, GCRelease(t),
         refcount[node[t]] = 1, node[t] # Root
  PROVE  IInv'
<1>1. /\ refcount' = [refcount EXCEPT ![node[t]] = @ - 1]
      /\ pc' = [pc EXCEPT ![t] = "pretend"]
      /\ node' = [node EXCEPT ![t] = node[t]]
      /\ ret' = [ret EXCEPT ![t] = "unlink"]
      /\ UNCHANGED <<alloc, next_free, children, parent, key, strong, tree, approximate_free_count, head, base, want, job>>
  BY DEF GCRelease, Goto, heap, world, locals, SubRef, OnZero
<1>2. /\ pc[t] = "gc_dec" /\ node[t] \in Node /\ base[t] = NULL /\ job[t] \in {"drop", "gc", "droptree"}
      /\ node[t] \in alloc /\ refcount[node[t]] \in Nat /\ node[t] \in NonRoot /\ strong[node[t]] = 0
      /\ \A u \in Thread : ~ Custody(u, node[t])
      /\ \A u \in Thread \ {t} : pc[u] \in CustodyState \cup HoldingState => node[u] # node[t]
      /\ next_free[node[t]] = NULL /\ ~ Listed(node[t])
  <2>1. pc[t] = "gc_dec" /\ pc[t] \in HoldingState /\ node[t] \in Node
    BY DEF GCRelease, IInv, ThreadShape, HoldingState
  <2>2. /\ strong[node[t]] = 0 /\ ~ Listed(node[t])
        /\ \A u \in Thread : pc[u] \in HoldingState /\ node[u] = node[t] => u = t
        /\ ~ (node[t] = Root /\ tree # "dropped")
    BY <2>1, LastHolder DEF IInv
  <2>3. pc[t] \notin CustodyState \cup SpinState
    BY <2>1 DEF CustodyState, SpinState
  <2>4. node[t] \in alloc /\ (\A u \in Thread : ~ Custody(u, node[t])) /\ (node[t] # Root => next_free[node[t]] = NULL)
    BY <2>1, <2>2, <2>3, LastIsAlone
  <2>5. base[t] = NULL /\ job[t] \in {"drop", "gc", "droptree"} /\ node[t] \in NonRoot
    BY <2>1 DEF IInv, TypeOK, ThreadShape, EnsureState, WriteState
  <2>6. QED
    BY <2>1, <2>2, <2>4, <2>5 DEF Custody
<1>3. TypeOK'
  BY <1>1, <1>2 DEF IInv, TypeOK, ControlState
<1>4. HeapShape'
  BY <1>1, <1>2, HeapFrame DEF IInv, TypeOK, ThreadShape, CustodyState
<1>5. ThreadShape'
  BY <1>1, <1>2 DEF IInv, TypeOK, HeapShape, ThreadShape, CustodyState, EnsureState, SpinState, WriteState, Dropping
<1>6. LocksExclusive'
  BY <1>1, <1>2 DEF IInv, TypeOK, LocksExclusive, WriteState
<1>7. OneDropper'
  BY <1>1, <1>2 DEF IInv, TypeOK, OneDropper, Dropping
<1>8. OneCustody'
  BY <1>1, <1>2 DEF IInv, TypeOK, OneCustody, Custody, CustodyState
<1>9. PoppedIsFree'
  BY <1>1, <1>2 DEF IInv, TypeOK, PoppedIsFree, Custody, CustodyState, HoldingState
<1>10. OnlySpinnersResurrect'
  <2>1. \A u \in Thread : pc'[u] = "pretend" =>
           \/ refcount'[node'[u]] = 0
           \/ \E v \in Thread : pc'[v] \in SpinState /\ node'[v] = node'[u]
           \/ /\ pc[u] = "pretend" /\ node'[u] = node[u] /\ refcount[node[u]] > 0
              /\ \A v \in Thread : pc[v] \in SpinState /\ node[v] = node[u]
                                     => pc'[v] \in SpinState /\ node'[v] = node[v]
    BY <1>1, <1>2 DEF IInv, TypeOK, SpinState, ThreadShape, CustodyState
  <2>2. QED
    BY <2>1, SpinnersFrame DEF IInv
<1>11. NextFreeShape'
  BY <1>1, <1>2 DEF IInv, TypeOK, NextFreeShape, OneCustody, PoppedIsFree, Custody, CustodyState, ThreadShape
<1>12. LinksSound'
  <2>1. \A x \in Node : Listed(x)' <=> Listed(x)
    BY <1>1, <1>2 DEF IInv, TypeOK, Listed, Custody, CustodyState, ThreadShape
  <2>2. \A x \in Node : Linked(x) => next_free'[x] = next_free[x]
    BY <1>1, <1>2 DEF IInv, TypeOK, Linked, Listed, Custody, CustodyState, ThreadShape
  <2>3. /\ \A u \in Thread :
             /\ Walking(u)' => Walking(u) /\ head'[u] = head[u]
             /\ pc'[u] = "gc_swap" => next_free[Root] # NULL
             /\ Dropping(u)' /\ pc'[u] # "gc_swap" => next_free[Root] = NULL
        /\ next_free[Root] = NULL => tree' # "alive"
        /\ tree' = "dropped" => next_free[Root] = NULL
    BY <1>1, <1>2 DEF IInv, TypeOK, Walking, Dropping, ThreadShape, LinksSound
  <2>4. QED
    BY <2>1, <2>2, <2>3, LinksFrame DEF IInv
<1>13. RefcountExact'
  <2>1. \A m \in Node :
           refcount'[m] - refcount[m]
             = (strong'[m] - strong[m])
               + (Bit(pc'[t] \in HoldingState /\ node'[t] = m)
                    - Bit(pc[t] \in HoldingState /\ node[t] = m))
               + (Bit(Root \in alloc' /\ parent'[Root] = m) - Bit(Root \in alloc /\ parent[Root] = m))
               + (Bit(Listed(m)') - Bit(Listed(m)))
               + (Bit(m = Root /\ tree' # "dropped") - Bit(m = Root /\ tree # "dropped"))
    BY <1>1, <1>2 DEF IInv, TypeOK, ThreadShape, Bit, Listed, Custody, CustodyState, HoldingState
  <2>2. /\ \A u \in Thread \ {t} : pc'[u] = pc[u] /\ node'[u] = node[u]
        /\ Root \in Node
        /\ \A d \in Node \ {Root} : (d \in alloc' <=> d \in alloc) /\ parent'[d] = parent[d]
    BY <1>1, <1>2 DEF IInv, TypeOK
  <2>3. QED
    BY <1>3, <2>1, <2>2, RefcountStep DEF IInv
<1>14. QED
  BY <1>3, <1>4, <1>5, <1>6, <1>7, <1>8, <1>9, <1>10, <1>11, <1>12, <1>13 DEF IInv

\* A collection starts; the live tree has a free list.
LEMMA StepMaybeGC ==
  ASSUME IInv, NEW t \in Thread, MaybeGC(t)
  PROVE  IInv'
<1>1. /\ approximate_free_count' = 0
      /\ pc' = [pc EXCEPT ![t] = "gc_swap"]
      /\ job' = [job EXCEPT ![t] = "gc"]
      /\ UNCHANGED <<alloc, refcount, next_free, children, parent, key, strong, tree, node, head, base, want, ret>>
  BY DEF MaybeGC, Goto, heap, world, locals, CanCall
<1>2. /\ pc[t] = "idle" /\ node[t] = NULL /\ base[t] = NULL /\ tree = "alive" /\ next_free[Root] # NULL
  BY DEF MaybeGC, CanCall, IInv, ThreadShape, EnsureState, WriteState, LinksSound
<1>3. TypeOK'
  BY <1>1, <1>2 DEF IInv, TypeOK, ControlState
<1>4. HeapShape'
  BY <1>1, <1>2, HeapFrame DEF IInv, TypeOK, ThreadShape, CustodyState
<1>5. ThreadShape'
  BY <1>1, <1>2 DEF IInv, TypeOK, HeapShape, ThreadShape, CustodyState, EnsureState, SpinState, WriteState, Dropping
<1>6. LocksExclusive'
  BY <1>1, <1>2 DEF IInv, TypeOK, LocksExclusive, WriteState
<1>7. OneDropper'
  BY <1>1, <1>2 DEF IInv, TypeOK, OneDropper, Dropping
<1>8. OneCustody'
  BY <1>1, <1>2 DEF IInv, TypeOK, OneCustody, Custody, CustodyState
<1>9. PoppedIsFree'
  BY <1>1, <1>2 DEF IInv, TypeOK, PoppedIsFree, Custody, CustodyState
<1>10. OnlySpinnersResurrect'
  <2>1. \A u \in Thread : pc'[u] = "pretend" =>
           \/ refcount'[node'[u]] = 0
           \/ \E v \in Thread : pc'[v] \in SpinState /\ node'[v] = node'[u]
           \/ /\ pc[u] = "pretend" /\ node'[u] = node[u] /\ refcount[node[u]] > 0
              /\ \A v \in Thread : pc[v] \in SpinState /\ node[v] = node[u]
                                     => pc'[v] \in SpinState /\ node'[v] = node[v]
    BY <1>1, <1>2 DEF IInv, TypeOK, SpinState, ThreadShape, CustodyState
  <2>2. QED
    BY <2>1, SpinnersFrame DEF IInv
<1>11. NextFreeShape'
  BY <1>1, <1>2 DEF IInv, TypeOK, NextFreeShape, OneCustody, PoppedIsFree, Custody, CustodyState, ThreadShape
<1>12. LinksSound'
  <2>1. \A x \in Node : Listed(x)' <=> Listed(x)
    BY <1>1, <1>2 DEF IInv, TypeOK, Listed, Custody, CustodyState, ThreadShape
  <2>2. \A x \in Node : Linked(x) => next_free'[x] = next_free[x]
    BY <1>1, <1>2 DEF IInv, TypeOK, Linked, Listed, Custody, CustodyState, ThreadShape
  <2>3. /\ \A u \in Thread :
             /\ Walking(u)' => Walking(u) /\ head'[u] = head[u]
             /\ pc'[u] = "gc_swap" => next_free[Root] # NULL
             /\ Dropping(u)' /\ pc'[u] # "gc_swap" => next_free[Root] = NULL
        /\ next_free[Root] = NULL => tree' # "alive"
        /\ tree' = "dropped" => next_free[Root] = NULL
    BY <1>1, <1>2 DEF IInv, TypeOK, Walking, Dropping, ThreadShape, LinksSound
  <2>4. QED
    BY <2>1, <2>2, <2>3, LinksFrame DEF IInv
<1>13. RefcountExact'
  <2>1. \A m \in Node :
           refcount'[m] - refcount[m]
             = (strong'[m] - strong[m])
               + (Bit(pc'[t] \in HoldingState /\ node'[t] = m)
                    - Bit(pc[t] \in HoldingState /\ node[t] = m))
               + (Bit(Root \in alloc' /\ parent'[Root] = m) - Bit(Root \in alloc /\ parent[Root] = m))
               + (Bit(Listed(m)') - Bit(Listed(m)))
               + (Bit(m = Root /\ tree' # "dropped") - Bit(m = Root /\ tree # "dropped"))
    BY <1>1, <1>2 DEF IInv, TypeOK, ThreadShape, Bit, Listed, Custody, CustodyState, HoldingState
  <2>2. /\ \A u \in Thread \ {t} : pc'[u] = pc[u] /\ node'[u] = node[u]
        /\ Root \in Node
        /\ \A d \in Node \ {Root} : (d \in alloc' <=> d \in alloc) /\ parent'[d] = parent[d]
    BY <1>1, <1>2 DEF IInv, TypeOK
  <2>3. QED
    BY <1>3, <2>1, <2>2, RefcountStep DEF IInv
<1>14. QED
  BY <1>3, <1>4, <1>5, <1>6, <1>7, <1>8, <1>9, <1>10, <1>11, <1>12, <1>13 DEF IInv

\* The destructor of the tree starts; nobody borrows the tree.
LEMMA StepDropTree ==
  ASSUME IInv, NEW t \in Thread, DropTree(t)
  PROVE  IInv'
<1>1. /\ tree' = "dropping"
      /\ approximate_free_count' = 0
      /\ pc' = [pc EXCEPT ![t] = "gc_swap"]
      /\ job' = [job EXCEPT ![t] = "droptree"]
      /\ UNCHANGED <<alloc, refcount, next_free, children, parent, key, strong, node, head, base, want, ret>>
  BY DEF DropTree, Goto, heap, world, locals, CanCall
<1>2. /\ pc[t] = "idle" /\ node[t] = NULL /\ base[t] = NULL /\ tree = "alive" /\ next_free[Root] # NULL
      /\ \A u \in Thread : ~ Dropping(u) /\ job[u] \notin {"ensure", "gc"}
  BY DEF DropTree, CanCall, IInv, ThreadShape, EnsureState, WriteState, LinksSound
<1>3. TypeOK'
  BY <1>1, <1>2 DEF IInv, TypeOK, ControlState
<1>4. HeapShape'
  BY <1>1, <1>2, HeapFrame DEF IInv, TypeOK, ThreadShape, CustodyState
<1>5. ThreadShape'
  BY <1>1, <1>2 DEF IInv, TypeOK, HeapShape, ThreadShape, CustodyState, EnsureState, SpinState, WriteState, Dropping
<1>6. LocksExclusive'
  BY <1>1, <1>2 DEF IInv, TypeOK, LocksExclusive, WriteState
<1>7. OneDropper'
  BY <1>1, <1>2 DEF IInv, TypeOK, OneDropper, Dropping
<1>8. OneCustody'
  BY <1>1, <1>2 DEF IInv, TypeOK, OneCustody, Custody, CustodyState
<1>9. PoppedIsFree'
  BY <1>1, <1>2 DEF IInv, TypeOK, PoppedIsFree, Custody, CustodyState
<1>10. OnlySpinnersResurrect'
  <2>1. \A u \in Thread : pc'[u] = "pretend" =>
           \/ refcount'[node'[u]] = 0
           \/ \E v \in Thread : pc'[v] \in SpinState /\ node'[v] = node'[u]
           \/ /\ pc[u] = "pretend" /\ node'[u] = node[u] /\ refcount[node[u]] > 0
              /\ \A v \in Thread : pc[v] \in SpinState /\ node[v] = node[u]
                                     => pc'[v] \in SpinState /\ node'[v] = node[v]
    BY <1>1, <1>2 DEF IInv, TypeOK, SpinState, ThreadShape, CustodyState
  <2>2. QED
    BY <2>1, SpinnersFrame DEF IInv
<1>11. NextFreeShape'
  BY <1>1, <1>2 DEF IInv, TypeOK, NextFreeShape, OneCustody, PoppedIsFree, Custody, CustodyState, ThreadShape
<1>12. LinksSound'
  <2>1. \A x \in Node : Listed(x)' <=> Listed(x)
    BY <1>1, <1>2 DEF IInv, TypeOK, Listed, Custody, CustodyState, ThreadShape
  <2>2. \A x \in Node : Linked(x) => next_free'[x] = next_free[x]
    BY <1>1, <1>2 DEF IInv, TypeOK, Linked, Listed, Custody, CustodyState, ThreadShape
  <2>3. /\ \A u \in Thread :
             /\ Walking(u)' => Walking(u) /\ head'[u] = head[u]
             /\ pc'[u] = "gc_swap" => next_free[Root] # NULL
             /\ Dropping(u)' /\ pc'[u] # "gc_swap" => next_free[Root] = NULL
        /\ next_free[Root] = NULL => tree' # "alive"
        /\ tree' = "dropped" => next_free[Root] = NULL
    BY <1>1, <1>2 DEF IInv, TypeOK, Walking, Dropping, ThreadShape, LinksSound
  <2>4. QED
    BY <2>1, <2>2, <2>3, LinksFrame DEF IInv
<1>13. RefcountExact'
  <2>1. \A m \in Node :
           refcount'[m] - refcount[m]
             = (strong'[m] - strong[m])
               + (Bit(pc'[t] \in HoldingState /\ node'[t] = m)
                    - Bit(pc[t] \in HoldingState /\ node[t] = m))
               + (Bit(Root \in alloc' /\ parent'[Root] = m) - Bit(Root \in alloc /\ parent[Root] = m))
               + (Bit(Listed(m)') - Bit(Listed(m)))
               + (Bit(m = Root /\ tree' # "dropped") - Bit(m = Root /\ tree # "dropped"))
    BY <1>1, <1>2 DEF IInv, TypeOK, ThreadShape, Bit, Listed, Custody, CustodyState, HoldingState
  <2>2. /\ \A u \in Thread \ {t} : pc'[u] = pc[u] /\ node'[u] = node[u]
        /\ Root \in Node
        /\ \A d \in Node \ {Root} : (d \in alloc' <=> d \in alloc) /\ parent'[d] = parent[d]
    BY <1>1, <1>2 DEF IInv, TypeOK
  <2>3. QED
    BY <1>3, <2>1, <2>2, RefcountStep DEF IInv
<1>14. QED
  BY <1>3, <1>4, <1>5, <1>6, <1>7, <1>8, <1>9, <1>10, <1>11, <1>12, <1>13 DEF IInv

\* The list is stolen: its first link moves from the root to the thread.
LEMMA StepGCSwap ==
  ASSUME IInv, NEW t \in Thread, GCSwap(t)
  PROVE  IInv'
<1>1. /\ next_free' = [next_free EXCEPT ![Root] = IF job[t] = "gc" THEN DANGLING ELSE NULL]
      /\ pc' = [pc EXCEPT ![t] = "gc_pop"]
      /\ head' = [head EXCEPT ![t] = next_free[Root]]
      /\ UNCHANGED <<alloc, refcount, children, parent, key, strong, tree, approximate_free_count, node, base, want, ret, job>>
  BY DEF GCSwap, Goto, heap, world, locals, StealList
<1>2. /\ pc[t] = "gc_swap" /\ next_free[Root] # NULL /\ node[t] = NULL /\ base[t] = NULL
      /\ job[t] \in {"gc", "droptree"} /\ Link(next_free[Root]) /\ next_free[Root] \in Pointer
      /\ \A x \in Node \ {Root} : next_free'[x] = next_free[x]
      /\ next_free'[Root] = IF job[t] = "gc" THEN DANGLING ELSE NULL
  BY DEF GCSwap, StealList, IInv, TypeOK, ThreadShape, EnsureState, WriteState, LinksSound
<1>3. TypeOK'
  BY <1>1, <1>2 DEF IInv, TypeOK, ControlState
<1>4. HeapShape'
  BY <1>1, <1>2, HeapFrame DEF IInv, TypeOK, ThreadShape, CustodyState
<1>5. ThreadShape'
  BY <1>1, <1>2 DEF IInv, TypeOK, HeapShape, ThreadShape, CustodyState, EnsureState, SpinState, WriteState, Dropping
<1>6. LocksExclusive'
  BY <1>1, <1>2 DEF IInv, TypeOK, LocksExclusive, WriteState
<1>7. OneDropper'
  BY <1>1, <1>2 DEF IInv, TypeOK, OneDropper, Dropping
<1>8. OneCustody'
  BY <1>1, <1>2 DEF IInv, TypeOK, OneCustody, Custody, CustodyState
<1>9. PoppedIsFree'
  BY <1>1, <1>2 DEF IInv, TypeOK, PoppedIsFree, Custody, CustodyState
<1>10. OnlySpinnersResurrect'
  <2>1. \A u \in Thread : pc'[u] = "pretend" =>
           \/ refcount'[node'[u]] = 0
           \/ \E v \in Thread : pc'[v] \in SpinState /\ node'[v] = node'[u]
           \/ /\ pc[u] = "pretend" /\ node'[u] = node[u] /\ refcount[node[u]] > 0
              /\ \A v \in Thread : pc[v] \in SpinState /\ node[v] = node[u]
                                     => pc'[v] \in SpinState /\ node'[v] = node[v]
    BY <1>1, <1>2 DEF IInv, TypeOK, SpinState, ThreadShape, CustodyState
  <2>2. QED
    BY <2>1, SpinnersFrame DEF IInv
<1>11. NextFreeShape'
  BY <1>1, <1>2 DEF IInv, TypeOK, NextFreeShape, OneCustody, PoppedIsFree, Custody, CustodyState, ThreadShape
<1>12. LinksSound'
  <2>1. \A x \in Node : Listed(x)' <=> Listed(x)
    BY <1>1, <1>2 DEF IInv, TypeOK, Listed, Custody, CustodyState, ThreadShape
  <2>2. /\ \A v : Link(v)' <=> Link(v)
        /\ \A x \in Node : Linked(x)' <=> Linked(x)
        /\ Linked(Root) /\ ~ Link(NULL) /\ Link(DANGLING)
    BY <2>1 DEF Link, Linked
  <2>3. \A u \in Thread :
          /\ Walking(u)' <=> Walking(u) \/ u = t
          /\ Walking(u) => u # t
          /\ u # t => head'[u] = head[u] /\ pc'[u] = pc[u]
          /\ Dropping(u)' <=> Dropping(u)
    BY <1>1, <1>2 DEF IInv, TypeOK, Walking, Dropping, ThreadShape
  <2>4. /\ job[t] = "gc" => tree = "alive" /\ \A u \in Thread : ~ Dropping(u)
        /\ job[t] # "gc" => tree = "dropping" /\ \A u \in Thread \ {t} : pc[u] # "gc_swap"
    BY <1>1, <1>2 DEF IInv, TypeOK, ThreadShape, OneDropper, Dropping
  <2>5. head'[t] = next_free[Root] /\ pc'[t] = "gc_pop" /\ tree' = tree
    BY <1>1, <1>2 DEF IInv, TypeOK
  <2>6. LinksSound
    BY DEF IInv
  <2>7. /\ next_free'[Root] = NULL \/ Link(next_free[Root])'
        /\ next_free'[Root] = NULL => tree' # "alive"
        /\ tree' = "dropped" => next_free'[Root] = NULL
        /\ \A u \in Thread : pc'[u] = "gc_swap" => next_free'[Root] # NULL
        /\ \A u \in Thread : Dropping(u)' /\ pc'[u] # "gc_swap" => next_free'[Root] = NULL
    BY <1>2, <2>2, <2>3, <2>4, <2>5, <2>6 DEF LinksSound
  <2>8. /\ \A x \in NonRoot : Listed(x)' => Link(next_free[x])'
        /\ \A u \in Thread : Walking(u)' => Link(head[u])'
    BY <1>2, <2>1, <2>2, <2>3, <2>5, <2>6 DEF LinksSound
  <2>9. /\ next_free'[Root] \notin NonRoot
        /\ \A x, y \in Node : Linked(x)' /\ Linked(y)' /\ next_free'[x] = next_free'[y]
                              /\ next_free'[x] \in NonRoot => x = y
    BY <1>2, <2>2, <2>6 DEF LinksSound
  <2>10. \A u, v \in Thread : Walking(u)' /\ Walking(v)' /\ head'[u] = head'[v] /\ head'[u] \in NonRoot
           => u = v
    BY <2>2, <2>3, <2>5, <2>6 DEF LinksSound
  <2>11. \A u \in Thread, x \in Node :
           Walking(u)' /\ Linked(x)' /\ next_free'[x] = head'[u] => head'[u] \notin NonRoot
    BY <1>2, <2>2, <2>3, <2>5, <2>6, <2>9 DEF LinksSound
  <2>12. QED
    BY <2>7, <2>8, <2>9, <2>10, <2>11 DEF LinksSound
<1>13. RefcountExact'
  <2>1. \A m \in Node :
           refcount'[m] - refcount[m]
             = (strong'[m] - strong[m])
               + (Bit(pc'[t] \in HoldingState /\ node'[t] = m)
                    - Bit(pc[t] \in HoldingState /\ node[t] = m))
               + (Bit(Root \in alloc' /\ parent'[Root] = m) - Bit(Root \in alloc /\ parent[Root] = m))
               + (Bit(Listed(m)') - Bit(Listed(m)))
               + (Bit(m = Root /\ tree' # "dropped") - Bit(m = Root /\ tree # "dropped"))
    BY <1>1, <1>2 DEF IInv, TypeOK, ThreadShape, Bit, Listed, Custody, CustodyState, HoldingState
  <2>2. /\ \A u \in Thread \ {t} : pc'[u] = pc[u] /\ node'[u] = node[u]
        /\ Root \in Node
        /\ \A d \in Node \ {Root} : (d \in alloc' <=> d \in alloc) /\ parent'[d] = parent[d]
    BY <1>1, <1>2 DEF IInv, TypeOK
  <2>3. QED
    BY <1>3, <2>1, <2>2, RefcountStep DEF IInv
<1>14. QED
  BY <1>3, <1>4, <1>5, <1>6, <1>7, <1>8, <1>9, <1>10, <1>11, <1>12, <1>13 DEF IInv

\* The first node of a stolen list is taken off; no other link leads to it.
LEMMA StepGCPop ==
  ASSUME IInv, NEW t \in Thread, GCPop(t)
  PROVE  IInv'
<1>1. /\ next_free' = [next_free EXCEPT ![head[t]] = NULL]
      /\ pc' = [pc EXCEPT ![t] = "gc_dec"]
      /\ node' = [node EXCEPT ![t] = head[t]]
      /\ head' = [head EXCEPT ![t] = next_free[head[t]]]
      /\ UNCHANGED <<alloc, refcount, children, parent, key, strong, tree, approximate_free_count, base, want, ret, job>>
  BY DEF GCPop, Goto, heap, world, locals
<1>2. /\ pc[t] = "gc_pop" /\ node[t] = NULL /\ base[t] = NULL /\ job[t] \in {"gc", "droptree"}
      /\ Walking(t) /\ head[t] \in NonRoot /\ Listed(head[t]) /\ head[t] \in alloc
      /\ next_free[head[t]] \in Pointer
      /\ \A u \in Thread : ~ Custody(u, head[t])
  BY DEF GCPop, IInv, TypeOK, ThreadShape, EnsureState, WriteState, LinksSound, Link, Listed, Walking
<1>3. TypeOK'
  BY <1>1, <1>2 DEF IInv, TypeOK, ControlState
<1>4. HeapShape'
  BY <1>1, <1>2, HeapFrame DEF IInv, TypeOK, ThreadShape, CustodyState
<1>5. ThreadShape'
  BY <1>1, <1>2 DEF IInv, TypeOK, HeapShape, ThreadShape, CustodyState, EnsureState, SpinState, WriteState, Dropping
<1>6. LocksExclusive'
  BY <1>1, <1>2 DEF IInv, TypeOK, LocksExclusive, WriteState
<1>7. OneDropper'
  BY <1>1, <1>2 DEF IInv, TypeOK, OneDropper, Dropping
<1>8. OneCustody'
  BY <1>1, <1>2 DEF IInv, TypeOK, OneCustody, Custody, CustodyState
<1>9. PoppedIsFree'
  BY <1>1, <1>2 DEF IInv, TypeOK, PoppedIsFree, Custody, CustodyState
<1>10. OnlySpinnersResurrect'
  <2>1. \A u \in Thread : pc'[u] = "pretend" =>
           \/ refcount'[node'[u]] = 0
           \/ \E v \in Thread : pc'[v] \in SpinState /\ node'[v] = node'[u]
           \/ /\ pc[u] = "pretend" /\ node'[u] = node[u] /\ refcount[node[u]] > 0
              /\ \A v \in Thread : pc[v] \in SpinState /\ node[v] = node[u]
                                     => pc'[v] \in SpinState /\ node'[v] = node[v]
    BY <1>1, <1>2 DEF IInv, TypeOK, SpinState, ThreadShape, CustodyState
  <2>2. QED
    BY <2>1, SpinnersFrame DEF IInv
<1>11. NextFreeShape'
  BY <1>1, <1>2 DEF IInv, TypeOK, NextFreeShape, OneCustody, PoppedIsFree, Custody, CustodyState, ThreadShape
<1>12. LinksSound'
  <2>0. PICK n \in NonRoot : n = head[t]
    BY <1>2
  <2>1. /\ Linked(n) /\ Listed(n) /\ Walking(t)
        /\ next_free'[n] = NULL /\ \A x \in Node \ {n} : next_free'[x] = next_free[x]
    BY <2>0, <1>1, <1>2 DEF IInv, TypeOK, Linked
  <2>2. \A x \in Node : Listed(x)' <=> Listed(x) /\ x # n
    <3>1. \A u \in Thread, x \in Node : Custody(u, x)' <=> Custody(u, x)
      BY <1>1, <1>2 DEF IInv, TypeOK, Custody, CustodyState
    <3>2. QED
      BY <1>1, <2>1, <3>1 DEF Listed
  <2>3. /\ \A v : Link(v)' <=> Link(v) /\ v # n
        /\ \A x \in Node : Linked(x)' <=> Linked(x) /\ x # n
    BY <2>2 DEF Link, Linked
  <2>4. \A u \in Thread :
          /\ Walking(u)' <=> Walking(u)
          /\ u # t => head'[u] = head[u]
          /\ Dropping(u)' <=> Dropping(u)
          /\ pc'[u] = "gc_swap" <=> pc[u] = "gc_swap"
    BY <1>1, <1>2 DEF IInv, TypeOK, Walking, Dropping, ThreadShape
  <2>5. head'[t] = next_free[n] /\ tree' = tree /\ head[t] = n
    BY <2>0, <1>1, <1>2 DEF IInv, TypeOK
  <2>6. LinksSound
    BY DEF IInv
  <2>7. /\ \A x \in Node : Linked(x) => next_free[x] # n
        /\ \A u \in Thread \ {t} : Walking(u) => head[u] # n
    BY <2>1, <2>5, <2>6 DEF LinksSound
  <2>8. /\ next_free'[Root] = NULL \/ Link(next_free[Root])'
        /\ next_free'[Root] = NULL => tree' # "alive"
        /\ tree' = "dropped" => next_free'[Root] = NULL
        /\ \A u \in Thread : pc'[u] = "gc_swap" => next_free'[Root] # NULL
        /\ \A u \in Thread : Dropping(u)' /\ pc'[u] # "gc_swap" => next_free'[Root] = NULL
    BY <2>1, <2>3, <2>4, <2>5, <2>6, <2>7 DEF LinksSound, Linked
  <2>9. /\ \A x \in NonRoot : Listed(x)' => Link(next_free[x])'
        /\ \A u \in Thread : Walking(u)' => Link(head[u])'
    BY <2>1, <2>2, <2>3, <2>4, <2>5, <2>6, <2>7 DEF LinksSound, Linked
  <2>10. \A x, y \in Node : Linked(x)' /\ Linked(y)' /\ next_free'[x] = next_free'[y]
                              /\ next_free'[x] \in NonRoot => x = y
    BY <2>1, <2>3, <2>6 DEF LinksSound
  <2>11. \A u, v \in Thread : Walking(u)' /\ Walking(v)' /\ head'[u] = head'[v] /\ head'[u] \in NonRoot
           => u = v
    BY <2>1, <2>4, <2>5, <2>6 DEF LinksSound
  <2>12. \A u \in Thread, x \in Node :
           Walking(u)' /\ Linked(x)' /\ next_free'[x] = head'[u] => head'[u] \notin NonRoot
    BY <2>1, <2>3, <2>4, <2>5, <2>6 DEF LinksSound
  <2>13. QED
    BY <2>8, <2>9, <2>10, <2>11, <2>12 DEF LinksSound
<1>13. RefcountExact'
  <2>1. \A m \in Node :
           refcount'[m] - refcount[m]
             = (strong'[m] - strong[m])
               + (Bit(pc'[t] \in HoldingState /\ node'[t] = m)
                    - Bit(pc[t] \in HoldingState /\ node[t] = m))
               + (Bit(Root \in alloc' /\ parent'[Root] = m) - Bit(Root \in alloc /\ parent[Root] = m))
               + (Bit(Listed(m)') - Bit(Listed(m)))
               + (Bit(m = Root /\ tree' # "dropped") - Bit(m = Root /\ tree # "dropped"))
    BY <1>1, <1>2 DEF IInv, TypeOK, ThreadShape, Bit, Listed, Custody, CustodyState, HoldingState
  <2>2. /\ \A u \in Thread \ {t} : pc'[u] = pc[u] /\ node'[u] = node[u]
        /\ Root \in Node
        /\ \A d \in Node \ {Root} : (d \in alloc' <=> d \in alloc) /\ parent'[d] = parent[d]
    BY <1>1, <1>2 DEF IInv, TypeOK
  <2>3. QED
    BY <1>3, <2>1, <2>2, RefcountStep DEF IInv
<1>14. QED
  BY <1>3, <1>4, <1>5, <1>6, <1>7, <1>8, <1>9, <1>10, <1>11, <1>12, <1>13 DEF IInv

\* A stolen list is finished: the collection returns.
LEMMA StepGCEndGc ==
  ASSUME IInv, NEW t \in Thread, GCEnd(t),
         job[t] = "gc"
  PROVE  IInv'
<1>1. /\ pc' = [pc EXCEPT ![t] = "idle"]
      /\ head' = [head EXCEPT ![t] = NULL]
      /\ job' = [job EXCEPT ![t] = "none"]
      /\ UNCHANGED <<alloc, refcount, next_free, children, parent, key, strong, tree, approximate_free_count, node, base, want, ret>>
  BY DEF GCEnd, Goto, heap, world, locals
<1>2. pc[t] = "gc_pop" /\ node[t] = NULL /\ base[t] = NULL /\ head[t] \in Pointer
  BY DEF GCEnd, IInv, TypeOK, ThreadShape, EnsureState, WriteState
<1>3. TypeOK'
  BY <1>1, <1>2 DEF IInv, TypeOK, ControlState
<1>4. HeapShape'
  BY <1>1, <1>2, HeapFrame DEF IInv, TypeOK, ThreadShape, CustodyState
<1>5. ThreadShape'
  BY <1>1, <1>2 DEF IInv, TypeOK, HeapShape, ThreadShape, CustodyState, EnsureState, SpinState, WriteState, Dropping
<1>6. LocksExclusive'
  BY <1>1, <1>2 DEF IInv, TypeOK, LocksExclusive, WriteState
<1>7. OneDropper'
  BY <1>1, <1>2 DEF IInv, TypeOK, OneDropper, Dropping
<1>8. OneCustody'
  BY <1>1, <1>2 DEF IInv, TypeOK, OneCustody, Custody, CustodyState
<1>9. PoppedIsFree'
  BY <1>1, <1>2 DEF IInv, TypeOK, PoppedIsFree, Custody, CustodyState
<1>10. OnlySpinnersResurrect'
  <2>1. \A u \in Thread : pc'[u] = "pretend" =>
           \/ refcount'[node'[u]] = 0
           \/ \E v \in Thread : pc'[v] \in SpinState /\ node'[v] = node'[u]
           \/ /\ pc[u] = "pretend" /\ node'[u] = node[u] /\ refcount[node[u]] > 0
              /\ \A v \in Thread : pc[v] \in SpinState /\ node[v] = node[u]
                                     => pc'[v] \in SpinState /\ node'[v] = node[v]
    BY <1>1, <1>2 DEF IInv, TypeOK, SpinState, ThreadShape, CustodyState
  <2>2. QED
    BY <2>1, SpinnersFrame DEF IInv
<1>11. NextFreeShape'
  BY <1>1, <1>2 DEF IInv, TypeOK, NextFreeShape, OneCustody, PoppedIsFree, Custody, CustodyState, ThreadShape
<1>12. LinksSound'
  <2>1. \A x \in Node : Listed(x)' <=> Listed(x)
    BY <1>1, <1>2 DEF IInv, TypeOK, Listed, Custody, CustodyState, ThreadShape
  <2>2. \A x \in Node : Linked(x) => next_free'[x] = next_free[x]
    BY <1>1, <1>2 DEF IInv, TypeOK, Linked, Listed, Custody, CustodyState, ThreadShape
  <2>3. /\ \A u \in Thread :
             /\ Walking(u)' => Walking(u) /\ head'[u] = head[u]
             /\ pc'[u] = "gc_swap" => next_free[Root] # NULL
             /\ Dropping(u)' /\ pc'[u] # "gc_swap" => next_free[Root] = NULL
        /\ next_free[Root] = NULL => tree' # "alive"
        /\ tree' = "dropped" => next_free[Root] = NULL
    BY <1>1, <1>2 DEF IInv, TypeOK, Walking, Dropping, ThreadShape, LinksSound
  <2>4. QED
    BY <2>1, <2>2, <2>3, LinksFrame DEF IInv
<1>13. RefcountExact'
  <2>1. \A m \in Node :
           refcount'[m] - refcount[m]
             = (strong'[m] - strong[m])
               + (Bit(pc'[t] \in HoldingState /\ node'[t] = m)
                    - Bit(pc[t] \in HoldingState /\ node[t] = m))
               + (Bit(Root \in alloc' /\ parent'[Root] = m) - Bit(Root \in alloc /\ parent[Root] = m))
               + (Bit(Listed(m)') - Bit(Listed(m)))
               + (Bit(m = Root /\ tree' # "dropped") - Bit(m = Root /\ tree # "dropped"))
    BY <1>1, <1>2 DEF IInv, TypeOK, ThreadShape, Bit, Listed, Custody, CustodyState, HoldingState
  <2>2. /\ \A u \in Thread \ {t} : pc'[u] = pc[u] /\ node'[u] = node[u]
        /\ Root \in Node
        /\ \A d \in Node \ {Root} : (d \in alloc' <=> d \in alloc) /\ parent'[d] = parent[d]
    BY <1>1, <1>2 DEF IInv, TypeOK
  <2>3. QED
    BY <1>3, <2>1, <2>2, RefcountStep DEF IInv
<1>14. QED
  BY <1>3, <1>4, <1>5, <1>6, <1>7, <1>8, <1>9, <1>10, <1>11, <1>12, <1>13 DEF IInv

\* A stolen list is finished: the destructor goes on to the root field.
LEMMA StepGCEndDrop ==
  ASSUME IInv, NEW t \in Thread, GCEnd(t),
         job[t] = "droptree"
  PROVE  IInv'
<1>1. /\ pc' = [pc EXCEPT ![t] = "drop_root"]
      /\ head' = [head EXCEPT ![t] = NULL]
      /\ job' = [job EXCEPT ![t] = "drop"]
      /\ UNCHANGED <<alloc, refcount, next_free, children, parent, key, strong, tree, approximate_free_count, node, base, want, ret>>
  BY DEF GCEnd, Goto, heap, world, locals
<1>2. pc[t] = "gc_pop" /\ node[t] = NULL /\ base[t] = NULL /\ head[t] \in Pointer
  BY DEF GCEnd, IInv, TypeOK, ThreadShape, EnsureState, WriteState
<1>3. TypeOK'
  BY <1>1, <1>2 DEF IInv, TypeOK, ControlState
<1>4. HeapShape'
  BY <1>1, <1>2, HeapFrame DEF IInv, TypeOK, ThreadShape, CustodyState
<1>5. ThreadShape'
  BY <1>1, <1>2 DEF IInv, TypeOK, HeapShape, ThreadShape, CustodyState, EnsureState, SpinState, WriteState, Dropping
<1>6. LocksExclusive'
  BY <1>1, <1>2 DEF IInv, TypeOK, LocksExclusive, WriteState
<1>7. OneDropper'
  BY <1>1, <1>2 DEF IInv, TypeOK, OneDropper, Dropping
<1>8. OneCustody'
  BY <1>1, <1>2 DEF IInv, TypeOK, OneCustody, Custody, CustodyState
<1>9. PoppedIsFree'
  BY <1>1, <1>2 DEF IInv, TypeOK, PoppedIsFree, Custody, CustodyState
<1>10. OnlySpinnersResurrect'
  <2>1. \A u \in Thread : pc'[u] = "pretend" =>
           \/ refcount'[node'[u]] = 0
           \/ \E v \in Thread : pc'[v] \in SpinState /\ node'[v] = node'[u]
           \/ /\ pc[u] = "pretend" /\ node'[u] = node[u] /\ refcount[node[u]] > 0
              /\ \A v \in Thread : pc[v] \in SpinState /\ node[v] = node[u]
                                     => pc'[v] \in SpinState /\ node'[v] = node[v]
    BY <1>1, <1>2 DEF IInv, TypeOK, SpinState, ThreadShape, CustodyState
  <2>2. QED
    BY <2>1, SpinnersFrame DEF IInv
<1>11. NextFreeShape'
  BY <1>1, <1>2 DEF IInv, TypeOK, NextFreeShape, OneCustody, PoppedIsFree, Custody, CustodyState, ThreadShape
<1>12. LinksSound'
  <2>1. \A x \in Node : Listed(x)' <=> Listed(x)
    BY <1>1, <1>2 DEF IInv, TypeOK, Listed, Custody, CustodyState, ThreadShape
  <2>2. \A x \in Node : Linked(x) => next_free'[x] = next_free[x]
    BY <1>1, <1>2 DEF IInv, TypeOK, Linked, Listed, Custody, CustodyState, ThreadShape
  <2>3. /\ \A u \in Thread :
             /\ Walking(u)' => Walking(u) /\ head'[u] = head[u]
             /\ pc'[u] = "gc_swap" => next_free[Root] # NULL
             /\ Dropping(u)' /\ pc'[u] # "gc_swap" => next_free[Root] = NULL
        /\ next_free[Root] = NULL => tree' # "alive"
        /\ tree' = "dropped" => next_free[Root] = NULL
    BY <1>1, <1>2 DEF IInv, TypeOK, Walking, Dropping, ThreadShape, LinksSound
  <2>4. QED
    BY <2>1, <2>2, <2>3, LinksFrame DEF IInv
<1>13. RefcountExact'
  <2>1. \A m \in Node :
           refcount'[m] - refcount[m]
             = (strong'[m] - strong[m])
               + (Bit(pc'[t] \in HoldingState /\ node'[t] = m)
                    - Bit(pc[t] \in HoldingState /\ node[t] = m))
               + (Bit(Root \in alloc' /\ parent'[Root] = m) - Bit(Root \in alloc /\ parent[Root] = m))
               + (Bit(Listed(m)') - Bit(Listed(m)))
               + (Bit(m = Root /\ tree' # "dropped") - Bit(m = Root /\ tree # "dropped"))
    BY <1>1, <1>2 DEF IInv, TypeOK, ThreadShape, Bit, Listed, Custody, CustodyState, HoldingState
  <2>2. /\ \A u \in Thread \ {t} : pc'[u] = pc[u] /\ node'[u] = node[u]
        /\ Root \in Node
        /\ \A d \in Node \ {Root} : (d \in alloc' <=> d \in alloc) /\ parent'[d] = parent[d]
    BY <1>1, <1>2 DEF IInv, TypeOK
  <2>3. QED
    BY <1>3, <2>1, <2>2, RefcountStep DEF IInv
<1>14. QED
  BY <1>3, <1>4, <1>5, <1>6, <1>7, <1>8, <1>9, <1>10, <1>11, <1>12, <1>13 DEF IInv

\* The tree's reference to the root goes; handles or children keep the root.
LEMMA StepDropRootFieldKept ==
  ASSUME IInv, NEW t \in Thread, DropRootField(t),
         refcount[Root] # 1
  PROVE  IInv'
<1>1. /\ refcount' = [refcount EXCEPT ![Root] = @ - 1]
      /\ tree' = "dropped"
      /\ pc' = [pc EXCEPT ![t] = IF job[t] = "drop" THEN "idle" ELSE "gc_pop"]
      /\ node' = [node EXCEPT ![t] = NULL]
      /\ base' = [base EXCEPT ![t] = NULL]
      /\ ret' = [ret EXCEPT ![t] = "none"]
      /\ job' = [job EXCEPT ![t] = IF @ = "drop" THEN "none" ELSE @]
      /\ UNCHANGED <<alloc, next_free, children, parent, key, strong, approximate_free_count, head, want>>
  BY DEF DropRootField, Goto, heap, world, locals, SubRef, Return
<1>2. /\ pc[t] = "drop_root" /\ node[t] = NULL /\ base[t] = NULL /\ job[t] = "drop" /\ tree = "dropping"
      /\ next_free[Root] = NULL /\ Root \in alloc /\ refcount[Root] \in Nat
      /\ \A u \in Thread : job[u] \notin {"gc", "ensure"}
      /\ \A u \in Thread \ {t} : ~ Dropping(u)
      /\ refcount[Root] > 1
  <2>1. pc[t] = "drop_root"
    BY DEF DropRootField
  <2>2. Dropping(t) /\ tree = "dropping" /\ job[t] = "drop" /\ node[t] = NULL /\ base[t] = NULL
    BY <2>1 DEF IInv, ThreadShape, Dropping, EnsureState, WriteState
  <2>3. refcount[Root] > 0 /\ Root \in alloc /\ refcount[Root] \in Nat
    BY <2>2, Counted, Alive DEF IInv, TypeOK
  <2>4. next_free[Root] = NULL
    BY <2>1, <2>2 DEF IInv, LinksSound
  <2>5. /\ \A u \in Thread : job[u] \notin {"gc", "ensure"}
        /\ \A u \in Thread \ {t} : ~ Dropping(u)
    BY <2>2 DEF IInv, ThreadShape, OneDropper
  <2>6. QED
    BY <2>1, <2>2, <2>3, <2>4, <2>5
<1>3. TypeOK'
  BY <1>1, <1>2 DEF IInv, TypeOK, ControlState
<1>4. HeapShape'
  BY <1>1, <1>2, HeapFrame DEF IInv, TypeOK, ThreadShape, CustodyState
<1>5. ThreadShape'
  BY <1>1, <1>2 DEF IInv, TypeOK, HeapShape, ThreadShape, CustodyState, EnsureState, SpinState, WriteState, Dropping
<1>6. LocksExclusive'
  BY <1>1, <1>2 DEF IInv, TypeOK, LocksExclusive, WriteState
<1>7. OneDropper'
  BY <1>1, <1>2 DEF IInv, TypeOK, OneDropper, Dropping
<1>8. OneCustody'
  BY <1>1, <1>2 DEF IInv, TypeOK, OneCustody, Custody, CustodyState
<1>9. PoppedIsFree'
  BY <1>1, <1>2 DEF IInv, TypeOK, PoppedIsFree, Custody, CustodyState
<1>10. OnlySpinnersResurrect'
  <2>1. \A u \in Thread : pc'[u] = "pretend" =>
           \/ refcount'[node'[u]] = 0
           \/ \E v \in Thread : pc'[v] \in SpinState /\ node'[v] = node'[u]
           \/ /\ pc[u] = "pretend" /\ node'[u] = node[u] /\ refcount[node[u]] > 0
              /\ \A v \in Thread : pc[v] \in SpinState /\ node[v] = node[u]
                                     => pc'[v] \in SpinState /\ node'[v] = node[v]
    BY <1>1, <1>2 DEF IInv, TypeOK, SpinState, ThreadShape, CustodyState
  <2>2. QED
    BY <2>1, SpinnersFrame DEF IInv
<1>11. NextFreeShape'
  BY <1>1, <1>2 DEF IInv, TypeOK, NextFreeShape, OneCustody, PoppedIsFree, Custody, CustodyState, ThreadShape
<1>12. LinksSound'
  <2>1. \A x \in Node : Listed(x)' <=> Listed(x)
    BY <1>1, <1>2 DEF IInv, TypeOK, Listed, Custody, CustodyState, ThreadShape
  <2>2. \A x \in Node : Linked(x) => next_free'[x] = next_free[x]
    BY <1>1, <1>2 DEF IInv, TypeOK, Linked, Listed, Custody, CustodyState, ThreadShape
  <2>3. /\ \A u \in Thread :
             /\ Walking(u)' => Walking(u) /\ head'[u] = head[u]
             /\ pc'[u] = "gc_swap" => next_free[Root] # NULL
             /\ Dropping(u)' /\ pc'[u] # "gc_swap" => next_free[Root] = NULL
        /\ next_free[Root] = NULL => tree' # "alive"
        /\ tree' = "dropped" => next_free[Root] = NULL
    BY <1>1, <1>2 DEF IInv, TypeOK, Walking, Dropping, ThreadShape, LinksSound
  <2>4. QED
    BY <2>1, <2>2, <2>3, LinksFrame DEF IInv
<1>13. RefcountExact'
  <2>1. \A m \in Node :
           refcount'[m] - refcount[m]
             = (strong'[m] - strong[m])
               + (Bit(pc'[t] \in HoldingState /\ node'[t] = m)
                    - Bit(pc[t] \in HoldingState /\ node[t] = m))
               + (Bit(Root \in alloc' /\ parent'[Root] = m) - Bit(Root \in alloc /\ parent[Root] = m))
               + (Bit(Listed(m)') - Bit(Listed(m)))
               + (Bit(m = Root /\ tree' # "dropped") - Bit(m = Root /\ tree # "dropped"))
    BY <1>1, <1>2 DEF IInv, TypeOK, ThreadShape, Bit, Listed, Custody, CustodyState, HoldingState
  <2>2. /\ \A u \in Thread \ {t} : pc'[u] = pc[u] /\ node'[u] = node[u]
        /\ Root \in Node
        /\ \A d \in Node \ {Root} : (d \in alloc' <=> d \in alloc) /\ parent'[d] = parent[d]
    BY <1>1, <1>2 DEF IInv, TypeOK
  <2>3. QED
    BY <1>3, <2>1, <2>2, RefcountStep DEF IInv
<1>14. QED
  BY <1>3, <1>4, <1>5, <1>6, <1>7, <1>8, <1>9, <1>10, <1>11, <1>12, <1>13 DEF IInv

\* The tree's reference to the root goes, and it was the last one.
LEMMA StepDropRootFieldLast ==
  ASSUME IInv, NEW t \in Thread, DropRootField(t),
         refcount[Root] = 1
  PROVE  IInv'
<1>1. /\ refcount' = [refcount EXCEPT ![Root] = @ - 1]
      /\ tree' = "dropped"
      /\ pc' = [pc EXCEPT ![t] = "free_root"]
      /\ node' = [node EXCEPT ![t] = Root]
      /\ ret' = [ret EXCEPT ![t] = "none"]
      /\ UNCHANGED <<alloc, next_free, children, parent, key, strong, approximate_free_count, head, base, want, job>>
  BY DEF DropRootField, Goto, heap, world, locals, SubRef, OnZero
<1>2. /\ pc[t] = "drop_root" /\ node[t] = NULL /\ base[t] = NULL /\ job[t] = "drop" /\ tree = "dropping"
      /\ next_free[Root] = NULL /\ Root \in alloc /\ refcount[Root] \in Nat
      /\ \A u \in Thread : job[u] \notin {"gc", "ensure"}
      /\ \A u \in Thread \ {t} : ~ Dropping(u)
      /\ strong[Root] = 0 /\ \A u \in Thread : pc[u] \in HoldingState => node[u] # Root
      /\ \A u \in Thread : pc[u] # "free_root"
  <2>1. pc[t] = "drop_root"
    BY DEF DropRootField
  <2>2. Dropping(t) /\ tree = "dropping" /\ job[t] = "drop" /\ node[t] = NULL /\ base[t] = NULL
    BY <2>1 DEF IInv, ThreadShape, Dropping, EnsureState, WriteState
  <2>3. refcount[Root] > 0 /\ Root \in alloc /\ refcount[Root] \in Nat
    BY <2>2, Counted, Alive DEF IInv, TypeOK
  <2>4. next_free[Root] = NULL
    BY <2>1, <2>2 DEF IInv, LinksSound
  <2>5. /\ \A u \in Thread : job[u] \notin {"gc", "ensure"}
        /\ \A u \in Thread \ {t} : ~ Dropping(u)
    BY <2>2 DEF IInv, ThreadShape, OneDropper
  <2>6. QED
    BY <2>1, <2>2, <2>3, <2>4, <2>5, TreeReferenceLast DEF IInv, ThreadShape
<1>3. TypeOK'
  BY <1>1, <1>2 DEF IInv, TypeOK, ControlState
<1>4. HeapShape'
  BY <1>1, <1>2, HeapFrame DEF IInv, TypeOK, ThreadShape, CustodyState
<1>5. ThreadShape'
  BY <1>1, <1>2 DEF IInv, TypeOK, HeapShape, ThreadShape, CustodyState, EnsureState, SpinState, WriteState, Dropping
<1>6. LocksExclusive'
  BY <1>1, <1>2 DEF IInv, TypeOK, LocksExclusive, WriteState
<1>7. OneDropper'
  BY <1>1, <1>2 DEF IInv, TypeOK, OneDropper, Dropping
<1>8. OneCustody'
  BY <1>1, <1>2 DEF IInv, TypeOK, OneCustody, Custody, CustodyState
<1>9. PoppedIsFree'
  BY <1>1, <1>2 DEF IInv, TypeOK, PoppedIsFree, Custody, CustodyState
<1>10. OnlySpinnersResurrect'
  <2>1. \A u \in Thread : pc'[u] = "pretend" =>
           \/ refcount'[node'[u]] = 0
           \/ \E v \in Thread : pc'[v] \in SpinState /\ node'[v] = node'[u]
           \/ /\ pc[u] = "pretend" /\ node'[u] = node[u] /\ refcount[node[u]] > 0
              /\ \A v \in Thread : pc[v] \in SpinState /\ node[v] = node[u]
                                     => pc'[v] \in SpinState /\ node'[v] = node[v]
    BY <1>1, <1>2 DEF IInv, TypeOK, SpinState, ThreadShape, CustodyState
  <2>2. QED
    BY <2>1, SpinnersFrame DEF IInv
<1>11. NextFreeShape'
  BY <1>1, <1>2 DEF IInv, TypeOK, NextFreeShape, OneCustody, PoppedIsFree, Custody, CustodyState, ThreadShape
<1>12. LinksSound'
  <2>1. \A x \in Node : Listed(x)' <=> Listed(x)
    BY <1>1, <1>2 DEF IInv, TypeOK, Listed, Custody, CustodyState, ThreadShape
  <2>2. \A x \in Node : Linked(x) => next_free'[x] = next_free[x]
    BY <1>1, <1>2 DEF IInv, TypeOK, Linked, Listed, Custody, CustodyState, ThreadShape
  <2>3. /\ \A u \in Thread :
             /\ Walking(u)' => Walking(u) /\ head'[u] = head[u]
             /\ pc'[u] = "gc_swap" => next_free[Root] # NULL
             /\ Dropping(u)' /\ pc'[u] # "gc_swap" => next_free[Root] = NULL
        /\ next_free[Root] = NULL => tree' # "alive"
        /\ tree' = "dropped" => next_free[Root] = NULL
    BY <1>1, <1>2 DEF IInv, TypeOK, Walking, Dropping, ThreadShape, LinksSound
  <2>4. QED
    BY <2>1, <2>2, <2>3, LinksFrame DEF IInv
<1>13. RefcountExact'
  <2>1. \A m \in Node :
           refcount'[m] - refcount[m]
             = (strong'[m] - strong[m])
               + (Bit(pc'[t] \in HoldingState /\ node'[t] = m)
                    - Bit(pc[t] \in HoldingState /\ node[t] = m))
               + (Bit(Root \in alloc' /\ parent'[Root] = m) - Bit(Root \in alloc /\ parent[Root] = m))
               + (Bit(Listed(m)') - Bit(Listed(m)))
               + (Bit(m = Root /\ tree' # "dropped") - Bit(m = Root /\ tree # "dropped"))
    BY <1>1, <1>2 DEF IInv, TypeOK, ThreadShape, Bit, Listed, Custody, CustodyState, HoldingState
  <2>2. /\ \A u \in Thread \ {t} : pc'[u] = pc[u] /\ node'[u] = node[u]
        /\ Root \in Node
        /\ \A d \in Node \ {Root} : (d \in alloc' <=> d \in alloc) /\ parent'[d] = parent[d]
    BY <1>1, <1>2 DEF IInv, TypeOK
  <2>3. QED
    BY <1>3, <2>1, <2>2, RefcountStep DEF IInv
<1>14. QED
  BY <1>3, <1>4, <1>5, <1>6, <1>7, <1>8, <1>9, <1>10, <1>11, <1>12, <1>13 DEF IInv

\* The root is freed: its count is zero, so it was the only node left.
LEMMA StepFreeRoot ==
  ASSUME IInv, NEW t \in Thread, FreeRoot(t)
  PROVE  IInv'
<1>1. /\ alloc' = alloc \ {Root}
      /\ pc' = [pc EXCEPT ![t] = IF job[t] = "drop" THEN "idle" ELSE "gc_pop"]
      /\ node' = [node EXCEPT ![t] = NULL]
      /\ base' = [base EXCEPT ![t] = NULL]
      /\ ret' = [ret EXCEPT ![t] = "none"]
      /\ job' = [job EXCEPT ![t] = IF @ = "drop" THEN "none" ELSE @]
      /\ UNCHANGED <<refcount, next_free, children, parent, key, strong, tree, approximate_free_count, head, want>>
  BY DEF FreeRoot, Goto, heap, world, locals, Return
<1>2. /\ pc[t] = "free_root" /\ node[t] = Root /\ base[t] = NULL /\ job[t] = "drop"
      /\ refcount[Root] = 0 /\ strong[Root] = 0 /\ alloc = {Root} /\ parent[Root] = NULL
      /\ \A u \in Thread : pc[u] \notin CustodyState /\ pc[u] # "unlock"
      /\ \A u \in Thread \ {t} : pc[u] # "free_root"
      /\ alloc' = {}
  <2>1. pc[t] = "free_root" /\ alloc' = alloc \ {Root}
    BY DEF FreeRoot
  <2>2. node[t] = Root /\ refcount[Root] = 0 /\ Root \in alloc /\ base[t] = NULL /\ parent[Root] = NULL
    BY <2>1 DEF IInv, ThreadShape, HeapShape, EnsureState, WriteState
  <2>3. (\A c \in alloc : parent[c] # Root) /\ tree = "dropped" /\ strong[Root] = 0
    BY <2>2, Counted DEF IInv, TypeOK
  <2>4. alloc = {Root}
    BY <2>2, <2>3, RootHasChild DEF IInv
  <2>5. job[t] = "drop"
    BY <2>1, <2>3 DEF IInv, TypeOK, ThreadShape, EnsureState, Dropping
  <2>6. \A u \in Thread : pc[u] \notin CustodyState /\ pc[u] # "unlock"
    BY <2>2, <2>4 DEF IInv, ThreadShape
  <2>7. \A u \in Thread \ {t} : pc[u] # "free_root"
    BY <2>1 DEF IInv, OneCustody
  <2>8. QED
    BY <2>1, <2>2, <2>3, <2>4, <2>5, <2>6, <2>7
<1>3. TypeOK'
  BY <1>1, <1>2 DEF IInv, TypeOK, ControlState
<1>4. HeapShape'
  BY <1>1, <1>2 DEF IInv, TypeOK, HeapShape
<1>5. ThreadShape'
  BY <1>1, <1>2 DEF IInv, TypeOK, HeapShape, ThreadShape, CustodyState, EnsureState, SpinState, WriteState, Dropping
<1>6. LocksExclusive'
  BY <1>1, <1>2 DEF IInv, TypeOK, LocksExclusive, WriteState
<1>7. OneDropper'
  BY <1>1, <1>2 DEF IInv, TypeOK, OneDropper, Dropping
<1>8. OneCustody'
  BY <1>1, <1>2 DEF IInv, TypeOK, OneCustody, Custody, CustodyState
<1>9. PoppedIsFree'
  BY <1>1, <1>2 DEF IInv, TypeOK, PoppedIsFree, Custody, CustodyState
<1>10. OnlySpinnersResurrect'
  <2>1. \A u \in Thread : pc'[u] = "pretend" =>
           \/ refcount'[node'[u]] = 0
           \/ \E v \in Thread : pc'[v] \in SpinState /\ node'[v] = node'[u]
           \/ /\ pc[u] = "pretend" /\ node'[u] = node[u] /\ refcount[node[u]] > 0
              /\ \A v \in Thread : pc[v] \in SpinState /\ node[v] = node[u]
                                     => pc'[v] \in SpinState /\ node'[v] = node[v]
    BY <1>1, <1>2 DEF IInv, TypeOK, SpinState, ThreadShape, CustodyState
  <2>2. QED
    BY <2>1, SpinnersFrame DEF IInv
<1>11. NextFreeShape'
  BY <1>1, <1>2 DEF IInv, TypeOK, NextFreeShape, OneCustody, PoppedIsFree, Custody, CustodyState, ThreadShape
<1>12. LinksSound'
  <2>1. \A x \in Node : Listed(x)' <=> Listed(x)
    BY <1>1, <1>2 DEF IInv, TypeOK, Listed, Custody, CustodyState, ThreadShape
  <2>2. \A x \in Node : Linked(x) => next_free'[x] = next_free[x]
    BY <1>1, <1>2 DEF IInv, TypeOK, Linked, Listed, Custody, CustodyState, ThreadShape
  <2>3. /\ \A u \in Thread :
             /\ Walking(u)' => Walking(u) /\ head'[u] = head[u]
             /\ pc'[u] = "gc_swap" => next_free[Root] # NULL
             /\ Dropping(u)' /\ pc'[u] # "gc_swap" => next_free[Root] = NULL
        /\ next_free[Root] = NULL => tree' # "alive"
        /\ tree' = "dropped" => next_free[Root] = NULL
    BY <1>1, <1>2 DEF IInv, TypeOK, Walking, Dropping, ThreadShape, LinksSound
  <2>4. QED
    BY <2>1, <2>2, <2>3, LinksFrame DEF IInv
<1>13. RefcountExact'
  <2>1. \A m \in Node :
           refcount'[m] - refcount[m]
             = (strong'[m] - strong[m])
               + (Bit(pc'[t] \in HoldingState /\ node'[t] = m)
                    - Bit(pc[t] \in HoldingState /\ node[t] = m))
               + (Bit(Root \in alloc' /\ parent'[Root] = m) - Bit(Root \in alloc /\ parent[Root] = m))
               + (Bit(Listed(m)') - Bit(Listed(m)))
               + (Bit(m = Root /\ tree' # "dropped") - Bit(m = Root /\ tree # "dropped"))
    BY <1>1, <1>2 DEF IInv, TypeOK, ThreadShape, Bit, Listed, Custody, CustodyState, HoldingState
  <2>2. /\ \A u \in Thread \ {t} : pc'[u] = pc[u] /\ node'[u] = node[u]
        /\ Root \in Node
        /\ \A d \in Node \ {Root} : (d \in alloc' <=> d \in alloc) /\ parent'[d] = parent[d]
    BY <1>1, <1>2 DEF IInv, TypeOK
  <2>3. QED
    BY <1>3, <2>1, <2>2, RefcountStep DEF IInv
<1>14. QED
  BY <1>3, <1>4, <1>5, <1>6, <1>7, <1>8, <1>9, <1>10, <1>11, <1>12, <1>13 DEF IInv

\* A dead node leaves its parent's map and is freed: its count of one was
\* the custodian's, so nothing else refers to it.
LEMMA StepUnlinkRemove ==
  ASSUME IInv, NEW t \in Thread, UnlinkRemove(t)
  PROVE  IInv'
<1>1. /\ alloc' = alloc \ {node[t]}
      /\ refcount' = [refcount EXCEPT ![node[t]] = @ - 1]
      /\ children' = [children EXCEPT ![base[t]][key[node[t]]] = NULL]
      /\ parent' = [parent EXCEPT ![node[t]] = NULL]
      /\ key' = [key EXCEPT ![node[t]] = NULL]
      /\ pc' = [pc EXCEPT ![t] = "dec_parent"]
      /\ node' = [node EXCEPT ![t] = base[t]]
      /\ base' = [base EXCEPT ![t] = NULL]
      /\ UNCHANGED <<next_free, strong, tree, approximate_free_count, head, want, ret, job>>
  BY DEF UnlinkRemove, Goto, heap, world, locals, ForgetChild, FreeUnlinked, SubRef
<1>2. /\ pc[t] = "unlink_dec" /\ node[t] \in NonRoot /\ node[t] \in alloc /\ parent[node[t]] \in alloc
      /\ base[t] = parent[node[t]] /\ base[t] \in Node /\ base[t] # node[t] /\ key[node[t]] \in Key
      /\ refcount[node[t]] = 1 /\ strong[node[t]] = 0 /\ next_free[node[t]] = NULL
      /\ \A c \in alloc : parent[c] # node[t]
      /\ \A u \in Thread \ {t} : pc[u] \in HoldingState => node[u] # node[t]
      /\ \A u \in Thread \ {t} : ~ Custody(u, node[t]) /\ (pc[u] \in CustodyState => node[u] # node[t])
      /\ \A u \in Thread : pc[u] \in EnsureState => base[u] # node[t]
      /\ \A u \in Thread \ {t} : pc[u] \in WriteState \cup {"spin_read"} => base[u] # base[t]
      /\ \A u \in Thread : pc[u] # "free_root"
      /\ job[t] \in {"drop", "gc", "droptree"}
  <2>1. pc[t] = "unlink_dec" /\ refcount[node[t]] = 1 /\ pc[t] \in CustodyState /\ pc[t] \in HoldingState
        /\ pc[t] \in WriteState
    BY DEF UnlinkRemove, CustodyState, HoldingState, WriteState
  <2>2. node[t] \in alloc \ {Root} /\ base[t] = parent[node[t]] /\ next_free[node[t]] = NULL
    BY <2>1 DEF IInv, ThreadShape, NextFreeShape
  <2>3. node[t] \in NonRoot /\ node[t] \in Node
    BY <2>2 DEF IInv, TypeOK
  <2>4. parent[node[t]] \in alloc /\ parent[node[t]] \in Node /\ key[node[t]] \in Key
    BY <2>2 DEF IInv, TypeOK, HeapShape
  <2>5. parent[node[t]] # node[t]
    <3>1. {node[t]} \in SUBSET (alloc \ {Root}) /\ {node[t]} # {}
      BY <2>2
    <3>2. \E m \in {node[t]} : parent[m] \notin {node[t]}
      BY <3>1, Zenon DEF IInv, HeapShape
    <3>3. QED
      BY <3>2
  <2>6. /\ strong[node[t]] = 0
        /\ \A c \in alloc : parent[c] # node[t]
        /\ \A u \in Thread : pc[u] \in HoldingState /\ node[u] = node[t] => u = t
    BY <2>1, <2>3, LastHolder DEF IInv
  <2>7. \A u \in Thread \ {t} : ~ Custody(u, node[t]) /\ (pc[u] \in CustodyState => node[u] # node[t])
    BY <2>1, <2>2, <2>3 DEF IInv, OneCustody, Custody
  <2>8. \A u \in Thread : pc[u] \in EnsureState => base[u] # node[t]
    BY <2>2, <2>6 DEF IInv, ThreadShape
  <2>9. \A u \in Thread \ {t} : pc[u] \in WriteState \cup {"spin_read"} => base[u] # base[t]
    BY <2>1 DEF IInv, LocksExclusive
  <2>10. \A u \in Thread : pc[u] # "free_root"
    <3> SUFFICES ASSUME NEW u \in Thread, pc[u] = "free_root" PROVE FALSE
      OBVIOUS
    <3>1. refcount[Root] = 0
      BY DEF IInv, ThreadShape
    <3>2. \A c \in alloc : parent[c] # Root
      BY <3>1, Counted DEF IInv
    <3>3. QED
      BY <2>2, <3>2, RootHasChild DEF IInv
  <2>11. job[t] \in {"drop", "gc", "droptree"}
    BY <2>1 DEF IInv, TypeOK, ThreadShape, EnsureState
  <2>12. QED
    BY <2>1, <2>2, <2>3, <2>4, <2>5, <2>6, <2>7, <2>8, <2>9, <2>10, <2>11
<1>3. TypeOK'
  BY <1>1, <1>2 DEF IInv, TypeOK, ControlState
<1>4. HeapShape'
  <2>0. PICK n \in NonRoot, p \in alloc, k \in Key : n = node[t] /\ p = base[t] /\ k = key[n]
    BY <1>2
  <2>1. /\ alloc' = alloc \ {n} /\ n \in Node /\ p \in Node /\ n # p
        /\ refcount'[n] = 0 /\ \A x \in Node \ {n} : refcount'[x] = refcount[x]
        /\ parent'[n] = NULL /\ \A x \in Node \ {n} : parent'[x] = parent[x]
        /\ \A x \in Node \ {n} : key'[x] = key[x]
        /\ children'[p][k] = NULL
        /\ \A q \in Node, l \in Key : (q # p \/ l # k) => children'[q][l] = children[q][l]
    BY <1>1, <1>2, <2>0 DEF IInv, TypeOK
  <2>2. parent[n] = p /\ key[n] = k /\ n \in alloc /\ \A c \in alloc : parent[c] # n
    BY <1>2, <2>0
  <2>3. HeapShape /\ alloc \subseteq Node
    BY DEF IInv, TypeOK
  <2>4. /\ \A x \in alloc' \ {Root} : parent'[x] \in alloc' /\ key'[x] \in Key
        /\ parent'[Root] = NULL /\ key'[Root] = NULL
        /\ \A x \in Node \ alloc' : refcount'[x] = 0 /\ parent'[x] = NULL
        /\ Root \notin alloc' => alloc' = {}
    BY <2>1, <2>2, <2>3 DEF HeapShape
  <2>5. ASSUME NEW q \in Node, NEW l \in Key, NEW c \in NonRoot
        PROVE  children'[q][l] = c <=> c \in alloc' /\ parent'[c] = q /\ key'[c] = l
    <3>1. children[q][l] = c <=> c \in alloc /\ parent[c] = q /\ key[c] = l
      BY <2>3 DEF HeapShape
    <3>2. children[p][k] = n
      BY <2>2, <2>3 DEF HeapShape
    <3>3. c \in Node
      OBVIOUS
    <3>4. QED
      BY <2>1, <2>2, <3>1, <3>2, <3>3
  <2>6. ASSUME NEW S \in SUBSET (alloc' \ {Root}), S # {} PROVE \E x \in S : parent'[x] \notin S
    <3>1. S \in SUBSET (alloc \ {Root}) /\ n \notin S
      BY <2>1
    <3>2. PICK x \in S : parent[x] \notin S
      BY <2>3, <2>6, <3>1 DEF HeapShape
    <3>3. parent'[x] = parent[x]
      BY <2>1, <2>3, <3>1
    <3>4. QED
      BY <3>2, <3>3
  <2>7. QED
    BY <2>4, <2>5, <2>6 DEF HeapShape
<1>5. ThreadShape'
  BY <1>1, <1>2 DEF IInv, TypeOK, ThreadShape, CustodyState, HoldingState, EnsureState, SpinState, WriteState, Dropping
<1>6. LocksExclusive'
  BY <1>1, <1>2 DEF IInv, TypeOK, LocksExclusive, WriteState
<1>7. OneDropper'
  BY <1>1, <1>2 DEF IInv, TypeOK, OneDropper, Dropping
<1>8. OneCustody'
  BY <1>1, <1>2 DEF IInv, TypeOK, OneCustody, Custody, CustodyState
<1>9. PoppedIsFree'
  BY <1>1, <1>2 DEF IInv, TypeOK, PoppedIsFree, Custody, CustodyState
<1>10. OnlySpinnersResurrect'
  <2>1. \A u \in Thread : pc'[u] = "pretend" =>
           \/ refcount'[node'[u]] = 0
           \/ \E v \in Thread : pc'[v] \in SpinState /\ node'[v] = node'[u]
           \/ /\ pc[u] = "pretend" /\ node'[u] = node[u] /\ refcount[node[u]] > 0
              /\ \A v \in Thread : pc[v] \in SpinState /\ node[v] = node[u]
                                     => pc'[v] \in SpinState /\ node'[v] = node[v]
    BY <1>1, <1>2 DEF IInv, TypeOK, SpinState, ThreadShape, CustodyState
  <2>2. QED
    BY <2>1, SpinnersFrame DEF IInv
<1>11. NextFreeShape'
  BY <1>1, <1>2 DEF IInv, TypeOK, NextFreeShape, OneCustody, PoppedIsFree, Custody, CustodyState, ThreadShape
<1>12. LinksSound'
  <2>1. \A x \in Node : Listed(x)' <=> Listed(x)
    BY <1>1, <1>2 DEF IInv, TypeOK, Listed, Custody, CustodyState, ThreadShape
  <2>2. \A x \in Node : Linked(x) => next_free'[x] = next_free[x]
    BY <1>1, <1>2 DEF IInv, TypeOK, Linked, Listed, Custody, CustodyState, ThreadShape
  <2>3. /\ \A u \in Thread :
             /\ Walking(u)' => Walking(u) /\ head'[u] = head[u]
             /\ pc'[u] = "gc_swap" => next_free[Root] # NULL
             /\ Dropping(u)' /\ pc'[u] # "gc_swap" => next_free[Root] = NULL
        /\ next_free[Root] = NULL => tree' # "alive"
        /\ tree' = "dropped" => next_free[Root] = NULL
    BY <1>1, <1>2 DEF IInv, TypeOK, Walking, Dropping, ThreadShape, LinksSound
  <2>4. QED
    BY <2>1, <2>2, <2>3, LinksFrame DEF IInv
<1>13. RefcountExact'
  <2>1. \A m \in Node :
           refcount'[m] - refcount[m]
             = (strong'[m] - strong[m])
               + (Bit(pc'[t] \in HoldingState /\ node'[t] = m)
                    - Bit(pc[t] \in HoldingState /\ node[t] = m))
               + (Bit(node[t] \in alloc' /\ parent'[node[t]] = m) - Bit(node[t] \in alloc /\ parent[node[t]] = m))
               + (Bit(Listed(m)') - Bit(Listed(m)))
               + (Bit(m = Root /\ tree' # "dropped") - Bit(m = Root /\ tree # "dropped"))
    BY <1>1, <1>2 DEF IInv, TypeOK, ThreadShape, Bit, Listed, Custody, CustodyState, HoldingState
  <2>2. /\ \A u \in Thread \ {t} : pc'[u] = pc[u] /\ node'[u] = node[u]
        /\ node[t] \in Node
        /\ \A d \in Node \ {node[t]} : (d \in alloc' <=> d \in alloc) /\ parent'[d] = parent[d]
    BY <1>1, <1>2 DEF IInv, TypeOK
  <2>3. QED
    BY <1>3, <2>1, <2>2, RefcountStep DEF IInv
<1>14. QED
  BY <1>3, <1>4, <1>5, <1>6, <1>7, <1>8, <1>9, <1>10, <1>11, <1>12, <1>13 DEF IInv

\* A dead child is found under the read lock: its count keeps it in memory.
LEMMA StepEnsureReadSpin ==
  ASSUME IInv, NEW t \in Thread, NEW p \in Node, NEW k \in Key, EnsureRead(t, p, k),
         children[p][k] # NULL, refcount[children[p][k]] = 0
  PROVE  IInv'
<1>1. /\ refcount' = [refcount EXCEPT ![children[p][k]] = @ + 1]
      /\ pc' = [pc EXCEPT ![t] = "spin_read"]
      /\ node' = [node EXCEPT ![t] = children[p][k]]
      /\ base' = [base EXCEPT ![t] = p]
      /\ want' = [want EXCEPT ![t] = NULL]
      /\ job' = [job EXCEPT ![t] = "ensure"]
      /\ UNCHANGED <<alloc, next_free, children, parent, key, strong, tree, approximate_free_count, head, ret>>
  BY DEF EnsureRead, Goto, heap, world, locals, Upgrade, AddRef
<1>2. /\ children[p][k] \in NonRoot /\ children[p][k] \in alloc /\ parent[children[p][k]] = p /\ p \in Node
      /\ refcount[children[p][k]] \in Nat /\ strong[children[p][k]] \in Nat
      /\ tree = "alive" /\ (p = Root \/ strong[p] > 0)
      /\ pc[t] = "idle" /\ node[t] = NULL /\ base[t] = NULL
      /\ \A u \in Thread : pc[u] \in WriteState => base[u] # p
  <2>1. pc[t] = "idle" /\ children[p][k] \in NonRoot /\ p \in Node /\ k \in Key
    BY DEF EnsureRead, CanCall, IInv, TypeOK, ThreadShape, EnsureState
  <2>2. children[p][k] \in alloc /\ parent[children[p][k]] = p
    BY <2>1 DEF IInv, HeapShape
  <2>3. tree = "alive" /\ (p = Root \/ strong[p] > 0)
    BY <2>1 DEF EnsureRead, IInv, ThreadShape, EnsureState
  <2>4. pc[t] = "idle" /\ node[t] = NULL /\ base[t] = NULL
    BY <2>1 DEF EnsureRead, CanCall, IInv, ThreadShape, EnsureState, WriteState
  <2>5. refcount[children[p][k]] \in Nat /\ strong[children[p][k]] \in Nat
    BY <2>1 DEF IInv, TypeOK
  <2>6. /\ \A u \in Thread : pc[u] \in WriteState => base[u] # p
    BY DEF EnsureRead, WriteHeld, ReadHeld, WriteState
  <2>7. QED
    BY <2>1, <2>2, <2>3, <2>4, <2>5, <2>6
<1>3. TypeOK'
  BY <1>1, <1>2 DEF IInv, TypeOK, ControlState
<1>4. HeapShape'
  BY <1>1, <1>2, HeapFrame DEF IInv, TypeOK, ThreadShape, CustodyState
<1>5. ThreadShape'
  BY <1>1, <1>2 DEF IInv, TypeOK, HeapShape, ThreadShape, CustodyState, EnsureState, SpinState, WriteState, Dropping
<1>6. LocksExclusive'
  BY <1>1, <1>2 DEF IInv, TypeOK, LocksExclusive, WriteState
<1>7. OneDropper'
  BY <1>1, <1>2 DEF IInv, TypeOK, OneDropper, Dropping
<1>8. OneCustody'
  BY <1>1, <1>2 DEF IInv, TypeOK, OneCustody, Custody, CustodyState
<1>9. PoppedIsFree'
  BY <1>1, <1>2 DEF IInv, TypeOK, PoppedIsFree, Custody, CustodyState
<1>10. OnlySpinnersResurrect'
  <2>1. \A u \in Thread : pc'[u] = "pretend" =>
           \/ refcount'[node'[u]] = 0
           \/ \E v \in Thread : pc'[v] \in SpinState /\ node'[v] = node'[u]
           \/ /\ pc[u] = "pretend" /\ node'[u] = node[u] /\ refcount[node[u]] > 0
              /\ \A v \in Thread : pc[v] \in SpinState /\ node[v] = node[u]
                                     => pc'[v] \in SpinState /\ node'[v] = node[v]
    BY <1>1, <1>2 DEF IInv, TypeOK, SpinState, ThreadShape, CustodyState
  <2>2. QED
    BY <2>1, SpinnersFrame DEF IInv
<1>11. NextFreeShape'
  BY <1>1, <1>2 DEF IInv, TypeOK, NextFreeShape, OneCustody, PoppedIsFree, Custody, CustodyState, ThreadShape
<1>12. LinksSound'
  <2>1. \A x \in Node : Listed(x)' <=> Listed(x)
    BY <1>1, <1>2 DEF IInv, TypeOK, Listed, Custody, CustodyState, ThreadShape
  <2>2. \A x \in Node : Linked(x) => next_free'[x] = next_free[x]
    BY <1>1, <1>2 DEF IInv, TypeOK, Linked, Listed, Custody, CustodyState, ThreadShape
  <2>3. /\ \A u \in Thread :
             /\ Walking(u)' => Walking(u) /\ head'[u] = head[u]
             /\ pc'[u] = "gc_swap" => next_free[Root] # NULL
             /\ Dropping(u)' /\ pc'[u] # "gc_swap" => next_free[Root] = NULL
        /\ next_free[Root] = NULL => tree' # "alive"
        /\ tree' = "dropped" => next_free[Root] = NULL
    BY <1>1, <1>2 DEF IInv, TypeOK, Walking, Dropping, ThreadShape, LinksSound
  <2>4. QED
    BY <2>1, <2>2, <2>3, LinksFrame DEF IInv
<1>13. RefcountExact'
  <2>1. \A m \in Node :
           refcount'[m] - refcount[m]
             = (strong'[m] - strong[m])
               + (Bit(pc'[t] \in HoldingState /\ node'[t] = m)
                    - Bit(pc[t] \in HoldingState /\ node[t] = m))
               + (Bit(Root \in alloc' /\ parent'[Root] = m) - Bit(Root \in alloc /\ parent[Root] = m))
               + (Bit(Listed(m)') - Bit(Listed(m)))
               + (Bit(m = Root /\ tree' # "dropped") - Bit(m = Root /\ tree # "dropped"))
    <3>1. \A m \in Node : Listed(m)' <=> Listed(m)
      BY <1>1, <1>2 DEF IInv, TypeOK, Listed, Custody, CustodyState, HoldingState
    <3>2. (pc'[t] \in HoldingState <=> TRUE) /\ (pc[t] \in HoldingState <=> FALSE)
      BY <1>1, <1>2 DEF IInv, TypeOK, HoldingState, SpinState
    <3>3. PICK c \in Node : c = children[p][k]
      BY <1>1, <1>2
    <3>4. /\ refcount'[c] = refcount[c] + 1 /\ \A m \in Node \ {c} : refcount'[m] = refcount[m]
          /\ strong'[c] = strong[c] + 0 /\ \A m \in Node \ {c} : strong'[m] = strong[m]
          /\ \A m \in Node : refcount[m] \in Nat /\ strong[m] \in Nat
          /\ alloc' = alloc /\ parent' = parent /\ tree' = tree /\ node'[t] = c
      BY <1>1, <1>2, <3>3 DEF IInv, TypeOK
    <3>5. QED
      BY <3>1, <3>2, <3>4 DEF Bit
  <2>2. /\ \A u \in Thread \ {t} : pc'[u] = pc[u] /\ node'[u] = node[u]
        /\ Root \in Node
        /\ \A d \in Node \ {Root} : (d \in alloc' <=> d \in alloc) /\ parent'[d] = parent[d]
    BY <1>1, <1>2 DEF IInv, TypeOK
  <2>3. QED
    BY <1>3, <2>1, <2>2, RefcountStep DEF IInv
<1>14. QED
  BY <1>3, <1>4, <1>5, <1>6, <1>7, <1>8, <1>9, <1>10, <1>11, <1>12, <1>13 DEF IInv

\* A live child is found under the read lock.
LEMMA StepEnsureReadHit ==
  ASSUME IInv, NEW t \in Thread, NEW p \in Node, NEW k \in Key, EnsureRead(t, p, k),
         children[p][k] # NULL, refcount[children[p][k]] # 0
  PROVE  IInv'
<1>1. /\ refcount' = [refcount EXCEPT ![children[p][k]] = @ + 1]
      /\ strong' = [strong EXCEPT ![children[p][k]] = @ + 1]
      /\ pc' = [pc EXCEPT ![t] = "idle"]
      /\ base' = [base EXCEPT ![t] = NULL]
      /\ want' = [want EXCEPT ![t] = NULL]
      /\ job' = [job EXCEPT ![t] = "none"]
      /\ UNCHANGED <<alloc, next_free, children, parent, key, tree, approximate_free_count, node, head, ret>>
  BY DEF EnsureRead, Goto, heap, world, locals, Upgrade, AddRef
<1>2. /\ children[p][k] \in NonRoot /\ children[p][k] \in alloc /\ parent[children[p][k]] = p /\ p \in Node
      /\ refcount[children[p][k]] \in Nat /\ strong[children[p][k]] \in Nat
      /\ tree = "alive" /\ (p = Root \/ strong[p] > 0)
      /\ pc[t] = "idle" /\ node[t] = NULL /\ base[t] = NULL
      /\ refcount[children[p][k]] > 0
  <2>1. pc[t] = "idle" /\ children[p][k] \in NonRoot /\ p \in Node /\ k \in Key
    BY DEF EnsureRead, CanCall, IInv, TypeOK, ThreadShape, EnsureState
  <2>2. children[p][k] \in alloc /\ parent[children[p][k]] = p
    BY <2>1 DEF IInv, HeapShape
  <2>3. tree = "alive" /\ (p = Root \/ strong[p] > 0)
    BY <2>1 DEF EnsureRead, IInv, ThreadShape, EnsureState
  <2>4. pc[t] = "idle" /\ node[t] = NULL /\ base[t] = NULL
    BY <2>1 DEF EnsureRead, CanCall, IInv, ThreadShape, EnsureState, WriteState
  <2>5. refcount[children[p][k]] \in Nat /\ strong[children[p][k]] \in Nat
    BY <2>1 DEF IInv, TypeOK
  <2>6. QED
    BY <2>1, <2>2, <2>3, <2>4, <2>5
<1>3. TypeOK'
  BY <1>1, <1>2 DEF IInv, TypeOK, ControlState
<1>4. HeapShape'
  BY <1>1, <1>2, HeapFrame DEF IInv, TypeOK, ThreadShape, CustodyState
<1>5. ThreadShape'
  BY <1>1, <1>2 DEF IInv, TypeOK, HeapShape, ThreadShape, CustodyState, EnsureState, SpinState, WriteState, Dropping
<1>6. LocksExclusive'
  BY <1>1, <1>2 DEF IInv, TypeOK, LocksExclusive, WriteState
<1>7. OneDropper'
  BY <1>1, <1>2 DEF IInv, TypeOK, OneDropper, Dropping
<1>8. OneCustody'
  BY <1>1, <1>2 DEF IInv, TypeOK, OneCustody, Custody, CustodyState
<1>9. PoppedIsFree'
  BY <1>1, <1>2 DEF IInv, TypeOK, PoppedIsFree, Custody, CustodyState
<1>10. OnlySpinnersResurrect'
  <2>1. \A u \in Thread : pc'[u] = "pretend" =>
           \/ refcount'[node'[u]] = 0
           \/ \E v \in Thread : pc'[v] \in SpinState /\ node'[v] = node'[u]
           \/ /\ pc[u] = "pretend" /\ node'[u] = node[u] /\ refcount[node[u]] > 0
              /\ \A v \in Thread : pc[v] \in SpinState /\ node[v] = node[u]
                                     => pc'[v] \in SpinState /\ node'[v] = node[v]
    BY <1>1, <1>2 DEF IInv, TypeOK, SpinState, ThreadShape, CustodyState
  <2>2. QED
    BY <2>1, SpinnersFrame DEF IInv
<1>11. NextFreeShape'
  BY <1>1, <1>2 DEF IInv, TypeOK, NextFreeShape, OneCustody, PoppedIsFree, Custody, CustodyState, ThreadShape
<1>12. LinksSound'
  <2>1. \A x \in Node : Listed(x)' <=> Listed(x)
    BY <1>1, <1>2 DEF IInv, TypeOK, Listed, Custody, CustodyState, ThreadShape
  <2>2. \A x \in Node : Linked(x) => next_free'[x] = next_free[x]
    BY <1>1, <1>2 DEF IInv, TypeOK, Linked, Listed, Custody, CustodyState, ThreadShape
  <2>3. /\ \A u \in Thread :
             /\ Walking(u)' => Walking(u) /\ head'[u] = head[u]
             /\ pc'[u] = "gc_swap" => next_free[Root] # NULL
             /\ Dropping(u)' /\ pc'[u] # "gc_swap" => next_free[Root] = NULL
        /\ next_free[Root] = NULL => tree' # "alive"
        /\ tree' = "dropped" => next_free[Root] = NULL
    BY <1>1, <1>2 DEF IInv, TypeOK, Walking, Dropping, ThreadShape, LinksSound
  <2>4. QED
    BY <2>1, <2>2, <2>3, LinksFrame DEF IInv
<1>13. RefcountExact'
  <2>1. \A m \in Node :
           refcount'[m] - refcount[m]
             = (strong'[m] - strong[m])
               + (Bit(pc'[t] \in HoldingState /\ node'[t] = m)
                    - Bit(pc[t] \in HoldingState /\ node[t] = m))
               + (Bit(Root \in alloc' /\ parent'[Root] = m) - Bit(Root \in alloc /\ parent[Root] = m))
               + (Bit(Listed(m)') - Bit(Listed(m)))
               + (Bit(m = Root /\ tree' # "dropped") - Bit(m = Root /\ tree # "dropped"))
    <3>1. \A m \in Node : Listed(m)' <=> Listed(m)
      BY <1>1, <1>2 DEF IInv, TypeOK, Listed, Custody, CustodyState, HoldingState
    <3>2. (pc'[t] \in HoldingState <=> FALSE) /\ (pc[t] \in HoldingState <=> FALSE)
      BY <1>1, <1>2 DEF IInv, TypeOK, HoldingState, SpinState
    <3>3. PICK c \in Node : c = children[p][k]
      BY <1>1, <1>2
    <3>4. /\ refcount'[c] = refcount[c] + 1 /\ \A m \in Node \ {c} : refcount'[m] = refcount[m]
          /\ strong'[c] = strong[c] + 1 /\ \A m \in Node \ {c} : strong'[m] = strong[m]
          /\ \A m \in Node : refcount[m] \in Nat /\ strong[m] \in Nat
          /\ alloc' = alloc /\ parent' = parent /\ tree' = tree 
      BY <1>1, <1>2, <3>3 DEF IInv, TypeOK
    <3>5. QED
      BY <3>1, <3>2, <3>4 DEF Bit
  <2>2. /\ \A u \in Thread \ {t} : pc'[u] = pc[u] /\ node'[u] = node[u]
        /\ Root \in Node
        /\ \A d \in Node \ {Root} : (d \in alloc' <=> d \in alloc) /\ parent'[d] = parent[d]
    BY <1>1, <1>2 DEF IInv, TypeOK
  <2>3. QED
    BY <1>3, <2>1, <2>2, RefcountStep DEF IInv
<1>14. QED
  BY <1>3, <1>4, <1>5, <1>6, <1>7, <1>8, <1>9, <1>10, <1>11, <1>12, <1>13 DEF IInv

\* There is no child: the write lock is needed.
LEMMA StepEnsureReadMiss ==
  ASSUME IInv, NEW t \in Thread, NEW p \in Node, NEW k \in Key, EnsureRead(t, p, k),
         children[p][k] = NULL
  PROVE  IInv'
<1>1. /\ pc' = [pc EXCEPT ![t] = "ensure_write"]
      /\ base' = [base EXCEPT ![t] = p]
      /\ want' = [want EXCEPT ![t] = k]
      /\ job' = [job EXCEPT ![t] = "ensure"]
      /\ UNCHANGED <<alloc, refcount, next_free, children, parent, key, strong, tree, approximate_free_count, node, head, ret>>
  BY DEF EnsureRead, Goto, heap, world, locals
<1>2. /\ pc[t] = "idle" /\ node[t] = NULL /\ base[t] = NULL /\ tree = "alive" /\ (p = Root \/ strong[p] > 0)
  BY DEF EnsureRead, CanCall, IInv, ThreadShape, EnsureState, WriteState
<1>3. TypeOK'
  BY <1>1, <1>2 DEF IInv, TypeOK, ControlState
<1>4. HeapShape'
  BY <1>1, <1>2, HeapFrame DEF IInv, TypeOK, ThreadShape, CustodyState
<1>5. ThreadShape'
  BY <1>1, <1>2 DEF IInv, TypeOK, HeapShape, ThreadShape, CustodyState, EnsureState, SpinState, WriteState, Dropping
<1>6. LocksExclusive'
  BY <1>1, <1>2 DEF IInv, TypeOK, LocksExclusive, WriteState
<1>7. OneDropper'
  BY <1>1, <1>2 DEF IInv, TypeOK, OneDropper, Dropping
<1>8. OneCustody'
  BY <1>1, <1>2 DEF IInv, TypeOK, OneCustody, Custody, CustodyState
<1>9. PoppedIsFree'
  BY <1>1, <1>2 DEF IInv, TypeOK, PoppedIsFree, Custody, CustodyState
<1>10. OnlySpinnersResurrect'
  <2>1. \A u \in Thread : pc'[u] = "pretend" =>
           \/ refcount'[node'[u]] = 0
           \/ \E v \in Thread : pc'[v] \in SpinState /\ node'[v] = node'[u]
           \/ /\ pc[u] = "pretend" /\ node'[u] = node[u] /\ refcount[node[u]] > 0
              /\ \A v \in Thread : pc[v] \in SpinState /\ node[v] = node[u]
                                     => pc'[v] \in SpinState /\ node'[v] = node[v]
    BY <1>1, <1>2 DEF IInv, TypeOK, SpinState, ThreadShape, CustodyState
  <2>2. QED
    BY <2>1, SpinnersFrame DEF IInv
<1>11. NextFreeShape'
  BY <1>1, <1>2 DEF IInv, TypeOK, NextFreeShape, OneCustody, PoppedIsFree, Custody, CustodyState, ThreadShape
<1>12. LinksSound'
  <2>1. \A x \in Node : Listed(x)' <=> Listed(x)
    BY <1>1, <1>2 DEF IInv, TypeOK, Listed, Custody, CustodyState, ThreadShape
  <2>2. \A x \in Node : Linked(x) => next_free'[x] = next_free[x]
    BY <1>1, <1>2 DEF IInv, TypeOK, Linked, Listed, Custody, CustodyState, ThreadShape
  <2>3. /\ \A u \in Thread :
             /\ Walking(u)' => Walking(u) /\ head'[u] = head[u]
             /\ pc'[u] = "gc_swap" => next_free[Root] # NULL
             /\ Dropping(u)' /\ pc'[u] # "gc_swap" => next_free[Root] = NULL
        /\ next_free[Root] = NULL => tree' # "alive"
        /\ tree' = "dropped" => next_free[Root] = NULL
    BY <1>1, <1>2 DEF IInv, TypeOK, Walking, Dropping, ThreadShape, LinksSound
  <2>4. QED
    BY <2>1, <2>2, <2>3, LinksFrame DEF IInv
<1>13. RefcountExact'
  <2>1. \A m \in Node :
           refcount'[m] - refcount[m]
             = (strong'[m] - strong[m])
               + (Bit(pc'[t] \in HoldingState /\ node'[t] = m)
                    - Bit(pc[t] \in HoldingState /\ node[t] = m))
               + (Bit(Root \in alloc' /\ parent'[Root] = m) - Bit(Root \in alloc /\ parent[Root] = m))
               + (Bit(Listed(m)') - Bit(Listed(m)))
               + (Bit(m = Root /\ tree' # "dropped") - Bit(m = Root /\ tree # "dropped"))
    BY <1>1, <1>2 DEF IInv, TypeOK, ThreadShape, Bit, Listed, Custody, CustodyState, HoldingState
  <2>2. /\ \A u \in Thread \ {t} : pc'[u] = pc[u] /\ node'[u] = node[u]
        /\ Root \in Node
        /\ \A d \in Node \ {Root} : (d \in alloc' <=> d \in alloc) /\ parent'[d] = parent[d]
    BY <1>1, <1>2 DEF IInv, TypeOK
  <2>3. QED
    BY <1>3, <2>1, <2>2, RefcountStep DEF IInv
<1>14. QED
  BY <1>3, <1>4, <1>5, <1>6, <1>7, <1>8, <1>9, <1>10, <1>11, <1>12, <1>13 DEF IInv

\* A dead child is found under the write lock.
LEMMA StepEnsureOccupiedSpin ==
  ASSUME IInv, NEW t \in Thread, EnsureOccupied(t),
         refcount[children[base[t]][want[t]]] = 0
  PROVE  IInv'
<1>1. /\ refcount' = [refcount EXCEPT ![children[base[t]][want[t]]] = @ + 1]
      /\ pc' = [pc EXCEPT ![t] = "spin_write"]
      /\ node' = [node EXCEPT ![t] = children[base[t]][want[t]]]
      /\ base' = [base EXCEPT ![t] = base[t]]
      /\ want' = [want EXCEPT ![t] = NULL]
      /\ job' = [job EXCEPT ![t] = "ensure"]
      /\ UNCHANGED <<alloc, next_free, children, parent, key, strong, tree, approximate_free_count, head, ret>>
  BY DEF EnsureOccupied, Goto, heap, world, locals, Upgrade, AddRef
<1>2. /\ children[base[t]][want[t]] \in NonRoot /\ children[base[t]][want[t]] \in alloc /\ parent[children[base[t]][want[t]]] = base[t] /\ base[t] \in Node
      /\ refcount[children[base[t]][want[t]]] \in Nat /\ strong[children[base[t]][want[t]]] \in Nat
      /\ tree = "alive" /\ (base[t] = Root \/ strong[base[t]] > 0)
      /\ pc[t] = "ensure_write" /\ node[t] = NULL /\ job[t] = "ensure"
      /\ \A u \in Thread : pc[u] \in WriteState \cup {"spin_read"} => base[u] # base[t]
  <2>1. pc[t] = "ensure_write" /\ children[base[t]][want[t]] \in NonRoot /\ base[t] \in Node /\ want[t] \in Key
    BY DEF EnsureOccupied, CanCall, IInv, TypeOK, ThreadShape, EnsureState
  <2>2. children[base[t]][want[t]] \in alloc /\ parent[children[base[t]][want[t]]] = base[t]
    BY <2>1 DEF IInv, HeapShape
  <2>3. tree = "alive" /\ (base[t] = Root \/ strong[base[t]] > 0)
    BY <2>1 DEF EnsureOccupied, IInv, ThreadShape, EnsureState
  <2>4. pc[t] = "ensure_write" /\ node[t] = NULL /\ job[t] = "ensure"
    BY <2>1 DEF EnsureOccupied, CanCall, IInv, ThreadShape, EnsureState, WriteState
  <2>5. refcount[children[base[t]][want[t]]] \in Nat /\ strong[children[base[t]][want[t]]] \in Nat
    BY <2>1 DEF IInv, TypeOK
  <2>6. /\ \A u \in Thread : pc[u] \in WriteState \cup {"spin_read"} => base[u] # base[t]
    BY DEF EnsureOccupied, WriteHeld, ReadHeld, WriteState
  <2>7. QED
    BY <2>1, <2>2, <2>3, <2>4, <2>5, <2>6
<1>3. TypeOK'
  BY <1>1, <1>2 DEF IInv, TypeOK, ControlState
<1>4. HeapShape'
  BY <1>1, <1>2, HeapFrame DEF IInv, TypeOK, ThreadShape, CustodyState
<1>5. ThreadShape'
  BY <1>1, <1>2 DEF IInv, TypeOK, HeapShape, ThreadShape, CustodyState, EnsureState, SpinState, WriteState, Dropping
<1>6. LocksExclusive'
  BY <1>1, <1>2 DEF IInv, TypeOK, LocksExclusive, WriteState
<1>7. OneDropper'
  BY <1>1, <1>2 DEF IInv, TypeOK, OneDropper, Dropping
<1>8. OneCustody'
  BY <1>1, <1>2 DEF IInv, TypeOK, OneCustody, Custody, CustodyState
<1>9. PoppedIsFree'
  BY <1>1, <1>2 DEF IInv, TypeOK, PoppedIsFree, Custody, CustodyState
<1>10. OnlySpinnersResurrect'
  <2>1. \A u \in Thread : pc'[u] = "pretend" =>
           \/ refcount'[node'[u]] = 0
           \/ \E v \in Thread : pc'[v] \in SpinState /\ node'[v] = node'[u]
           \/ /\ pc[u] = "pretend" /\ node'[u] = node[u] /\ refcount[node[u]] > 0
              /\ \A v \in Thread : pc[v] \in SpinState /\ node[v] = node[u]
                                     => pc'[v] \in SpinState /\ node'[v] = node[v]
    BY <1>1, <1>2 DEF IInv, TypeOK, SpinState, ThreadShape, CustodyState
  <2>2. QED
    BY <2>1, SpinnersFrame DEF IInv
<1>11. NextFreeShape'
  BY <1>1, <1>2 DEF IInv, TypeOK, NextFreeShape, OneCustody, PoppedIsFree, Custody, CustodyState, ThreadShape
<1>12. LinksSound'
  <2>1. \A x \in Node : Listed(x)' <=> Listed(x)
    BY <1>1, <1>2 DEF IInv, TypeOK, Listed, Custody, CustodyState, ThreadShape
  <2>2. \A x \in Node : Linked(x) => next_free'[x] = next_free[x]
    BY <1>1, <1>2 DEF IInv, TypeOK, Linked, Listed, Custody, CustodyState, ThreadShape
  <2>3. /\ \A u \in Thread :
             /\ Walking(u)' => Walking(u) /\ head'[u] = head[u]
             /\ pc'[u] = "gc_swap" => next_free[Root] # NULL
             /\ Dropping(u)' /\ pc'[u] # "gc_swap" => next_free[Root] = NULL
        /\ next_free[Root] = NULL => tree' # "alive"
        /\ tree' = "dropped" => next_free[Root] = NULL
    BY <1>1, <1>2 DEF IInv, TypeOK, Walking, Dropping, ThreadShape, LinksSound
  <2>4. QED
    BY <2>1, <2>2, <2>3, LinksFrame DEF IInv
<1>13. RefcountExact'
  <2>1. \A m \in Node :
           refcount'[m] - refcount[m]
             = (strong'[m] - strong[m])
               + (Bit(pc'[t] \in HoldingState /\ node'[t] = m)
                    - Bit(pc[t] \in HoldingState /\ node[t] = m))
               + (Bit(Root \in alloc' /\ parent'[Root] = m) - Bit(Root \in alloc /\ parent[Root] = m))
               + (Bit(Listed(m)') - Bit(Listed(m)))
               + (Bit(m = Root /\ tree' # "dropped") - Bit(m = Root /\ tree # "dropped"))
    <3>1. \A m \in Node : Listed(m)' <=> Listed(m)
      BY <1>1, <1>2 DEF IInv, TypeOK, Listed, Custody, CustodyState, HoldingState
    <3>2. (pc'[t] \in HoldingState <=> TRUE) /\ (pc[t] \in HoldingState <=> FALSE)
      BY <1>1, <1>2 DEF IInv, TypeOK, HoldingState, SpinState
    <3>3. PICK c \in Node : c = children[base[t]][want[t]]
      BY <1>1, <1>2
    <3>4. /\ refcount'[c] = refcount[c] + 1 /\ \A m \in Node \ {c} : refcount'[m] = refcount[m]
          /\ strong'[c] = strong[c] + 0 /\ \A m \in Node \ {c} : strong'[m] = strong[m]
          /\ \A m \in Node : refcount[m] \in Nat /\ strong[m] \in Nat
          /\ alloc' = alloc /\ parent' = parent /\ tree' = tree /\ node'[t] = c
      BY <1>1, <1>2, <3>3 DEF IInv, TypeOK
    <3>5. QED
      BY <3>1, <3>2, <3>4 DEF Bit
  <2>2. /\ \A u \in Thread \ {t} : pc'[u] = pc[u] /\ node'[u] = node[u]
        /\ Root \in Node
        /\ \A d \in Node \ {Root} : (d \in alloc' <=> d \in alloc) /\ parent'[d] = parent[d]
    BY <1>1, <1>2 DEF IInv, TypeOK
  <2>3. QED
    BY <1>3, <2>1, <2>2, RefcountStep DEF IInv
<1>14. QED
  BY <1>3, <1>4, <1>5, <1>6, <1>7, <1>8, <1>9, <1>10, <1>11, <1>12, <1>13 DEF IInv

\* A live child is found under the write lock.
LEMMA StepEnsureOccupiedHit ==
  ASSUME IInv, NEW t \in Thread, EnsureOccupied(t),
         refcount[children[base[t]][want[t]]] # 0
  PROVE  IInv'
<1>1. /\ refcount' = [refcount EXCEPT ![children[base[t]][want[t]]] = @ + 1]
      /\ strong' = [strong EXCEPT ![children[base[t]][want[t]]] = @ + 1]
      /\ pc' = [pc EXCEPT ![t] = "idle"]
      /\ base' = [base EXCEPT ![t] = NULL]
      /\ want' = [want EXCEPT ![t] = NULL]
      /\ job' = [job EXCEPT ![t] = "none"]
      /\ UNCHANGED <<alloc, next_free, children, parent, key, tree, approximate_free_count, node, head, ret>>
  BY DEF EnsureOccupied, Goto, heap, world, locals, Upgrade, AddRef
<1>2. /\ children[base[t]][want[t]] \in NonRoot /\ children[base[t]][want[t]] \in alloc /\ parent[children[base[t]][want[t]]] = base[t] /\ base[t] \in Node
      /\ refcount[children[base[t]][want[t]]] \in Nat /\ strong[children[base[t]][want[t]]] \in Nat
      /\ tree = "alive" /\ (base[t] = Root \/ strong[base[t]] > 0)
      /\ pc[t] = "ensure_write" /\ node[t] = NULL /\ job[t] = "ensure"
      /\ refcount[children[base[t]][want[t]]] > 0
  <2>1. pc[t] = "ensure_write" /\ children[base[t]][want[t]] \in NonRoot /\ base[t] \in Node /\ want[t] \in Key
    BY DEF EnsureOccupied, CanCall, IInv, TypeOK, ThreadShape, EnsureState
  <2>2. children[base[t]][want[t]] \in alloc /\ parent[children[base[t]][want[t]]] = base[t]
    BY <2>1 DEF IInv, HeapShape
  <2>3. tree = "alive" /\ (base[t] = Root \/ strong[base[t]] > 0)
    BY <2>1 DEF EnsureOccupied, IInv, ThreadShape, EnsureState
  <2>4. pc[t] = "ensure_write" /\ node[t] = NULL /\ job[t] = "ensure"
    BY <2>1 DEF EnsureOccupied, CanCall, IInv, ThreadShape, EnsureState, WriteState
  <2>5. refcount[children[base[t]][want[t]]] \in Nat /\ strong[children[base[t]][want[t]]] \in Nat
    BY <2>1 DEF IInv, TypeOK
  <2>6. QED
    BY <2>1, <2>2, <2>3, <2>4, <2>5
<1>3. TypeOK'
  BY <1>1, <1>2 DEF IInv, TypeOK, ControlState
<1>4. HeapShape'
  BY <1>1, <1>2, HeapFrame DEF IInv, TypeOK, ThreadShape, CustodyState
<1>5. ThreadShape'
  BY <1>1, <1>2 DEF IInv, TypeOK, HeapShape, ThreadShape, CustodyState, EnsureState, SpinState, WriteState, Dropping
<1>6. LocksExclusive'
  BY <1>1, <1>2 DEF IInv, TypeOK, LocksExclusive, WriteState
<1>7. OneDropper'
  BY <1>1, <1>2 DEF IInv, TypeOK, OneDropper, Dropping
<1>8. OneCustody'
  BY <1>1, <1>2 DEF IInv, TypeOK, OneCustody, Custody, CustodyState
<1>9. PoppedIsFree'
  BY <1>1, <1>2 DEF IInv, TypeOK, PoppedIsFree, Custody, CustodyState
<1>10. OnlySpinnersResurrect'
  <2>1. \A u \in Thread : pc'[u] = "pretend" =>
           \/ refcount'[node'[u]] = 0
           \/ \E v \in Thread : pc'[v] \in SpinState /\ node'[v] = node'[u]
           \/ /\ pc[u] = "pretend" /\ node'[u] = node[u] /\ refcount[node[u]] > 0
              /\ \A v \in Thread : pc[v] \in SpinState /\ node[v] = node[u]
                                     => pc'[v] \in SpinState /\ node'[v] = node[v]
    BY <1>1, <1>2 DEF IInv, TypeOK, SpinState, ThreadShape, CustodyState
  <2>2. QED
    BY <2>1, SpinnersFrame DEF IInv
<1>11. NextFreeShape'
  BY <1>1, <1>2 DEF IInv, TypeOK, NextFreeShape, OneCustody, PoppedIsFree, Custody, CustodyState, ThreadShape
<1>12. LinksSound'
  <2>1. \A x \in Node : Listed(x)' <=> Listed(x)
    BY <1>1, <1>2 DEF IInv, TypeOK, Listed, Custody, CustodyState, ThreadShape
  <2>2. \A x \in Node : Linked(x) => next_free'[x] = next_free[x]
    BY <1>1, <1>2 DEF IInv, TypeOK, Linked, Listed, Custody, CustodyState, ThreadShape
  <2>3. /\ \A u \in Thread :
             /\ Walking(u)' => Walking(u) /\ head'[u] = head[u]
             /\ pc'[u] = "gc_swap" => next_free[Root] # NULL
             /\ Dropping(u)' /\ pc'[u] # "gc_swap" => next_free[Root] = NULL
        /\ next_free[Root] = NULL => tree' # "alive"
        /\ tree' = "dropped" => next_free[Root] = NULL
    BY <1>1, <1>2 DEF IInv, TypeOK, Walking, Dropping, ThreadShape, LinksSound
  <2>4. QED
    BY <2>1, <2>2, <2>3, LinksFrame DEF IInv
<1>13. RefcountExact'
  <2>1. \A m \in Node :
           refcount'[m] - refcount[m]
             = (strong'[m] - strong[m])
               + (Bit(pc'[t] \in HoldingState /\ node'[t] = m)
                    - Bit(pc[t] \in HoldingState /\ node[t] = m))
               + (Bit(Root \in alloc' /\ parent'[Root] = m) - Bit(Root \in alloc /\ parent[Root] = m))
               + (Bit(Listed(m)') - Bit(Listed(m)))
               + (Bit(m = Root /\ tree' # "dropped") - Bit(m = Root /\ tree # "dropped"))
    <3>1. \A m \in Node : Listed(m)' <=> Listed(m)
      BY <1>1, <1>2 DEF IInv, TypeOK, Listed, Custody, CustodyState, HoldingState
    <3>2. (pc'[t] \in HoldingState <=> FALSE) /\ (pc[t] \in HoldingState <=> FALSE)
      BY <1>1, <1>2 DEF IInv, TypeOK, HoldingState, SpinState
    <3>3. PICK c \in Node : c = children[base[t]][want[t]]
      BY <1>1, <1>2
    <3>4. /\ refcount'[c] = refcount[c] + 1 /\ \A m \in Node \ {c} : refcount'[m] = refcount[m]
          /\ strong'[c] = strong[c] + 1 /\ \A m \in Node \ {c} : strong'[m] = strong[m]
          /\ \A m \in Node : refcount[m] \in Nat /\ strong[m] \in Nat
          /\ alloc' = alloc /\ parent' = parent /\ tree' = tree 
      BY <1>1, <1>2, <3>3 DEF IInv, TypeOK
    <3>5. QED
      BY <3>1, <3>2, <3>4 DEF Bit
  <2>2. /\ \A u \in Thread \ {t} : pc'[u] = pc[u] /\ node'[u] = node[u]
        /\ Root \in Node
        /\ \A d \in Node \ {Root} : (d \in alloc' <=> d \in alloc) /\ parent'[d] = parent[d]
    BY <1>1, <1>2 DEF IInv, TypeOK
  <2>3. QED
    BY <1>3, <2>1, <2>2, RefcountStep DEF IInv
<1>14. QED
  BY <1>3, <1>4, <1>5, <1>6, <1>7, <1>8, <1>9, <1>10, <1>11, <1>12, <1>13 DEF IInv

\* The wait ends: the reference becomes a handle, and the custodian cannot be
\* the one that still has to count.
LEMMA StepUpgradeSpin ==
  ASSUME IInv, NEW t \in Thread, UpgradeSpin(t)
  PROVE  IInv'
<1>1. /\ strong' = [strong EXCEPT ![node[t]] = @ + 1]
      /\ pc' = [pc EXCEPT ![t] = "idle"]
      /\ node' = [node EXCEPT ![t] = NULL]
      /\ base' = [base EXCEPT ![t] = NULL]
      /\ job' = [job EXCEPT ![t] = "none"]
      /\ UNCHANGED <<alloc, refcount, next_free, children, parent, key, tree, approximate_free_count, head, want, ret>>
  BY DEF UpgradeSpin, Goto, heap, world, locals
<1>2. /\ pc[t] \in SpinState /\ pc[t] \notin CustodyState /\ node[t] \in NonRoot /\ next_free[node[t]] # NULL /\ strong[node[t]] \in Nat
      /\ \A u \in Thread : pc[u] = "pretend" => node[u] # node[t]
  BY DEF UpgradeSpin, IInv, TypeOK, ThreadShape, NextFreeShape, SpinState, CustodyState
<1>3. TypeOK'
  BY <1>1, <1>2 DEF IInv, TypeOK, ControlState
<1>4. HeapShape'
  BY <1>1, <1>2, HeapFrame DEF IInv, TypeOK, ThreadShape, CustodyState
<1>5. ThreadShape'
  BY <1>1, <1>2 DEF IInv, TypeOK, HeapShape, ThreadShape, CustodyState, EnsureState, SpinState, WriteState, Dropping
<1>6. LocksExclusive'
  BY <1>1, <1>2 DEF IInv, TypeOK, LocksExclusive, WriteState
<1>7. OneDropper'
  BY <1>1, <1>2 DEF IInv, TypeOK, OneDropper, Dropping
<1>8. OneCustody'
  BY <1>1, <1>2 DEF IInv, TypeOK, OneCustody, Custody, CustodyState
<1>9. PoppedIsFree'
  BY <1>1, <1>2 DEF IInv, TypeOK, PoppedIsFree, Custody, CustodyState
<1>10. OnlySpinnersResurrect'
  <2>1. \A u \in Thread : pc'[u] = "pretend" =>
           \/ refcount'[node'[u]] = 0
           \/ \E v \in Thread : pc'[v] \in SpinState /\ node'[v] = node'[u]
           \/ /\ pc[u] = "pretend" /\ node'[u] = node[u] /\ refcount[node[u]] > 0
              /\ \A v \in Thread : pc[v] \in SpinState /\ node[v] = node[u]
                                     => pc'[v] \in SpinState /\ node'[v] = node[v]
    BY <1>1, <1>2 DEF IInv, TypeOK, SpinState, ThreadShape, CustodyState
  <2>2. QED
    BY <2>1, SpinnersFrame DEF IInv
<1>11. NextFreeShape'
  BY <1>1, <1>2 DEF IInv, TypeOK, NextFreeShape, OneCustody, PoppedIsFree, Custody, CustodyState, ThreadShape
<1>12. LinksSound'
  <2>1. \A x \in Node : Listed(x)' <=> Listed(x)
    BY <1>1, <1>2 DEF IInv, TypeOK, Listed, Custody, CustodyState, ThreadShape
  <2>2. \A x \in Node : Linked(x) => next_free'[x] = next_free[x]
    BY <1>1, <1>2 DEF IInv, TypeOK, Linked, Listed, Custody, CustodyState, ThreadShape
  <2>3. /\ \A u \in Thread :
             /\ Walking(u)' => Walking(u) /\ head'[u] = head[u]
             /\ pc'[u] = "gc_swap" => next_free[Root] # NULL
             /\ Dropping(u)' /\ pc'[u] # "gc_swap" => next_free[Root] = NULL
        /\ next_free[Root] = NULL => tree' # "alive"
        /\ tree' = "dropped" => next_free[Root] = NULL
    BY <1>1, <1>2 DEF IInv, TypeOK, Walking, Dropping, ThreadShape, LinksSound
  <2>4. QED
    BY <2>1, <2>2, <2>3, LinksFrame DEF IInv
<1>13. RefcountExact'
  <2>1. \A m \in Node :
           refcount'[m] - refcount[m]
             = (strong'[m] - strong[m])
               + (Bit(pc'[t] \in HoldingState /\ node'[t] = m)
                    - Bit(pc[t] \in HoldingState /\ node[t] = m))
               + (Bit(Root \in alloc' /\ parent'[Root] = m) - Bit(Root \in alloc /\ parent[Root] = m))
               + (Bit(Listed(m)') - Bit(Listed(m)))
               + (Bit(m = Root /\ tree' # "dropped") - Bit(m = Root /\ tree # "dropped"))
    <3>1. \A m \in Node : Listed(m)' <=> Listed(m)
      BY <1>1, <1>2 DEF IInv, TypeOK, Listed, Custody, CustodyState, HoldingState
    <3>2. (pc'[t] \in HoldingState <=> FALSE) /\ (pc[t] \in HoldingState <=> TRUE)
      BY <1>1, <1>2 DEF IInv, TypeOK, HoldingState, SpinState
    <3>3. PICK c \in Node : c = node[t]
      BY <1>1, <1>2
    <3>4. /\ refcount'[c] = refcount[c] + 0 /\ \A m \in Node \ {c} : refcount'[m] = refcount[m]
          /\ strong'[c] = strong[c] + 1 /\ \A m \in Node \ {c} : strong'[m] = strong[m]
          /\ \A m \in Node : refcount[m] \in Nat /\ strong[m] \in Nat
          /\ alloc' = alloc /\ parent' = parent /\ tree' = tree /\ node[t] = c
      BY <1>1, <1>2, <3>3 DEF IInv, TypeOK
    <3>5. QED
      BY <3>1, <3>2, <3>4 DEF Bit
  <2>2. /\ \A u \in Thread \ {t} : pc'[u] = pc[u] /\ node'[u] = node[u]
        /\ Root \in Node
        /\ \A d \in Node \ {Root} : (d \in alloc' <=> d \in alloc) /\ parent'[d] = parent[d]
    BY <1>1, <1>2 DEF IInv, TypeOK
  <2>3. QED
    BY <1>3, <2>1, <2>2, RefcountStep DEF IInv
<1>14. QED
  BY <1>3, <1>4, <1>5, <1>6, <1>7, <1>8, <1>9, <1>10, <1>11, <1>12, <1>13 DEF IInv

\* A node is boxed at a free address, which nothing refers to.
LEMMA StepEnsureVacant ==
  ASSUME IInv, NEW t \in Thread, NEW n \in NonRoot, EnsureVacant(t, n)
  PROVE  IInv'
<1>1. /\ alloc' = alloc \cup {n}
      /\ refcount' = [refcount EXCEPT ![n] = 1, ![base[t]] = @ + 1]
      /\ next_free' = [next_free EXCEPT ![n] = NULL]
      /\ children' = [children EXCEPT ![base[t]][want[t]] = n]
      /\ parent' = [parent EXCEPT ![n] = base[t]]
      /\ key' = [key EXCEPT ![n] = want[t]]
      /\ strong' = [strong EXCEPT ![n] = 1]
      /\ pc' = [pc EXCEPT ![t] = "idle"]
      /\ base' = [base EXCEPT ![t] = NULL]
      /\ want' = [want EXCEPT ![t] = NULL]
      /\ job' = [job EXCEPT ![t] = "none"]
      /\ UNCHANGED <<tree, approximate_free_count, node, head, ret>>
  BY DEF EnsureVacant, Goto, heap, world, locals, Insert
<1>2. /\ pc[t] = "ensure_write" /\ node[t] = NULL /\ job[t] = "ensure" /\ tree = "alive"
      /\ n \in NonRoot /\ n \notin alloc /\ n # base[t] /\ base[t] \in Node /\ base[t] \in alloc /\ want[t] \in Key
      /\ refcount[n] = 0 /\ strong[n] = 0 /\ refcount[base[t]] > 0 /\ refcount[base[t]] \in Nat
      /\ strong[base[t]] \in Nat /\ ~ Listed(n)
      /\ (\A c \in alloc : parent[c] # n)
      /\ \A u \in Thread : pc[u] \in HoldingState \cup CustodyState => node[u] # n
      /\ \A u \in Thread : pc[u] \in EnsureState => base[u] # n
  <2>1. pc[t] = "ensure_write" /\ n \notin alloc /\ n \in Node
    BY DEF EnsureVacant, Insert
  <2>2. /\ base[t] \in Node /\ want[t] \in Key /\ tree = "alive" /\ node[t] = NULL /\ job[t] = "ensure"
        /\ base[t] = Root \/ strong[base[t]] > 0
    BY <2>1 DEF IInv, ThreadShape, EnsureState
  <2>3. refcount[base[t]] > 0 /\ base[t] \in alloc /\ refcount[base[t]] \in Nat /\ strong[base[t]] \in Nat
    BY <2>2, Counted, Alive DEF IInv, TypeOK
  <2>4. refcount[n] = 0
    BY <2>1 DEF IInv, HeapShape
  <2>5. /\ strong[n] = 0 /\ ~ Listed(n)
        /\ \A c \in alloc : parent[c] # n
        /\ \A u \in Thread : pc[u] \in HoldingState => node[u] # n
    BY <2>1, <2>4, Counted DEF IInv, TypeOK
  <2>6. \A u \in Thread : pc[u] \in CustodyState => node[u] # n
    BY <2>1 DEF IInv, ThreadShape
  <2>7. \A u \in Thread : pc[u] \in EnsureState => base[u] # n
    BY <2>1, <2>5 DEF IInv, ThreadShape
  <2>8. QED
    BY <2>1, <2>2, <2>3, <2>4, <2>5, <2>6, <2>7
<1>3. TypeOK'
  BY <1>1, <1>2 DEF IInv, TypeOK, ControlState
<1>4. HeapShape'
  <2>0. PICK p \in alloc, k \in Key : p = base[t] /\ k = want[t]
    BY <1>2
  <2>1. /\ alloc' = alloc \cup {n} /\ n \in Node /\ p \in Node /\ n # p
        /\ \A x \in Node \ {n, p} : refcount'[x] = refcount[x]
        /\ parent'[n] = p /\ \A x \in Node \ {n} : parent'[x] = parent[x]
        /\ key'[n] = k /\ \A x \in Node \ {n} : key'[x] = key[x]
        /\ children'[p][k] = n
        /\ \A q \in Node, l \in Key : (q # p \/ l # k) => children'[q][l] = children[q][l]
    BY <1>1, <1>2, <2>0 DEF IInv, TypeOK
  <2>2. n \notin alloc /\ n # Root /\ \A c \in alloc : parent[c] # n
    BY <1>2
  <2>3. HeapShape /\ alloc \subseteq Node
    BY DEF IInv, TypeOK
  <2>4. /\ \A x \in alloc' \ {Root} : parent'[x] \in alloc' /\ key'[x] \in Key
        /\ parent'[Root] = NULL /\ key'[Root] = NULL
        /\ \A x \in Node \ alloc' : refcount'[x] = 0 /\ parent'[x] = NULL
        /\ Root \in alloc'
    BY <2>1, <2>2, <2>3 DEF HeapShape
  <2>5. ASSUME NEW q \in Node, NEW l \in Key, NEW c \in NonRoot
        PROVE  children'[q][l] = c <=> c \in alloc' /\ parent'[c] = q /\ key'[c] = l
    <3>1. children[q][l] = c <=> c \in alloc /\ parent[c] = q /\ key[c] = l
      BY <2>3 DEF HeapShape
    <3>2. \A d \in alloc : ~ (d \in NonRoot /\ parent[d] = p /\ key[d] = k)
      BY <2>0, <2>3 DEF HeapShape, EnsureVacant
    <3>3. c \in Node
      OBVIOUS
    <3>4. QED
      BY <2>1, <2>2, <3>1, <3>2, <3>3
  <2>6. ASSUME NEW S \in SUBSET (alloc' \ {Root}), S # {} PROVE \E x \in S : parent'[x] \notin S
    <3>1. CASE n \notin S
      <4>1. S \in SUBSET (alloc \ {Root})
        BY <2>1, <3>1
      <4>2. PICK x \in S : parent[x] \notin S
        BY <2>3, <2>6, <4>1 DEF HeapShape
      <4>3. parent'[x] = parent[x]
        BY <2>1, <2>3, <3>1, <4>1
      <4>4. QED
        BY <4>2, <4>3
    <3>2. CASE S = {n}
      BY <2>1, <3>2
    <3>3. CASE n \in S /\ S # {n}
      <4>1. S \ {n} \in SUBSET (alloc \ {Root}) /\ S \ {n} # {}
        BY <2>1, <3>3
      <4>2. PICK x \in S \ {n} : parent[x] \notin S \ {n}
        BY <2>3, <4>1 DEF HeapShape
      <4>3. parent'[x] = parent[x] /\ parent[x] # n
        BY <2>1, <2>2, <2>3, <4>1
      <4>4. QED
        BY <4>2, <4>3
    <3>4. QED
      BY <3>1, <3>2, <3>3
  <2>7. QED
    BY <2>4, <2>5, <2>6 DEF HeapShape
<1>5. ThreadShape'
  BY <1>1, <1>2 DEF IInv, TypeOK, HeapShape, ThreadShape, CustodyState, EnsureState, SpinState, WriteState, Dropping
<1>6. LocksExclusive'
  BY <1>1, <1>2 DEF IInv, TypeOK, LocksExclusive, WriteState
<1>7. OneDropper'
  BY <1>1, <1>2 DEF IInv, TypeOK, OneDropper, Dropping
<1>8. OneCustody'
  BY <1>1, <1>2 DEF IInv, TypeOK, OneCustody, Custody, CustodyState
<1>9. PoppedIsFree'
  BY <1>1, <1>2 DEF IInv, TypeOK, PoppedIsFree, Custody, CustodyState
<1>10. OnlySpinnersResurrect'
  <2>1. \A u \in Thread : pc'[u] = "pretend" =>
           \/ refcount'[node'[u]] = 0
           \/ \E v \in Thread : pc'[v] \in SpinState /\ node'[v] = node'[u]
           \/ /\ pc[u] = "pretend" /\ node'[u] = node[u] /\ refcount[node[u]] > 0
              /\ \A v \in Thread : pc[v] \in SpinState /\ node[v] = node[u]
                                     => pc'[v] \in SpinState /\ node'[v] = node[v]
    BY <1>1, <1>2 DEF IInv, TypeOK, SpinState, ThreadShape, CustodyState
  <2>2. QED
    BY <2>1, SpinnersFrame DEF IInv
<1>11. NextFreeShape'
  BY <1>1, <1>2 DEF IInv, TypeOK, NextFreeShape, OneCustody, PoppedIsFree, Custody, CustodyState, ThreadShape
<1>12. LinksSound'
  <2>1. \A x \in Node : Listed(x)' <=> Listed(x)
    BY <1>1, <1>2 DEF IInv, TypeOK, Listed, Custody, CustodyState, ThreadShape
  <2>2. \A x \in Node : Linked(x) => next_free'[x] = next_free[x]
    BY <1>1, <1>2 DEF IInv, TypeOK, Linked, Listed, Custody, CustodyState, ThreadShape
  <2>3. /\ \A u \in Thread :
             /\ Walking(u)' => Walking(u) /\ head'[u] = head[u]
             /\ pc'[u] = "gc_swap" => next_free[Root] # NULL
             /\ Dropping(u)' /\ pc'[u] # "gc_swap" => next_free[Root] = NULL
        /\ next_free[Root] = NULL => tree' # "alive"
        /\ tree' = "dropped" => next_free[Root] = NULL
    BY <1>1, <1>2 DEF IInv, TypeOK, Walking, Dropping, ThreadShape, LinksSound
  <2>4. QED
    BY <2>1, <2>2, <2>3, LinksFrame DEF IInv
<1>13. RefcountExact'
  <2>1. \A m \in Node :
           refcount'[m] - refcount[m]
             = (strong'[m] - strong[m])
               + (Bit(pc'[t] \in HoldingState /\ node'[t] = m)
                    - Bit(pc[t] \in HoldingState /\ node[t] = m))
               + (Bit(n \in alloc' /\ parent'[n] = m) - Bit(n \in alloc /\ parent[n] = m))
               + (Bit(Listed(m)') - Bit(Listed(m)))
               + (Bit(m = Root /\ tree' # "dropped") - Bit(m = Root /\ tree # "dropped"))
    BY <1>1, <1>2 DEF IInv, TypeOK, ThreadShape, Bit, Listed, Custody, CustodyState, HoldingState
  <2>2. /\ \A u \in Thread \ {t} : pc'[u] = pc[u] /\ node'[u] = node[u]
        /\ n \in Node
        /\ \A d \in Node \ {n} : (d \in alloc' <=> d \in alloc) /\ parent'[d] = parent[d]
    BY <1>1, <1>2 DEF IInv, TypeOK
  <2>3. QED
    BY <1>3, <2>1, <2>2, RefcountStep DEF IInv
<1>14. QED
  BY <1>3, <1>4, <1>5, <1>6, <1>7, <1>8, <1>9, <1>10, <1>11, <1>12, <1>13 DEF IInv

-----------------------------------------------------------------------------
\* The initial state: one node, the root, with the tree's reference.
LEMMA InitIInv ==
  ASSUME Init
  PROVE  IInv
<1>1. TypeOK
  BY DEF Init, TypeOK, ControlState
<1>2. \A t \in Thread : /\ pc[t] = "idle" /\ node[t] = NULL /\ base[t] = NULL /\ job[t] = "none"
                        /\ pc[t] \notin CustodyState /\ pc[t] \notin HoldingState
                        /\ pc[t] \notin EnsureState /\ pc[t] \notin WriteState /\ pc[t] \notin SpinState
                        /\ ~ Walking(t) /\ ~ Dropping(t)
  BY DEF Init, CustodyState, HoldingState, EnsureState, WriteState, SpinState, Walking, Dropping
<1>3. HeapShape
  BY DEF Init, HeapShape
<1>4. ThreadShape
  BY <1>2 DEF ThreadShape
<1>5. LocksExclusive /\ OneDropper /\ OneCustody /\ PoppedIsFree /\ OnlySpinnersResurrect /\ NextFreeShape
  BY <1>2 DEF LocksExclusive, OneDropper, OneCustody, PoppedIsFree, OnlySpinnersResurrect,
              NextFreeShape, Custody
<1>6. \A n \in Node : ~ Listed(n)
  BY DEF Init, Listed
<1>7. LinksSound
  BY <1>2, <1>6 DEF Init, LinksSound, Link, Linked
<1>8. RefcountExact
  <2> SUFFICES ASSUME NEW n \in Node
               PROVE  refcount[n] = strong[n] + Cardinality(Children(n)) + Cardinality(Holders(n))
                                    + Bit(Listed(n)) + Bit(n = Root /\ tree # "dropped")
    BY DEF RefcountExact
  <2>1. Children(n) = {} /\ Holders(n) = {}
    BY <1>2 DEF Init, Children, Holders
  <2>2. Cardinality(Children(n)) = 0 /\ Cardinality(Holders(n)) = 0
    BY <2>1, FS_EmptySet
  <2>3. Bit(Listed(n)) = 0 /\ Bit(n = Root /\ tree # "dropped") = refcount[n] /\ strong[n] = 0
    BY <1>6 DEF Init, Bit
  <2>4. refcount[n] \in Nat
    BY <1>1 DEF TypeOK
  <2>5. QED
    BY <2>2, <2>3, <2>4
<1>9. QED
  BY <1>1, <1>3, <1>4, <1>5, <1>7, <1>8 DEF IInv

\* A step of the environment changes nothing that the invariant speaks of.
LEMMA StutterIInv ==
  ASSUME IInv, UNCHANGED vars
  PROVE  IInv'
<1> USE DEF vars, heap, world, locals
<1>0. HeapShape'
  BY HeapFrame DEF IInv
<1>1. TypeOK' /\ ThreadShape' /\ LocksExclusive' /\ OneDropper'
  BY DEF IInv, TypeOK, ThreadShape, LocksExclusive, OneDropper, Dropping
<1>2. /\ \A t \in Thread, n \in Node : Custody(t, n)' <=> Custody(t, n)
      /\ \A n \in Node : Listed(n)' = Listed(n)
      /\ \A n \in Node : Children(n)' = Children(n) /\ Holders(n)' = Holders(n)
  BY DEF Custody, Listed, Children, Holders
<1>3. OneCustody' /\ PoppedIsFree' /\ OnlySpinnersResurrect' /\ NextFreeShape'
  BY <1>2 DEF IInv, OneCustody, PoppedIsFree, OnlySpinnersResurrect, NextFreeShape, Custody
<1>4. LinksSound'
  BY DEF IInv, LinksSound, Link, Linked, Listed, Custody, Walking, Dropping
<1>5. RefcountExact'
  BY <1>2 DEF IInv, RefcountExact
<1>6. QED
  BY <1>0, <1>1, <1>3, <1>4, <1>5 DEF IInv

\* Every step of a thread keeps the invariant.
LEMMA NextIInv ==
  ASSUME IInv, [Next]_vars
  PROVE  IInv'
<1>1. CASE UNCHANGED vars
  BY <1>1, StutterIInv
<1>2. ASSUME NEW t \in Thread, Call(t) \/ Step(t) PROVE IInv'
  <2>1. ASSUME NEW n \in Node, Clone(t, n) PROVE IInv'
    BY <2>1, StepClone
  <2>2. ASSUME NEW n \in Node, StrongDrop(t, n) PROVE IInv'
    BY <2>2, StepStrongDropKept, StepStrongDropLast, StepStrongDropRoot
  <2>3. ASSUME NEW p \in Node, NEW k \in Key, EnsureRead(t, p, k) PROVE IInv'
    BY <2>3, StepEnsureReadSpin, StepEnsureReadHit, StepEnsureReadMiss
  <2>4. CASE MaybeGC(t)
    BY <2>4, StepMaybeGC
  <2>5. CASE DropTree(t)
    BY <2>5, StepDropTree
  <2>6. CASE PretendIncrement(t) \/ PretendStore(t)
    BY <2>6, StepPretendIncrement, StepPretendStore
  <2>7. CASE PushCount(t) \/ PushLoad(t) \/ PushStore(t) \/ PushExchange(t) \/ PushExchangeFails(t)
    BY <2>7, StepPushCount, StepPushLoad, StepPushStore, StepPushExchange, StepPushExchangeFails
  <2>8. CASE UnlinkLock(t) \/ UnlinkResurrected(t) \/ Unlock(t) \/ UnlinkRemove(t)
    BY <2>8, StepUnlinkLock, StepUnlinkResurrected, StepUnlock, StepUnlinkRemove
  <2>9. CASE DropParentRef(t)
    BY <2>9, StepDropParentRefKept, StepDropParentRefLast, StepDropParentRefRoot
  <2>10. CASE FreeRoot(t)
    BY <2>10, StepFreeRoot
  <2>11. CASE GCSwap(t) \/ GCPop(t)
    BY <2>11, StepGCSwap, StepGCPop
  <2>12. CASE GCRelease(t)
    <3>1. node[t] # Root
      BY <2>12 DEF GCRelease, IInv, ThreadShape
    <3>2. QED
      BY <2>12, <3>1, StepGCReleaseKept, StepGCReleaseLast
  <2>13. CASE GCEnd(t)
    <3>1. job[t] \in {"gc", "droptree"}
      BY <2>13 DEF GCEnd, IInv, ThreadShape
    <3>2. QED
      BY <2>13, <3>1, StepGCEndGc, StepGCEndDrop
  <2>14. CASE DropRootField(t)
    BY <2>14, StepDropRootFieldKept, StepDropRootFieldLast
  <2>15. CASE EnsureOccupied(t)
    BY <2>15, StepEnsureOccupiedSpin, StepEnsureOccupiedHit
  <2>16. ASSUME NEW n \in NonRoot, EnsureVacant(t, n) PROVE IInv'
    BY <2>16, StepEnsureVacant
  <2>17. CASE UpgradeSpin(t)
    BY <2>17, StepUpgradeSpin
  <2>18. QED
    BY <1>2, <2>1, <2>2, <2>3, <2>4, <2>5, <2>6, <2>7, <2>8, <2>9, <2>10, <2>11, <2>12, <2>13,
       <2>14, <2>15, <2>16, <2>17 DEF Call, Step
<1>3. QED
  BY <1>1, <1>2 DEF Next

\* The invariant holds of every reachable state, for any number of threads,
\* addresses and keys.
THEOREM Inductive == Spec => []IInv
<1>1. Init => IInv
  BY InitIInv
<1>2. IInv /\ [Next]_vars => IInv'
  BY NextIInv
<1>3. QED
  BY <1>1, <1>2, PTL DEF Spec

\* Every variable keeps its type.
THEOREM TypeCorrect == Spec => []TypeOK
<1>1. IInv => TypeOK
  BY DEF IInv
<1>2. QED
  BY <1>1, Inductive, PTL

\* The count of a node is always the number of its owners: no interleaving of
\* clones, drops, resurrections, pushes and collections miscounts one.
THEOREM CountsAreExact == Spec => []RefcountExact
<1>1. IInv => RefcountExact
  BY DEF IInv
<1>2. QED
  BY <1>1, Inductive, PTL

\* The fields, the locals and the handles only lead to boxes that are there.
LEMMA NoDangling == ASSUME IInv PROVE NoUseAfterFree
<1>1. \A n \in Node : refcount[n] > 0 => n \in alloc
  BY Alive DEF IInv, TypeOK
<1>2. \A n \in Node : strong[n] > 0 => n \in alloc
  BY <1>1, Counted DEF IInv
<1>3. \A c \in alloc : parent[c] # NULL => parent[c] \in alloc
  BY DEF IInv, HeapShape
<1>4. \A p \in alloc, k \in Key : children[p][k] # NULL => children[p][k] \in alloc
  BY DEF IInv, TypeOK, HeapShape
<1>5. ASSUME NEW t \in Thread, node[t] # NULL PROVE node[t] \in alloc
  <2>1. node[t] \in Node
    BY <1>5 DEF IInv, TypeOK
  <2>2. CASE pc[t] \in HoldingState
    BY <1>1, <2>1, <2>2, Counted DEF IInv
  <2>3. CASE pc[t] \in {"pretend", "free_root"}
    BY <2>3 DEF IInv, ThreadShape, CustodyState
  <2>4. pc[t] \in HoldingState \cup {"pretend", "free_root"}
    BY <1>5 DEF IInv, TypeOK, ControlState, ThreadShape, HoldingState
  <2>5. QED
    BY <2>2, <2>3, <2>4
<1>6. tree # "dropped" => Root \in alloc
  BY <1>1, Counted DEF IInv
<1>7. ASSUME NEW t \in Thread, base[t] # NULL PROVE base[t] \in alloc
  <2>1. CASE pc[t] \in EnsureState
    BY <1>2, <1>6, <2>1 DEF IInv, ThreadShape
  <2>2. CASE pc[t] = "unlink_dec"
    BY <2>2 DEF IInv, ThreadShape, HeapShape, CustodyState
  <2>3. CASE pc[t] = "unlock"
    BY <1>3, <1>7, <2>3 DEF IInv, ThreadShape
  <2>4. QED
    BY <1>7, <2>1, <2>2, <2>3 DEF IInv, ThreadShape, EnsureState, WriteState
<1>8. ASSUME NEW t \in Thread,
             pc[t] \in {"push_count", "push_load", "push_store", "push_exchange", "gc_swap"}
      PROVE  Root \in alloc
  <2>1. CASE pc[t] = "gc_swap"
    <3>1. job[t] = "gc" \/ Dropping(t)
      BY <2>1 DEF IInv, ThreadShape, Dropping
    <3>2. tree # "dropped"
      BY <3>1 DEF IInv, ThreadShape
    <3>3. QED
      BY <1>6, <3>2
  <2>2. CASE pc[t] # "gc_swap"
    BY <1>8, <2>2 DEF IInv, ThreadShape, HeapShape, CustodyState
  <2>3. QED
    BY <2>1, <2>2
<1>9. ASSUME NEW t \in Thread, pc[t] = "gc_pop", head[t] # DANGLING PROVE head[t] \in alloc
  <2>1. Walking(t)
    BY <1>9 DEF IInv, ThreadShape, Walking
  <2>2. QED
    BY <1>9, <2>1 DEF IInv, LinksSound, Link, Listed
<1>10. QED
  BY <1>2, <1>3, <1>4, <1>5, <1>7, <1>8, <1>9 DEF NoUseAfterFree

\* No thread ever dereferences a freed node.
THEOREM MemorySafe == Spec => []NoUseAfterFree
<1>1. IInv => NoUseAfterFree
  BY NoDangling
<1>2. QED
  BY <1>1, Inductive, PTL

\* The maps and the boxes agree.
LEMMA MapsHoldLiveNodes == ASSUME IInv PROVE Interned
<1>1. \A p \in Node, k \in Key, c \in NonRoot :
        children[p][k] = c <=> c \in alloc /\ parent[c] = p /\ key[c] = k
  BY DEF IInv, HeapShape
<1>2. ASSUME NEW c \in alloc, NEW d \in alloc, parent[c] = parent[d], key[c] = key[d]
      PROVE  c = d
  <2>1. c = Root <=> parent[c] = NULL
    BY DEF IInv, TypeOK, HeapShape
  <2>2. d = Root <=> parent[d] = NULL
    BY DEF IInv, TypeOK, HeapShape
  <2>3. CASE c # Root /\ d # Root
    <3>1. c \in NonRoot /\ d \in NonRoot /\ parent[c] \in Node /\ key[c] \in Key
      BY <2>3 DEF IInv, TypeOK, HeapShape
    <3>2. children[parent[c]][key[c]] = c
      BY <1>1, <3>1
    <3>3. children[parent[c]][key[c]] = d
      BY <1>1, <1>2, <3>1
    <3>4. QED
      BY <3>2, <3>3
  <2>4. QED
    BY <1>2, <2>1, <2>2, <2>3
<1>3. QED
  BY <1>1, <1>2 DEF Interned

\* The children maps hold the live nodes, one per parent and key.
THEOREM NodesAreShared == Spec => []Interned
<1>1. IInv => Interned
  BY MapsHoldLiveNodes
<1>2. QED
  BY <1>1, Inductive, PTL

\* The root is answered for by who frees it, the others by their custodian.
LEMMA OneAnswers == ASSUME IInv PROVE OneCustodian
<1>1. \A t \in Thread, n \in Node : Custody(t, n) => n # Root
  BY DEF IInv, ThreadShape, Custody
<1>2. \A t \in Thread, n \in Node : pc[t] = "free_root" /\ node[t] = n => n = Root
  BY DEF IInv, ThreadShape
<1>3. QED
  BY <1>1, <1>2 DEF IInv, OneCustody, OneCustodian

\* No two threads answer for the same dead node.
THEOREM CustodyIsExclusive == Spec => []OneCustodian
<1>1. IInv => OneCustodian
  BY OneAnswers
<1>2. QED
  BY <1>1, Inductive, PTL

\* What the assertions look at is part of the invariant.
LEMMA AssertionsFollow == ASSUME IInv PROVE DebugAssertions
<1> SUFFICES ASSUME NEW t \in Thread
             PROVE  /\ pc[t] \in {"pretend", "pretend_store"} => next_free[node[t]] = NULL
                    /\ pc[t] = "push_count" => refcount[node[t]] > 0 /\ next_free[node[t]] = DANGLING
                    /\ pc[t] = "push_store" => head[t] # node[t]
                    /\ pc[t] = "unlink" => next_free[node[t]] # NULL
                    /\ pc[t] = "unlink_dec" => refcount[node[t]] # 0
                    /\ pc[t] = "free_root" => next_free[Root] = NULL /\ refcount[Root] = 0
                    /\ pc[t] = "gc_swap" => next_free[Root] # NULL
                    /\ pc[t] = "gc_pop" => head[t] \notin {NULL, Root}
  BY DEF DebugAssertions
<1>1. pc[t] \in {"push_count", "unlink_dec"} => refcount[node[t]] > 0
  <2> SUFFICES ASSUME pc[t] \in {"push_count", "unlink_dec"} PROVE refcount[node[t]] > 0
    OBVIOUS
  <2>1. node[t] \in Node /\ pc[t] \in HoldingState
    BY DEF IInv, TypeOK, ThreadShape, CustodyState, HoldingState
  <2>2. QED
    BY <2>1, Counted DEF IInv
<1>2. pc[t] = "free_root" => next_free[Root] = NULL /\ refcount[Root] = 0
  <2> SUFFICES ASSUME pc[t] = "free_root" PROVE next_free[Root] = NULL /\ refcount[Root] = 0
    OBVIOUS
  <2>1. refcount[Root] = 0
    BY DEF IInv, ThreadShape
  <2>2. tree = "dropped"
    BY <2>1, Counted DEF IInv
  <2>3. QED
    BY <2>1, <2>2 DEF IInv, LinksSound
<1>3. pc[t] = "gc_pop" => head[t] \notin {NULL, Root}
  <2> SUFFICES ASSUME pc[t] = "gc_pop" PROVE head[t] \notin {NULL, Root}
    OBVIOUS
  <2>1. Walking(t)
    BY DEF IInv, ThreadShape, Walking
  <2>2. QED
    BY <2>1 DEF IInv, LinksSound, Link
<1>4. QED
  BY <1>1, <1>2, <1>3 DEF IInv, NextFreeShape, LinksSound

\* The debug assertions on counts and links never fail.
THEOREM AssertionsHold == Spec => []DebugAssertions
<1>1. IInv => DebugAssertions
  BY AssertionsFollow
<1>2. QED
  BY <1>1, Inductive, PTL

-----------------------------------------------------------------------------
\* A count of zero means that nobody owns the node.
ZeroMeansDead ==
  \A n \in Node : refcount[n] = 0 =>
    /\ strong[n] = 0
    /\ \A c \in alloc : parent[c] # n
    /\ n \in NonRoot /\ n \in alloc => next_free[n] = NULL

\* A node whose count is zero is not on, and does not pretend to be on, a list.
LEMMA DeadNodes == ASSUME IInv PROVE ZeroMeansDead
<1> SUFFICES ASSUME NEW n \in Node, refcount[n] = 0
             PROVE  /\ strong[n] = 0
                    /\ \A c \in alloc : parent[c] # n
                    /\ n \in NonRoot /\ n \in alloc => next_free[n] = NULL
  BY DEF ZeroMeansDead
<1>1. /\ strong[n] = 0 /\ \A c \in alloc : parent[c] # n
      /\ ~ Listed(n) /\ \A t \in Thread : ~ (pc[t] \in HoldingState /\ node[t] = n)
  BY Counted DEF IInv, TypeOK
<1>2. ASSUME NEW t \in Thread, Custody(t, n) PROVE pc[t] = "pretend" /\ node[t] = n
  BY <1>1, <1>2 DEF Custody, CustodyState, HoldingState
<1>3. QED
  BY <1>1, <1>2 DEF Listed, IInv, NextFreeShape

\* It is true of every reachable state.
LEMMA AlwaysDead == Spec => [](ZeroMeansDead /\ NoUseAfterFree)
<1>1. IInv => ZeroMeansDead /\ NoUseAfterFree
  BY DeadNodes, NoDangling
<1>2. QED
  BY <1>1, Inductive, PTL

\* A step that takes a count to zero finds the node off the free list.
LEMMA ZeroStep ==
  ASSUME IInv, ZeroMeansDead', [Next]_vars, NEW n \in NonRoot, refcount[n] > 0, refcount'[n] = 0
  PROVE  next_free[n] = NULL
<1>1. n \in Node /\ n \in alloc /\ refcount[n] \in Nat
  BY Alive DEF IInv, TypeOK
<1>2. UNCHANGED vars => FALSE
  BY <1>1 DEF vars, heap
<1>3. PICK t \in Thread : Call(t) \/ Step(t)
  BY <1>2 DEF Next
<1>4. CASE UnlinkRemove(t)
  <2>1. n = node[t]
    BY <1>1, <1>4 DEF UnlinkRemove, FreeUnlinked, SubRef, IInv, TypeOK
  <2>2. QED
    BY <1>4, <2>1 DEF UnlinkRemove, IInv, NextFreeShape
<1>5. ASSUME n \in alloc', next_free'[n] = next_free[n] PROVE next_free[n] = NULL
  <2>1. next_free'[n] = NULL
    BY <1>1, <1>5 DEF ZeroMeansDead
  <2>2. QED
    BY <1>5, <2>1
<1>6. CASE Call(t)
  <2>1. alloc' = alloc /\ next_free' = next_free
    BY <1>6 DEF Call, Clone, StrongDrop, EnsureRead, MaybeGC, DropTree, heap
  <2>2. QED
    BY <1>1, <1>5, <2>1
<1>7. CASE \/ UnlinkResurrected(t) \/ DropParentRef(t) \/ GCRelease(t) \/ DropRootField(t)
  <2>1. alloc' = alloc /\ next_free' = next_free
    BY <1>7 DEF UnlinkResurrected, DropParentRef, GCRelease, DropRootField
  <2>2. QED
    BY <1>1, <1>5, <2>1
<1>8. CASE \/ PretendIncrement(t) \/ PretendStore(t) \/ PushCount(t) \/ PushLoad(t) \/ PushStore(t)
           \/ PushExchange(t) \/ PushExchangeFails(t) \/ UnlinkLock(t) \/ Unlock(t) \/ FreeRoot(t)
           \/ GCSwap(t) \/ GCPop(t) \/ GCEnd(t) \/ EnsureOccupied(t) \/ UpgradeSpin(t)
  <2>1. refcount' = refcount \/ \E m : AddRef(m)
    <3>1. CASE PretendIncrement(t)
      BY <3>1 DEF PretendIncrement
    <3>2. CASE EnsureOccupied(t)
      BY <3>2 DEF EnsureOccupied, Upgrade
    <3>3. CASE \/ PushLoad(t) \/ PushExchangeFails(t) \/ PushCount(t) \/ Unlock(t) \/ UpgradeSpin(t)
      BY <3>3 DEF PushLoad, PushExchangeFails, PushCount, Unlock, UpgradeSpin, heap
    <3>4. CASE \/ PretendStore(t) \/ PushStore(t) \/ PushExchange(t) \/ UnlinkLock(t) \/ FreeRoot(t)
               \/ GCSwap(t) \/ GCPop(t) \/ GCEnd(t)
      BY <3>4 DEF PretendStore, PushStore, PushExchange, UnlinkLock, FreeRoot, GCSwap, StealList, GCPop,
                  GCEnd, heap
    <3>5. QED
      BY <1>8, <3>1, <3>2, <3>3, <3>4
  <2>2. \A m : AddRef(m) => refcount'[n] >= refcount[n]
    BY <1>1 DEF AddRef, IInv, TypeOK
  <2>3. QED
    BY <1>1, <2>1, <2>2
<1>9. CASE \E m \in NonRoot : EnsureVacant(t, m)
  <2>1. PICK m \in NonRoot : EnsureVacant(t, m)
    BY <1>9
  <2>2. base[t] \in Node
    BY <2>1 DEF EnsureVacant, IInv, ThreadShape, EnsureState
  <2>3. refcount' = [refcount EXCEPT ![m] = 1, ![base[t]] = @ + 1]
    BY <2>1 DEF EnsureVacant, Insert
  <2>4. refcount \in [Node -> Nat] /\ m \in Node
    BY DEF IInv, TypeOK
  <2>5. refcount'[n] # 0
    BY <1>1, <2>2, <2>3, <2>4
  <2>6. QED
    BY <2>5
<1>10. QED
  BY <1>3, <1>4, <1>6, <1>7, <1>8, <1>9 DEF Step

\* "The refcount should never be decremented to zero if the value in next_free
\* is not null", whichever thread decrements it.
THEOREM ZeroOffTheFreeList == Spec => NeverZeroOnFreeList
<1>1. IInv /\ ZeroMeansDead' /\ [Next]_vars =>
        [\A n \in NonRoot : refcount[n] > 0 /\ refcount'[n] = 0 => next_free[n] = NULL]_vars
  BY ZeroStep
<1>2. QED
  BY <1>1, Inductive, AlwaysDead, PTL DEF Spec, NeverZeroOnFreeList

\* Which steps free a box, and what they leave alone.
LEMMA WhoFrees ==
  ASSUME IInv, [Next]_vars, NEW n \in alloc, n \notin alloc'
  PROVE  strong' = strong /\ \E t \in Thread : UnlinkRemove(t) \/ FreeRoot(t)
<1>1. UNCHANGED vars => FALSE
  BY DEF vars, heap
<1>2. PICK t \in Thread : Call(t) \/ Step(t)
  BY <1>1 DEF Next
<1>3. CASE UnlinkRemove(t) \/ FreeRoot(t)
  BY <1>3 DEF UnlinkRemove, FreeUnlinked, FreeRoot, world
<1>4. CASE Call(t)
  BY <1>4 DEF Call, Clone, StrongDrop, EnsureRead, MaybeGC, DropTree, heap
<1>5. CASE \/ PretendIncrement(t) \/ PretendStore(t) \/ PushCount(t) \/ PushLoad(t) \/ PushStore(t)
           \/ PushExchange(t) \/ PushExchangeFails(t) \/ UnlinkLock(t) \/ UnlinkResurrected(t) \/ Unlock(t)
           \/ DropParentRef(t) \/ GCSwap(t) \/ GCPop(t) \/ GCRelease(t) \/ GCEnd(t) \/ DropRootField(t)
           \/ EnsureOccupied(t) \/ (\E m \in NonRoot : EnsureVacant(t, m)) \/ UpgradeSpin(t)
  BY <1>5 DEF PretendIncrement, PretendStore, PushCount, PushLoad, PushStore, PushExchange,
              PushExchangeFails, UnlinkLock, UnlinkResurrected, Unlock, DropParentRef, GCSwap, StealList,
              GCPop, GCRelease, GCEnd, DropRootField, EnsureOccupied, EnsureVacant, Insert, UpgradeSpin, heap
<1>6. QED
  BY <1>2, <1>3, <1>4, <1>5 DEF Step

\* A step that frees a box finds nothing that refers to it.
LEMMA FreeStep ==
  ASSUME IInv, IInv', ZeroMeansDead', NoUseAfterFree', [Next]_vars, NEW n \in alloc \ alloc'
  PROVE  /\ strong[n] = 0
         /\ \A k \in Key : children'[n][k] = NULL
         /\ \A t \in Thread : pc'[t] # "idle" => node'[t] # n
         /\ \A p \in Node, k \in Key : children'[p][k] # n
<1>1. n \in Node
  BY DEF IInv, TypeOK
<1>2. refcount'[n] = 0
  BY <1>1 DEF IInv, HeapShape
<1>3. strong'[n] = 0 /\ \A c \in alloc' : parent'[c] # n
  BY <1>1, <1>2 DEF ZeroMeansDead
<1>4. strong' = strong
  BY WhoFrees
<1>5. \A p \in Node, k \in Key : children'[p][k] \in NonRoot =>
        children'[p][k] \in alloc' /\ parent'[children'[p][k]] = p
  BY DEF IInv, HeapShape
<1>6. \A p \in Node, k \in Key : children'[p][k] \in NonRoot \cup {NULL}
  BY DEF IInv, TypeOK
<1>7. \A t \in Thread : node'[t] # n
  BY <1>1 DEF NoUseAfterFree
<1>8. QED
  BY <1>1, <1>3, <1>4, <1>5, <1>6, <1>7

\* A box is freed only when no handle, no child, no map and no thread refers to
\* its node.
THEOREM FreedWhenUnreachable == Spec => FreedOnlyWhenUnreachable
<1>1. IInv /\ IInv' /\ ZeroMeansDead' /\ NoUseAfterFree' /\ [Next]_vars =>
        [\A n \in alloc \ alloc' :
           /\ strong[n] = 0
           /\ \A k \in Key : children'[n][k] = NULL
           /\ \A t \in Thread : pc'[t] # "idle" => node'[t] # n
           /\ \A p \in Node, k \in Key : children'[p][k] # n]_vars
  BY FreeStep
<1>2. QED
  BY <1>1, Inductive, AlwaysDead, PTL DEF Spec, FreedOnlyWhenUnreachable

-----------------------------------------------------------------------------
\* Steps that move counts, links, locks and threads are invisible outside.
LEMMA Invisible ==
  ASSUME UNCHANGED <<alloc, parent, key, strong>>, (tree' = "alive") <=> (tree = "alive")
  PROVE  [Abstract!AbstractNext]_Abstract!avars
<1>1. (tree' = "alive") = (tree = "alive")
  BY Zenon
<1>2. QED
  BY <1>1 DEF Abstract!avars

\* A new handle to the child of p for k: that child is the node of the map.
LEMMA Shares ==
  ASSUME IInv, NEW p \in Node, NEW k \in Key, children[p][k] # NULL,
         tree = "alive", p = Root \/ strong[p] > 0,
         strong' = [strong EXCEPT ![children[p][k]] = @ + 1],
         UNCHANGED <<alloc, parent, key, tree>>
  PROVE  [Abstract!AbstractNext]_Abstract!avars
<1>1. PICK c \in NonRoot : c = children[p][k]
  BY DEF IInv, TypeOK
<1>2. c \in alloc /\ parent[c] = p /\ key[c] = k
  BY <1>1 DEF IInv, HeapShape
<1>3. Abstract!Share(p, k, c)
  BY <1>1, <1>2 DEF Abstract!Share
<1>4. QED
  BY <1>3 DEF Abstract!AbstractNext, Abstract!Node, Node

\* Every step of a thread is a step of the abstract tree, or invisible.
LEMMA StepRefines ==
  ASSUME IInv, [Next]_vars
  PROVE  [Abstract!AbstractNext]_Abstract!avars
<1>1. CASE UNCHANGED vars
  BY <1>1, Invisible DEF vars, heap, world
<1>2. ASSUME NEW t \in Thread, Call(t) \/ Step(t) PROVE [Abstract!AbstractNext]_Abstract!avars
  <2>1. ASSUME NEW n \in Node, Clone(t, n) PROVE [Abstract!AbstractNext]_Abstract!avars
    <3>1. n \in alloc
      BY <2>1, Counted, Alive DEF Clone, Reachable, IInv, TypeOK
    <3>2. Abstract!Acquire(n)
      BY <2>1, <3>1 DEF Clone, Reachable, Abstract!Acquire, Abstract!Nameable
    <3>3. QED
      BY <3>2 DEF Abstract!AbstractNext, Abstract!Node, Node
  <2>2. ASSUME NEW n \in Node, StrongDrop(t, n) PROVE [Abstract!AbstractNext]_Abstract!avars
    <3>1. Abstract!Release(n)
      BY <2>2 DEF StrongDrop, Abstract!Release
    <3>2. QED
      BY <3>1 DEF Abstract!AbstractNext, Abstract!Node, Node
  <2>3. ASSUME NEW p \in Node, NEW k \in Key, EnsureRead(t, p, k)
        PROVE  [Abstract!AbstractNext]_Abstract!avars
    <3>1. CASE children[p][k] = NULL \/ refcount[children[p][k]] = 0
      BY <2>3, <3>1, Invisible DEF EnsureRead, Upgrade
    <3>2. CASE children[p][k] # NULL /\ refcount[children[p][k]] # 0
      BY <2>3, <3>2, Shares DEF EnsureRead, Upgrade
    <3>3. QED
      BY <3>1, <3>2
  <2>4. CASE EnsureOccupied(t)
    <3>1. /\ base[t] \in Node /\ want[t] \in Key /\ tree = "alive"
          /\ base[t] = Root \/ strong[base[t]] > 0
      BY <2>4 DEF EnsureOccupied, IInv, ThreadShape, EnsureState
    <3>2. CASE refcount[children[base[t]][want[t]]] = 0
      BY <2>4, <3>2, Invisible DEF EnsureOccupied, Upgrade
    <3>3. CASE refcount[children[base[t]][want[t]]] # 0
      BY <2>4, <3>1, <3>3, Shares DEF EnsureOccupied, Upgrade
    <3>4. QED
      BY <3>2, <3>3
  <2>5. CASE UpgradeSpin(t)
    <3>1. pc[t] \in SpinState /\ pc[t] \in EnsureState /\ pc[t] \in HoldingState
      BY <2>5 DEF UpgradeSpin, SpinState, EnsureState, HoldingState
    <3>2. /\ node[t] \in NonRoot /\ parent[node[t]] = base[t] /\ base[t] \in Node
          /\ tree = "alive" /\ (base[t] = Root \/ strong[base[t]] > 0)
      BY <3>1 DEF IInv, ThreadShape
    <3>3. node[t] \in alloc
      BY <3>1, <3>2, Counted, Alive DEF IInv
    <3>4. key[node[t]] \in Key
      BY <3>2, <3>3 DEF IInv, HeapShape
    <3>5. Abstract!Share(base[t], key[node[t]], node[t])
      BY <2>5, <3>2, <3>3 DEF UpgradeSpin, heap, Abstract!Share
    <3>6. QED
      BY <3>2, <3>4, <3>5 DEF Abstract!AbstractNext, Abstract!Node, Node
  <2>6. ASSUME NEW n \in NonRoot, EnsureVacant(t, n) PROVE [Abstract!AbstractNext]_Abstract!avars
    <3>1. /\ base[t] \in Node /\ want[t] \in Key /\ tree = "alive"
          /\ base[t] = Root \/ strong[base[t]] > 0
      BY <2>6 DEF EnsureVacant, IInv, ThreadShape, EnsureState
    <3>2. \A c \in alloc : ~ (parent[c] = base[t] /\ key[c] = want[t])
      <4>1. \A c \in NonRoot : ~ (c \in alloc /\ parent[c] = base[t] /\ key[c] = want[t])
        BY <2>6, <3>1 DEF EnsureVacant, IInv, HeapShape
      <4>2. parent[Root] # base[t]
        BY <3>1 DEF IInv, HeapShape
      <4>3. QED
        BY <4>1, <4>2 DEF IInv, TypeOK
    <3>3. Abstract!Create(base[t], want[t], n)
      BY <2>6, <3>1, <3>2 DEF EnsureVacant, Insert, Abstract!Create
    <3>4. QED
      BY <3>1, <3>3 DEF Abstract!AbstractNext, Abstract!Node, Node
  <2>7. CASE UnlinkRemove(t)
    <3>1. node[t] \in alloc \ {Root} /\ node[t] \in Node /\ pc[t] \in HoldingState
      BY <2>7 DEF UnlinkRemove, IInv, TypeOK, ThreadShape, CustodyState, HoldingState
    <3>2. strong[node[t]] = 0 /\ \A c \in alloc : parent[c] # node[t]
      BY <2>7, <3>1, LastHolder DEF UnlinkRemove, IInv
    <3>3. Abstract!Reclaim(node[t])
      BY <2>7, <3>1, <3>2 DEF UnlinkRemove, FreeUnlinked, world, Abstract!Reclaim
    <3>4. QED
      BY <3>1, <3>3 DEF Abstract!AbstractNext, Abstract!Node, Node
  <2>8. CASE FreeRoot(t)
    <3>1. Root \in alloc /\ refcount[Root] = 0 /\ parent[Root] = NULL /\ key[Root] = NULL
      BY <2>8 DEF FreeRoot, IInv, ThreadShape, HeapShape
    <3>2. strong[Root] = 0 /\ tree = "dropped" /\ \A c \in alloc : parent[c] # Root
      BY <3>1, DeadNodes, Counted DEF ZeroMeansDead, IInv
    <3>3. /\ alloc' = alloc \ {Root} /\ UNCHANGED <<parent, key, strong, tree>>
          /\ parent = [parent EXCEPT ![Root] = NULL] /\ key = [key EXCEPT ![Root] = NULL]
      BY <2>8, <3>1 DEF FreeRoot, world, IInv, TypeOK
    <3>4. Abstract!Reclaim(Root)
      BY <3>1, <3>2, <3>3 DEF Abstract!Reclaim
    <3>5. QED
      BY <3>4 DEF Abstract!AbstractNext, Abstract!Node, Node
  <2>9. CASE DropTree(t)
    <3>1. tree = "alive" /\ tree' = "dropping" /\ UNCHANGED <<alloc, parent, key, strong>>
      BY <2>9 DEF DropTree, heap
    <3>2. Abstract!Close
      BY <3>1 DEF Abstract!Close
    <3>3. QED
      BY <3>2 DEF Abstract!AbstractNext
  <2>10. CASE DropRootField(t)
    <3>1. tree # "alive"
      BY <2>10 DEF DropRootField, IInv, ThreadShape, Dropping
    <3>2. QED
      BY <2>10, <3>1, Invisible DEF DropRootField
  <2>11. CASE \/ MaybeGC(t) \/ PretendIncrement(t) \/ PretendStore(t) \/ PushCount(t) \/ PushLoad(t)
              \/ PushStore(t) \/ PushExchange(t) \/ PushExchangeFails(t) \/ UnlinkLock(t)
              \/ UnlinkResurrected(t) \/ Unlock(t) \/ DropParentRef(t) \/ GCSwap(t) \/ GCPop(t)
              \/ GCRelease(t) \/ GCEnd(t)
    <3>1. UNCHANGED <<alloc, parent, key, strong, tree>>
      BY <2>11 DEF MaybeGC, PretendIncrement, PretendStore, PushCount, PushLoad, PushStore, PushExchange,
                   PushExchangeFails, UnlinkLock, UnlinkResurrected, Unlock, DropParentRef, GCSwap,
                   StealList, GCPop, GCRelease, GCEnd, heap, world
    <3>2. QED
      BY <3>1, Invisible
  <2>12. QED
    BY <1>2, <2>1, <2>2, <2>3, <2>4, <2>5, <2>6, <2>7, <2>8, <2>9, <2>10, <2>11 DEF Call, Step
<1>3. QED
  BY <1>1, <1>2 DEF Next

\* The rule tree implements the abstract tree of shared nodes.
THEOREM Refines == Spec => ImplementsAbstract
<1>1. Init => Abstract!AbstractInit
  <2>1. ASSUME Init PROVE (tree = "alive") = TRUE
    BY <2>1, Zenon DEF Init
  <2>2. QED
    BY <2>1 DEF Init, Abstract!AbstractInit, Abstract!Node, Node
<1>2. IInv /\ [Next]_vars => [Abstract!AbstractNext]_Abstract!avars
  BY StepRefines
<1>3. QED
  BY <1>1, <1>2, Inductive, PTL DEF Spec, ImplementsAbstract, Abstract!AbstractSpec

-----------------------------------------------------------------------------
(* Steps that neither list nor unlist a node.                              *)

QuietStep ==
  /\ \A x \in Node : Listed(x)' <=> Listed(x)
  /\ \A x \in Node : Listed(x) => next_free'[x] = next_free[x]
  /\ next_free'[Root] = next_free[Root]
  /\ \A u \in Thread : Walking(u) /\ head[u] # DANGLING => Walking(u)' /\ head'[u] = head[u]

\* If all that changes for a list is one node that is not listed before nor after, nothing changes.
LEMMA ListedFrame ==
  ASSUME TypeOK, NEW t \in Thread, NEW m \in Node,
         \A u \in Thread \ {t} : pc'[u] = pc[u] /\ node'[u] = node[u],
         \A x \in Node \ {m} : x \in alloc' <=> x \in alloc,
         \A x \in Node \ {m} : next_free'[x] = next_free[x],
         \A x \in Node \ {m} : Custody(t, x)' <=> Custody(t, x),
         ~ Listed(m), ~ Listed(m)'
  PROVE  /\ \A x \in Node : Listed(x)' <=> Listed(x)
         /\ \A x \in Node : Listed(x) => next_free'[x] = next_free[x]
<1>1. \A u \in Thread, x \in Node \ {m} : Custody(u, x)' <=> Custody(u, x)
  BY DEF Custody
<1>2. \A x \in Node \ {m} : Listed(x)' <=> Listed(x)
  BY <1>1 DEF Listed
<1>3. QED
  BY <1>2

\* The node of a thread in custody is not listed.
LEMMA HeldNotListed ==
  ASSUME NEW t \in Thread, pc[t] \in CustodyState
  PROVE  ~ Listed(node[t])
  BY DEF Listed, Custody

\* What the actions leave alone.
LEMMA OthersKeepStill ==
  ASSUME TypeOK, NEW t \in Thread, Call(t) \/ Step(t)
  PROVE  \A u \in Thread \ {t} :
           pc'[u] = pc[u] /\ node'[u] = node[u] /\ head'[u] = head[u] /\ job'[u] = job[u]
<1> USE DEF TypeOK, heap, world, locals, Goto, Advance, OnZero, Return
<1>1. CASE \/ PretendIncrement(t) \/ PretendStore(t) \/ PushCount(t) \/ PushLoad(t) \/ PushStore(t)
           \/ PushExchange(t) \/ PushExchangeFails(t) \/ UnlinkLock(t) \/ UnlinkResurrected(t)
           \/ Unlock(t) \/ UnlinkRemove(t)
  BY <1>1 DEF PretendIncrement, PretendStore, PushCount, PushLoad, PushStore, PushExchange,
              PushExchangeFails, PushLoop, UnlinkLock, UnlinkResurrected, Unlock, UnlinkRemove, FreeUnlinked
<1>2. CASE \/ DropParentRef(t) \/ FreeRoot(t) \/ GCSwap(t) \/ GCPop(t) \/ GCRelease(t)
           \/ GCEnd(t) \/ DropRootField(t) \/ UpgradeSpin(t) \/ MaybeGC(t) \/ DropTree(t)
  BY <1>2 DEF DropParentRef, FreeRoot, GCSwap, StealList, GCPop, GCRelease, GCEnd, DropRootField,
              UpgradeSpin, MaybeGC, DropTree
<1>3. CASE EnsureOccupied(t)
  BY <1>3 DEF EnsureOccupied, Upgrade
<1>4. ASSUME NEW n \in NonRoot, EnsureVacant(t, n) PROVE \A u \in Thread \ {t} :
           pc'[u] = pc[u] /\ node'[u] = node[u] /\ head'[u] = head[u] /\ job'[u] = job[u]
  BY <1>4 DEF EnsureVacant, Insert
<1>5. ASSUME NEW p \in Node, NEW k \in Key, EnsureRead(t, p, k) PROVE \A u \in Thread \ {t} :
           pc'[u] = pc[u] /\ node'[u] = node[u] /\ head'[u] = head[u] /\ job'[u] = job[u]
  BY <1>5 DEF EnsureRead, Upgrade
<1>6. ASSUME NEW n \in Node, Clone(t, n) \/ StrongDrop(t, n) PROVE \A u \in Thread \ {t} :
           pc'[u] = pc[u] /\ node'[u] = node[u] /\ head'[u] = head[u] /\ job'[u] = job[u]
  BY <1>6 DEF Clone, StrongDrop
<1>7. QED
  BY <1>1, <1>2, <1>3, <1>4, <1>5, <1>6 DEF Call, Step

\* The rest of a quiet step: the root's link, and the lists being walked.
WalkersKeepLists ==
  /\ next_free'[Root] = next_free[Root]
  /\ \A u \in Thread : Walking(u) /\ head[u] # DANGLING => Walking(u)' /\ head'[u] = head[u]

\* A node that pretends, or is being pushed, is in the custody of its thread all the while.
LEMMA QuietPretending ==
  ASSUME IInv, NEW t \in Thread,
         \/ PretendIncrement(t) \/ PretendStore(t) \/ PushCount(t) \/ PushLoad(t) \/ PushStore(t)
         \/ PushExchangeFails(t)
  PROVE  QuietStep
<1> USE Addresses
<1>1. /\ \A u \in Thread \ {t} : pc'[u] = pc[u] /\ node'[u] = node[u] /\ head'[u] = head[u] /\ job'[u] = job[u]
      /\ alloc' = alloc /\ node'[t] = node[t] /\ job'[t] = job[t] /\ next_free \in [Node -> Pointer]
  BY OthersKeepStill DEF Step, IInv, TypeOK, heap, Advance, PretendIncrement, PretendStore, PushCount, PushLoad,
                         PushStore, PushExchangeFails, PushLoop
<1>2. pc[t] \in CustodyState /\ pc'[t] \in CustodyState /\ node[t] \in alloc \ {Root} /\ node[t] \in Node
  BY DEF IInv, TypeOK, ThreadShape, CustodyState, Advance, Goto, PretendIncrement, PretendStore, PushCount, PushLoad,
         PushStore, PushExchangeFails, PushLoop
<1>3. \A x \in Node \ {node[t]} : next_free'[x] = next_free[x]
  BY <1>2 DEF IInv, TypeOK, heap, PretendIncrement, PretendStore, PushCount, PushLoad, PushStore, PushExchangeFails
<1>4. \A x \in Node \ {node[t]} : ~ Custody(t, x)' /\ ~ Custody(t, x)
  BY <1>1 DEF Custody
<1>5. ~ Listed(node[t]) /\ ~ Listed(node[t])'
  BY <1>1, <1>2 DEF Listed, Custody
<1>6. WalkersKeepLists
  <2>1. ~ Walking(t) \/ head'[t] = head[t]
    BY DEF IInv, ThreadShape, Walking, Advance, PretendIncrement, PretendStore, PushCount, PushLoad,
           PushStore, PushExchangeFails
  <2>2. pc[t] # "gc_swap" /\ pc'[t] # "gc_swap"
    BY <1>2 DEF CustodyState
  <2>3. \A u \in Thread : Walking(u)' <=> Walking(u)
    BY <1>1, <2>2 DEF Walking
  <2>4. QED
    BY <1>1, <1>2, <1>3, <2>1, <2>3 DEF WalkersKeepLists
<1>7. QED
  BY <1>1, <1>2, <1>3, <1>4, <1>5, <1>6, ListedFrame DEF QuietStep, WalkersKeepLists, IInv

\* A node that is being unlinked is in custody, and leaves it unlisted.
LEMMA QuietUnlinking ==
  ASSUME IInv, NEW t \in Thread,
         UnlinkLock(t) \/ UnlinkResurrected(t) \/ UnlinkRemove(t)
  PROVE  QuietStep
<1> USE Addresses
<1>1. /\ \A u \in Thread \ {t} : pc'[u] = pc[u] /\ node'[u] = node[u] /\ head'[u] = head[u] /\ job'[u] = job[u]
      /\ job'[t] = job[t] /\ head'[t] = head[t]
  BY OthersKeepStill DEF Step, IInv, UnlinkLock, UnlinkResurrected, UnlinkRemove, FreeUnlinked
<1>2. /\ pc[t] \in CustodyState /\ node[t] \in alloc \ {Root} /\ node[t] \in Node
      /\ pc[t] # "gc_swap" /\ pc'[t] # "gc_swap"
      /\ UnlinkResurrected(t) => next_free[node[t]] = NULL
  BY DEF IInv, TypeOK, ThreadShape, NextFreeShape, CustodyState, Goto, UnlinkLock, UnlinkResurrected,
         UnlinkRemove, FreeUnlinked
<1>3. /\ \A x \in Node \ {node[t]} : next_free'[x] = next_free[x]
      /\ \A x \in Node \ {node[t]} : x \in alloc' <=> x \in alloc
      /\ UnlinkLock(t) => next_free'[node[t]] = NULL
  BY <1>2 DEF IInv, TypeOK, UnlinkLock, UnlinkResurrected, UnlinkRemove, FreeUnlinked
<1>4. PICK m \in Node : m = node[t]
  BY <1>2
<1>5. \A x \in Node \ {m} : ~ Custody(t, x)' /\ ~ Custody(t, x)
  BY <1>4 DEF Custody, Goto, IInv, TypeOK, CustodyState, UnlinkLock, UnlinkResurrected, UnlinkRemove, FreeUnlinked
<1>6. ~ Listed(m)
  BY <1>2, <1>4, HeldNotListed
<1>7. ~ Listed(m)'
  <2>1. CASE UnlinkLock(t)
    BY <1>3, <1>4, <2>1 DEF Listed, UnlinkLock
  <2>2. CASE UnlinkResurrected(t)
    BY <1>2, <1>4, <2>2 DEF Listed, UnlinkResurrected
  <2>3. CASE UnlinkRemove(t)
    BY <1>4, <2>3 DEF Listed, UnlinkRemove, FreeUnlinked
  <2>4. QED
    BY <2>1, <2>2, <2>3
<1>8. WalkersKeepLists
  BY <1>1, <1>2, <1>3 DEF WalkersKeepLists, Walking
<1>9. QED
  BY <1>1, <1>3, <1>4, <1>5, <1>6, <1>7, <1>8, ListedFrame DEF QuietStep, WalkersKeepLists, IInv

\* Giving up the last reference to a node, or another one.
LEMMA QuietReleasing ==
  ASSUME IInv, NEW t \in Thread,
         DropParentRef(t) \/ GCRelease(t) \/ DropRootField(t) \/ \E n \in Node : StrongDrop(t, n)
  PROVE  QuietStep
<1> USE Addresses
<1>1. /\ \A u \in Thread \ {t} : pc'[u] = pc[u] /\ node'[u] = node[u] /\ head'[u] = head[u] /\ job'[u] = job[u]
      /\ alloc' = alloc /\ next_free' = next_free /\ head'[t] = head[t]
      /\ pc[t] \notin CustodyState
  BY OthersKeepStill DEF Call, Step, IInv, CustodyState, DropParentRef, GCRelease, DropRootField, StrongDrop, OnZero,
                         Return, locals, CanCall
<1>2. PICK m \in Node : /\ ~ Listed(m) /\ ~ Listed(m)'
                        /\ \A x \in Node \ {m} : ~ Custody(t, x)'
  <2>1. CASE pc'[t] \notin CustodyState
    BY <2>1 DEF Custody, Listed
  <2>2. CASE pc'[t] \in CustodyState
    <3>1. node'[t] \in Node /\ node'[t] \in alloc \ {Root} /\ ~ Listed(node'[t])
      <4>1. CASE DropParentRef(t) \/ GCRelease(t)
        <5>1. /\ node[t] \in Node \ {Root} /\ refcount[node[t]] = 1 /\ node'[t] = node[t]
              /\ pc[t] \in HoldingState
          BY <2>2, <4>1 DEF DropParentRef, GCRelease, OnZero, Return, Goto, IInv, TypeOK, ThreadShape,
                            CustodyState, HoldingState
        <5>2. QED
          BY <5>1, LastHolder, Alive DEF IInv
      <4>2. CASE DropRootField(t)
        BY <2>2, <4>2 DEF DropRootField, OnZero, Return, Goto, IInv, TypeOK, ThreadShape, CustodyState
      <4>3. ASSUME NEW n \in Node, StrongDrop(t, n)
            PROVE  node'[t] \in Node /\ node'[t] \in alloc \ {Root} /\ ~ Listed(node'[t])
        <5>1. refcount[n] = 1 /\ node'[t] = n /\ strong[n] > 0 /\ n # Root
          BY <1>1, <2>2, <4>3 DEF StrongDrop, OnZero, Goto, IInv, TypeOK, CustodyState, locals, CanCall
        <5>2. QED
          BY <5>1, LastHandle, Alive DEF IInv
      <4>4. QED
        BY <4>1, <4>2, <4>3
    <3>2. PICK m \in Node : m = node'[t]
      BY <3>1
    <3>3. ~ Listed(m)' /\ \A x \in Node \ {m} : ~ Custody(t, x)'
      BY <2>2, <3>2 DEF Listed, Custody
    <3>4. QED
      BY <3>1, <3>2, <3>3
  <2>3. QED
    BY <2>1, <2>2
<1>3. \A x \in Node : ~ Custody(t, x)
  BY <1>1 DEF Custody
<1>4. WalkersKeepLists
  <2>1. Walking(t) => Walking(t)'
    BY DEF Walking, DropParentRef, GCRelease, DropRootField, StrongDrop, OnZero, Return, Goto, CanCall, IInv,
           ThreadShape, TypeOK, locals
  <2>2. QED
    BY <1>1, <2>1 DEF WalkersKeepLists, Walking
<1>5. QED
  BY <1>1, <1>2, <1>3, <1>4, ListedFrame DEF QuietStep, WalkersKeepLists, IInv

\* The calls and the ends of operations touch no listed node.
LEMMA QuietCalls ==
  ASSUME IInv, NEW t \in Thread,
         \/ Unlock(t) \/ FreeRoot(t) \/ GCEnd(t) \/ EnsureOccupied(t) \/ UpgradeSpin(t)
         \/ MaybeGC(t) \/ DropTree(t) \/ (\E n \in Node : Clone(t, n))
         \/ (\E p \in Node, k \in Key : EnsureRead(t, p, k)) \/ (\E n \in NonRoot : EnsureVacant(t, n))
  PROVE  QuietStep
<1> USE Addresses
<1>1. /\ \A u \in Thread \ {t} : pc'[u] = pc[u] /\ node'[u] = node[u] /\ head'[u] = head[u] /\ job'[u] = job[u]
      /\ pc[t] \notin CustodyState
  BY OthersKeepStill DEF Call, Step, IInv, CustodyState, Unlock, FreeRoot, GCEnd, EnsureOccupied, UpgradeSpin,
                         MaybeGC, DropTree, Clone, EnsureRead, EnsureVacant, CanCall
<1>2. pc'[t] \notin CustodyState
  BY DEF IInv, TypeOK, CustodyState, Unlock, FreeRoot, GCEnd, EnsureOccupied, UpgradeSpin, Upgrade, Insert,
         MaybeGC, DropTree, Clone, EnsureRead, EnsureVacant, CanCall, Return, Goto, locals
<1>3. PICK m \in Node : /\ \A x \in Node \ {m} : (x \in alloc' <=> x \in alloc) /\ next_free'[x] = next_free[x]
                        /\ ~ Listed(m) /\ ~ Listed(m)'
                        /\ next_free'[Root] = next_free[Root]
  <2>1. ~ Listed(Root) /\ ~ Listed(Root)'
    BY DEF Listed
  <2>2. CASE FreeRoot(t)
    BY <2>1, <2>2 DEF FreeRoot
  <2>3. ASSUME NEW n \in NonRoot, EnsureVacant(t, n)
        PROVE  /\ \A x \in Node \ {n} : (x \in alloc' <=> x \in alloc) /\ next_free'[x] = next_free[x]
               /\ ~ Listed(n) /\ ~ Listed(n)'
               /\ next_free'[Root] = next_free[Root]
    BY <2>3 DEF EnsureVacant, Insert, Listed, IInv, TypeOK
  <2>4. CASE \/ Unlock(t) \/ GCEnd(t) \/ EnsureOccupied(t) \/ UpgradeSpin(t)
             \/ MaybeGC(t) \/ DropTree(t) \/ (\E n \in Node : Clone(t, n))
             \/ (\E p \in Node, k \in Key : EnsureRead(t, p, k))
    <3>1. alloc' = alloc /\ next_free' = next_free
      BY <2>4 DEF Unlock, GCEnd, EnsureOccupied, UpgradeSpin, MaybeGC, DropTree, Clone, EnsureRead, heap
    <3>2. QED
      BY <2>1, <3>1
  <2>5. QED
    BY <2>2, <2>3, <2>4
<1>4. \A x \in Node : ~ Custody(t, x) /\ ~ Custody(t, x)'
  BY <1>1, <1>2 DEF Custody
<1>5. Walking(t) /\ head[t] # DANGLING => Walking(t)' /\ head'[t] = head[t]
  <2>1. CASE GCEnd(t)
    BY <2>1 DEF GCEnd
  <2>2. CASE Unlock(t) \/ FreeRoot(t)
    BY <2>2 DEF Unlock, FreeRoot, Return, Goto, Walking, IInv, TypeOK, ThreadShape
  <2>3. CASE \/ EnsureOccupied(t) \/ UpgradeSpin(t)
             \/ MaybeGC(t) \/ DropTree(t) \/ (\E n \in Node : Clone(t, n))
             \/ (\E p \in Node, k \in Key : EnsureRead(t, p, k)) \/ (\E n \in NonRoot : EnsureVacant(t, n))
    BY <2>3 DEF EnsureOccupied, UpgradeSpin, MaybeGC, DropTree, Clone, EnsureRead, EnsureVacant, CanCall,
                Walking, IInv, ThreadShape, EnsureState
  <2>4. QED
    BY <2>1, <2>2, <2>3
<1>6. QED
  BY <1>1, <1>3, <1>4, <1>5, ListedFrame DEF QuietStep, Walking, IInv

-----------------------------------------------------------------------------
(* The lists have no loose end.                                            *)

\* Who expects a head, and who walks a list.
LEMMA StepHeadShape ==
  ASSUME IInv, HeadShape, NEW t \in Thread, Call(t) \/ Step(t)
  PROVE  HeadShape'
<1> USE Addresses
<1>1. \A u \in Thread \ {t} : pc'[u] = pc[u] /\ head'[u] = head[u] /\ job'[u] = job[u]
  BY OthersKeepStill DEF IInv
<1>2. SUFFICES head'[t] # NULL => pc'[t] \in {"push_store", "push_exchange"} \/ Walking(t)'
  BY <1>1 DEF HeadShape, Walking
<1> USE DEF Goto, Advance, OnZero, Return, locals, HeadShape, Walking, IInv, TypeOK, ThreadShape, CustodyState
<1>3. CASE \/ PretendIncrement(t) \/ PretendStore(t) \/ PushCount(t) \/ PushLoad(t) \/ PushStore(t)
           \/ PushExchange(t) \/ PushExchangeFails(t)
  BY <1>3 DEF PretendIncrement, PretendStore, PushCount, PushLoad, PushStore, PushExchange,
              PushExchangeFails, PushLoop
<1>4. CASE UnlinkLock(t) \/ UnlinkResurrected(t) \/ Unlock(t) \/ UnlinkRemove(t)
  BY <1>4 DEF UnlinkLock, UnlinkResurrected, Unlock, UnlinkRemove, FreeUnlinked
<1>5. CASE DropParentRef(t) \/ FreeRoot(t) \/ GCSwap(t) \/ GCPop(t) \/ GCRelease(t)
  BY <1>5 DEF DropParentRef, FreeRoot, GCSwap, StealList, GCPop, GCRelease
<1>6. CASE GCEnd(t) \/ DropRootField(t) \/ UpgradeSpin(t) \/ MaybeGC(t) \/ DropTree(t)
  <2>1. CASE GCEnd(t)
    BY <2>1 DEF GCEnd
  <2>2. CASE DropRootField(t)
    BY <2>2 DEF DropRootField
  <2>3. CASE UpgradeSpin(t)
    BY <2>3 DEF UpgradeSpin, EnsureState, SpinState
  <2>4. CASE MaybeGC(t) \/ DropTree(t)
    BY <2>4 DEF MaybeGC, DropTree, CanCall
  <2>5. QED
    BY <1>6, <2>1, <2>2, <2>3, <2>4
<1>7. CASE \/ EnsureOccupied(t) \/ (\E n \in NonRoot : EnsureVacant(t, n))
           \/ (\E p \in Node, k \in Key : EnsureRead(t, p, k))
           \/ (\E n \in Node : Clone(t, n) \/ StrongDrop(t, n))
  BY <1>7 DEF EnsureOccupied, Upgrade, EnsureVacant, Insert, EnsureRead, Clone, StrongDrop, CanCall, EnsureState
<1>8. QED
  BY <1>3, <1>4, <1>5, <1>6, <1>7 DEF Call, Step

\* The heads are the root's link and those of the lists being walked.
LEMMA HeadsAre ==
  ASSUME HeadShape, NEW h
  PROVE  h \in ListHeads <=> h \in Node /\ (h = next_free[Root] \/ \E u \in Thread : Walking(u) /\ head[u] = h)
<1>1. \A u \in Thread : job[u] \in {"gc", "droptree"} /\ head[u] \in Node => Walking(u)
  BY Addresses DEF HeadShape, Walking
<1>2. QED
  BY <1>1 DEF ListHeads, Walking

\* The same, after a step.
LEMMA HeadsAreNext ==
  ASSUME HeadShape', NEW h \in Node, h = next_free'[Root] \/ \E u \in Thread : Walking(u)' /\ head'[u] = h
  PROVE  h \in ListHeads'
  BY DEF ListHeads, Walking

\* A quiet step keeps the lists as they are.
LEMMA QuietReach ==
  ASSUME HeadShape, HeadShape', ListsReach, QuietStep
  PROVE  ListsReach'
<1> USE Addresses
<1>1. ListedNodes' = ListedNodes
  BY DEF QuietStep, ListedNodes
<1>2. ASSUME NEW n \in ListedNodes, n \in ListHeads PROVE n \in ListHeads'
  <2>1. PICK m \in Node : m = n
    BY DEF ListedNodes
  <2>2. m = next_free'[Root] \/ \E u \in Thread : Walking(u)' /\ head'[u] = m
    BY <1>2, <2>1, HeadsAre DEF QuietStep
  <2>3. QED
    BY <2>1, <2>2, HeadsAreNext
<1>3. \A m \in ListedNodes : next_free'[m] = next_free[m]
  BY DEF QuietStep, ListedNodes
<1>4. ASSUME NEW S \in SUBSET ListedNodes, S # {}
      PROVE  \E n \in S : n \in ListHeads' \/ \E m \in ListedNodes \ S : next_free'[m] = n
  BY <1>2, <1>3, <1>4 DEF ListsReach
<1>5. QED
  BY <1>1, <1>4 DEF ListsReach

\* A push puts a node before the first one.
LEMMA PushReach ==
  ASSUME IInv, HeadShape, ListsReach, NEW t \in Thread, PushExchange(t)
  PROVE  ListsReach' /\ \E n \in NonRoot \ ListedNodes : ListedNodes' = ListedNodes \cup {n}
<1> USE Addresses
<1>1. PICK n \in NonRoot : n = node[t]
  BY DEF PushExchange, IInv, ThreadShape, CustodyState, TypeOK
<1>2. /\ pc[t] = "push_exchange" /\ n \in alloc /\ next_free[n] = next_free[Root] /\ next_free[n] # NULL
      /\ ~ Listed(n) /\ Custody(t, n) /\ \A u \in Thread \ {t} : ~ Custody(u, n)
  BY <1>1, HeldNotListed DEF PushExchange, IInv, ThreadShape, NextFreeShape, OneCustody, Custody, CustodyState
<1>3. /\ next_free'[Root] = n /\ \A x \in Node \ {Root} : next_free'[x] = next_free[x]
      /\ alloc' = alloc /\ pc'[t] = "idle"
      /\ \A u \in Thread \ {t} : pc'[u] = pc[u] /\ node'[u] = node[u] /\ head'[u] = head[u] /\ job'[u] = job[u]
  BY <1>1 DEF PushExchange, Goto, IInv, TypeOK
<1>4. /\ \A u \in Thread, x \in Node \ {n} : Custody(u, x)' <=> Custody(u, x)
      /\ \A u \in Thread : ~ Custody(u, n)'
  BY <1>1, <1>2, <1>3 DEF Custody, CustodyState
<1>5. Listed(n)' /\ \A x \in Node \ {n} : Listed(x)' <=> Listed(x)
  BY <1>1, <1>2, <1>3, <1>4 DEF Listed
<1>6. ListedNodes' = ListedNodes \cup {n} /\ n \notin ListedNodes
  BY <1>1, <1>2, <1>5 DEF ListedNodes
<1>7. HeadShape'
  BY StepHeadShape DEF Step
<1>8. n \in ListHeads'
  <2>1. n \in Node /\ n = next_free'[Root]
    BY <1>1, <1>3
  <2>2. QED
    BY <1>7, <2>1, HeadsAreNext
<1>9. ASSUME NEW h \in ListedNodes, h \in ListHeads PROVE h = next_free[Root] \/ h \in ListHeads'
  <2>1. PICK m \in Node : m = h
    BY DEF ListedNodes
  <2>2. m = next_free[Root] \/ \E u \in Thread : Walking(u) /\ head[u] = m
    BY <1>9, <2>1, HeadsAre
  <2>3. ASSUME NEW u \in Thread, Walking(u), head[u] = m PROVE Walking(u)' /\ head'[u] = m
    <3>1. u # t
      BY <1>2, <2>3 DEF Walking, IInv, ThreadShape
    <3>2. QED
      BY <1>3, <2>3, <3>1 DEF Walking
  <2>4. QED
    BY <1>7, <2>1, <2>2, <2>3, HeadsAreNext
<1>10. ASSUME NEW S \in SUBSET (ListedNodes \cup {n}), S # {}
       PROVE  \E x \in S : x \in ListHeads' \/ \E m \in (ListedNodes \cup {n}) \ S : next_free'[m] = x
  <2>1. CASE n \in S
    BY <1>8, <2>1
  <2>2. CASE n \notin S
    <3>1. S \in SUBSET ListedNodes
      BY <2>2
    <3>2. PICK x \in S : x \in ListHeads \/ \E m \in ListedNodes \ S : next_free[m] = x
      BY <1>10, <3>1 DEF ListsReach
    <3>3. CASE x \in ListHeads
      <4>1. x = next_free[Root] \/ x \in ListHeads'
        BY <1>9, <3>1, <3>3
      <4>2. next_free'[n] = next_free[Root]
        BY <1>1, <1>2, <1>3
      <4>3. QED
        BY <2>2, <4>1, <4>2
    <3>4. ASSUME NEW m \in ListedNodes \ S, next_free[m] = x
          PROVE  m \in (ListedNodes \cup {n}) \ S /\ next_free'[m] = x
      BY <1>3, <3>4 DEF ListedNodes
    <3>5. QED
      BY <3>2, <3>3, <3>4
  <2>3. QED
    BY <2>1, <2>2
<1>11. ListsReach'
  BY <1>6, <1>10 DEF ListsReach
<1>12. QED
  BY <1>1, <1>6, <1>11

\* Popping a node makes the next one the head.
LEMMA PopReach ==
  ASSUME IInv, HeadShape, ListsReach, NEW t \in Thread, GCPop(t)
  PROVE  ListsReach' /\ ListedNodes' \subseteq ListedNodes
<1> USE Addresses
<1>1. PICK n \in NonRoot : n = head[t] /\ Listed(n)
  BY DEF GCPop, IInv, LinksSound, Walking, Link, ThreadShape
<1>2. /\ next_free'[n] = NULL /\ \A x \in Node \ {n} : next_free'[x] = next_free[x]
      /\ alloc' = alloc /\ pc[t] = "gc_pop" /\ pc'[t] = "gc_dec" /\ job'[t] = job[t] /\ head'[t] = next_free[n]
      /\ \A u \in Thread \ {t} : pc'[u] = pc[u] /\ node'[u] = node[u] /\ head'[u] = head[u] /\ job'[u] = job[u]
  BY <1>1 DEF GCPop, Goto, IInv, TypeOK
<1>3. \A u \in Thread, x \in Node : Custody(u, x)' <=> Custody(u, x)
  BY <1>2 DEF Custody, CustodyState
<1>4. ListedNodes' = ListedNodes \ {n} /\ n \in ListedNodes
  <2>1. ~ Listed(n)' /\ \A x \in Node \ {n} : Listed(x)' <=> Listed(x)
    BY <1>2, <1>3 DEF Listed
  <2>2. QED
    BY <1>1, <2>1 DEF ListedNodes
<1>5. HeadShape' /\ Walking(t)
  BY <1>2, StepHeadShape DEF Step, Walking, IInv, ThreadShape
<1>6. ASSUME NEW h \in ListedNodes \ {n}, h \in ListHeads \/ h = next_free[n] PROVE h \in ListHeads'
  <2>1. PICK m \in Node : m = h /\ m # n
    BY DEF ListedNodes
  <2>2. Walking(t)' /\ \A u \in Thread \ {t} : Walking(u)' <=> Walking(u)
    BY <1>2, <1>5 DEF Walking
  <2>3. m = next_free'[Root] \/ \E u \in Thread : Walking(u)' /\ head'[u] = m
    <3>1. CASE h = next_free[n]
      BY <1>2, <2>1, <2>2, <3>1
    <3>2. CASE h \in ListHeads
      BY <1>1, <1>2, <2>1, <2>2, <3>2, HeadsAre
    <3>3. QED
      BY <1>6, <3>1, <3>2
  <2>4. QED
    BY <1>5, <2>1, <2>3, HeadsAreNext
<1>7. ASSUME NEW S \in SUBSET (ListedNodes \ {n}), S # {}
      PROVE  \E x \in S : x \in ListHeads' \/ \E m \in (ListedNodes \ {n}) \ S : next_free'[m] = x
  <2>1. PICK x \in S : x \in ListHeads \/ \E m \in ListedNodes \ S : next_free[m] = x
    BY <1>7 DEF ListsReach
  <2>2. CASE x \in ListHeads \/ x = next_free[n]
    BY <1>6, <2>2
  <2>3. ASSUME NEW m \in ListedNodes \ S, next_free[m] = x, m # n PROVE next_free'[m] = x
    BY <1>2, <2>3 DEF ListedNodes
  <2>4. QED
    BY <2>1, <2>2, <2>3
<1>8. ListsReach'
  BY <1>4, <1>7 DEF ListsReach
<1>9. QED
  BY <1>4, <1>8

\* Stealing a list makes the root's head that of the collection.
LEMMA SwapReach ==
  ASSUME IInv, HeadShape, ListsReach, NEW t \in Thread, GCSwap(t)
  PROVE  ListsReach' /\ ListedNodes' = ListedNodes
<1> USE Addresses
<1>1. /\ \A x \in Node \ {Root} : next_free'[x] = next_free[x]
      /\ next_free'[Root] = (IF job[t] = "gc" THEN DANGLING ELSE NULL)
      /\ alloc' = alloc /\ pc[t] = "gc_swap" /\ pc'[t] = "gc_pop" /\ job'[t] = job[t] /\ head'[t] = next_free[Root]
      /\ \A u \in Thread \ {t} : pc'[u] = pc[u] /\ node'[u] = node[u] /\ head'[u] = head[u] /\ job'[u] = job[u]
  BY DEF GCSwap, StealList, Goto, IInv, TypeOK
<1>2. \A u \in Thread, x \in Node : Custody(u, x)' <=> Custody(u, x)
  BY <1>1 DEF Custody, CustodyState
<1>3. ListedNodes' = ListedNodes
  <2>1. \A x \in NonRoot : Listed(x)' <=> Listed(x)
    BY <1>1, <1>2 DEF Listed
  <2>2. QED
    BY <2>1 DEF ListedNodes
<1>4. HeadShape' /\ Walking(t)' /\ ~ Walking(t)
  BY <1>1, StepHeadShape DEF Step, Walking, IInv, ThreadShape
<1>5. ASSUME NEW h \in ListedNodes, h \in ListHeads PROVE h \in ListHeads'
  <2>1. PICK m \in Node : m = h
    BY DEF ListedNodes
  <2>2. \A u \in Thread \ {t} : Walking(u)' <=> Walking(u)
    BY <1>1 DEF Walking
  <2>3. \E u \in Thread : Walking(u)' /\ head'[u] = m
    BY <1>1, <1>4, <1>5, <2>1, <2>2, HeadsAre
  <2>4. QED
    BY <1>4, <2>1, <2>3, HeadsAreNext
<1>6. ASSUME NEW S \in SUBSET ListedNodes, S # {}
      PROVE  \E x \in S : x \in ListHeads' \/ \E m \in ListedNodes \ S : next_free'[m] = x
  <2>1. PICK x \in S : x \in ListHeads \/ \E m \in ListedNodes \ S : next_free[m] = x
    BY <1>6 DEF ListsReach
  <2>2. \A m \in ListedNodes : next_free'[m] = next_free[m]
    BY <1>1 DEF ListedNodes
  <2>3. QED
    BY <1>5, <2>1, <2>2
<1>7. QED
  BY <1>3, <1>6 DEF ListsReach

-----------------------------------------------------------------------------
(* Dead nodes, and the contract of gc().                                   *)

\* The one who takes a count to zero answers for the node, and stops only by giving it a count or freeing it.
LEMMA StepDead ==
  ASSUME IInv, IInv', DeadAreAnswered, NEW t \in Thread, Call(t) \/ Step(t)
  PROVE  DeadAreAnswered'
<1> USE Addresses
<1>1. \A u \in Thread \ {t} : pc'[u] = pc[u] /\ node'[u] = node[u]
  BY OthersKeepStill DEF IInv
<1>2. SUFFICES ASSUME NEW n \in Node, n \in alloc', refcount'[n] = 0
               PROVE  \E u \in Thread : node'[u] = n /\ pc'[u] = IF n = Root THEN "free_root" ELSE "pretend"
  BY DEF DeadAreAnswered, IInv, TypeOK
<1> DEFINE Answers == node'[t] = n /\ pc'[t] = IF n = Root THEN "free_root" ELSE "pretend"
<1>3. ASSUME n \in alloc, refcount[n] = 0, pc[t] \notin {"pretend", "free_root"}
      PROVE  \E u \in Thread : node'[u] = n /\ pc'[u] = IF n = Root THEN "free_root" ELSE "pretend"
  <2>1. PICK u \in Thread : node[u] = n /\ pc[u] = IF n = Root THEN "free_root" ELSE "pretend"
    BY <1>3 DEF DeadAreAnswered
  <2>2. u # t
    BY <1>3, <2>1
  <2>3. QED
    BY <1>1, <2>1, <2>2
<1>4. ASSUME n \in alloc, refcount[n] # 0, UNCHANGED refcount PROVE FALSE
  BY <1>2, <1>4
<1>5. CASE PretendIncrement(t)
  <2>1. /\ alloc' = alloc /\ node[t] \in Node /\ node[t] # n /\ refcount[n] = 0
        /\ pc[t] = "pretend" /\ refcount[node[t]] \in Nat
    BY <1>2, <1>5 DEF PretendIncrement, AddRef, IInv, TypeOK, ThreadShape, CustodyState
  <2>2. PICK u \in Thread : node[u] = n /\ pc[u] = IF n = Root THEN "free_root" ELSE "pretend"
    BY <1>2, <2>1 DEF DeadAreAnswered
  <2>3. QED
    BY <1>1, <2>1, <2>2
<1>6. CASE FreeRoot(t)
  <2>1. n # Root /\ n \in alloc /\ refcount[n] = 0 /\ pc[t] = "free_root" /\ node[t] = Root
    BY <1>2, <1>6 DEF FreeRoot, IInv, ThreadShape
  <2>2. PICK u \in Thread : node[u] = n /\ pc[u] = "pretend"
    BY <2>1 DEF DeadAreAnswered
  <2>3. QED
    BY <1>1, <2>1, <2>2
<1>7. CASE \/ PretendStore(t) \/ PushCount(t) \/ PushLoad(t) \/ PushStore(t) \/ PushExchange(t)
           \/ PushExchangeFails(t) \/ UnlinkLock(t) \/ Unlock(t) \/ GCSwap(t) \/ GCPop(t) \/ GCEnd(t)
           \/ UpgradeSpin(t) \/ MaybeGC(t) \/ DropTree(t)
  <2>1. alloc' = alloc /\ refcount' = refcount /\ pc[t] \notin {"pretend", "free_root"}
    BY <1>7 DEF PretendStore, PushCount, PushLoad, PushStore, PushExchange, PushExchangeFails, UnlinkLock, Unlock,
                GCSwap, StealList, GCPop, GCEnd, UpgradeSpin, MaybeGC, DropTree, CanCall, heap
  <2>2. QED
    BY <1>2, <1>3, <2>1
<1>8. CASE UnlinkResurrected(t)
  <2>1. pc[t] \in HoldingState /\ node[t] \in Node /\ alloc' = alloc /\ pc[t] = "unlink_dec"
    BY <1>8 DEF UnlinkResurrected, HoldingState, IInv, TypeOK, ThreadShape, CustodyState
  <2>2. refcount[node[t]] > 0 /\ refcount[node[t]] # 1 /\ refcount[node[t]] \in Nat
    BY <1>8, <2>1, Counted DEF UnlinkResurrected, IInv
  <2>3. refcount[n] = 0
    BY <1>2, <1>8, <2>1, <2>2 DEF UnlinkResurrected, SubRef, IInv, TypeOK
  <2>4. QED
    BY <1>2, <1>3, <2>1, <2>3
<1>9. CASE UnlinkRemove(t)
  <2>1. n \in alloc /\ refcount[n] = 0 /\ pc[t] = "unlink_dec"
    BY <1>2, <1>9 DEF UnlinkRemove, FreeUnlinked, SubRef, IInv, TypeOK
  <2>2. QED
    BY <1>3, <2>1
<1>10. CASE DropParentRef(t) \/ GCRelease(t)
  <2>1. /\ alloc' = alloc /\ pc[t] \notin {"pretend", "free_root"} /\ node[t] \in Node
        /\ refcount' = [refcount EXCEPT ![node[t]] = @ - 1]
    BY <1>10 DEF DropParentRef, GCRelease, SubRef, IInv, ThreadShape
  <2>2. CASE n = node[t]
    <3>1. refcount[node[t]] = 1
      BY <1>2, <2>1, <2>2 DEF IInv, TypeOK
    <3>2. Answers
      BY <1>10, <2>2, <3>1 DEF DropParentRef, GCRelease, OnZero, Goto, IInv, TypeOK
    <3>3. QED
      BY <3>2
  <2>3. CASE n # node[t]
    BY <1>2, <1>3, <2>1, <2>3 DEF IInv, TypeOK
  <2>4. QED
    BY <2>2, <2>3
<1>11. CASE DropRootField(t)
  <2>1. /\ alloc' = alloc /\ pc[t] \notin {"pretend", "free_root"}
        /\ refcount' = [refcount EXCEPT ![Root] = @ - 1]
    BY <1>11 DEF DropRootField, SubRef
  <2>2. CASE n = Root
    <3>1. refcount[Root] = 1
      BY <1>2, <2>1, <2>2 DEF IInv, TypeOK
    <3>2. Answers
      BY <1>11, <2>2, <3>1 DEF DropRootField, OnZero, Goto, IInv, TypeOK
    <3>3. QED
      BY <3>2
  <2>3. CASE n # Root
    BY <1>2, <1>3, <2>1, <2>3 DEF IInv, TypeOK
  <2>4. QED
    BY <2>2, <2>3
<1>12. ASSUME NEW m \in Node, StrongDrop(t, m)
       PROVE  \E u \in Thread : node'[u] = n /\ pc'[u] = IF n = Root THEN "free_root" ELSE "pretend"
  <2>1. /\ alloc' = alloc /\ pc[t] \notin {"pretend", "free_root"}
        /\ refcount' = [refcount EXCEPT ![m] = @ - 1]
    BY <1>12 DEF StrongDrop, SubRef, CanCall
  <2>2. CASE n = m
    <3>1. refcount[m] = 1
      BY <1>2, <2>1, <2>2 DEF IInv, TypeOK
    <3>2. Answers
      BY <1>12, <2>2, <3>1 DEF StrongDrop, OnZero, Goto, IInv, TypeOK
    <3>3. QED
      BY <3>2
  <2>3. CASE n # m
    BY <1>2, <1>3, <2>1, <2>3 DEF IInv, TypeOK
  <2>4. QED
    BY <2>2, <2>3
<1>13. ASSUME NEW m \in Node, Clone(t, m)
       PROVE  \E u \in Thread : node'[u] = n /\ pc'[u] = IF n = Root THEN "free_root" ELSE "pretend"
  <2>1. alloc' = alloc /\ refcount[n] = 0 /\ pc[t] = "idle"
    BY <1>2, <1>13 DEF Clone, AddRef, CanCall, IInv, TypeOK
  <2>2. QED
    BY <1>2, <1>3, <2>1
<1>14. CASE EnsureOccupied(t) \/ (\E p \in Node, k \in Key : EnsureRead(t, p, k))
  <2>1. alloc' = alloc /\ refcount[n] = 0 /\ pc[t] \notin {"pretend", "free_root"}
    BY <1>2, <1>14 DEF EnsureOccupied, EnsureRead, Upgrade, AddRef, CanCall, IInv, TypeOK
  <2>2. QED
    BY <1>2, <1>3, <2>1
<1>15. ASSUME NEW m \in NonRoot, EnsureVacant(t, m)
       PROVE  \E u \in Thread : node'[u] = n /\ pc'[u] = IF n = Root THEN "free_root" ELSE "pretend"
  <2>1. n # m /\ n \in alloc /\ refcount[n] = 0 /\ pc[t] = "ensure_write"
    BY <1>2, <1>15 DEF EnsureVacant, Insert, IInv, TypeOK, ThreadShape, EnsureState
  <2>2. QED
    BY <1>3, <2>1
<1>16. QED
  BY <1>5, <1>6, <1>7, <1>8, <1>9, <1>10, <1>11, <1>12, <1>13, <1>14, <1>15 DEF Call, Step

\* While a thread collects, no other one gets into the tree.
LEMMA StepGCAlone ==
  ASSUME IInv, GCAlone, NEW t \in Thread, Call(t) \/ Step(t)
  PROVE  GCAlone'
<1>1. \A u \in Thread \ {t} : pc'[u] = pc[u] /\ job'[u] = job[u]
  BY OthersKeepStill DEF IInv
<1>2. ASSUME ExclusiveGC, NEW u \in Thread \ {t}, job[u] = "gc" PROVE FALSE
  <2>1. pc[t] = "idle"
    BY <1>2 DEF GCAlone
  <2>2. ~ Step(t)
    BY <2>1 DEF Step, PretendIncrement, PretendStore, PushCount, PushLoad, PushStore, PushExchange,
       PushExchangeFails, UnlinkLock, UnlinkResurrected, Unlock, UnlinkRemove, DropParentRef, FreeRoot, GCSwap,
       StealList, GCPop, GCRelease, GCEnd, DropRootField, EnsureOccupied, EnsureVacant, UpgradeSpin
  <2>3. ~ CanCall(t)
    BY <1>2 DEF CanCall
  <2>4. QED
    BY <2>2, <2>3 DEF Call, Clone, StrongDrop, EnsureRead, MaybeGC, DropTree
<1>3. ASSUME ExclusiveGC, job'[t] = "gc", NEW v \in Thread \ {t} PROVE pc'[v] = "idle"
  <2>1. CASE job[t] = "gc"
    BY <1>1, <1>3, <2>1 DEF GCAlone
  <2>2. CASE MaybeGC(t)
    BY <1>1, <1>3, <2>2 DEF MaybeGC
  <2>3. CASE job[t] # "gc" /\ ~ MaybeGC(t)
    <3> USE DEF TypeOK, IInv, locals, Goto, Advance, OnZero, Return
    <3>1. ~ Step(t)
      <4>1. CASE \/ PretendIncrement(t) \/ PretendStore(t) \/ PushCount(t) \/ PushLoad(t) \/ PushStore(t)
                 \/ PushExchange(t) \/ PushExchangeFails(t) \/ UnlinkLock(t) \/ UnlinkResurrected(t)
                 \/ Unlock(t) \/ UnlinkRemove(t)
        BY <1>3, <2>3, <4>1 DEF PretendIncrement, PretendStore, PushCount, PushLoad, PushStore, PushExchange,
           PushExchangeFails, UnlinkLock, UnlinkResurrected, Unlock, UnlinkRemove, FreeUnlinked
      <4>2. CASE \/ DropParentRef(t) \/ FreeRoot(t) \/ GCSwap(t) \/ GCPop(t) \/ GCRelease(t)
                 \/ GCEnd(t) \/ DropRootField(t) \/ UpgradeSpin(t)
        BY <1>3, <2>3, <4>2 DEF DropParentRef, FreeRoot, GCSwap, StealList, GCPop, GCRelease, GCEnd,
           DropRootField, UpgradeSpin
      <4>3. CASE EnsureOccupied(t) \/ \E n \in NonRoot : EnsureVacant(t, n)
        BY <1>3, <2>3, <4>3 DEF EnsureOccupied, Upgrade, EnsureVacant, Insert
      <4>4. QED
        BY <4>1, <4>2, <4>3 DEF Step
    <3>2. ~ Call(t)
      BY <1>3, <2>3 DEF Call, Clone, StrongDrop, EnsureRead, Upgrade, DropTree
    <3>3. QED
      BY <3>1, <3>2
  <2>4. QED
    BY <2>1, <2>2, <2>3
<1>4. QED
  BY <1>1, <1>2, <1>3 DEF GCAlone

\* A waiting thread keeps the parent locked and the collector out, so that the node stays linked or answered for.
LEMMA StepSpinner ==
  ASSUME IInv, DeadAreAnswered, GCAlone, SpinnerIsAwaited, NEW t \in Thread, Call(t) \/ Step(t)
  PROVE  SpinnerIsAwaited'
<1> USE Addresses
<1>1. \A u \in Thread \ {t} : pc'[u] = pc[u] /\ node'[u] = node[u] /\ head'[u] = head[u] /\ job'[u] = job[u]
  BY OthersKeepStill DEF IInv
<1>2. SUFFICES ASSUME ExclusiveGC, NEW w \in Thread, pc'[w] \in SpinState
               PROVE  next_free'[node'[w]] # NULL \/ \E v \in Thread :
                        pc'[v] \in {"pretend", "pretend_store"} /\ node'[v] = node'[w]
  BY DEF SpinnerIsAwaited, SpinState
<1>3. CASE w = t
  <2>1. /\ EnsureOccupied(t) \/ \E p \in Node, k \in Key : EnsureRead(t, p, k)
        /\ pc[t] \in {"idle", "ensure_write"}
    <3> USE DEF TypeOK, IInv, locals, Goto, Advance, OnZero, Return, SpinState
    <3>1. CASE \/ PretendIncrement(t) \/ PretendStore(t) \/ PushCount(t) \/ PushLoad(t) \/ PushStore(t)
               \/ PushExchange(t) \/ PushExchangeFails(t) \/ UnlinkLock(t) \/ UnlinkResurrected(t)
               \/ Unlock(t) \/ UnlinkRemove(t)
      BY <1>2, <1>3, <3>1 DEF PretendIncrement, PretendStore, PushCount, PushLoad, PushStore, PushExchange,
         PushExchangeFails, PushLoop, UnlinkLock, UnlinkResurrected, Unlock, UnlinkRemove, FreeUnlinked,
         ThreadShape
    <3>2. CASE \/ DropParentRef(t) \/ FreeRoot(t) \/ GCSwap(t) \/ GCPop(t) \/ GCRelease(t)
               \/ GCEnd(t) \/ DropRootField(t) \/ UpgradeSpin(t)
      BY <1>2, <1>3, <3>2 DEF DropParentRef, FreeRoot, GCSwap, StealList, GCPop, GCRelease, GCEnd,
         DropRootField, UpgradeSpin
    <3>3. CASE \E n \in NonRoot : EnsureVacant(t, n)
      BY <1>2, <1>3, <3>3 DEF EnsureVacant, Insert
    <3>4. CASE MaybeGC(t) \/ DropTree(t) \/ \E n \in Node : Clone(t, n) \/ StrongDrop(t, n)
      BY <1>2, <1>3, <3>4 DEF MaybeGC, DropTree, Clone, StrongDrop, CanCall
    <3>5. EnsureOccupied(t) => pc[t] = "ensure_write"
      BY DEF EnsureOccupied
    <3>6. \A p \in Node, k \in Key : EnsureRead(t, p, k) => pc[t] = "idle"
      BY DEF EnsureRead, CanCall
    <3>7. QED
      BY <3>1, <3>2, <3>3, <3>4, <3>5, <3>6 DEF Call, Step
  <2>2. PICK p \in Node, k \in Key : /\ children[p][k] # NULL /\ node'[t] = children[p][k]
                                     /\ refcount[children[p][k]] = 0
    <3>1. ASSUME NEW p \in Node, NEW k \in Key, EnsureRead(t, p, k)
          PROVE  children[p][k] # NULL /\ node'[t] = children[p][k] /\ refcount[children[p][k]] = 0
      BY <1>2, <1>3, <3>1 DEF EnsureRead, Upgrade, Goto, IInv, TypeOK, SpinState
    <3>2. ASSUME EnsureOccupied(t)
          PROVE  /\ base[t] \in Node /\ want[t] \in Key /\ children[base[t]][want[t]] # NULL
                 /\ node'[t] = children[base[t]][want[t]] /\ refcount[children[base[t]][want[t]]] = 0
      BY <1>2, <1>3, <3>2 DEF EnsureOccupied, Upgrade, Goto, IInv, TypeOK, ThreadShape, EnsureState, SpinState
    <3>3. QED
      BY <2>1, <3>1, <3>2
  <2>3. PICK c \in NonRoot : c = children[p][k]
    BY <2>2 DEF IInv, TypeOK
  <2>4. c \in alloc /\ refcount[c] = 0
    BY <2>2, <2>3 DEF IInv, HeapShape
  <2>5. PICK v \in Thread : node[v] = c /\ pc[v] = "pretend"
    BY <2>3, <2>4 DEF DeadAreAnswered
  <2>6. v # t
    BY <2>1, <2>5
  <2>7. QED
    BY <1>1, <1>3, <2>2, <2>3, <2>5, <2>6
<1>4. CASE w # t
  <2>1. PICK c \in NonRoot : /\ c = node[w] /\ c = node'[w] /\ pc[w] \in SpinState
                             /\ job[w] = "ensure" /\ tree = "alive" /\ base[w] = parent[c]
    BY <1>1, <1>2, <1>4 DEF IInv, ThreadShape, EnsureState, SpinState
  <2>2. refcount[c] > 0 /\ c \in alloc
    <3>1. c \in Node /\ pc[w] \in HoldingState /\ node[w] = c
      BY <2>1 DEF SpinState, HoldingState
    <3>2. refcount[c] > 0
      BY <3>1, Counted DEF IInv
    <3>3. QED
      BY <3>1, <3>2, Alive DEF IInv
  <2>3. next_free[c] # NULL \/ \E v \in Thread : pc[v] \in {"pretend", "pretend_store"} /\ node[v] = c
    BY <1>2, <2>1 DEF SpinnerIsAwaited, SpinState
  <2>4. ASSUME next_free[c] # NULL PROVE next_free'[c] # NULL
    <3>1. CASE UnlinkLock(t)
      <4>1. node[t] # c
        BY <2>1, <3>1 DEF UnlinkLock, WriteHeld, ReadHeld, SpinState
      <4>2. QED
        BY <2>4, <3>1, <4>1 DEF UnlinkLock, IInv, TypeOK
    <3>2. CASE GCPop(t)
      <4>1. job[t] # "gc"
        BY <1>2, <1>4, <2>1 DEF GCAlone, SpinState
      <4>2. job[t] # "droptree"
        BY <2>1 DEF IInv, ThreadShape, Dropping
      <4>3. QED
        BY <3>2, <4>1, <4>2 DEF GCPop, IInv, ThreadShape
    <3>3. CASE PretendStore(t) \/ PushStore(t)
      BY <2>4, <3>3 DEF PretendStore, PushStore, IInv, TypeOK, NextFreeShape
    <3>4. CASE PushExchange(t) \/ GCSwap(t)
      BY <2>4, <3>4 DEF PushExchange, GCSwap, StealList, IInv, TypeOK
    <3>5. CASE \E n \in NonRoot : EnsureVacant(t, n)
      BY <2>2, <2>4, <3>5 DEF EnsureVacant, Insert, IInv, TypeOK
    <3>6. CASE next_free' = next_free
      BY <2>4, <3>6
    <3>7. QED
      BY <3>1, <3>2, <3>3, <3>4, <3>5, <3>6
         DEF Call, Step, Clone, StrongDrop, EnsureRead, MaybeGC, DropTree, PretendIncrement, PushCount, PushLoad,
             PushExchangeFails, UnlinkResurrected, Unlock, UnlinkRemove, FreeUnlinked, DropParentRef, FreeRoot,
             GCRelease, GCEnd, DropRootField, EnsureOccupied, UpgradeSpin, heap
  <2>5. ASSUME NEW v \in Thread, pc[v] \in {"pretend", "pretend_store"}, node[v] = c
        PROVE  next_free'[c] # NULL \/ (pc'[v] \in {"pretend", "pretend_store"} /\ node'[v] = c)
    <3>1. CASE v # t
      BY <1>1, <2>5, <3>1
    <3>2. CASE v = t
      <4>1. PretendIncrement(t) \/ PretendStore(t)
        BY <2>5, <3>2 DEF Call, Step, Clone, StrongDrop, EnsureRead, MaybeGC, DropTree, CanCall, PretendIncrement,
           PretendStore, PushCount, PushLoad, PushStore, PushExchange, PushExchangeFails, UnlinkLock,
           UnlinkResurrected, Unlock, UnlinkRemove, DropParentRef, FreeRoot, GCSwap, StealList, GCPop, GCRelease,
           GCEnd, DropRootField, EnsureOccupied, EnsureVacant, UpgradeSpin
      <4>2. QED
        BY <2>5, <3>2, <4>1 DEF PretendIncrement, PretendStore, Advance, Goto, IInv, TypeOK
    <3>3. QED
      BY <3>1, <3>2
  <2>6. QED
    BY <2>1, <2>3, <2>4, <2>5
<1>5. QED
  BY <1>3, <1>4

-----------------------------------------------------------------------------
(* The counter.                                                            *)

Pushers == {t \in Thread : pc[t] \in PushState}

\* What is counted is finite.
LEMMA FiniteCounted ==
  IsFiniteSet(ListedNodes) /\ IsFiniteSet(Pushers)
<1>1. ListedNodes \in SUBSET NonRoot /\ Pushers \in SUBSET Thread
  BY DEF ListedNodes, Pushers
<1>2. QED
  BY <1>1, RuleTreeAssumption, FS_Subset

\* With no head there is no list.
LEMMA NoHeadNoList ==
  ASSUME HeadShape, ListsReach, next_free[Root] \notin NonRoot,
         \A u \in Thread : Walking(u) => head[u] \notin NonRoot
  PROVE  ListedNodes = {}
<1>1. \A n \in ListedNodes : n \notin ListHeads
  BY HeadsAre DEF ListedNodes
<1>2. ListedNodes \in SUBSET ListedNodes
  OBVIOUS
<1>3. QED
  BY <1>1, <1>2 DEF ListsReach

\* Who becomes a pusher, and who stops collecting.
LEMMA PushersStep ==
  ASSUME IInv, NEW t \in Thread, Call(t) \/ Step(t)
  PROVE  /\ pc'[t] \in PushState => pc[t] \in PushState \/ PushCount(t)
         /\ job[t] = "gc" => job'[t] = "gc" \/ GCEnd(t)
         /\ job'[t] = "gc" => job[t] = "gc" \/ MaybeGC(t)
<1> USE DEF TypeOK, IInv, locals, Goto, Advance, OnZero, Return, ThreadShape, PushState
<1>1. CASE \/ PretendIncrement(t) \/ PretendStore(t) \/ PushCount(t) \/ PushLoad(t) \/ PushStore(t)
           \/ PushExchange(t) \/ PushExchangeFails(t)
  BY <1>1 DEF PretendIncrement, PretendStore, PushCount, PushLoad, PushStore, PushExchange,
     PushExchangeFails, PushLoop, CustodyState
<1>2. CASE UnlinkLock(t) \/ UnlinkResurrected(t) \/ Unlock(t) \/ UnlinkRemove(t)
  BY <1>2 DEF UnlinkLock, UnlinkResurrected, Unlock, UnlinkRemove, FreeUnlinked
<1>3. CASE \/ DropParentRef(t) \/ FreeRoot(t) \/ GCSwap(t) \/ GCPop(t) \/ GCRelease(t) \/ GCEnd(t)
           \/ DropRootField(t)
  BY <1>3 DEF DropParentRef, FreeRoot, GCSwap, StealList, GCPop, GCRelease, GCEnd, DropRootField
<1>4. CASE UpgradeSpin(t) \/ EnsureOccupied(t) \/ \E n \in NonRoot : EnsureVacant(t, n)
  BY <1>4 DEF UpgradeSpin, EnsureOccupied, Upgrade, EnsureVacant, Insert, EnsureState
<1>5. CASE Call(t)
  <2>1. pc[t] = "idle" /\ job[t] = "none"
    BY <1>5 DEF Call, Clone, StrongDrop, EnsureRead, MaybeGC, DropTree, CanCall
  <2>2. pc'[t] \notin PushState
    BY <1>5, <2>1 DEF Call, Clone, StrongDrop, EnsureRead, Upgrade, MaybeGC, DropTree
  <2>3. MaybeGC(t) \/ job'[t] # "gc"
    BY <1>5, <2>1 DEF Call, Clone, StrongDrop, EnsureRead, Upgrade, DropTree
  <2>4. QED
    BY <2>1, <2>2, <2>3
<1>6. QED
  BY <1>1, <1>2, <1>3, <1>4, <1>5 DEF Step

\* Only a push and a theft change the root's link.
LEMMA RootLinkStep ==
  ASSUME IInv, NEW t \in Thread, Call(t) \/ Step(t), ~ PushExchange(t), ~ GCSwap(t)
  PROVE  next_free'[Root] = next_free[Root]
<1> USE Addresses DEF IInv, TypeOK
<1>1. CASE GCPop(t)
  <2>1. Walking(t) /\ head[t] # DANGLING
    BY <1>1 DEF GCPop, ThreadShape, Walking
  <2>2. Link(head[t])
    BY <2>1 DEF LinksSound
  <2>3. head[t] # Root
    BY ONLY <2>1, <2>2, Addresses DEF Link
  <2>4. QED
    BY <1>1, <2>3 DEF GCPop
<1>2. CASE PretendStore(t) \/ PushStore(t) \/ UnlinkLock(t)
  <2>1. node[t] # Root
    BY <1>2 DEF PretendStore, PushStore, UnlinkLock, ThreadShape, CustodyState
  <2>2. QED
    BY <1>2, <2>1 DEF PretendStore, PushStore, UnlinkLock
<1>3. CASE \E n \in NonRoot : EnsureVacant(t, n)
  BY <1>3 DEF EnsureVacant, Insert
<1>4. CASE UNCHANGED next_free
  BY <1>4
<1>5. QED
  BY <1>1, <1>2, <1>3, <1>4
     DEF Call, Step, Clone, StrongDrop, EnsureRead, MaybeGC, DropTree, PretendIncrement, PushCount, PushLoad,
         PushExchangeFails, UnlinkResurrected, Unlock, UnlinkRemove, FreeUnlinked, DropParentRef, FreeRoot,
         GCRelease, GCEnd, DropRootField, EnsureOccupied, UpgradeSpin, heap

\* What happens to the counter.
LEMMA CounterStep ==
  ASSUME NEW t \in Thread, Call(t) \/ Step(t), ~ PushCount(t), ~ MaybeGC(t), ~ DropTree(t)
  PROVE  approximate_free_count' = approximate_free_count
  BY DEF Call, Step, Clone, StrongDrop, EnsureRead, PretendIncrement, PretendStore, PushLoad, PushStore, PushExchange,
         PushExchangeFails, UnlinkLock, UnlinkResurrected, Unlock, UnlinkRemove, FreeUnlinked, DropParentRef, FreeRoot,
         GCSwap, StealList, GCPop, GCRelease, GCEnd, DropRootField, EnsureOccupied, EnsureVacant, Insert,
         UpgradeSpin, world

\* Once closed, the tree is not opened again.
LEMMA AliveStep ==
  ASSUME NEW t \in Thread, Call(t) \/ Step(t), tree' = "alive"
  PROVE  tree = "alive" /\ ~ DropTree(t)
  BY DEF Call, Step, Clone, StrongDrop, EnsureRead, PretendIncrement, PretendStore, PushCount, PushLoad, PushStore,
         PushExchange, PushExchangeFails, UnlinkLock, UnlinkResurrected, Unlock, UnlinkRemove, FreeUnlinked,
         DropParentRef, FreeRoot, MaybeGC, DropTree,
         GCSwap, StealList, GCPop, GCRelease, GCEnd, DropRootField, EnsureOccupied, EnsureVacant, Insert,
         UpgradeSpin, world

\* Which steps are quiet.
LEMMA Quiet ==
  ASSUME IInv, NEW t \in Thread, Call(t) \/ Step(t), ~ PushExchange(t), ~ GCPop(t), ~ GCSwap(t)
  PROVE  QuietStep
  BY QuietPretending, QuietUnlinking, QuietReleasing, QuietCalls DEF Call, Step

\* A step lists a node only by pushing it.
LEMMA ListedStep ==
  ASSUME IInv, HeadShape, ListsReach, NEW t \in Thread, Call(t) \/ Step(t), ~ PushExchange(t)
  PROVE  ListedNodes' \subseteq ListedNodes
<1>1. CASE GCPop(t) \/ GCSwap(t)
  BY <1>1, PopReach, SwapReach
<1>2. CASE ~ GCPop(t) /\ ~ GCSwap(t)
  BY <1>2, Quiet DEF QuietStep, ListedNodes, Node
<1>3. QED
  BY <1>1, <1>2

\* The lists keep their shape.
LEMMA StepReach ==
  ASSUME IInv, HeadShape, ListsReach, NEW t \in Thread, Call(t) \/ Step(t)
  PROVE  ListsReach'
<1>1. CASE PushExchange(t) \/ GCPop(t) \/ GCSwap(t)
  BY <1>1, PushReach, PopReach, SwapReach
<1>2. CASE ~ (PushExchange(t) \/ GCPop(t) \/ GCSwap(t))
  BY <1>2, Quiet, QuietReach, StepHeadShape
<1>3. QED
  BY <1>1, <1>2

\* While a collection runs, nobody else moves, and the root's list is empty.
LEMMA StepCollected ==
  ASSUME IInv, IInv', GCAlone, GCAlone', CounterCoversListed, NEW t \in Thread, Call(t) \/ Step(t),
         ExclusiveGC, tree' = "alive", NEW u \in Thread, Walking(u)'
  PROVE  next_free'[Root] = DANGLING
<1>1. tree = "alive" /\ job'[u] = "gc"
  BY AliveStep DEF IInv, ThreadShape, Walking, Dropping
<1>2. u = t
  <2>1. ASSUME u # t PROVE FALSE
    <3>1. job[u] = "gc" /\ pc[t] = "idle"
      BY <1>1, <2>1, OthersKeepStill DEF GCAlone, IInv
    <3>2. ~ CanCall(t)
      BY <3>1 DEF CanCall
    <3>3. ~ Step(t)
      BY <3>1 DEF Step, PretendIncrement, PretendStore, PushCount, PushLoad, PushStore, PushExchange,
         PushExchangeFails, UnlinkLock, UnlinkResurrected, Unlock, UnlinkRemove, DropParentRef, FreeRoot, GCSwap,
         StealList, GCPop, GCRelease, GCEnd, DropRootField, EnsureOccupied, EnsureVacant, UpgradeSpin
    <3>4. QED
      BY <3>2, <3>3 DEF Call, Clone, StrongDrop, EnsureRead, MaybeGC, DropTree
  <2>2. QED
    BY <2>1
<1>3. CASE GCSwap(t)
  <2>1. job[t] = "gc"
    BY <1>1, <1>2, <1>3 DEF GCSwap, StealList
  <2>2. QED
    BY <1>3, <2>1, Addresses DEF GCSwap, StealList, IInv, TypeOK
<1>4. CASE ~ GCSwap(t)
  <2>1. ~ MaybeGC(t)
    BY <1>2 DEF MaybeGC, Walking, Goto, IInv, TypeOK
  <2>2. job[t] = "gc"
    BY <1>1, <1>2, <2>1, PushersStep
  <2>3. pc[t] # "gc_swap"
    <3>1. ASSUME pc[t] = "gc_swap" PROVE FALSE
      <4>1. ~ Step(t)
        BY <1>4, <3>1 DEF Step, PretendIncrement, PretendStore, PushCount, PushLoad, PushStore, PushExchange,
         PushExchangeFails, UnlinkLock, UnlinkResurrected, Unlock, UnlinkRemove, DropParentRef, FreeRoot,
         GCPop, GCRelease, GCEnd, DropRootField, EnsureOccupied, EnsureVacant, UpgradeSpin
      <4>2. QED
        BY <3>1, <4>1 DEF Call, Clone, StrongDrop, EnsureRead, MaybeGC, DropTree, CanCall
    <3>2. QED
      BY <3>1
  <2>4. next_free[Root] = DANGLING
    BY <1>1, <2>2, <2>3 DEF CounterCoversListed, Walking
  <2>5. ~ PushExchange(t)
    BY <2>2 DEF PushExchange, IInv, ThreadShape
  <2>6. QED
    BY <1>4, <2>4, <2>5, RootLinkStep
<1>5. QED
  BY <1>3, <1>4

\* The counter keeps up with what is listed and pushed.
LEMMA StepCounter ==
  ASSUME IInv, IInv', HeadShape, ListsReach, GCAlone, GCAlone', CounterCoversListed,
         NEW t \in Thread, Call(t) \/ Step(t)
  PROVE  CounterCoversListed'
<1>1. SUFFICES ASSUME ExclusiveGC, tree' = "alive", \A u \in Thread : job'[u] # "gc"
               PROVE  approximate_free_count' >= Cardinality(ListedNodes') + Cardinality(Pushers')
  BY StepCollected DEF CounterCoversListed, Pushers
<1>2. tree = "alive" /\ ~ DropTree(t)
  BY <1>1, AliveStep
<1>3. ~ MaybeGC(t)
  BY <1>1 DEF MaybeGC, IInv, TypeOK
<1>4. \A u \in Thread \ {t} : pc'[u] = pc[u] /\ job'[u] = job[u]
  BY OthersKeepStill DEF IInv
<1>5. /\ IsFiniteSet(ListedNodes) /\ Cardinality(ListedNodes) \in Nat
      /\ IsFiniteSet(Pushers) /\ Cardinality(Pushers) \in Nat
      /\ IsFiniteSet(ListedNodes') /\ Cardinality(ListedNodes') \in Nat
      /\ IsFiniteSet(Pushers') /\ Cardinality(Pushers') \in Nat
  <2>1. ListedNodes' \in SUBSET NonRoot /\ Pushers' \in SUBSET Thread
    BY DEF ListedNodes, Pushers
  <2>2. QED
    BY <2>1, RuleTreeAssumption, FS_Subset, FiniteCounted, FS_CardinalityType
<1>6. approximate_free_count \in Nat
  BY DEF IInv, TypeOK
<1>7. ASSUME \A u \in Thread : job[u] # "gc"
      PROVE  approximate_free_count >= Cardinality(ListedNodes) + Cardinality(Pushers)
  BY <1>1, <1>2, <1>7 DEF CounterCoversListed, Pushers
<1>8. CASE PushCount(t)
  <2>1. Pushers' = Pushers \cup {t} /\ t \notin Pushers
    BY <1>4, <1>8 DEF Pushers, PushState, PushCount, Advance, Goto, IInv, TypeOK
  <2>2. Cardinality(Pushers') = Cardinality(Pushers) + 1
    BY <1>5, <2>1, FS_AddElement
  <2>3. ListedNodes' \subseteq ListedNodes
    BY <1>8, ListedStep DEF PushCount, PushExchange
  <2>4. Cardinality(ListedNodes') <= Cardinality(ListedNodes)
    BY <1>5, <2>3, FS_Subset
  <2>5. approximate_free_count' = approximate_free_count + 1 /\ job' = job
    BY <1>8 DEF PushCount, Advance
  <2>6. QED
    BY <1>1, <1>5, <1>6, <1>7, <2>2, <2>4, <2>5
<1>9. CASE PushExchange(t)
  <2>1. Pushers' = Pushers \ {t} /\ t \in Pushers
    BY <1>4, <1>9 DEF Pushers, PushState, PushExchange, Goto, IInv, TypeOK
  <2>2. Cardinality(Pushers') = Cardinality(Pushers) - 1
    BY <1>5, <2>1, FS_RemoveElement
  <2>3. PICK n \in NonRoot \ ListedNodes : ListedNodes' = ListedNodes \cup {n}
    BY <1>9, PushReach
  <2>4. Cardinality(ListedNodes') = Cardinality(ListedNodes) + 1
    BY <1>5, <2>3, FS_AddElement
  <2>5. approximate_free_count' = approximate_free_count
    BY <1>9 DEF PushExchange, world
  <2>6. job[t] # "gc"
    BY <1>9 DEF PushExchange, IInv, ThreadShape
  <2>7. QED
    BY <1>1, <1>4, <1>5, <1>6, <1>7, <2>2, <2>4, <2>5, <2>6
<1>10. CASE ~ PushCount(t) /\ ~ PushExchange(t)
  <2>1. approximate_free_count' = approximate_free_count
    BY <1>2, <1>3, <1>10, CounterStep
  <2>2. ListedNodes' \subseteq ListedNodes
    BY <1>10, ListedStep
  <2>3. Pushers' \subseteq Pushers
    BY <1>4, <1>10, PushersStep DEF Pushers
  <2>4. Cardinality(ListedNodes') <= Cardinality(ListedNodes) /\ Cardinality(Pushers') <= Cardinality(Pushers)
    BY <1>5, <2>2, <2>3, FS_Subset
  <2>5. CASE \A u \in Thread : job[u] # "gc"
    BY <1>5, <1>6, <1>7, <2>1, <2>4, <2>5
  <2>6. CASE job[t] = "gc"
    <3>1. GCEnd(t)
      BY <1>1, <2>6, PushersStep
    <3>2. \A u \in Thread \ {t} : pc[u] = "idle"
      BY <1>1, <2>6 DEF GCAlone
    <3>3. Pushers = {}
      BY <3>1, <3>2 DEF GCEnd, Pushers, PushState
    <3>4. next_free[Root] = DANGLING
      BY <1>1, <1>2, <2>6, <3>1 DEF CounterCoversListed, Walking, GCEnd
    <3>5. \A u \in Thread : Walking(u) => u = t
      BY <3>2 DEF Walking, IInv, ThreadShape
    <3>6. ListedNodes = {}
      BY <3>1, <3>4, <3>5, NoHeadNoList, Addresses DEF GCEnd, Node
    <3>7. Cardinality(Pushers) = 0 /\ Cardinality(ListedNodes) = 0
      BY <3>3, <3>6, FS_EmptySet
    <3>8. QED
      BY <1>5, <1>6, <2>1, <2>4, <3>7
  <2>7. QED
    BY <1>1, <1>4, <2>5, <2>6
<1>11. QED
  BY <1>8, <1>9, <1>10

-----------------------------------------------------------------------------
(* The invariant.                                                          *)

\* At first there is the root, an empty list and nobody at work.
LEMMA InitLists ==
  ASSUME Init
  PROVE  ListInv
<1> USE Addresses
<1>1. alloc = {Root} /\ refcount[Root] = 1 /\ next_free[Root] = DANGLING /\ approximate_free_count = 0
  BY DEF Init
<1>2. \A t \in Thread : pc[t] = "idle" /\ job[t] = "none" /\ head[t] = NULL
  BY DEF Init
<1>3. ListedNodes = {} /\ Pushers = {}
  BY <1>1, <1>2 DEF ListedNodes, Listed, Pushers, PushState
<1>4. HeadShape /\ ListsReach /\ GCAlone /\ SpinnerIsAwaited
  BY <1>2, <1>3 DEF HeadShape, ListsReach, GCAlone, SpinnerIsAwaited
<1>5. DeadAreAnswered
  BY <1>1 DEF DeadAreAnswered
<1>6. CounterCoversListed
  <2>1. Cardinality(ListedNodes) = 0 /\ Cardinality(Pushers) = 0
    BY <1>3, FS_EmptySet
  <2>2. approximate_free_count >= Cardinality(ListedNodes) + Cardinality(Pushers)
    BY <1>1, <2>1
  <2>3. \A t \in Thread : ~ Walking(t)
    BY <1>2 DEF Walking
  <2>4. QED
    BY <2>2, <2>3 DEF CounterCoversListed, Pushers
<1>7. QED
  BY <1>4, <1>5, <1>6 DEF ListInv

\* The invariant depends on nothing else.
LEMMA StutterLists ==
  ASSUME ListInv, UNCHANGED vars
  PROVE  ListInv'
<1> USE DEF ListInv, vars, heap, world, locals
<1>1. \A n \in Node : Listed(n)' <=> Listed(n)
  BY DEF Listed, Custody
<1>2. ListedNodes' = ListedNodes
  BY <1>1 DEF ListedNodes, Node
<1>3. ListHeads' = ListHeads
  BY DEF ListHeads
<1>4. \A t \in Thread : Walking(t)' <=> Walking(t)
  BY DEF Walking
<1>5. HeadShape' /\ GCAlone'
  BY <1>4 DEF HeadShape, GCAlone
<1>6. ListsReach'
  BY <1>2, <1>3 DEF ListsReach
<1>7. DeadAreAnswered'
  BY DEF DeadAreAnswered
<1>8. CounterCoversListed'
  BY <1>2, <1>4 DEF CounterCoversListed
<1>9. SpinnerIsAwaited'
  BY DEF SpinnerIsAwaited
<1>10. QED
  BY <1>5, <1>6, <1>7, <1>8, <1>9

\* Every step keeps it.
LEMMA NextLists ==
  ASSUME IInv, IInv', ListInv, [Next]_vars
  PROVE  ListInv'
<1>1. CASE UNCHANGED vars
  BY <1>1, StutterLists
<1>2. ASSUME NEW t \in Thread, Call(t) \/ Step(t) PROVE ListInv'
  <2>1. HeadShape' /\ ListsReach'
    BY <1>2, StepHeadShape, StepReach DEF ListInv
  <2>2. DeadAreAnswered' /\ SpinnerIsAwaited' /\ GCAlone'
    BY <1>2, StepDead, StepSpinner, StepGCAlone DEF ListInv
  <2>3. CounterCoversListed'
    BY <1>2, <2>2, StepCounter DEF ListInv
  <2>4. QED
    BY <2>1, <2>2, <2>3 DEF ListInv
<1>3. QED
  BY <1>1, <1>2 DEF Next

\* Whatever the threads do, the lists keep their shape, the counter covers them, and the dead are answered for.
THEOREM ListsInductive == Spec => []Inv
<1>1. Init => ListInv
  BY InitLists
<1>2. IInv /\ IInv' /\ ListInv /\ [Next]_vars => ListInv'
  BY NextLists
<1>3. QED
  BY <1>1, <1>2, Inductive, PTL DEF Spec, Inv

\* A thread that waits in upgrade waits for a node whose custodian will store to next_free.
THEOREM SpinnersAwaited == Spec => []SpinnerIsAwaited
<1>1. Inv => SpinnerIsAwaited
  BY DEF ListInv, Inv
<1>2. QED
  BY <1>1, ListsInductive, PTL

-----------------------------------------------------------------------------
(* Nothing leaks.                                                          *)

\* Of some live nodes that are not the root, with all their children, one has no child.
LEMMA SomeLeaf ==
  ASSUME IInv, alloc \ {Root} # {}
  PROVE  \E n \in alloc \ {Root} : \A c \in alloc : parent[c] # n
<1> USE Addresses
<1> DEFINE A == alloc \ {Root}
           T == {S \in SUBSET A : S # {} /\ \A n \in S, c \in A : parent[c] = n => c \in S}
<1>1. A \in SUBSET NonRoot /\ IsFiniteSet(A)
  <2>1. A \in SUBSET NonRoot
    BY DEF IInv, TypeOK
  <2>2. QED
    BY <2>1, RuleTreeAssumption, FS_Subset
<1>2. A \in T
  OBVIOUS
<1>3. PICK D \in T : \A E \in T : E \subseteq D => E = D
  <2>1. T \in SUBSET (SUBSET A) /\ T # {}
    BY <1>2
  <2> HIDE DEF A, T
  <2>2. QED
    BY <1>1, <2>1, MinimalSubset
<1>4. PICK n \in D : parent[n] \notin D
  <2>1. D \in SUBSET A /\ D # {}
    BY <1>3
  <2>2. QED
    BY <2>1 DEF IInv, HeapShape
<1>5. n \in A /\ \A m \in D, c \in A : parent[c] = m => c \in D
  BY <1>3, <1>4
<1>6. ASSUME NEW c \in alloc, parent[c] = n PROVE FALSE
  <2>0. n # NULL /\ c # Root
    BY <1>5, <1>6 DEF IInv, HeapShape, TypeOK
  <2>1. c \in A /\ c \in D /\ c # n
    BY <1>4, <1>5, <1>6, <2>0
  <2>2. \A m \in D \ {n}, d \in A : parent[d] = m => d \in D \ {n}
    BY <1>4, <1>5
  <2>3. D \ {n} \in T
    BY <1>3, <2>1, <2>2
  <2>4. QED
    BY <1>3, <1>4, <2>3
<1>7. QED
  BY <1>5, <1>6

\* The last thread out and the last handle gone, no node is left.
LEMMA NothingLeft ==
  ASSUME IInv, ListInv
  PROVE  NoLeak
<1> USE Addresses
<1>1. SUFFICES ASSUME tree = "dropped", \A t \in Thread : pc[t] = "idle", \A n \in Node : strong[n] = 0, alloc # {}
               PROVE  FALSE
  BY DEF NoLeak
<1>2. ListedNodes = {}
  BY <1>1, NoHeadNoList DEF ListInv, IInv, LinksSound, Walking, ThreadShape
<1>3. ASSUME NEW n \in alloc PROVE \E c \in alloc : parent[c] = n
  <2>1. n \in Node
    BY DEF IInv, TypeOK
  <2>2. refcount[n] # 0
    BY <1>1 DEF ListInv, DeadAreAnswered
  <2>3. ~ Listed(n)
    BY <1>2, <2>1 DEF ListedNodes, Listed
  <2>4. Holders(n) = {}
    BY <1>1 DEF Holders, HoldingState
  <2>5. Cardinality(Holders(n)) = 0
    BY <2>4, FS_EmptySet
  <2>6. Bit(Listed(n)) = 0 /\ Bit(n = Root /\ tree # "dropped") = 0
    BY <1>1, <2>3 DEF Bit
  <2>7. refcount[n] = strong[n] + Cardinality(Children(n)) + Cardinality(Holders(n))
                  + Bit(Listed(n)) + Bit(n = Root /\ tree # "dropped")
    BY <2>1 DEF IInv, RefcountExact
  <2>8. Cardinality(Children(n)) \in Nat /\ strong[n] = 0
    BY <1>1, <2>1, FiniteOwners DEF IInv
  <2>9. Cardinality(Children(n)) # 0
    BY <2>2, <2>5, <2>6, <2>7, <2>8
  <2>10. QED
    BY <2>9, FS_EmptySet DEF Children
<1>4. alloc \ {Root} = {}
  BY <1>3, SomeLeaf
<1>5. alloc = {Root}
  BY <1>1, <1>4
<1>6. parent[Root] = Root
  BY <1>3, <1>5
<1>7. QED
  BY <1>6 DEF IInv, HeapShape

\* Neither the free list nor a lost race leaks a node.
THEOREM NothingLeaks == Spec => []NoLeak
<1>1. Inv => NoLeak
  BY NothingLeft DEF Inv
<1>2. QED
  BY <1>1, ListsInductive, PTL

-----------------------------------------------------------------------------
(* A walk along a list.                                                    *)

\* One step along next_free from some pointers.
Follow == [X \in SUBSET Pointer |-> X \cup {next_free[x] : x \in X \cap NonRoot}]

\* The walk from h that Chain takes.
LEMMA WalkFrom ==
  ASSUME TypeOK, NEW h \in Pointer
  PROVE  \E w \in [0..Cardinality(NonRoot) -> SUBSET Pointer] :
           /\ Chain(h) = w[Cardinality(NonRoot)] \cap Node
           /\ w[0] = {h}
           /\ \A i \in 0..Cardinality(NonRoot) :
                i # 0 => w[i] = w[i - 1] \cup {next_free[x] : x \in w[i - 1] \cap NonRoot}
<1> DEFINE N == Cardinality(NonRoot)
           IsWalk(g) == g = [i \in 0..N |-> IF i = 0 THEN {h}
                                            ELSE g[i - 1] \cup {next_free[x] : x \in g[i - 1] \cap NonRoot}]
<1>1. N \in Nat
  BY RuleTreeAssumption, FS_CardinalityType
<1>2. Follow \in [SUBSET Pointer -> SUBSET Pointer]
  BY DEF Follow, TypeOK, Node
<1>3. {h} \in SUBSET Pointer
  OBVIOUS
<1>4. PICK v \in [0..N -> SUBSET Pointer] : v = [i \in 0..N |-> IF i = 0 THEN {h} ELSE Follow[v[i - 1]]]
  <2>1. PICK D, b, f : D = SUBSET Pointer /\ b = {h} /\ f = Follow
    OBVIOUS
  <2>2. b \in D /\ f \in [D -> D]
    BY <1>2, <1>3, <2>1
  <2> HIDE DEF N
  <2>3. \E v \in [0..N -> D] : IsIteration(v, N, b, f)
    BY ONLY <1>1, <2>2, IterationExists
  <2>4. QED
    BY <2>1, <2>3 DEF IsIteration
<1>5. \A i \in 0..N : i # 0 => Follow[v[i - 1]] = v[i - 1] \cup {next_free[x] : x \in v[i - 1] \cap NonRoot}
  <2>1. \A X \in SUBSET Pointer : Follow[X] = X \cup {next_free[x] : x \in X \cap NonRoot}
    BY DEF Follow
  <2>2. \A i \in 0..N : i # 0 => v[i - 1] \in SUBSET Pointer
    BY <1>1
  <2>3. QED
    BY <2>1, <2>2
<1>6. IsWalk(v)
  BY <1>4, <1>5
<1> DEFINE w == CHOOSE g : IsWalk(g)
<1>7. IsWalk(w)
  <2> HIDE DEF IsWalk
  <2>1. QED
    BY <1>6
<1>8. Chain(h) = w[N] \cap Node
  BY DEF Chain
<1> HIDE DEF w
<1>9. w[0] = {h} /\ \A i \in 0..N : i # 0 => w[i] = w[i - 1] \cup {next_free[x] : x \in w[i - 1] \cap NonRoot}
  BY <1>1, <1>7
<1>10. w \in [0..N -> SUBSET Pointer]
  <2>1. w = v
    <3> DEFINE Same == {n \in Nat : n \in 0..N => w[n] = v[n]}
    <3>1. 0 \in Same
      BY <1>1, <1>4, <1>9
    <3>2. ASSUME NEW n \in Nat, n \in Same PROVE n + 1 \in Same
      <4>1. CASE n + 1 \in 0..N
        <5>1. n \in 0..N /\ w[n] = v[n] /\ n + 1 # 0 /\ n + 1 - 1 = n
          BY <1>1, <3>2, <4>1
        <5>2. w[n + 1] = w[n] \cup {next_free[x] : x \in w[n] \cap NonRoot}
          BY <1>9, <4>1, <5>1
        <5>3. v[n + 1] = Follow[v[n]]
          <6>1. \A i \in 0..N : v[i] = IF i = 0 THEN {h} ELSE Follow[v[i - 1]]
            BY <1>4
          <6>2. v[n + 1] = Follow[v[n + 1 - 1]]
            BY <4>1, <5>1, <6>1
          <6>3. QED
            BY <5>1, <6>2
        <5>4. Follow[v[n]] = v[n] \cup {next_free[x] : x \in v[n] \cap NonRoot}
          BY <1>5, <4>1, <5>1
        <5>5. w[n + 1] = v[n + 1]
          BY <5>1, <5>2, <5>3, <5>4
        <5>6. QED
          BY <5>5
      <4>2. CASE n + 1 \notin 0..N
        BY <4>2
      <4>3. QED
        BY <4>1, <4>2
    <3>3. Nat \subseteq Same
      <4> HIDE DEF Same
      <4>1. QED
        BY <3>1, <3>2, NatSetInduction
    <3>4. \A i \in 0..N : w[i] = v[i]
      BY <1>1, <3>3
    <3>5. QED
      BY <1>4, <1>7, <3>4
  <2>2. QED
    BY <2>1
<1>11. QED
  BY <1>8, <1>9, <1>10

\* A walk from a link stays on listed nodes, and stops only when there is no next one.
LEMMA ChainIsList ==
  ASSUME IInv, NEW h \in Pointer, Link(h)
  PROVE  /\ h \in Node => h \in Chain(h)
         /\ Chain(h) \subseteq ListedNodes
         /\ \A x \in Chain(h) : next_free[x] \in NonRoot => next_free[x] \in Chain(h)
<1> USE Addresses
<1> DEFINE N == Cardinality(NonRoot)
           Beyond == ListedNodes \cup {DANGLING}
<1>1. N \in Nat /\ IsFiniteSet(NonRoot)
  BY RuleTreeAssumption, FS_CardinalityType
<1>2. PICK w \in [0..N -> SUBSET Pointer] :
           /\ Chain(h) = w[N] \cap Node
           /\ w[0] = {h}
           /\ \A i \in 0..N :
                i # 0 => w[i] = w[i - 1] \cup {next_free[x] : x \in w[i - 1] \cap NonRoot}
  BY WalkFrom DEF IInv
<1>3. \A x \in ListedNodes : x \in NonRoot /\ next_free[x] \in Beyond
  BY DEF ListedNodes, IInv, LinksSound, Link
<1>4. h \in Beyond
  BY DEF Link, ListedNodes
<1> DEFINE Closed(X) == \A x \in X \cap NonRoot : next_free[x] \in X
           Long(i) == Cardinality(w[i] \cap NonRoot) >= i + 1
           Good == {n \in Nat : n \in 0..N => w[n] \subseteq Beyond /\ h \in w[n] /\ (Closed(w[n]) \/ Long(n))}
<1>5. \A i \in 0..N : IsFiniteSet(w[i] \cap NonRoot) /\ Cardinality(w[i] \cap NonRoot) \in Nat
                      /\ Cardinality(w[i] \cap NonRoot) <= N
  BY <1>1, FS_Subset, FS_CardinalityType
<1>6. 0 \in Good
  <2>1. CASE h \in NonRoot
    <3>1. w[0] \cap NonRoot = {h}
      BY <1>2, <2>1
    <3>2. Cardinality({h}) = 1
      BY FS_Singleton
    <3>3. Cardinality(w[0] \cap NonRoot) = 0 + 1
      <4>1. PICK X : X = w[0] \cap NonRoot
        OBVIOUS
      <4>2. X = {h}
        BY <3>1, <4>1
      <4>3. Cardinality(X) = 1
        BY <3>2, <4>2, Zenon
      <4>4. QED
        BY <4>1, <4>3, SMT
    <3>4. Long(0)
      BY <3>3
    <3>5. w[0] \subseteq Beyond /\ h \in w[0]
      BY <1>2, <1>4
    <3> HIDE DEF Long, Closed, Beyond
    <3>6. QED
      BY <3>4, <3>5
  <2>2. CASE h \notin NonRoot
    BY <1>2, <1>4, <2>2
  <2>3. QED
    BY <2>1, <2>2
<1>7. ASSUME NEW n \in Nat, n \in Good PROVE n + 1 \in Good
  <2>1. SUFFICES ASSUME n + 1 \in 0..N
                 PROVE  w[n + 1] \subseteq Beyond /\ h \in w[n + 1] /\ (Closed(w[n + 1]) \/ Long(n + 1))
    OBVIOUS
  <2>2. n \in 0..N /\ n + 1 # 0 /\ n + 1 - 1 = n
    BY <1>1, <2>1
  <2>3. w[n + 1] = w[n] \cup {next_free[x] : x \in w[n] \cap NonRoot}
    BY <1>2, <2>1, <2>2
  <2>4. w[n] \subseteq Beyond /\ h \in w[n] /\ (Closed(w[n]) \/ Long(n))
    BY <1>7, <2>2
  <2>5. \A x \in w[n] \cap NonRoot : next_free[x] \in Beyond
    BY <1>3, <2>4
  <2>6. w[n + 1] \subseteq Beyond /\ h \in w[n + 1]
    BY <2>3, <2>4, <2>5
  <2>7. CASE Closed(w[n])
    <3>1. w[n + 1] = w[n]
      BY <2>3, <2>7
    <3>2. QED
      BY <2>6, <2>7, <3>1
  <2>8. CASE Long(n)
    <3> DEFINE X == w[n] \cap NonRoot Y == w[n + 1] \cap NonRoot
    <3>1. X \in SUBSET Y /\ IsFiniteSet(X) /\ IsFiniteSet(Y) /\ Cardinality(X) \in Nat /\ Cardinality(Y) \in Nat
      BY <1>5, <2>1, <2>2, <2>3
    <3>2. Cardinality(X) <= Cardinality(Y) /\ (Cardinality(Y) = Cardinality(X) => Y = X)
      <4> HIDE DEF X, Y
      <4>1. QED
        BY <3>1, FS_Subset
    <3>3. CASE Cardinality(Y) = Cardinality(X)
      <4>1. Y = X
        BY <3>2, <3>3
      <4>2. Closed(w[n + 1])
        BY <2>3, <4>1
      <4>3. QED
        BY <2>6, <4>2
    <3>4. CASE Cardinality(Y) # Cardinality(X)
      <4>1. Cardinality(X) >= n + 1
        BY <2>8
      <4>2. Cardinality(Y) >= n + 1 + 1
        <5> HIDE DEF X, Y
        <5>1. QED
          BY <3>1, <3>2, <3>4, <4>1
      <4>3. QED
        BY <2>6, <4>2
    <3>5. QED
      BY <3>3, <3>4
  <2>9. QED
    BY <2>4, <2>7, <2>8
<1>8. Nat \subseteq Good
  <2> HIDE DEF Good
  <2>1. QED
    BY <1>6, <1>7, NatSetInduction
<1>9. w[N] \subseteq Beyond /\ h \in w[N] /\ (Closed(w[N]) \/ Long(N))
  <2>1. N \in Good
    BY <1>1, <1>8
  <2>2. N \in 0..N
    BY <1>1
  <2>3. QED
    BY <2>1, <2>2
<1>10. Closed(w[N])
  <2>1. ~ (Cardinality(w[N] \cap NonRoot) >= N + 1)
    BY <1>1, <1>5
  <2>2. QED
    BY <1>9, <2>1
<1>11. w[N] \cap Node \subseteq ListedNodes
  BY <1>9
<1>12. \A x \in w[N] \cap Node : next_free[x] \in NonRoot => next_free[x] \in w[N] \cap Node
  BY <1>3, <1>10, <1>11
<1>13. QED
  BY <1>2, <1>9, <1>11, <1>12

\* The free lists hold exactly the listed nodes.
LEMMA ListsHoldListed ==
  ASSUME IInv, HeadShape, ListsReach
  PROVE  /\ \A h \in ListHeads : Link(h)
         /\ UNION {Chain(h) : h \in ListHeads} = ListedNodes
<1> USE Addresses
<1>1. ASSUME NEW h \in ListHeads PROVE Link(h) /\ h \in Pointer /\ h \in Node
  <2>1. h \in Node /\ (h = next_free[Root] \/ \E u \in Thread : Walking(u) /\ head[u] = h)
    BY HeadsAre
  <2>2. QED
    BY <2>1 DEF IInv, LinksSound
<1>2. \A h \in ListHeads : Chain(h) \subseteq ListedNodes
  BY <1>1, ChainIsList
<1> DEFINE R == UNION {Chain(h) : h \in ListHeads}
<1>3. ASSUME ListedNodes \ R # {} PROVE FALSE
  <2>1. PICK n \in ListedNodes \ R :
               n \in ListHeads \/ \E m \in ListedNodes \ (ListedNodes \ R) : next_free[m] = n
    <3>1. ListedNodes \ R \in SUBSET ListedNodes
      OBVIOUS
    <3> HIDE DEF R
    <3>2. QED
      BY <1>3, <3>1 DEF ListsReach
  <2>2. CASE n \in ListHeads
    BY <1>1, <2>1, <2>2, ChainIsList
  <2>3. ASSUME NEW m \in R, next_free[m] = n PROVE FALSE
    <3>1. PICK h \in ListHeads : m \in Chain(h)
      OBVIOUS
    <3>2. n \in Chain(h)
      BY <1>1, <2>1, <2>3, <3>1, ChainIsList DEF ListedNodes
    <3>3. QED
      BY <2>1, <3>2
  <2>4. QED
    BY <2>1, <2>2, <2>3
<1>4. QED
  BY <1>1, <1>2, <1>3

\* The walks from the heads find every listed node, each on one list only.
LEMMA ListsAreSound ==
  ASSUME IInv, ListInv
  PROVE  FreeListSound
<1> USE Addresses
<1>1. UNION {Chain(h) : h \in ListHeads} = {n \in NonRoot : Listed(n)}
  BY ListsHoldListed DEF ListInv, ListedNodes
<1>2. \A n \in NonRoot : Listed(n) => refcount[n] >= 1
  BY Counted DEF IInv
<1>3. ASSUME NEW m \in NonRoot, NEW n \in NonRoot, Listed(m), Listed(n), m # n
      PROVE  next_free[m] # next_free[n] \/ next_free[m] = DANGLING
  BY <1>3 DEF IInv, LinksSound, Link, Linked
<1>4. ASSUME NEW h \in ListHeads, NEW n \in NonRoot, Listed(n), next_free[n] = h PROVE FALSE
  <2>1. h \in Node /\ (h = next_free[Root] \/ \E u \in Thread : Walking(u) /\ head[u] = h)
    BY HeadsAre DEF ListInv
  <2>2. h \in NonRoot
    BY <1>4, <2>1 DEF IInv, LinksSound, Link
  <2>3. h # next_free[Root]
    BY <1>4, <2>2 DEF IInv, LinksSound, Linked
  <2>4. QED
    BY <1>4, <2>1, <2>2, <2>3 DEF IInv, LinksSound, Linked
<1>5. QED
  BY <1>1, <1>2, <1>3, <1>4 DEF FreeListSound

\* The free lists consist of the listed nodes, each on one list that ends in DANGLING, and hold a count of each.
THEOREM FreeListsSound == Spec => []FreeListSound
<1>1. Inv => FreeListSound
  BY ListsAreSound DEF Inv
<1>2. QED
  BY <1>1, ListsInductive, PTL

\* The counter is at least the length of the free list.
LEMMA CounterCovers ==
  ASSUME IInv, ListInv
  PROVE  CounterCoversFreeList
<1> USE Addresses
<1>1. SUFFICES ASSUME ExclusiveGC, tree = "alive", \A t \in Thread : pc[t] # "gc_swap"
               PROVE  approximate_free_count >= Cardinality(Chain(next_free[Root]))
  BY DEF CounterCoversFreeList
<1>2. Link(next_free[Root]) /\ next_free[Root] \in Pointer
  BY <1>1 DEF IInv, LinksSound, TypeOK
<1>3. Chain(next_free[Root]) \in SUBSET ListedNodes
  BY <1>2, ChainIsList
<1>4. /\ IsFiniteSet(ListedNodes) /\ Cardinality(ListedNodes) \in Nat
      /\ Cardinality(Pushers) \in Nat /\ approximate_free_count \in Nat
  BY FiniteCounted, FS_CardinalityType DEF IInv, TypeOK
<1>5. Cardinality(Chain(next_free[Root])) <= Cardinality(ListedNodes) /\ Cardinality(Chain(next_free[Root])) \in Nat
  BY <1>3, <1>4, FS_Subset, FS_CardinalityType
<1>6. CASE \A t \in Thread : job[t] # "gc"
  <2>1. approximate_free_count >= Cardinality(ListedNodes) + Cardinality(Pushers)
    BY <1>1, <1>6 DEF ListInv, CounterCoversListed, Pushers
  <2>2. QED
    BY <1>4, <1>5, <2>1
<1>7. ASSUME NEW t \in Thread, job[t] = "gc"
      PROVE  approximate_free_count >= Cardinality(Chain(next_free[Root]))
  <2>1. \A u \in Thread \ {t} : pc[u] = "idle"
    BY <1>1, <1>7 DEF ListInv, GCAlone
  <2>2. Walking(t) /\ next_free[Root] = DANGLING
    BY <1>1, <1>7 DEF Walking, ListInv, CounterCoversListed
  <2>3. Chain(DANGLING) = {}
    <3>1. PICK w \in [0..Cardinality(NonRoot) -> SUBSET Pointer] :
           /\ Chain(DANGLING) = w[Cardinality(NonRoot)] \cap Node
           /\ w[0] = {DANGLING}
           /\ \A i \in 0..Cardinality(NonRoot) :
                i # 0 => w[i] = w[i - 1] \cup {next_free[x] : x \in w[i - 1] \cap NonRoot}
      BY WalkFrom DEF IInv
    <3> DEFINE Good == {n \in Nat : n \in 0..Cardinality(NonRoot) => w[n] = {DANGLING}}
    <3>2. Cardinality(NonRoot) \in Nat
      BY RuleTreeAssumption, FS_CardinalityType
    <3>3. 0 \in Good
      BY <3>1
    <3>4. ASSUME NEW n \in Nat, n \in Good PROVE n + 1 \in Good
      <4>1. SUFFICES ASSUME n + 1 \in 0..Cardinality(NonRoot) PROVE w[n + 1] = {DANGLING}
        OBVIOUS
      <4>2. w[n] = {DANGLING} /\ n + 1 # 0 /\ n + 1 - 1 = n
        BY <3>2, <3>4, <4>1
      <4>3. w[n + 1] = w[n] \cup {next_free[x] : x \in w[n] \cap NonRoot}
        BY <3>1, <4>1, <4>2
      <4>4. QED
        BY <4>2, <4>3
    <3>5. Nat \subseteq Good
      <4> HIDE DEF Good
      <4>1. QED
        BY <3>3, <3>4, NatSetInduction
    <3>6. QED
      BY <3>1, <3>2, <3>5
  <2>4. Cardinality(Chain(next_free[Root])) = 0
    BY <2>2, <2>3, FS_EmptySet
  <2>5. QED
    BY <1>4, <2>4
<1>8. QED
  BY <1>6, <1>7

\* maybe_gc sees all the garbage there is.
THEOREM CounterCoversLists == Spec => []CounterCoversFreeList
<1>1. Inv => CounterCoversFreeList
  BY CounterCovers DEF Inv
<1>2. QED
  BY <1>1, ListsInductive, PTL
=============================================================================
