----------------------------- MODULE StyleBloom -----------------------------
(* The filter of ancestor hashes that a thread keeps while it styles: a      *)
(* counting Bloom filter with saturating counters (selectors/bloom.rs) under *)
(* the stack of the elements whose hashes are in it (style/bloom.rs). An     *)
(* element has a sequence of hashes, and a hash has two slots.               *)
EXTENDS DomTree, SequencesExt

CONSTANTS
  Hash,                  \* what a name, an id, a class or an attribute hashes to
  FirstSlot, SecondSlot, \* [Hash -> Slot]
  Slot,
  HashesOf,              \* [Element -> Seq(Hash)]
  MaxCount,              \* where a counter is full (255 in the code)
  MemsetClearThreshold   \* more hashes are cleared at once (25 in the code)

ASSUME BloomAssumption ==
  /\ MaxCount \in Nat \ {0} /\ MemsetClearThreshold \in Nat
  /\ FirstSlot \in [Hash -> Slot] /\ SecondSlot \in [Hash -> Slot]
  /\ HashesOf \in [Element -> Seq(Hash)]

-----------------------------------------------------------------------------
(* The counting filter.                                                     *)

NoCounts == [s \in Slot |-> 0]

\* Mutant: a full counter counts down again.
AdjustFullSlot(counts, s, by) ==
  IF counts[s] = MaxCount /\ by = 1 THEN counts ELSE [counts EXCEPT ![s] = @ + by]

\* A full counter has lost count and stays as it is.
AdjustSlot(counts, s, by) ==
  IF counts[s] = MaxCount THEN counts ELSE [counts EXCEPT ![s] = @ + by]

AdjustHash(counts, hash, by) ==
  AdjustSlot(AdjustSlot(counts, FirstSlot[hash], by), SecondSlot[hash], by)

InsertHashes(counts, hashes) ==
  FoldLeft(LAMBDA c, h : AdjustHash(c, h, 1), counts, hashes)
RemoveHashes(counts, hashes) ==
  FoldLeft(LAMBDA c, h : AdjustHash(c, h, -1), counts, hashes)

MightContainHash(counts, hash) ==
  counts[FirstSlot[hash]] # 0 /\ counts[SecondSlot[hash]] # 0

-----------------------------------------------------------------------------
(* The stack of elements over it.                                           *)

EmptyBloom(counts) == [counts |-> counts, elements |-> <<>>]

PushedHashes(bloom) == FlattenSeq([i \in DOMAIN bloom.elements |-> HashesOf[bloom.elements[i]]])

Push(bloom, e) ==
  [counts |-> InsertHashes(bloom.counts, HashesOf[e]), elements |-> Append(bloom.elements, e)]

Pop(bloom) ==
  [counts   |-> RemoveHashes(bloom.counts, Reverse(HashesOf[Last(bloom.elements)])),
   elements |-> Front(bloom.elements)]

PushAll(bloom, chain) == FoldLeft(Push, bloom, chain)

\* Pop until n elements are left.
PopTo(bloom, n) ==
  FoldLeft(LAMBDA b, i : Pop(b), bloom, [i \in 1..(Len(bloom.elements) - n) |-> i])

\* A few hashes are taken out one by one, many with all the counters.
Clear(bloom) ==
  EmptyBloom(IF Len(PushedHashes(bloom)) > MemsetClearThreshold THEN NoCounts
             ELSE RemoveHashes(bloom.counts, PushedHashes(bloom)))

Rebuild(bloom, e) == PushAll(Clear(bloom), Chain[e])

\* Mutant: what is left of a deeper path is taken for the new one.
InsertParentsWithoutRecovering(bloom, e, depth) ==
  IF bloom.elements = <<>> THEN Rebuild(bloom, e)
  ELSE IF e = Root \/ depth = 0 THEN Clear(bloom)
  ELSE LET kept == IF Len(bloom.elements) < depth THEN Len(bloom.elements) ELSE depth
       IN PushAll(PopTo(bloom, kept), SubSeq(Chain[e], kept + 1, Len(Chain[e])))

\* insert_parents_recovering: pop to the last element that is an ancestor of e at its depth, given
\* that e is at depth, and push the ancestors below it.
InsertParentsRecovering(bloom, e, depth) ==
  IF bloom.elements = <<>> THEN Rebuild(bloom, e)
  ELSE IF e = Root THEN Clear(bloom)
  ELSE IF Last(bloom.elements) = TraversalParent(e) THEN bloom
  ELSE IF depth = 0 THEN Clear(bloom)
  ELSE LET most == IF Len(bloom.elements) < depth THEN Len(bloom.elements) ELSE depth
           shift == Depth(e) - depth   \* 0, since the caller knows the depth
           known == {k \in 1..most : k + shift \in DOMAIN Chain[e]
                                     /\ bloom.elements[k] = Chain[e][k + shift]}
           kept == IF known = {} THEN 0 ELSE Max(known)
       IN PushAll(PopTo(bloom, kept), SubSeq(Chain[e], kept + shift + 1, Depth(e)))
=============================================================================
