------------------------------ MODULE RuleTree ------------------------------
(***************************************************************************)
(* The rule tree of style/rule_tree/core.rs: reference counted nodes that  *)
(* any thread clones and drops, a free list threaded through the dead      *)
(* nodes with its head in the root, resurrection of a dead node through    *)
(* its parent's children map, garbage collection of the free list, and the *)
(* drop of the tree itself while handles to its nodes are still around.    *)
(*                                                                         *)
(* One action is one atomic memory operation of one thread, together with  *)
(* the thread-local code around it; the critical section of a children map *)
(* lock is one action when nothing in it is visible to other threads       *)
(* before the unlock.  Memory orderings are not modelled: every atomic is  *)
(* sequentially consistent.                                                *)
(***************************************************************************)
EXTENDS Integers, FiniteSets

CONSTANTS
  Thread,       \* threads that hold handles, restyle, or collect garbage
  NonRoot,      \* addresses a rule node other than the root can be boxed at
  Root,         \* the address of the root node
  Key,          \* ChildKey: a cascade priority and a style source
  NULL,         \* the null pointer
  DANGLING,     \* RuleNode::DANGLING_PTR
  GCInterval,   \* RULE_TREE_GC_INTERVAL
  ExclusiveGC,  \* whether callers keep gc()'s contract: "This can only be
                \* called when no other threads is accessing this tree."
  MaxStrong     \* bound: handles to one node a thread may add to

Node == NonRoot \cup {Root}
Pointer == Node \cup {NULL, DANGLING}

ASSUME RuleTreeAssumption ==
  /\ Root \notin NonRoot
  /\ NULL \notin Node /\ DANGLING \notin Node /\ NULL # DANGLING
  /\ NULL \notin Key
  /\ IsFiniteSet(Thread) /\ IsFiniteSet(NonRoot)
  /\ GCInterval \in Nat /\ MaxStrong \in Nat
  /\ ExclusiveGC \in BOOLEAN

VARIABLES
  \* The heap: the fields of RuleNode, for the boxes in alloc.
  alloc, refcount, next_free, children, parent, key,
  \* StrongRuleNode values outside the tree, per node they point to.
  strong,
  \* The RuleTree value: "alive", "dropping" (in its destructor), "dropped".
  tree,
  \* The root's counter of nodes pushed since the last collection.
  approximate_free_count,
  \* Per thread: control state, the local variables of the code it is in
  \* (`this`, `head`, the parent whose map is used or locked, the child key
  \* looked for), where pretend_to_be_on_free_list returns to, and the
  \* outermost operation in progress.
  pc, node, head, base, want, ret, job

heap == <<alloc, refcount, next_free, children, parent, key>>
locals == <<pc, node, head, base, want, ret, job>>
world == <<strong, tree, approximate_free_count>>
vars == <<heap, world, locals>>

ControlState ==
  {"idle", "ensure_write", "spin_read", "spin_write",
   "pretend", "pretend_store", "push_count", "push_load", "push_store",
   "push_exchange", "unlink", "unlink_dec", "unlock", "dec_parent",
   "free_root", "gc_swap", "gc_pop", "gc_dec", "drop_root"}

TypeOK ==
  /\ alloc \subseteq Node
  /\ refcount \in [Node -> Nat]
  /\ next_free \in [Node -> Pointer]
  /\ children \in [Node -> [Key -> NonRoot \cup {NULL}]]
  /\ parent \in [Node -> Node \cup {NULL}]
  /\ key \in [Node -> Key \cup {NULL}]
  /\ strong \in [Node -> Nat]
  /\ tree \in {"alive", "dropping", "dropped"}
  /\ approximate_free_count \in Nat
  /\ pc \in [Thread -> ControlState]
  /\ node \in [Thread -> Node \cup {NULL}]
  /\ head \in [Thread -> Pointer]
  /\ base \in [Thread -> Node \cup {NULL}]
  /\ want \in [Thread -> Key \cup {NULL}]
  /\ ret \in [Thread -> {"none", "push_count", "unlink"}]
  /\ job \in [Thread -> {"none", "ensure", "drop", "gc", "droptree"}]

-----------------------------------------------------------------------------
(* Derived state. *)

\* A RwLock guard on the children map of p lives in the frame of the thread.
WriteHeld(p) ==
  \E u \in Thread : pc[u] \in {"unlink_dec", "unlock", "spin_write"} /\ base[u] = p
ReadHeld(p) == \E u \in Thread : pc[u] = "spin_read" /\ base[u] = p

\* ensure_child borrows the handle to the parent for the whole call.
Borrowed(p) ==
  \E u \in Thread : pc[u] \in {"ensure_write", "spin_read", "spin_write"} /\ base[u] = p

\* Where safe code has a &StrongRuleNode to p: a handle of its own, the tree's
\* root, or the parent() of a handle.
Reachable(p) ==
  \/ strong[p] > 0
  \/ p = Root /\ tree = "alive"
  \/ \E c \in alloc : strong[c] > 0 /\ parent[c] = p

\* A thread that is not inside a rule tree operation and may enter one.
CanCall(t) ==
  /\ pc[t] = "idle"
  /\ ExclusiveGC => \A u \in Thread : job[u] # "gc"

Init ==
  /\ alloc = {Root}
  /\ refcount = [n \in Node |-> IF n = Root THEN 1 ELSE 0]
  /\ next_free = [n \in Node |-> IF n = Root THEN DANGLING ELSE NULL]
  /\ children = [n \in Node |-> [k \in Key |-> NULL]]
  /\ parent = [n \in Node |-> NULL]
  /\ key = [n \in Node |-> NULL]
  /\ strong = [n \in Node |-> 0]
  /\ tree = "alive"
  /\ approximate_free_count = 0
  /\ pc = [t \in Thread |-> "idle"]
  /\ node = [t \in Thread |-> NULL]
  /\ head = [t \in Thread |-> NULL]
  /\ base = [t \in Thread |-> NULL]
  /\ want = [t \in Thread |-> NULL]
  /\ ret = [t \in Thread |-> "none"]
  /\ job = [t \in Thread |-> "none"]

-----------------------------------------------------------------------------
(* Steps several operations share. *)

Goto(t, l) == pc' = [pc EXCEPT ![t] = l]
Advance(t, l) == Goto(t, l) /\ UNCHANGED <<node, head, base, want, ret, job>>

AddRef(n) == refcount' = [refcount EXCEPT ![n] = @ + 1]
SubRef(n) == refcount' = [refcount EXCEPT ![n] = @ - 1]

\* t took the last reference to n: a node with a root pointer pretends to be
\* on the free list, and goes on at r; the root is dropped at once.
OnZero(t, n, r) ==
  /\ Goto(t, IF n = Root THEN "free_root" ELSE "pretend")
  /\ node' = [node EXCEPT ![t] = n]
  /\ ret' = [ret EXCEPT ![t] = r]

\* End of drop_without_free_list, or of a push: back to the loop over the
\* stolen list, or out of the operation.
Return(t) ==
  /\ Goto(t, IF job[t] = "drop" THEN "idle" ELSE "gc_pop")
  /\ job' = [job EXCEPT ![t] = IF @ = "drop" THEN "none" ELSE @]
  /\ node' = [node EXCEPT ![t] = NULL]
  /\ base' = [base EXCEPT ![t] = NULL]
  /\ ret' = [ret EXCEPT ![t] = "none"]
  /\ UNCHANGED <<head, want>>

-----------------------------------------------------------------------------
(* Handles. *)

\* StrongRuleNode::clone, of a handle, of a handle's parent() or of root().
Clone(t, n) ==
  /\ CanCall(t)
  /\ Reachable(n)
  /\ strong[n] < MaxStrong
  /\ AddRef(n)
  /\ strong' = [strong EXCEPT ![n] = @ + 1]
  /\ UNCHANGED <<alloc, next_free, children, parent, key, tree,
                 approximate_free_count, locals>>

\* StrongRuleNode::drop up to its decrement.  The last handle to a node cannot
\* be dropped while an ensure_child borrows it.
StrongDrop(t, n) ==
  /\ CanCall(t)
  /\ strong[n] > 0
  /\ n # Root /\ Borrowed(n) => strong[n] > 1
  /\ strong' = [strong EXCEPT ![n] = @ - 1]
  /\ SubRef(n)
  /\ IF refcount[n] = 1
     THEN /\ OnZero(t, n, "push_count")
          /\ job' = [job EXCEPT ![t] = "drop"]
          /\ UNCHANGED <<head, base, want>>
     ELSE UNCHANGED locals
  /\ UNCHANGED <<alloc, next_free, children, parent, key, tree, approximate_free_count>>

-----------------------------------------------------------------------------
(* pretend_to_be_on_free_list and push_on_free_list. *)

\* Mutant: pretends without taking a count.
PretendIncrement_NoCount(t) ==
  /\ pc[t] = "pretend"
  /\ Advance(t, "pretend_store")
  /\ UNCHANGED <<heap, world>>

PretendIncrement(t) ==
  /\ pc[t] = "pretend"
  /\ AddRef(node[t])
  /\ Advance(t, "pretend_store")
  /\ UNCHANGED <<alloc, next_free, children, parent, key, world>>

\* Mutant: takes the count but leaves next_free null.
PretendStore_NoStore(t) ==
  /\ pc[t] = "pretend_store"
  /\ Advance(t, ret[t])
  /\ UNCHANGED <<heap, world>>

PretendStore(t) ==
  /\ pc[t] = "pretend_store"
  /\ next_free' = [next_free EXCEPT ![node[t]] = DANGLING]
  /\ Advance(t, ret[t])
  /\ UNCHANGED <<alloc, refcount, children, parent, key, world>>

\* Mutant: a push that is not counted.
PushCount_Uncounted(t) ==
  /\ pc[t] = "push_count"
  /\ Advance(t, "push_load")
  /\ UNCHANGED <<heap, world>>

PushCount(t) ==
  /\ pc[t] = "push_count"
  /\ approximate_free_count' = approximate_free_count + 1
  /\ Advance(t, "push_load")
  /\ UNCHANGED <<heap, strong, tree>>

\* The loop condition, with the head just read: a null head means that the
\* tree was dropped and the node must be dropped without the free list.
PushLoop(t) ==
  /\ head' = [head EXCEPT ![t] = next_free[Root]]
  /\ Goto(t, IF next_free[Root] = NULL THEN "unlink" ELSE "push_store")

PushLoad(t) ==
  /\ pc[t] = "push_load"
  /\ PushLoop(t)
  /\ UNCHANGED <<heap, world, node, base, want, ret, job>>

\* Mutant: the pushed node ends the list instead of pointing to the old head.
PushStore_EndsList(t) ==
  /\ pc[t] = "push_store"
  /\ next_free' = [next_free EXCEPT ![node[t]] = DANGLING]
  /\ Advance(t, "push_exchange")
  /\ UNCHANGED <<alloc, refcount, children, parent, key, world>>

PushStore(t) ==
  /\ pc[t] = "push_store"
  /\ next_free' = [next_free EXCEPT ![node[t]] = head[t]]
  /\ Advance(t, "push_exchange")
  /\ UNCHANGED <<alloc, refcount, children, parent, key, world>>

PushExchange(t) ==
  /\ pc[t] = "push_exchange"
  /\ next_free[Root] = head[t]
  /\ next_free' = [next_free EXCEPT ![Root] = node[t]]
  /\ Goto(t, "idle")
  /\ job' = [job EXCEPT ![t] = "none"]
  /\ node' = [node EXCEPT ![t] = NULL]
  /\ head' = [head EXCEPT ![t] = NULL]
  /\ ret' = [ret EXCEPT ![t] = "none"]
  /\ UNCHANGED <<alloc, refcount, children, parent, key, world, base, want>>

\* Mutant: the head is not read again.
PushExchangeFails_StaleHead(t) ==
  /\ pc[t] = "push_exchange"
  /\ Advance(t, "push_store")
  /\ UNCHANGED <<heap, world>>

\* compare_exchange_weak may also fail when the head is the one expected.
PushExchangeFails(t) ==
  /\ pc[t] = "push_exchange"
  /\ PushLoop(t)
  /\ UNCHANGED <<heap, world, node, base, want, ret, job>>

-----------------------------------------------------------------------------
(* drop_without_free_list. *)

\* Mutant: the node keeps pretending to be on the free list.
UnlinkLock_KeepsLink(t) ==
  LET p == parent[node[t]] IN
  /\ pc[t] = "unlink"
  /\ ~ WriteHeld(p) /\ ~ ReadHeld(p)
  /\ base' = [base EXCEPT ![t] = p]
  /\ Goto(t, "unlink_dec")
  /\ UNCHANGED <<heap, world, node, head, want, ret, job>>

\* Write-lock the parent's children and leave the free list.
UnlinkLock(t) ==
  LET n == node[t] p == parent[n] IN
  /\ pc[t] = "unlink"
  /\ ~ WriteHeld(p) /\ ~ ReadHeld(p)
  /\ next_free' = [next_free EXCEPT ![n] = NULL]
  /\ base' = [base EXCEPT ![t] = p]
  /\ Goto(t, "unlink_dec")
  /\ UNCHANGED <<alloc, refcount, children, parent, key, world, node, head, want, ret, job>>

\* Mutant: leaves the "pretend" count behind.
UnlinkResurrected_KeepsCount(t) ==
  /\ pc[t] = "unlink_dec"
  /\ refcount[node[t]] # 1
  /\ node' = [node EXCEPT ![t] = NULL]
  /\ Goto(t, "unlock")
  /\ UNCHANGED <<heap, world, head, base, want, ret, job>>

\* The "pretend to be on the free list" reference was not the last one:
\* another thread resurrected the node.
UnlinkResurrected(t) ==
  /\ pc[t] = "unlink_dec"
  /\ refcount[node[t]] # 1
  /\ SubRef(node[t])
  /\ node' = [node EXCEPT ![t] = NULL]
  /\ Goto(t, "unlock")
  /\ UNCHANGED <<alloc, next_free, children, parent, key, world, head, base, want, ret, job>>

\* The guard of the early return above is dropped after the reference.
Unlock(t) ==
  /\ pc[t] = "unlock"
  /\ Return(t)
  /\ UNCHANGED <<heap, world>>

\* Free the node and keep its reference to its parent for DropParentRef.
FreeUnlinked(t) ==
  LET n == node[t] IN
  /\ SubRef(n)
  /\ alloc' = alloc \ {n}
  /\ parent' = [parent EXCEPT ![n] = NULL]
  /\ key' = [key EXCEPT ![n] = NULL]
  /\ node' = [node EXCEPT ![t] = base[t]]
  /\ base' = [base EXCEPT ![t] = NULL]
  /\ Goto(t, "dec_parent")
  /\ UNCHANGED <<next_free, world, head, want, ret, job>>

ForgetChild(p, k) == children' = [children EXCEPT ![p][k] = NULL]

\* Mutants: the count it left is not looked at; the node stays in the map.
UnlinkRemove_Unconditional(t) ==
  pc[t] = "unlink_dec" /\ ForgetChild(base[t], key[node[t]]) /\ FreeUnlinked(t)
UnlinkRemove_StaysInMap(t) ==
  pc[t] = "unlink_dec" /\ refcount[node[t]] = 1 /\ UNCHANGED children /\ FreeUnlinked(t)

\* It was the last one: remove the node from the children map it is in, unlock
\* and free the box.
UnlinkRemove(t) ==
  /\ pc[t] = "unlink_dec"
  /\ refcount[node[t]] = 1
  /\ ForgetChild(base[t], key[node[t]])
  /\ FreeUnlinked(t)

\* Release the freed node's reference to its parent, and loop if that was the
\* last one.
DropParentRef(t) ==
  LET p == node[t] IN
  /\ pc[t] = "dec_parent"
  /\ SubRef(p)
  /\ IF refcount[p] = 1
     THEN OnZero(t, p, "unlink") /\ UNCHANGED <<head, base, want, job>>
     ELSE Return(t)
  /\ UNCHANGED <<alloc, next_free, children, parent, key, world>>

FreeRoot(t) ==
  /\ pc[t] = "free_root"
  /\ alloc' = alloc \ {Root}
  /\ Return(t)
  /\ UNCHANGED <<refcount, next_free, children, parent, key, world>>

-----------------------------------------------------------------------------
(* swap_free_list_and_gc, from maybe_gc and from the destructor of RuleTree. *)

\* maybe_gc(&self), which calls gc(); resets the counter first.
MaybeGC(t) ==
  /\ CanCall(t)
  /\ tree = "alive"
  /\ ExclusiveGC => \A u \in Thread : pc[u] = "idle"
  /\ approximate_free_count > GCInterval
  /\ approximate_free_count' = 0
  /\ job' = [job EXCEPT ![t] = "gc"]
  /\ Goto(t, "gc_swap")
  /\ UNCHANGED <<heap, strong, tree, node, head, base, want, ret>>

\* RuleTree::drop(&mut self): nobody borrows the tree, but handles to its nodes
\* may outlive it and be cloned and dropped meanwhile.
DropTree(t) ==
  /\ CanCall(t)
  /\ tree = "alive"
  /\ \A u \in Thread : job[u] \notin {"ensure", "gc"}
  /\ tree' = "dropping"
  /\ approximate_free_count' = 0
  /\ job' = [job EXCEPT ![t] = "droptree"]
  /\ Goto(t, "gc_swap")
  /\ UNCHANGED <<heap, strong, node, head, base, want, ret>>

StealList(t, left) ==
  /\ pc[t] = "gc_swap"
  /\ head' = [head EXCEPT ![t] = next_free[Root]]
  /\ next_free' = [next_free EXCEPT ![Root] = left]
  /\ Goto(t, "gc_pop")
  /\ UNCHANGED <<alloc, refcount, children, parent, key, world, node, base, want, ret, job>>

\* Mutant: the destructor leaves an empty free list instead of none.
GCSwap_LeavesList(t) == StealList(t, DANGLING)

\* Steal the free list; a tree that is going away leaves none behind.
GCSwap(t) == StealList(t, IF job[t] = "gc" THEN DANGLING ELSE NULL)

\* Mutant: loads the next pointer instead of swapping it with null.
GCPop_KeepsLink(t) ==
  /\ pc[t] = "gc_pop"
  /\ head[t] # DANGLING
  /\ node' = [node EXCEPT ![t] = head[t]]
  /\ head' = [head EXCEPT ![t] = next_free[head[t]]]
  /\ Goto(t, "gc_dec")
  /\ UNCHANGED <<heap, world, base, want, ret, job>>

GCPop(t) ==
  /\ pc[t] = "gc_pop"
  /\ head[t] # DANGLING
  /\ node' = [node EXCEPT ![t] = head[t]]
  /\ head' = [head EXCEPT ![t] = next_free[head[t]]]
  /\ next_free' = [next_free EXCEPT ![head[t]] = NULL]
  /\ Goto(t, "gc_dec")
  /\ UNCHANGED <<alloc, refcount, children, parent, key, world, base, want, ret, job>>

GCRelease(t) ==
  LET n == node[t] IN
  /\ pc[t] = "gc_dec"
  /\ SubRef(n)
  /\ IF refcount[n] = 1
     THEN OnZero(t, n, "unlink") /\ UNCHANGED <<head, base, want, job>>
     ELSE Return(t)
  /\ UNCHANGED <<alloc, next_free, children, parent, key, world>>

GCEnd(t) ==
  /\ pc[t] = "gc_pop"
  /\ head[t] = DANGLING
  /\ head' = [head EXCEPT ![t] = NULL]
  /\ Goto(t, IF job[t] = "gc" THEN "idle" ELSE "drop_root")
  /\ job' = [job EXCEPT ![t] = IF @ = "gc" THEN "none" ELSE "drop"]
  /\ UNCHANGED <<heap, world, node, base, want, ret>>

\* The `root` field of the tree is dropped after RuleTree::drop.
DropRootField(t) ==
  /\ pc[t] = "drop_root"
  /\ tree' = "dropped"
  /\ SubRef(Root)
  /\ IF refcount[Root] = 1
     THEN OnZero(t, Root, "none") /\ UNCHANGED <<head, base, want, job>>
     ELSE Return(t)
  /\ UNCHANGED <<alloc, next_free, children, parent, key, strong, approximate_free_count>>

-----------------------------------------------------------------------------
(* ensure_child and WeakRuleNode::upgrade. *)

\* The bound on ensure_child: room for one more box per pending insertion and
\* for one more handle to a child that is there.
WithinBounds(p, k) ==
  IF children[p][k] = NULL
  THEN Cardinality(NonRoot \ alloc) > Cardinality({u \in Thread : pc[u] = "ensure_write"})
  ELSE strong[children[p][k]] < MaxStrong

\* upgrade the child c of p found under a lock that t keeps, at l, while it
\* waits for the thread that dropped the last reference.
Upgrade(t, p, c, l) ==
  /\ AddRef(c)
  /\ IF refcount[c] = 0
     THEN /\ Goto(t, l)
          /\ node' = [node EXCEPT ![t] = c]
          /\ base' = [base EXCEPT ![t] = p]
          /\ job' = [job EXCEPT ![t] = "ensure"]
          /\ UNCHANGED strong
     ELSE /\ strong' = [strong EXCEPT ![c] = @ + 1]
          /\ Goto(t, "idle")
          /\ base' = [base EXCEPT ![t] = NULL]
          /\ job' = [job EXCEPT ![t] = "none"]
          /\ UNCHANGED node
  /\ want' = [want EXCEPT ![t] = NULL]

\* ensure_child up to the end of its read-locked lookup.
EnsureRead(t, p, k) ==
  LET c == children[p][k] IN
  /\ CanCall(t)
  /\ tree = "alive" /\ (strong[p] > 0 \/ p = Root)
  /\ WithinBounds(p, k)
  /\ ~ WriteHeld(p)
  /\ IF c # NULL
     THEN Upgrade(t, p, c, "spin_read")
     ELSE /\ Goto(t, "ensure_write")
          /\ base' = [base EXCEPT ![t] = p]
          /\ want' = [want EXCEPT ![t] = k]
          /\ job' = [job EXCEPT ![t] = "ensure"]
          /\ UNCHANGED <<refcount, strong, node>>
  /\ UNCHANGED <<alloc, next_free, children, parent, key, tree,
                 approximate_free_count, head, ret>>

\* The write-locked lookup finds that another thread inserted the child.
EnsureOccupied(t) ==
  LET p == base[t] c == children[p][want[t]] IN
  /\ pc[t] = "ensure_write"
  /\ ~ WriteHeld(p) /\ ~ ReadHeld(p)
  /\ c # NULL
  /\ Upgrade(t, p, c, "spin_write")
  /\ UNCHANGED <<alloc, next_free, children, parent, key, tree,
                 approximate_free_count, head, ret>>

\* Box a new node with a handle to its parent, and enter it in the map.
Insert(t, n) ==
  LET p == base[t] k == want[t] IN
  /\ n \in NonRoot \ alloc
  /\ alloc' = alloc \cup {n}
  /\ refcount' = [refcount EXCEPT ![n] = 1, ![p] = @ + 1]
  /\ next_free' = [next_free EXCEPT ![n] = NULL]
  /\ children' = [children EXCEPT ![p][k] = n]
  /\ parent' = [parent EXCEPT ![n] = p]
  /\ key' = [key EXCEPT ![n] = k]
  /\ strong' = [strong EXCEPT ![n] = 1]
  /\ Goto(t, "idle")
  /\ job' = [job EXCEPT ![t] = "none"]
  /\ base' = [base EXCEPT ![t] = NULL]
  /\ want' = [want EXCEPT ![t] = NULL]
  /\ UNCHANGED <<tree, approximate_free_count, node, head, ret>>

\* Mutant: does not look again after taking the write lock.
EnsureVacant_NoRecheck(t, n) ==
  pc[t] = "ensure_write" /\ ~ WriteHeld(base[t]) /\ ~ ReadHeld(base[t]) /\ Insert(t, n)

\* The entry is vacant.
EnsureVacant(t, n) ==
  /\ pc[t] = "ensure_write"
  /\ ~ WriteHeld(base[t]) /\ ~ ReadHeld(base[t])
  /\ children[base[t]][want[t]] = NULL
  /\ Insert(t, n)

\* The wait of upgrade ends: the node is (or pretends to be) on the free list.
UpgradeSpin(t) ==
  LET c == node[t] IN
  /\ pc[t] \in {"spin_read", "spin_write"}
  /\ next_free[c] # NULL
  /\ strong' = [strong EXCEPT ![c] = @ + 1]
  /\ Goto(t, "idle")
  /\ job' = [job EXCEPT ![t] = "none"]
  /\ node' = [node EXCEPT ![t] = NULL]
  /\ base' = [base EXCEPT ![t] = NULL]
  /\ UNCHANGED <<heap, tree, approximate_free_count, head, want, ret>>

-----------------------------------------------------------------------------
\* A step of the operation t is in.
Step(t) ==
  \/ PretendIncrement(t) \/ PretendStore(t)
  \/ PushCount(t) \/ PushLoad(t) \/ PushStore(t) \/ PushExchange(t) \/ PushExchangeFails(t)
  \/ UnlinkLock(t) \/ UnlinkResurrected(t) \/ Unlock(t) \/ UnlinkRemove(t)
  \/ DropParentRef(t) \/ FreeRoot(t)
  \/ GCSwap(t) \/ GCPop(t) \/ GCRelease(t) \/ GCEnd(t) \/ DropRootField(t)
  \/ EnsureOccupied(t) \/ (\E n \in NonRoot : EnsureVacant(t, n)) \/ UpgradeSpin(t)

\* A call into the rule tree.
Call(t) ==
  \/ \E n \in Node : Clone(t, n) \/ StrongDrop(t, n)
  \/ \E p \in Node, k \in Key : EnsureRead(t, p, k)
  \/ MaybeGC(t) \/ DropTree(t)

Next == \E t \in Thread : Call(t) \/ Step(t)

Spec == Init /\ [][Next]_vars

-----------------------------------------------------------------------------
(* Ownership, as the comments of the code describe it. *)

\* A thread that has seen the count of a node reach zero and has not yet put
\* it on the free list, freed it or found it resurrected.
CustodyState ==
  {"pretend", "pretend_store", "push_count", "push_load", "push_store",
   "push_exchange", "unlink", "unlink_dec"}
Custody(t, n) == pc[t] \in CustodyState /\ node[t] = n

\* The node really is on the free list, or on a list stolen by a collection.
Listed(n) ==
  /\ n \in alloc \ {Root}
  /\ next_free[n] # NULL
  /\ \A t \in Thread : ~ Custody(t, n)

\* Control states in which a thread owns one count of its node: the "pretend"
\* count, a stolen list's, an upgraded reference, a freed child's parent.
HoldingState ==
  {"pretend_store", "push_count", "push_load", "push_store", "push_exchange",
   "unlink", "unlink_dec", "dec_parent", "gc_dec", "spin_read", "spin_write"}

Holders(n) == {t \in Thread : pc[t] \in HoldingState /\ node[t] = n}
Children(n) == {c \in alloc : parent[c] = n}
Bit(b) == IF b THEN 1 ELSE 0

\* Every count is accounted for: the reference count of a node is the number of
\* its handles, its children, its references in flight, its free list entry and
\* the tree's own reference, whatever clones, drops, resurrections and
\* collections are interleaved (the refcount comment of RuleNode).
RefcountExact ==
  \A n \in Node :
    refcount[n] = strong[n] + Cardinality(Children(n)) + Cardinality(Holders(n))
                  + Bit(Listed(n)) + Bit(n = Root /\ tree # "dropped")

\* No thread is about to dereference a node that has been freed, and neither a
\* handle nor a map entry nor a parent pointer leads to one.
NoUseAfterFree ==
  /\ \A n \in Node : strong[n] > 0 => n \in alloc
  /\ \A c \in alloc : parent[c] # NULL => parent[c] \in alloc
  /\ \A p \in alloc, k \in Key : children[p][k] # NULL => children[p][k] \in alloc
  /\ \A t \in Thread :
       /\ node[t] # NULL => node[t] \in alloc
       /\ base[t] # NULL => base[t] \in alloc
       /\ pc[t] \in {"push_count", "push_load", "push_store", "push_exchange", "gc_swap"}
            => Root \in alloc
       /\ pc[t] = "gc_pop" /\ head[t] # DANGLING => head[t] \in alloc

\* Interning: the children maps hold exactly the live nodes, so two live nodes
\* never stand for the same rule under the same parent ("we don't duplicate
\* child nodes, but share them").
Interned ==
  /\ \A p \in Node, k \in Key, c \in NonRoot :
       children[p][k] = c <=> c \in alloc /\ parent[c] = p /\ key[c] = k
  /\ \A c, d \in alloc : parent[c] = parent[d] /\ key[c] = key[d] => c = d

\* The free list pointers that are list heads: the root's, while the tree has a
\* free list, and the ones a collection is walking.
ListHeads ==
  {h \in {next_free[Root]} \cup {head[t] : t \in {u \in Thread : job[u] \in {"gc", "droptree"}}} :
     h \in Node}

\* Nodes reached from h along next_free.
Chain(h) ==
  LET walk[i \in 0..Cardinality(NonRoot)] ==
        IF i = 0 THEN {h}
        ELSE walk[i - 1] \cup {next_free[x] : x \in walk[i - 1] \cap NonRoot}
  IN walk[Cardinality(NonRoot)] \cap Node

\* The free lists are sound: they consist of the listed nodes, each on one list
\* and ending in DANGLING, and a listed node's count never goes below 1 ("The
\* refcount of nodes on the free list never goes below 1").
FreeListSound ==
  /\ UNION {Chain(h) : h \in ListHeads} = {n \in NonRoot : Listed(n)}
  /\ \A n \in NonRoot : Listed(n) => refcount[n] >= 1
  /\ \A m, n \in NonRoot :
       Listed(m) /\ Listed(n) /\ m # n =>
         next_free[m] # next_free[n] \/ next_free[m] = DANGLING
  /\ \A h \in ListHeads : \A n \in NonRoot : Listed(n) => next_free[n] # h

\* At most one thread answers for a dead node ("Two threads should never
\* attempt to put the same node on the free list both at the same time").
OneCustodian ==
  \A t, u \in Thread, n \in Node :
    (Custody(t, n) \/ (pc[t] = "free_root" /\ node[t] = n))
      /\ (Custody(u, n) \/ (pc[u] = "free_root" /\ node[u] = n)) => t = u

\* The debug assertions on next_free and refcount that the code makes at the
\* entry of its steps.
DebugAssertions ==
  \A t \in Thread :
    /\ pc[t] \in {"pretend", "pretend_store"} => next_free[node[t]] = NULL
    /\ pc[t] = "push_count" => refcount[node[t]] > 0 /\ next_free[node[t]] = DANGLING
    /\ pc[t] = "push_store" => head[t] # node[t]
    /\ pc[t] = "unlink" => next_free[node[t]] # NULL
    /\ pc[t] = "unlink_dec" => refcount[node[t]] # 0
    /\ pc[t] = "free_root" => next_free[Root] = NULL /\ refcount[Root] = 0
    /\ pc[t] = "gc_swap" => next_free[Root] # NULL
    /\ pc[t] = "gc_pop" => head[t] \notin {NULL, Root}

\* Once the tree is dropped, every call has returned and no handle is left, no
\* node is left either: neither the free list nor a lost race leaks one.
NoLeak ==
  tree = "dropped" /\ (\A t \in Thread : pc[t] = "idle") /\ (\A n \in Node : strong[n] = 0)
    => alloc = {}

\* maybe_gc sees all the garbage there is: until a collection resets it, the
\* counter is at least the length of the free list.
CounterCoversFreeList ==
  ExclusiveGC /\ tree = "alive" /\ (\A t \in Thread : pc[t] # "gc_swap")
    => approximate_free_count >= Cardinality(Chain(next_free[Root]))

\* A thread spins in upgrade only for a node whose custodian will store to
\* next_free, so that the wait ends.  Needs the contract of gc().
SpinnerIsAwaited ==
  ExclusiveGC => \A t \in Thread :
    pc[t] \in {"spin_read", "spin_write"} =>
      next_free[node[t]] # NULL \/ \E u \in Thread :
        pc[u] \in {"pretend", "pretend_store"} /\ node[u] = node[t]

\* "The refcount should never be decremented to zero if the value in next_free
\* is not null" (RuleNode::refcount).
NeverZeroOnFreeList ==
  [][\A n \in NonRoot :
       refcount[n] > 0 /\ refcount'[n] = 0 => next_free[n] = NULL]_vars

\* A node is freed only when nothing refers to it: no handle, no child, no
\* thread in the middle of resurrecting it.
FreedOnlyWhenUnreachable ==
  [][\A n \in alloc \ alloc' :
       /\ strong[n] = 0
       /\ \A k \in Key : children'[n][k] = NULL
       /\ \A t \in Thread : pc'[t] # "idle" => node'[t] # n
       /\ \A p \in Node, k \in Key : children'[p][k] # n]_vars

-----------------------------------------------------------------------------
\* The rule tree implements the abstract tree of shared nodes: a handle exists
\* from the moment the call that makes it returns, and a node disappears when
\* its last owner unlinks it.
Abstract ==
  INSTANCE RuleTreeAbstract WITH
    live <- alloc, handles <- strong, open <- tree = "alive"

\* Seen from outside, the atomic steps of all the threads add up to the steps
\* of the abstract tree: ensure_child always returns the one node for the key,
\* and only nodes that nothing refers to go away.
ImplementsAbstract == Abstract!AbstractSpec

\* Every call into the rule tree returns, the spinning and the locked ones too,
\* when gc() is only called with no other thread in the tree.
EveryCallReturns == \A t \in Thread : pc[t] # "idle" ~> pc[t] = "idle"

-----------------------------------------------------------------------------
\* Threads are scheduled, and a compare_exchange_weak that can succeed again
\* and again does not fail for ever.
Fairness ==
  \A t \in Thread : WF_vars(Step(t)) /\ SF_vars(PushExchange(t))

FairSpec == Spec /\ Fairness
=============================================================================
