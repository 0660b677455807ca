------------------------- MODULE RuleTreeInductive -------------------------
(***************************************************************************)
(* The inductive invariant of the rule tree: why the counts are exact and  *)
(* no freed node is reached.  A node's count never lies (RefcountExact),   *)
(* so whoever takes it to zero is alone with the node, except for threads  *)
(* that wait for it in upgrade; the links of the free lists form chains of *)
(* nodes that each own a count.  ListInv adds what holds of the lists as   *)
(* wholes: no cycle and no loose end, a counter that covers them, and no   *)
(* dead node without a thread that answers for it.                         *)
(***************************************************************************)
EXTENDS RuleTree

SpinState == {"spin_read", "spin_write"}
WriteState == {"unlink_dec", "unlock", "spin_write"}
EnsureState == {"ensure_write", "spin_read", "spin_write"}

\* A thread that walks a stolen list.
Walking(t) == job[t] \in {"gc", "droptree"} /\ pc[t] # "gc_swap"

\* The thread that is running the destructor of the tree.
Dropping(t) == job[t] = "droptree" \/ pc[t] = "drop_root"

\* The boxes: fields of the live ones point to live ones, a freed one is blank
\* and its count is zero, and parent pointers have no cycle.
HeapShape ==
  /\ \A n \in alloc \ {Root} : parent[n] \in alloc /\ key[n] \in Key
  /\ parent[Root] = NULL /\ key[Root] = NULL
  /\ \A n \in Node \ alloc : refcount[n] = 0 /\ parent[n] = NULL
  /\ \A p \in Node, k \in Key, c \in NonRoot :
       children[p][k] = c <=> c \in alloc /\ parent[c] = p /\ key[c] = k
  /\ \A S \in SUBSET (alloc \ {Root}) : S # {} => \E n \in S : parent[n] \notin S
  /\ Root \notin alloc => alloc = {}

\* What the control state of a thread says about its local variables.
ThreadShape ==
  \A t \in Thread :
    /\ pc[t] \in CustodyState => node[t] \in alloc \ {Root}
    /\ pc[t] \in {"pretend", "pretend_store"} => ret[t] \in {"push_count", "unlink"}
    /\ pc[t] \in {"push_count", "push_load", "push_store", "push_exchange"} => job[t] = "drop"
    /\ pc[t] \in {"pretend", "pretend_store"} /\ ret[t] = "push_count" => job[t] = "drop"
    /\ pc[t] \in {"gc_dec"} \cup SpinState => node[t] \in NonRoot
    /\ pc[t] = "dec_parent" => node[t] \in Node
    /\ pc[t] \in EnsureState <=> job[t] = "ensure"
    /\ pc[t] \in EnsureState =>
         /\ tree = "alive" /\ base[t] \in Node
         /\ base[t] = Root \/ strong[base[t]] > 0
    /\ pc[t] = "ensure_write" => want[t] \in Key
    /\ pc[t] \in SpinState => parent[node[t]] = base[t]
    /\ pc[t] = "unlink_dec" => base[t] = parent[node[t]]
    /\ pc[t] = "unlock" => base[t] \in Node /\ \E c \in alloc : parent[c] = base[t]
    /\ pc[t] = "free_root" => node[t] = Root /\ Root \in alloc /\ refcount[Root] = 0
    /\ pc[t] = "idle" <=> job[t] = "none"
    /\ pc[t] \in {"gc_swap", "gc_pop", "gc_dec"} => job[t] \in {"gc", "droptree"}
    /\ pc[t] = "drop_root" => job[t] = "drop"
    /\ pc[t] \in {"idle", "ensure_write", "gc_swap", "gc_pop", "unlock", "drop_root"} => node[t] = NULL
    /\ pc[t] \notin EnsureState \cup WriteState => base[t] = NULL
    /\ job[t] = "gc" => tree = "alive"
    /\ Dropping(t) => tree = "dropping"

\* A children map is locked by one writer or by readers.
LocksExclusive ==
  \A t, u \in Thread :
    pc[t] \in WriteState /\ pc[u] \in WriteState \cup {"spin_read"} /\ base[t] = base[u] => t = u

OneDropper == \A t, u \in Thread : Dropping(t) /\ Dropping(u) => t = u

OneCustody ==
  /\ \A t, u \in Thread, n \in Node : Custody(t, n) /\ Custody(u, n) => t = u
  /\ \A t, u \in Thread : pc[t] = "free_root" /\ pc[u] = "free_root" => t = u

\* A collection that is about to drop a list's count is alone with the node.
PoppedIsFree ==
  \A t, u \in Thread : pc[t] = "gc_dec" => ~ Custody(u, node[t])

\* A dead node has been found again only by threads that wait for it.
OnlySpinnersResurrect ==
  \A t \in Thread :
    pc[t] = "pretend" /\ refcount[node[t]] > 0
      => \E u \in Thread : pc[u] \in SpinState /\ node[u] = node[t]

\* What the next_free of the node of a thread in the middle of an operation is.
NextFreeShape ==
  \A t \in Thread :
    /\ pc[t] \in {"pretend", "pretend_store", "unlink_dec", "gc_dec"} => next_free[node[t]] = NULL
    /\ pc[t] = "push_count" => next_free[node[t]] = DANGLING
    /\ pc[t] \in {"push_load", "push_store", "push_exchange", "unlink"} => next_free[node[t]] # NULL
    /\ pc[t] = "push_exchange" => next_free[node[t]] = head[t]
    /\ pc[t] \in {"push_store", "push_exchange"} => head[t] # NULL /\ head[t] # node[t]

Link(v) == v = DANGLING \/ (v \in NonRoot /\ Listed(v))
Linked(x) == x = Root \/ Listed(x)

\* Links lead to listed nodes, and no two links to the same one.
LinksSound ==
  /\ next_free[Root] = NULL \/ Link(next_free[Root])
  /\ next_free[Root] = NULL => tree # "alive"
  /\ tree = "dropped" => next_free[Root] = NULL
  /\ \A t \in Thread : pc[t] = "gc_swap" => next_free[Root] # NULL
  /\ \A t \in Thread : Dropping(t) /\ pc[t] # "gc_swap" => next_free[Root] = NULL
  /\ \A n \in NonRoot : Listed(n) => Link(next_free[n])
  /\ \A t \in Thread : Walking(t) => Link(head[t])
  /\ \A x, y \in Node : Linked(x) /\ Linked(y) /\ next_free[x] = next_free[y]
                          /\ next_free[x] \in NonRoot => x = y
  /\ \A t, u \in Thread : Walking(t) /\ Walking(u) /\ head[t] = head[u]
                            /\ head[t] \in NonRoot => t = u
  /\ \A t \in Thread, x \in Node :
       Walking(t) /\ Linked(x) /\ next_free[x] = head[t] => head[t] \notin NonRoot

IInv ==
  /\ TypeOK
  /\ HeapShape
  /\ ThreadShape
  /\ LocksExclusive
  /\ OneDropper
  /\ OneCustody
  /\ PoppedIsFree
  /\ OnlySpinnersResurrect
  /\ NextFreeShape
  /\ LinksSound
  /\ RefcountExact

-----------------------------------------------------------------------------
(* The free lists as a whole, and what gc()'s contract adds.               *)

\* A thread that pushes a node it has counted.
PushState == {"push_load", "push_store", "push_exchange"}

ListedNodes == {n \in NonRoot : Listed(n)}

\* A head that a thread has in hand is the one it expects or the list it walks.
HeadShape ==
  \A t \in Thread : head[t] # NULL => pc[t] \in {"push_store", "push_exchange"} \/ Walking(t)

\* The links have no cycle and no loose end: of any listed nodes, one is a head or follows another node.
ListsReach ==
  \A S \in SUBSET ListedNodes : S # {} =>
    \E n \in S : n \in ListHeads \/ \E m \in ListedNodes \ S : next_free[m] = n

\* Whoever took the count of a node to zero is still there to answer for it.
DeadAreAnswered ==
  \A n \in alloc : refcount[n] = 0 =>
    \E t \in Thread : node[t] = n /\ pc[t] = IF n = Root THEN "free_root" ELSE "pretend"

\* gc() is called by a thread that is alone in the tree, and stays so.
GCAlone == ExclusiveGC => \A t, u \in Thread : job[t] = "gc" /\ u # t => pc[u] = "idle"

\* The counter counts the nodes that are listed or are being pushed, from one collection to the next;
\* during a collection nothing is pushed.
CounterCoversListed ==
  ExclusiveGC /\ tree = "alive" =>
    /\ (\A t \in Thread : job[t] # "gc") =>
         approximate_free_count
           >= Cardinality(ListedNodes) + Cardinality({t \in Thread : pc[t] \in PushState})
    /\ \A t \in Thread : Walking(t) => next_free[Root] = DANGLING

ListInv ==
  /\ HeadShape
  /\ ListsReach
  /\ DeadAreAnswered
  /\ GCAlone
  /\ CounterCoversListed
  /\ SpinnerIsAwaited

\* All that is invariant: every node, thread and count (IInv), and the lists as wholes (ListInv).
Inv == IInv /\ ListInv
=============================================================================
