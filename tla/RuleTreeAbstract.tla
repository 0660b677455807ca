-------------------------- MODULE RuleTreeAbstract --------------------------
(***************************************************************************)
(* What the rule tree promises to the code that uses it: a tree of nodes   *)
(* shared by key, and handles that keep a node and its ancestors alive.    *)
(* There are no counts, no free list and no threads: asking for the child  *)
(* of a node gives the one node that stands for it, dead or not, and a     *)
(* node may disappear only when no handle and no child refers to it.       *)
(***************************************************************************)
EXTENDS Integers

CONSTANTS NonRoot, Root, Key, NULL

Node == NonRoot \cup {Root}

VARIABLES
  live,     \* the nodes in memory
  parent,   \* of a live node; NULL for the root
  key,      \* of a live node, under its parent; NULL for the root
  handles,  \* [Node -> number of StrongRuleNode values in use]
  open      \* whether the RuleTree value is still there

avars == <<live, parent, key, handles, open>>

AbstractInit ==
  /\ live = {Root}
  /\ parent = [n \in Node |-> NULL]
  /\ key = [n \in Node |-> NULL]
  /\ handles = [n \in Node |-> 0]
  /\ open = TRUE

Nameable(n) ==
  \/ handles[n] > 0
  \/ n = Root /\ open
  \/ \E c \in live : handles[c] > 0 /\ parent[c] = n

\* clone a handle, a handle's parent or the root.
Acquire(n) ==
  /\ n \in live /\ Nameable(n)
  /\ handles' = [handles EXCEPT ![n] = @ + 1]
  /\ UNCHANGED <<live, parent, key, open>>

\* drop a handle.
Release(n) ==
  /\ handles[n] > 0
  /\ handles' = [handles EXCEPT ![n] = @ - 1]
  /\ UNCHANGED <<live, parent, key, open>>

\* ensure_child: the child of p for k, n, is there.
Share(p, k, n) ==
  /\ open
  /\ p = Root \/ handles[p] > 0
  /\ n \in live /\ parent[n] = p /\ key[n] = k
  /\ handles' = [handles EXCEPT ![n] = @ + 1]
  /\ UNCHANGED <<live, parent, key, open>>

\* ensure_child: p has no child for k.
Create(p, k, n) ==
  /\ open
  /\ p = Root \/ handles[p] > 0
  /\ \A c \in live : ~ (parent[c] = p /\ key[c] = k)
  /\ n \in NonRoot \ live
  /\ live' = live \cup {n}
  /\ parent' = [parent EXCEPT ![n] = p]
  /\ key' = [key EXCEPT ![n] = k]
  /\ handles' = [handles EXCEPT ![n] = 1]
  /\ UNCHANGED open

\* A node nothing refers to goes away, some time.
Reclaim(n) ==
  /\ n \in live
  /\ handles[n] = 0
  /\ n = Root => ~ open
  /\ \A c \in live : parent[c] # n
  /\ live' = live \ {n}
  /\ parent' = [parent EXCEPT ![n] = NULL]
  /\ key' = [key EXCEPT ![n] = NULL]
  /\ UNCHANGED <<handles, open>>

\* The tree is dropped; its nodes stay as long as there are handles.
Close == open /\ open' = FALSE /\ UNCHANGED <<live, parent, key, handles>>

AbstractNext ==
  \/ \E n \in Node : Acquire(n) \/ Release(n) \/ Reclaim(n)
  \/ \E p \in Node, k \in Key, n \in NonRoot : Share(p, k, n) \/ Create(p, k, n)
  \/ Close

AbstractSpec == AbstractInit /\ [][AbstractNext]_avars
=============================================================================
