-------------------------- MODULE ParallelTraversal --------------------------
(* The parallel traversal of a tree (parallel.rs, driver.rs and the          *)
(* bottom-up part of traversal.rs). A task is a queue of elements that a     *)
(* thread works through breadth first; when the next level has gathered      *)
(* enough of them, the thread keeps some and hands the rest to the pool in   *)
(* chunks. An element whose children are all done is processed on the way    *)
(* up by the thread that was done last.                                      *)
(*                                                                           *)
(* Which children are to be visited is a parameter of Preorder here, and     *)
(* RestyleTraversal's subject.                                               *)
EXTENDS DomTree, SequencesExt

CONSTANTS
  Thread,
  MainThread,      \* where the traversal begins: the pool runs on it too
  WorkUnitMax,     \* layout.css.stylo-work-unit-size
  LocalQueueSize   \* [Thread -> how much a thread keeps], less for workers than for the main thread

ASSUME ParallelAssumption ==
  /\ MainThread \in Thread
  /\ WorkUnitMax \in Nat \ {0}
  /\ LocalQueueSize \in [Thread -> Nat]

VARIABLES
  pool,       \* the tasks spawned and not started: elements and their depth
  at,         \* where each thread is in style_trees
  discovered, \* the queue of its task
  remaining,  \* nodes_remaining_at_current_depth
  depth,      \* current_dom_depth of its context
  node,       \* the element in hand; an ancestor of it, on the way up
  toProcess,  \* the children that the element in hand has noted
  counter,    \* [Element -> children_to_process in the element]
  start,      \* traversal_root
  asked, down, noted, up   \* history: what TraversalOrder speaks of

locals == <<at, discovered, remaining, depth, node, toProcess>>
history == <<asked, down, noted, up>>
pvars == <<pool, locals, counter, start, history>>

Task == [items : Seq(Element), depth : Nat]

ParallelInit ==
  /\ start \in Element
  /\ pool = {}
  /\ at = [t \in Thread |-> IF t = MainThread THEN "next" ELSE "idle"]
  /\ discovered = [t \in Thread |-> IF t = MainThread THEN <<start>> ELSE <<>>]
  /\ remaining = [t \in Thread |-> IF t = MainThread THEN 1 ELSE 0]
  /\ depth = [t \in Thread |-> IF t = MainThread THEN Depth(start) ELSE 0]
  /\ node = [t \in Thread |-> Root]
  /\ toProcess = [t \in Thread |-> 0]
  /\ counter = [e \in Element |-> 0]
  /\ asked = {start} /\ down = {} /\ up = {}
  /\ noted = [e \in Element |-> {}]

-----------------------------------------------------------------------------
(* A task.                                                                  *)

TakeTask(t) ==
  /\ at[t] = "idle"
  /\ \E task \in pool :
       /\ pool' = pool \ {task}
       /\ discovered' = [discovered EXCEPT ![t] = task.items]
       /\ remaining' = [remaining EXCEPT ![t] = Len(task.items)]
       /\ depth' = [depth EXCEPT ![t] = task.depth]
  /\ at' = [at EXCEPT ![t] = "next"]
  /\ UNCHANGED <<node, toProcess, counter, start, history>>

\* process_preorder: the first element of the queue notes the children kids.
PreorderNoting(t, kids) ==
  LET e == Head(discovered[t])
  IN /\ at[t] = "next" /\ discovered[t] # <<>>
     /\ node' = [node EXCEPT ![t] = e]
     /\ discovered' = [discovered EXCEPT ![t] = Tail(@) \o kids]
     /\ toProcess' = [toProcess EXCEPT ![t] = Len(kids)]
     /\ at' = [at EXCEPT ![t] = "noted"]
     /\ down' = down \cup {e}
     /\ asked' = asked \cup ToSet(kids)
     /\ noted' = [noted EXCEPT ![e] = ToSet(kids)]
     /\ UNCHANGED <<pool, remaining, depth, counter, start, up>>

EndTask(t) ==
  /\ at[t] = "next" /\ discovered[t] = <<>>
  /\ at' = [at EXCEPT ![t] = "idle"]
  /\ UNCHANGED <<pool, discovered, remaining, depth, node, toProcess, counter, start, history>>

-----------------------------------------------------------------------------
(* handle_postorder_traversal. The counter of an element is set before its   *)
(* children are visible to another thread; the children's threads count it   *)
(* down, each in one atomic step.                                            *)

StoreChildrenToProcess(t) ==
  /\ at[t] = "noted" /\ toProcess[t] # 0
  /\ counter' = [counter EXCEPT ![node[t]] = toProcess[t]]
  /\ at' = [at EXCEPT ![t] = "handled"]
  /\ UNCHANGED <<pool, discovered, remaining, depth, node, toProcess, start, history>>

\* process_postorder.
Postorder(t) ==
  /\ at[t] = "noted" /\ toProcess[t] = 0
  /\ up' = up \cup {node[t]}
  /\ at' = [at EXCEPT ![t] = IF node[t] = start THEN "handled" ELSE "processed"]
  /\ UNCHANGED <<pool, discovered, remaining, depth, node, toProcess, counter, start,
                 asked, down, noted>>

\* Mutant: the last child in the order of the tree goes on to the parent.
LastInOrder(t) == node[t] = Last(Children[TraversalParent(node[t])])

\* Mutant: the count is read before it is lowered.
CountReadBefore(t) == counter[TraversalParent(node[t])] = 0

\* fetch_sub gives the count before.
IsLastChild(t) == counter[TraversalParent(node[t])] = 1

\* did_process_child, and on to the parent if this was its last child.
DidProcessChild(t) ==
  LET parent == TraversalParent(node[t])
  IN /\ at[t] = "processed"
     /\ counter' = [counter EXCEPT ![parent] = @ - 1]
     /\ IF IsLastChild(t)
        THEN node' = [node EXCEPT ![t] = parent] /\ at' = [at EXCEPT ![t] = "noted"]
        ELSE at' = [at EXCEPT ![t] = "handled"] /\ UNCHANGED node
     /\ UNCHANGED <<pool, discovered, remaining, depth, toProcess, start, history>>

-----------------------------------------------------------------------------
(* The rest of the loop in style_trees: hand out work, go on to the next     *)
(* level.                                                                    *)

\* Mutant: only the local queue is kept.
KeptLocalOnly(t, left) == LocalQueueSize[t]

\* What stays of the queue when work is handed out, with left elements of this level to do.
KeptWork(t, left) == IF left > LocalQueueSize[t] THEN left ELSE LocalQueueSize[t]

Chunks(items) ==
  {SubSeq(items, i * WorkUnitMax + 1,
          IF (i + 1) * WorkUnitMax < Len(items) THEN (i + 1) * WorkUnitMax ELSE Len(items)) :
     i \in {j \in 0..Len(items) : j * WorkUnitMax < Len(items)}}

\* distribute_work.
Tasks(items, d) == {[items |-> c, depth |-> d] : c \in Chunks(items)}

HasWorkToShare(t, left) ==
  /\ Len(discovered[t]) - left >= WorkUnitMax
  /\ Len(discovered[t]) >= LocalQueueSize[t] + WorkUnitMax

FinishNode(t) ==
  LET left == remaining[t] - 1
      keep == IF HasWorkToShare(t, left) THEN KeptWork(t, left) ELSE Len(discovered[t])
  IN /\ at[t] = "handled"
     /\ pool' = pool \cup Tasks(SubSeq(discovered[t], keep + 1, Len(discovered[t])), depth[t] + 1)
     /\ discovered' = [discovered EXCEPT ![t] = SubSeq(@, 1, keep)]
     /\ remaining' = [remaining EXCEPT ![t] = IF left = 0 THEN keep ELSE left]
     /\ depth' = [depth EXCEPT ![t] = IF left = 0 THEN @ + 1 ELSE @]
     /\ at' = [at EXCEPT ![t] = "next"]
     /\ UNCHANGED <<node, toProcess, counter, start, history>>

-----------------------------------------------------------------------------
\* The preorder step, whichever children it notes: each at most once.
AnyPreorder(t) ==
  LET kids == Kids(Head(discovered[t]))
  IN /\ discovered[t] # <<>>
     /\ \E noting \in BoundedSeq(kids, Cardinality(kids)) :
          IsInjective(noting) /\ PreorderNoting(t, noting)

\* Everything a thread does but for the preorder step.
TaskStep(t) ==
  \/ TakeTask(t) \/ EndTask(t)
  \/ StoreChildrenToProcess(t) \/ Postorder(t) \/ DidProcessChild(t)
  \/ FinishNode(t)

\* The traversal of a tree, whatever visiting an element does: what the theorems are about.
ParallelNext == \E t \in Thread : AnyPreorder(t) \/ TaskStep(t)
ParallelSpec == ParallelInit /\ [][ParallelNext]_pvars

\* A thread of the pool takes tasks, and works on its own, as long as there is work: whatever visiting an
\* element does, it ends.
Visits(t) == at[t] = "next" /\ discovered[t] # <<>> /\ at' = [at EXCEPT ![t] = "noted"]
Fairness == \A t \in Thread : WF_at(TaskStep(t) \/ Visits(t))

\* The scope of the pool ends when nothing is left to do.
AllDone == pool = {} /\ \A t \in Thread : at[t] = "idle"

-----------------------------------------------------------------------------
(* Properties.                                                              *)

Waiting == (UNION {ToSet(task.items) : task \in pool}) \cup (UNION {ToSet(discovered[t]) : t \in Thread})

TypeOK ==
  /\ pool \subseteq Task
  /\ at \in [Thread -> {"idle", "next", "noted", "processed", "handled"}]
  /\ discovered \in [Thread -> Seq(Element)]
  /\ remaining \in [Thread -> Nat] /\ depth \in [Thread -> Nat]
  /\ node \in [Thread -> Element] /\ toProcess \in [Thread -> Nat]
  /\ counter \in [Element -> Nat]
  /\ start \in Element
  /\ asked \subseteq Element /\ down \subseteq asked /\ up \subseteq down
  /\ noted \in [Element -> SUBSET Element]

\* No two elements that wait to be visited, in whatever queues, are the same or one above the other:
\* the data that visiting one writes, its own and its descendants', are not touched by another
\* thread (SendNode's contract, and why element data need no lock).
WaitingAreUnrelated ==
  /\ \A e \in Waiting : Ancestors(e) \cap Waiting = {}
  /\ \A t \in Thread : \A i, j \in DOMAIN discovered[t] : discovered[t][i] = discovered[t][j] => i = j
  /\ \A t, u \in Thread : t # u => ToSet(discovered[t]) \cap ToSet(discovered[u]) = {}
  /\ \A task \in pool : \A t \in Thread : ToSet(task.items) \cap ToSet(discovered[t]) = {}
  /\ \A task, other \in pool : task # other => ToSet(task.items) \cap ToSet(other.items) = {}

\* A thread always knows the depth of the elements in its queue, across handing out, taking over and
\* changing levels: what insert_parents_recovering relies on.
DepthsAreKnown ==
  /\ \A task \in pool : \A e \in ToSet(task.items) : Depth(e) = task.depth
  /\ \A t \in Thread : at[t] = "next" => \A i \in DOMAIN discovered[t] :
       Depth(discovered[t][i]) = IF i <= remaining[t] THEN depth[t] ELSE depth[t] + 1

\* The state has its type, no counter is below zero, and the queues are sound.
QueuesSound == TypeOK /\ WaitingAreUnrelated /\ DepthsAreKnown

\* The way up visits each element once and after its children, whichever threads they are on: the
\* traversal implements TraversalOrder.
Order == INSTANCE TraversalOrder
ImplementsOrder == Order!OrderSpec

\* Every visit comes to an end, with all that was asked for done on both ways.
Terminates == <>[](AllDone /\ down = asked /\ up = asked)
=============================================================================
