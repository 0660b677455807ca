# TLA+ models of the stylo style system

Stylo is the CSS style system shared by Firefox and Servo: it keeps the style sheets of a document,
turns them into indexed cascade data, matches selectors against elements, computes styles in a
parallel traversal of the DOM, and shares as much of the result as it can between elements and
threads. This directory holds TLA+ models of the parts where an order of events can go wrong, the TLC
configurations that check them, and TLAPS proofs about the rule tree, the cascade data of documents and shadow roots, the parallel
traversal and the restyle.

Paths below are relative to the repository. A definition carries the name of the code it stands for
where TLA+ allows it; `PROJECT.json` gives the exact lines.

## 1. The system and its components

| Component | State it keeps | Operations | Interacts with | What is hard | What makes it correct |
|---|---|---|---|---|---|
| Rule tree core (`style/rule_tree/core.rs`) | boxes of nodes with an atomic `refcount`, `next_free`, a locked map of children; free list head and counter in the root | clone, drop, `ensure_child`, `upgrade`, `maybe_gc`, drop of the tree | every thread of the traversal; computed values hold handles | lock-free: a dead node is resurrected while its last owner puts it on the free list; the tree is dropped before its nodes | counts exact, no use after free, one node per key, everything is freed, calls return |
| Rule tree insertion (`style/rule_tree/mod.rs`, `level.rs`, `source.rs`) | none of its own | `insert_ordered_rules_with_important`, `update_rule_at_level` | core; declaration blocks | important levels in reverse order, early exit when nothing changes | the path equals a rebuild in cascade order |
| Stylesheet set (`style/stylesheet_set.rs`) | per origin: the list, a committed mark per sheet, a validity, a dirty mark; pending invalidations | append, insert, remove, rule change, force dirty, flush | stylist, author styles | marks summarise a history of changes between two flushes | a flush rebuilds whatever is stale, and nothing less |
| Stylist (`style/stylist.rs`) | per origin `CascadeData`; device; caches | sheet operations forwarded, `flush`, `set_device`, `media_features_change_changed_style` | stylesheet set, invalidation, cache | incremental rebuilds; media queries evaluated at four places | the data equal those built from nothing |
| Cascade data cache (`CascadeDataCache` in `style/stylist.rs`) | key of sheet contents and media results to shared data | `lookup`, `take_unused` | stylist, author styles, other documents | entries outlive the state they were built from | a root never gets stale data |
| Author styles (`style/author_styles.rs`) | collection and data of a shadow root | sheet operations, flush | stylist's cache | roots are flushed in any order | as the stylist's |
| Stylesheet invalidation (`style/invalidation/stylesheets.rs`) | selectors to invalidate, or everything | collect for a sheet or rule, process on the tree | stylesheet set, restyle hints | decided when the change is made, against old data | every element whose cascade changed is restyled |
| Element invalidation (`style/invalidation/element/`) | none between calls; snapshots | invalidation walk over descendants, siblings, shadow parts | selector maps, restyle hints | relative selectors look backwards | no element whose match changed is missed |
| Element data, restyle hints (`style/data.rs`, `restyle_hints.rs`) | styles, hint, damage, flags per element | hint propagation and consumption | traversal | a hint has to reach all it covers | an element is clean only if restyled |
| Parallel traversal (`style/parallel.rs`, `driver.rs`, `traversal.rs`) | work queues, per-thread contexts, a children counter per element | work split, preorder, postorder | rayon pool, element data, bloom filter | the last child to finish processes the parent | each element once, parents before children and after them on the way up |
| Ancestor bloom filter (`style/bloom.rs`, `selectors/bloom.rs`) | stack of ancestors, saturating counters | push, pop, `insert_parents_recovering` | traversal, matching | counters saturate; a thread jumps in the tree | no false negative |
| Reference counting (`servo_arc/lib.rs`) | an atomic count | clone, drop, `make_mut`, `is_unique`, statics | everything | orders of decrements, overflow | freed once, after the last use |
| Style sharing, rule cache (`style/sharing/`, `rule_cache.rs`) | an LRU of candidates with validation data | test, insert, clear per depth | traversal, selector matching | a candidate must be indistinguishable | shared styles equal the computed ones |
| Selector matching (`selectors/matching.rs`) | nth-index and `:has()` caches | match with backtracking | bloom filter, element | which combinator a failure restarts from | agrees with the declarative meaning |
| Selector parser, builder (`selectors/parser.rs`, `builder.rs`) | packed selectors | parse, iterate | matching | data, sequential | round trips |
| Rule collection (`style/rule_collector.rs`, `applicable_declarations.rs`) | none | collect the rules of each tree, sorted | stylist, rule tree insertion | shadow trees inside and outside the element's | rules come in cascade order |
| Selector maps (`style/selector_map.rs`) | buckets | insert, look up | stylist | a rule is in the bucket that is looked up | every rule that matches is found |
| Rule replacement (`style/matching.rs`) | none | replace the style attribute's and animations' rules | rule tree, animations | two traversals, declarations changed in place | as if matched anew |
| Style resolution (`style/style_resolver.rs`) | none | resolve one element | matching, cascade, sharing | inputs from everywhere | – |
| Cascade, custom properties (`style/properties/cascade.rs`, `custom_properties.rs`, `declaration_block.rs`) | declarations, custom property maps | cascade, substitution, CSSOM setters | rule tree | cycles of variables, importance | the highest declaration wins; cycles are invalid |
| Animations (`style/servo/animation.rs`) | a state per animation and transition | update, tick, cancel, reverse | embedder's clock | transitions replace each other, animations are updated while they run; the style is cascaded before the update | no jumps, one transition at a time, the computed style keeps up, everything finite ends |
| Shared lock, globals (`style/shared_lock.rs`, `global_style_data.rs`) | platform locks, thread pool | read, write | all | one lock for all sheets | guard matches lock |
| Queries (`style/queries`, `style/media_queries`, `style/device`) | the device | evaluate | stylist | three-valued logic | pure |
| Sheets and rules (`style/stylesheets`) | CSSOM containers | parse, insert, delete | stylesheet set | in-place edits | – |
| Atoms, Gecko glue; values and colours; Servo glue; derive crates | | | | FFI, data, traits, code generation | – |

## 2. Plan

Done in this order, because the rule tree is the code whose correctness rests on the subtlest
interleavings, the stylist is where all edits of a document meet, and the traversal is where the work of
a restyle is divided.

1. **RuleTree** – every atomic step. RuleTreeAbstract, its promise; RuleTreeInductive, its invariant;
   RuleTreeProofs. *Done.*
2. **CascadeData, StylesheetSet, Stylist** – incremental against full rebuild. *Done.*
3. **CascadeDataCache** – shadow roots and the shared cache, composed from StylesheetSet. *Done.*
4. **CascadePriority, RuleTreeInsert, ElementRules** – the order of rules, and the path of an element
   through matches and replacements against sorting in cascade order; ElementRulesProofs. *Done.*
5. **DomTree, TraversalOrder, ParallelTraversal** – who visits which element when, against the promise
   that each is visited once in order; ParallelTraversalProofs. *Done.*
6. **RestyleHints, StyleBloom, RestyleTraversal** – what visiting an element does: hints, dirty bits,
   snapshots and the ancestor filter, composed with 5. *Done.*
7. **SelectorMatching, SelectorMap, ElementInvalidation** – matching with backtracking against what
   selectors mean, buckets, and the walk from changed names to elements, on top of each other. *Done.*
8. **Fractions, Transitions, KeyframesAnimations, ElementAnimations** – Servo's animations. *Done.*

Next:

9. **SharingCache**, over SelectorMatching: a candidate that is accepted has the same rules.
10. **CustomProperties** (cycle detection), **DeclarationBlock**, the numbering of layers.
11. **ServoArc** – clone, drop, `make_mut` and static references against an abstract owner count.
12. More proofs: what a flush returns.

## 3. The models

### 3.1 RuleTree

*State.* The heap is a set `alloc` of boxes and one function per field of `RuleNode`: `refcount`,
`next_free`, `children`, `parent`, `key`. `strong` counts the `StrongRuleNode` values outside the
tree, per node; `tree` is the `RuleTree` value; `approximate_free_count` the counter in the root. Each
thread has a control state and the locals of the code it is in (`node` is the code's `this`, `head` the
list head, `base` the parent whose map is used).

*Actions.* One action is one atomic operation with the thread-local code around it. `Clone` and
`StrongDrop` are the handle operations; `PretendIncrement`/`PretendStore` are
`pretend_to_be_on_free_list`; `PushCount`, `PushLoad`, `PushStore`, `PushExchange` and
`PushExchangeFails` (a weak exchange may fail for no reason) are `push_on_free_list`; `UnlinkLock` to
`FreeRoot` are `drop_without_free_list`; `MaybeGC`, `DropTree`, `GCSwap`, `GCPop`, `GCRelease`, `GCEnd`
and `DropRootField` are `swap_free_list_and_gc` and its callers; `EnsureRead`, `EnsureOccupied`,
`EnsureVacant` and `UpgradeSpin` are `ensure_child` with `upgrade` and its spin loop. The lock of a
children map is not a variable: a guard lives in a stack frame, so `WriteHeld` and `ReadHeld` are read
off the control states. A critical section is one action when nothing in it is visible outside.

*Abstracted.* Sequential consistency: the orderings of the atomics are not modelled. A handle is taken
from wherever safe Rust can name a node (`Reachable`). The `RwLock` is atomic. Malloc-size and dump code
is left out.

*The promise.* RuleTreeAbstract has live nodes, handles and nothing else: no counts, no free list, no
threads. `Share` returns the one node for a key, dead or alive, `Reclaim` may take a node only when no
handle and no child refers to it. `ImplementsAbstract` is the refinement, with `live <- alloc`,
`handles <- strong` and `open <- (tree = "alive")`.

### 3.2 CascadeData, StylesheetSet, Stylist

CascadeData says what is built from sheets. A sheet is a sequence of rules of three kinds: a style rule,
an @media block with one style rule, and the definition of a custom media query. A condition is `all`,
`wide` (it depends on the device) or a custom query. The data of an origin keep four things: `rules` in
cascade order and the `custom` map (cascade data), `selectors` noted in the invalidation maps and the
`effective` queries (invalidation data). `Build` from nothing is the reference; `AddStylesheet` is
the code's incremental step, with `full` telling whether invalidation data are noted.

StylesheetSet has the collection of an origin – entries with their committed mark, `validity`, `dirty` –
with one operator per method, the flusher (`RebuildKind` is the match in `each`), `Rebuild`
(`CascadeData::rebuild`), and the invalidations of a sheet or rule.

Stylist is the state machine. Its actions are the embedder's calls: `AppendStylesheet`,
`InsertStylesheetBefore`, `RemoveStylesheet`, the three kinds of `rule_changed` (`InsertRule`,
`RemoveRule`, `ChangeMedia`), `SetDevice` with the force-dirty the embedder has to do, and
`Flush`. The calls are sequential in the code (`&mut self`), so each is one action. `flushed` is a history
variable and `returned` the output of the last flush. The user-agent origin comes from a cache that
may or may not answer.

### 3.3 CascadeDataCache

The cache between shadow roots. Data are compared by address in the code, so they have addresses here:
0 is the static empty data, the others are boxes that are reused after the last reference went away
(`KeepReferenced`). A root is a collection and an address. The embedder flushes the dirty roots one by
one (`FlushHit`, `FlushMiss`), in any order, and then drops unused entries (`EndRound`). A sheet
may be in several roots, as adopted sheets are; `InsertRule` and `RemoveRule` change it in place, which
leaves its key as it was. `Key` folds the sheets as `collect_applicable_media_query_results_into` does.

### 3.4 CascadePriority, RuleTreeInsert, ElementRules

CascadePriority is the two comparisons, of levels and of priorities. RuleTreeInsert takes a path of the
rule tree for the sequence of its nodes' sources and priorities (what `ensure_child` does to share them
is RuleTree's subject) and defines collecting, inserting, replacing and removing on such sequences. A
block of declarations is a name; `content` says whether it has normal and important declarations.

ElementRules is one element: what matches it, its style attribute and its animations change and leave
hints (`ChangeMatches`, `SetAttribute`, `ChangeAttributeInPlace`, `SetEffect`); `AnimationTraversal`
replaces the rules of animations, then `Match` or `ReplaceAttribute` handles the rest. The path after a
replacement is not the one a match gives, which keeps an empty style attribute, so paths are compared by
the declarations they give (`Effective`) with those declarations sorted by a key written from the CSS
cascade (`Cascaded`). `overriding` is what the animations were last told (Gecko's `CASCADE_RESULTS`).

`SlotsAssumption` keeps an element in fewer slots than three bits count. With seven, one inside the
other, `ShadowCascadeOrder::dec` stops at the limit but `inc` counts every slot back: the outermost
slot's rules come out at the level of the element's own tree and the debug assertion in `inc` fails.

### 3.5 DomTree, TraversalOrder, ParallelTraversal

DomTree is the tree the traversal sees. TraversalOrder is the promise: three sets of elements that were
asked for, visited on the way down and on the way up, and no threads.

ParallelTraversal is `style_trees`. A task is a queue of elements and their depth; `pool` has those
that were spawned and not started; a thread has `discovered`, `remaining` and `depth` as in the code. One
action is what a thread does between two points where another can notice: `TakeTask`, `PreorderNoting`
(which children are noted is a parameter), `StoreChildrenToProcess`, `Postorder`, `DidProcessChild` – the
atomic `fetch_sub`, after which the thread of the last child goes on at the parent – and `FinishNode`,
which hands out work (`HasWorkToShare`, `KeptWork`, `Chunks`) and goes on to the next level. `asked`,
`down`, `noted` and `up` are history variables and the variables of TraversalOrder at once.

### 3.6 RestyleHints, StyleBloom, RestyleTraversal

RestyleHints has the flags of `restyle_hints.rs`, how they pass to children and the kind of restyle they
ask for. StyleBloom is the counting filter – a hash has two slots, a full counter stays – and the stack
over it with its ways to push, pop, recover at another place of the tree, and clear, by hash or by memset.

RestyleTraversal composes the three: `Preorder` is `process_preorder` with all of `recalc_style_at` and
`note_children`, over the threads and queues of ParallelTraversal. `change` is what is pending when the
restyle begins: hints, snapshots, new elements, elements that were or become `display: none`, and for
each element the hint that its changed style gives its children. `PreTraverse` is `pre_traverse` with its
detour over the parent. Which elements a snapshot invalidates is a constant here, and the subject of 3.7.
`work` records what kind of restyle an element got. `ImplementsParallelTraversal` says that the restyle
is an instance of `ParallelSpec`, in which an element may note any of its children.

### 3.7 SelectorMatching, SelectorMap, ElementInvalidation

A selector is a sequence of compounds from the right to the left, as the code stores it; a simple selector
is a name with a kind (id, class, type, attribute, state, …) or an `:is()` or `:not()` of selectors.
`Means` is the reference, `MatchesComplexSelectorInternal` the code's search with its four kinds of failure
(`AfterFailure`), behind the test of ancestor hashes (`SelectorMayMatch`). SelectorMap files a selector
under the bucket of its rarest name and finds it again for rules and for dependencies.

ElementInvalidation is the protocol around them. `Toggle` changes a name of an element and keeps the
snapshot; `StartRestyle`, `NoteChild` and `Visit` are a restyle that meets the snapshots on its way;
`CollectInvalidations`, `ProcessInvalidation` and the walks over descendants and siblings are the
invalidator. `matched` is what each element's style was computed from. The order in which elements are
noted is any that a parallel traversal may have.

### 3.8 Fractions, Transitions, KeyframesAnimations, ElementAnimations

The animations of one property of one element in Servo. Transitions and KeyframesAnimations are operators
on an `ElementAnimationSet`: the first what starts, replaces, reverses and cancels a transition, the second
the iterations of an animation, its value between keyframes, and `update_from_other`, by which a new style
changes an animation that is there. ElementAnimations is the state machine: `Restyle` is the cascade,
`process_animations_for_style` and the second cascade if the set is dirty; `PostReflow` clears what was
cancelled; `Tick` and `Disconnect` are the embedder's, from how the functions that are public for it are
meant to be used: it starts what is due, iterates once, finishes, and renders a frame. Times and values are fractions
instead of floating point numbers, and times count from now, so that a state that comes again is the same.

## 4. What TLC checks

| Run | Instance | Shows |
|---|---|---|
| `rule_tree_concurrent` | 2 threads, 2 nodes, 2 keys, two spare handles per node, `gc()` at any time | exact counts, no use after free, interning, one custodian, the code's own assertions, no leak, nothing freed in use – even if `gc()`'s contract is broken; the tree implements RuleTreeAbstract |
| `rule_tree_exclusive` | 2 threads, 2 nodes, 2 keys, `gc()` alone, fairness | the free list is one sound chain, the counter covers it, whoever spins is awaited, no listed node reaches zero; the inductive invariant of the proofs; every call returns |
| `stylist` | 2 author sheets, one with its own custom media query and edited by scripts, a user-agent sheet for wide devices, a user-agent cache that may or may not answer | incremental flush = build from nothing; invalidation data complete; device changes reported; committed marks right; everything that changes is restyled |
| `cache_sharing` | 2 roots, a plain sheet, one that depends on the device, one that scripts edit | a root never has the data of another list or device, nor its own from before an edit, and its sheets are committed on hits too |
| `element_rules` | two sets of rules (origins and layers; origins and four trees), two style attributes, one of them changed in place, animations of three kinds | the path is ordered at all times; with no hint pending it cascades like the rules sorted as CSS says, so do the paths derived from it; animations know what overrides them |
| `traversal` | 2 threads, 9 elements on 4 levels, 168 sets of pending changes, fairness | waiting elements are unrelated and their depth known; each element is visited once and in order, restyled as far as the changes ask and not further, matched with its ancestors in the filter; the pass afterwards finds what was restyled; the traversal ends |
| `invalidation` | 7 elements, 16 sheets, 2 initial sets of names, two changes before one restyle or two | buckets, hashes and backtracking find the rules that selectors mean; every element whose matches changed is matched again; no list repeats itself |
| `animations` | 4 scenarios: one property with 16 transition styles; an animation that is paused, resumed, prolonged, not displayed; delayed in four ways; two at a time; fairness | one transition at a time, reversals at the same speed, animations at the right iteration and direction; the computed style keeps up; no jumps; what is finite ends |
| `stylist_custom_insert`, `cache_adopted`, `element_user_layers`, `animation_removed` | as small as the case allows | the findings of section 7 |

Each property of a passing run has a mutant: a plausible bug in a mapped definition, written before it
in the module and labelled so, under which TLC finds the property violated.

### Bounds

* `MaxStrong` bounds the handles to one node that `Clone` may add, because a count has no limit in the
  code short of memory. Two are enough to tell a first, a last and another handle apart.
* `NonRoot` bounds the boxes. Two make a parent and child, two siblings, and a free list on which one
  push lands on another. `WithinBounds` keeps `ensure_child` from starting without a box left for it.
  All safety properties of the tree, those of the list included, are also proved for any number of boxes
  and threads (section 5).
* `GCInterval` is 0 (300 in the code), so that `maybe_gc` collects as soon as a node is free: any interval
  gives a subset of these collections.
* `MaxEntries` is never reached in `cache_sharing`: a flush with no free address would deadlock the
  round, and deadlock is checked. The CONSTRAINT `EditedByOne` keeps the edited sheet in one root; without
  it the run finds what `cache_adopted` shows.
* In `element_rules` each of the four trees, the layers and the origins is met with an important rule of
  its own; two blocks per kind tell a replaced one from one changed in place. User rules in layers are
  left to `element_user_layers`.
* Sheets are at most once in a collection and hold one or two rules. In `stylist` the VIEW
  `WithoutReturned` leaves out what the last flush returned: nothing reads it but the properties of the
  step that returns it.
* `WorkUnitMax` is 2 (16 in the code), `LocalQueueSize` 1 for the main thread (32) and 0 for the worker: with
  the nine elements every level is split, a task is split again, and the last chunk is shorter.
* `MaxCount` is 3 (255) so that counters fill up, `MemsetClearThreshold` 2 (25) so that both ways to clear
  happen; the three slots are shared by all hashes. With the code's values fewer states differ.
* `InvalidationsMax` is 1 (150), so that the rule for too many applies to some sheets and not to others.
* `ChangeMax` bounds the changes of names in `invalidation`, enough for two elements that a selector
  depends on together and for a second restyle, and the changes of style in `animations`, enough to
  replace, reverse, reverse again and stop. Ticks are of one or two units, so that an end can be missed.
* Roots are permuted by symmetry in `cache_sharing`; no run with a liveness property uses symmetry.

CHECK_DEADLOCK is FALSE where the system may stop: when the rule tree and all handles are dropped, when
the traversal is done, when the names or styles have changed as often as the bound lets them.

### Fairness

`rule_tree_exclusive`: a thread inside a call is scheduled (weak fairness of `Step`). A
weak compare-exchange that could succeed infinitely often does (strong fairness of `PushExchange`): the
code loops on it and hardware does not fail for ever. Locks are given weak fairness only: with two threads
nobody can hold a children map again and again against the other. `UpgradeSpin` needs no more than
weak fairness: once `next_free` is set, it stays so while the waiter holds the lock. Calls themselves are
never assumed to happen. Liveness needs `ExclusiveGC`: with a concurrent collection the wait can be for a
node that the collection has taken.

`traversal`: a thread of the pool that has a task goes on with it, and an idle one takes a task if there is
one (weak fairness for each thread, of `at` changing). Rayon promises no more and the code needs no more.

`animations`: a frame is rendered again and again while something needs ticks, although scripts may ask for
reflows in between (strong fairness of `Frame`), and a frame and a reflow that have begun come to
their end. How long a frame takes is not assumed.

## 5. What is proved

Three ideas are behind all of it. *Induction* takes no operator as a parameter here: a set with 0 and the
successor of each of its numbers has all numbers (`NatSetInduction`), and what is to be shown is given as
such a set. *Folds* are unfolded: the community modules define them by a recursive function of sets of
positions, `FoldExists` shows that this function is there, and then it has a value at `1 .. i` for each i
that follows from the one at `1 .. i - 1` (SetInduction). *Recursive functions* like `Chain` are shown to
satisfy their equation along the finite tree.

### The rule tree

`RuleTreeProofs` proves for every finite set of threads and boxes, every key set and every bound:

| Theorem | States |
|---|---|
| `Inductive` | `Spec => []IInv` |
| `TypeCorrect` | `[]TypeOK` |
| `CountsAreExact` | `[]RefcountExact` |
| `MemorySafe` | `[]NoUseAfterFree` |
| `NodesAreShared` | `[]Interned` |
| `CustodyIsExclusive` | `[]OneCustodian` |
| `AssertionsHold` | `[]DebugAssertions` |
| `ZeroOffTheFreeList` | `NeverZeroOnFreeList` |
| `FreedWhenUnreachable` | `FreedOnlyWhenUnreachable` |
| `Refines` | `ImplementsAbstract` |
| `ListsInductive` | `[]Inv`, which is `IInv` and what there is to say of whole lists |
| `FreeListsSound` | `[]FreeListSound` |
| `NothingLeaks` | `[]NoLeak` |
| `CounterCoversLists` | `[]CounterCoversFreeList` |
| `SpinnersAwaited` | `[]SpinnerIsAwaited` |

They assume `RuleTreeAssumption` and nothing else. The last two properties say themselves that they are
about a `gc()` that is called as its contract says (`ExclusiveGC`); the others hold for any.

*The argument.* None of the properties is inductive. `RefcountExact` says that a count is what the owners
add up to; it needs to know who the owners are: `ThreadShape` (what a thread's control state says about
its locals), `HeapShape` (children and parents agree, and parents have no cycle), and that no two
threads answer for the same dead node (`OneCustody`, `PoppedIsFree`). Custody is exclusive because a
thread gets it by taking a count to zero, and a count at zero has no owner but spinners
(`OnlySpinnersResurrect`): a resurrected node keeps a null `next_free` until its custodian has pretended,
which keeps the resurrecting thread waiting, so that nobody can drop it to zero a second time. The free
list enters through `LinksSound`: links lead to listed nodes and no two links lead to the same one, which
is what lets a collection take over the count of each node it pops. `IInv` is the conjunction.

*The lists.* That no two links lead to one node still allows a cycle that no list leads to, whose nodes
would never be freed. `ListsReach` excludes it: of any listed nodes, one is the head of a list or follows
a node that is not among them. A push puts a node before the root's list, a collection takes a list
over, a pop takes its first node away: each keeps that. From it follows that the walk from the root, or from
where a collection is, meets each listed node, once, and comes to the end (`FreeListSound`).
`DeadAreAnswered` says that a node with count zero has a thread that is about to pretend, and
`CounterCoversListed` that the counter covers the listed nodes and those that are being pushed. `NoLeak`
combines the lists with the counts: a node that is left when the tree and the handles are gone has a count,
hence an owner; the only ones left would be its children – but parents have no cycle – or a list, and
the lists are empty. `ListInv` is the conjunction.

*Layout of RuleTreeProofs.* One lemma per action and conjunct group; lemmas on cardinalities of owners that gain or lose one
element; then the induction; then the theorems, whose action properties and refinement use `IInv` on
both sides of a step. The lists come after it, in the same way.

### The stylist

`CascadeDataProofs` has what building, rebuilding and flushing one list of sheets do to its data; `StylistProofs` is about `Stylist`, for any sheets with any number of rules, any origins and any sequence of
calls:

| Theorem | States |
|---|---|
| `StylistInductive` | `Spec => []StylistInv` |
| `FlushedIsUpToDate` | `[]UpToDate` |
| `InvalidationDataKept` | `[]InvalidationDataComplete` |
| `DeviceChangesReported` | `[]MediaChangesReported` |
| `CommittedWhenFlushed` | `[]OwnCommittedWhenFlushed` |

They assume `CascadeDataAssumption` and `StylistAssumption`. All but the last are about documents with
`NamesAreLocal`: a custom media query that a sheet uses is defined in that sheet, once. They need it: for a
query that another sheet defines TLC finds each of the three properties violated, because of finding 1 –
what the partial rebuild has missed of the effective queries, the next device change is compared with. The document of
the run `stylist` has local names, that of `stylist_custom_insert` has not.

*The argument.* With local names a block of a sheet applies or not according to the device and the
rules before it in its sheet (`CondApplies`, `CondHolds`), whatever the sheets before have defined, so that what a
sheet adds can be said by itself: `Noted` to the effective queries, `Cascading` to the cascade.
`StylistInv` says of each origin what is true of the data *the next flush will keep* (`DataSound`): the
effective queries are what the sheets of the last flush note, the maps have what they cascade, and, if
`validity` is still `Valid`, those sheets are the first k of the list and the rules are those of a
build of them. Nothing is said of what will be thrown away, which is why the marks matter: an insertion may
break the order because it sets `CascadeInvalid`, a removal or an edit may break everything because it sets
`FullyInvalid` (`AppendChanges`, `InsertChanges`, `RemoveChanges`, `AllStale`). A device change breaks only
what `media_features_change_changed_style` reports: a sheet whose queries the check finds as they were
adds the same on the other device (`UnaffectedSheet`), and data are as sound in one environment as in another
in which their sheets add the same (`SoundTransfers`). A flush then takes up a build where the kept
data left it (`RebuildsRight`, `RebuildIsFresh`). `CommitInv`, for `CommittedWhenFlushed`, says of the
entries alone which are committed.

### The cache between shadow roots

`CascadeDataCacheProofs` is about `CascadeDataCache`, for any roots, any sheets with any number of rules and any order of
flushes:

| Theorem | States |
|---|---|
| `CommittedRoots` | `[]RootsCommitted` |
| `KeyDeterminesData` | data that are fresh for one list of sheets are fresh for every list with the same key |
| `SharedDataUpToDate` | `[]RootsUpToDate` |
| `SharedInvalidationDataComplete` | `[]RootsInvalidationDataComplete` |

`CommittedRoots` assumes no more than the constants' assumptions. The other three are about documents with
`NamesAreLocal`, as in the stylist; the last two about behaviours in which each sheet that scripts edit has one root as its
`Owner`, and is never in the list of another (`[]OwnedBy(Owner)`). That is weaker than the constraint of the
run `cache_sharing`, and something of the kind is needed: `cache_adopted` is a behaviour with two roots for an edited
sheet.

*The argument.* A key has the sheets that apply and the media blocks in effect, in their order, but not the rules; whatever
the device, equal keys mean that the same rules were added (`RuleMatches`, `SheetMatches`), if the contents
are the same. They may not be: an edit leaves the key of an entry as it is. `CacheInv` says which entries may be
wrong and why no root takes one. `RootsRight` is the stylist's invariant for each root. `EntriesRight`:
the data of an entry are those of its key, with the rules that its sheets have now, unless the key has an edited sheet
whose owner either still refers to the entry (then the owner does not reuse it, as its own) or is not
dirty (then it does not look). Other roots do not have the key: `UsedByOwner`. Between rounds each entry is in use
(`AllInUse`, what `EndRound` is for), so that at the time of an edit the only entry with the sheet is its
owner's; what the owner's flush leaves behind in the middle of a round is no longer asked for. An entry has no
other key under which it might be somebody else's (`OneKeyEach`).

### Paths in the rule tree

`ElementRulesProofs` is about `ElementRules`, for any sets of rules, slots, blocks and contents and any sequence
of changes and traversals:

| Theorem | States |
|---|---|
| `PathsFit` | `Spec => []IInv` |
| `PathsOrdered` | `[]PathOrdered` |
| `OrderRespected` | `[]CascadeOrderRespected` |
| `DerivedRight` | `[]DerivedPathsRight` |
| `OverridesKnown` | `[]AnimationsKnowOverrides` |
| `LevelOrder`, `PriorityOrder` | the comparisons of levels and priorities are strict total orders |
| `ReplacingKeepsOrder` | `UpdateRuleAtLevel` keeps any path ordered if no other node of the level has a higher layer |
| `ReplacingAttributeKeepsOrder` | for the style attribute, normal or important, it does so without a condition |

The first five assume the constants' assumptions and two hypotheses. `PartsNear`: at most seven trees outwards have part
rules, which is as far as the three bits of a level count; from there on `inc` stays where it is, and the
rules of different trees share a level. `ImportantUnlayered`: rules of users and user agents with important
declarations are in no layer. Both are needed – without the second, `PathOrdered` is violated (`element_user_layers`,
finding 3) – and both hold of the rules of the run `element_rules`.

*The argument.* `PathOrdered` is not inductive: that a path is in order says nothing about which rules it
has, so nothing about what a replacement at a level meets. The invariant is about *entries*, a rule with an
importance each. Their order is CSS's (`EntryLess` is `KeyLess` of the keys, `KeyByParts`), the order of the
nodes' priorities is a coarsening of it (`LessRefines`, `LevelsByParts`), and a set of entries has one listing
(`OneOrder`, `OnePath`). `PathIs(p, E)` says that p has the nodes of the entries E in their order. Then the
operators are lemmas about sets: concatenation is union (`PathIsConcat`), selection is a subset
(`PathIsPassing`), a part of the path is a part of the set (`PathIsSub`), collecting gives the normal
entries of the rules (`CollectIs`), inserting all entries (`InsertIs`, where the sort of the important author
rules is), and `UpdateRuleAtLevel` exchanges the entries that have a key (`UpdateIs`): the walk up
stops at what is to be replaced, because an animation or a style attribute is the last of its level
(`AtLevel`).

`IInv` says that there is such a set E, and, if the element is not to be matched anew, that each entry
*about which no hint says otherwise* is in E only if its rule applies, and is in E if there are declarations of
it (`Agrees`, by classes of entries: an effect, the style attribute, the matched rules). E may have more than there are
declarations for: matching puts in a normal node for each rule, whatever it declares, while replacing
puts one in only where there are any – the path differs, what it gives does not (`Filled`). A change leaves
its class's hint, and a replacement restores its class and touches no other. `Knows`, for `OverridesKnown`, has to say
what animations know *while* the style attribute is out of date, since only its replacement reports: the
blocks of all others are known, its own may be wrong, and it counts among those known only if
the path has an important entry of it, so that its removal will be reported (`ImportantChanged`).

That sequences are sorted by taking for each position *the* element with so many before it makes this provable
without induction over sequences: in a finite set with a strict total order there is exactly one for each
position (`ChosenInOrder`, `OneOrder`).

### The parallel traversal

`ParallelTraversalProofs` is about `ParallelSpec`, for every finite tree, every set of threads and every
size of work unit and local queue, whichever children an element notes:

| Theorem | States |
|---|---|
| `TraversalInductive` | `ParallelSpec => []PInv` |
| `QueuesStaySound` | `[]QueuesSound` |
| `TraversalRefines` | `ImplementsOrder` |
| `NothingAskedBelow` | nothing that was asked for is below an element not visited yet |

They assume `TreeAssumption` (a finite tree: each element but the root is a child once, and nothing is
above itself) and `ParallelAssumption`.

*The argument.* `PInv` has five parts beside the types. `AskedSound`: whatever was asked for was noted by
a visited parent – with `NothingAskedBelow` it follows that two waiting elements are never one above the
other. `QueuesDisjoint`: what was asked for and not visited is in one queue once. `HandsSound`: no two
threads are at the same element. `LevelsSound`: a queue is the rest of a level and then elements of the
next, across handing out and taking over. `CountersSound` is the heart: between being stored and reaching
zero a counter is the number of noted children that were not counted, and *before* it is stored all those
children are still in the queue of the thread that is about to store it, so that nobody can count one
down too early. It makes the thread that sees a count of one the last, which `TraversalRefines` needs
for `ComeUp`.

### The restyle

`RestyleTraversalProofs` is about `RestyleTraversal`, for every finite tree,
every set of threads, all pending changes that `ChangesAssumption` allows, every outcome of styles and every assignment of hashes:

| Theorem | States |
|---|---|
| `RestyleInductive` | `Spec => []RInv` |
| `RestyleIsTraversal` | `ImplementsParallelTraversal`: what is proved of `ParallelSpec` holds of a restyle |
| `RestyleQueuesSound`, `RestyleImplementsOrder` | so `[]QueuesSound` and `ImplementsOrder` do |
| `PostTraversalIsComplete` | `[]PostTraversalFindsAll` |
| `RestyleProgress` | `Spec => []EInv` |
| `RestyleIsComplete` | `[]EveryElementRestyled` |
| `FiltersAreSound` | `Spec => []FiltersSound` |
| `MatchedAgainstAncestors` | `MatchedWithAncestors` |

They assume `TreeAssumption`, `ParallelAssumption`, `BloomAssumption`, `InvalidatesAssumption` and
`ChangesAssumption`. The last one is what the embedder guarantees before it begins a restyle at an
element: whatever has changed is at it or below it, what is below an element without data has no data
(`clear_descendant_data`), and only an element with data gets a snapshot.

*RInv.* The fold of `note_children` over the children is unfolded (`AllChildrenNoted`): it queues a
subsequence of them, so `Preorder` is a `PreorderNoting`. `PathsMarked` says that whatever is queued is below
visited, marked elements, which is what the pass after the traversal needs.

*EInv.* That a restyle does enough, and no more, is an invariant about the elements not visited yet, in
five parts: `StylesLive` (who has a style and is displayed is as at the start, unless an ancestor's new
style changed it); `MarksLead` (an element that needs the traversal is queued or has a marked parent, all
the way up); `NothingLeft` (nothing is pending on visited elements or outside of the range); `PendingIsAsked`
(what pending hints and snapshots ask for an element now is what the changes ask for in view of what was done
above it – the step in which an element passes its hints on is the heart of it: `AskedBelow`,
`PendingAndPassed`); and `VisitedAsRequired`. When no queue is left, `MarksLead` leaves nothing that needs the
traversal.

*The filter.* `SoundBlooms` are the filters in which each counter is either full or the exact number of
pairs of a hash on the stack and one of its slots. Saturation is what makes it delicate: a full
counter is never counted down, so it never says less than the truth. `InsertInTurn` and `RemoveInTurn`
unfold the folds over an element's hashes, in reverse for `Pop`; `ParentsInserted` shows that from the path to
any element `InsertParentsRecovering` comes to the path to the next: the last position at which both
agree is the end of a common prefix, because a path is determined by its last element.

## 6. What is only model-checked, and what is not modelled

Only TLC: `EveryCallReturns`, `Terminates` and `Settles` (liveness is out of the prover's reach);
`RestyleCovers`, which would need what every rule was when its sheet was committed; selectors, which are recursive, and with them the
invalidation; and animations.

Not modelled, in the modelled components:

* memory orderings; allocation failure, after which the code promises nothing;
* layers, containers, scopes, @property and keyframes in cascade data; the locking of the user-agent cache
  between documents; the cut of source orders to 24 bits;
* the dirty bits of the animation-only traversal, the traversal without a pool (the same loop with one
  thread), the limit of the stack, paint worklets;
* `:has()`, `@scope`, `::slotted`, `::part`, pseudo-elements, `:nth-*`, `:visited`, namespaces and quirks
  mode in selectors; elements that are not displayed in ElementInvalidation; the limit of four ancestor
  hashes. A list of invalidations is built from a set in some order;
* several animated properties, `transition-behavior: allow-discrete`, composition and timing functions,
  animations of pseudo-elements. The embedder is taken to clear cancelled animations before the next
  restyle.

The scenarios of `animations` leave out styles for which the code does not keep the properties: section 7
says which. The components that the plan lists for later are not modelled; values, parsing, glue and
generated code keep no protocol and stay out. `PROJECT.json` lists each with its reason.

## 7. Findings

Shown by a run:

1. *A custom media query inserted first* (`stylist_custom_insert`). An insertion in the middle only
   invalidates the cascade data, since invalidation data do not depend on order; but a definition
   placed before a sheet can make more of it effective, and those selectors never reach the invalidation
   maps.
2. *A root adopts a sheet while it is edited* (`cache_adopted`). If it is flushed before the root that had
   the sheet, it gets that root's data from before the edit, because only a root's own entry is
   recognised as stale.
3. *Important user rules in layers* (`element_user_layers`). Only the important author rules are sorted
   before they are inserted. Those of users and user agents stay in the order of the normal ones, in
   which the last layer wins, although the priority of important rules has the first one win; the path
   is out of order, which `ensure_child` asserts against.
4. *The last animation is removed* (`animation_removed`). `update_animations_for_new_style` cancels it
   without marking the set dirty, so the style is not cascaded again and keeps the animated value.

Met while modelling, and kept out of the instances by the restrictions named:

* A user-agent sheet stays uncommitted: on a cache miss `UserAgentCascadeData::rebuild` reads the
  flusher's sheets without `each`. `OwnCommittedWhenFlushed` therefore speaks of the other origins.
* A custom media query that is defined twice: a block is built with the definitions before it and checked,
  on a device change, with the final ones. Sheets define one name once.
* An element in seven or more slots, one inside the other: `SlotsAssumption`, section 3.4.
* A counter of the ancestor filter that was full stays full when the hashes are taken out one by one, and
  the filter is then not zero when it is dropped: `style/bloom.rs:55` argues from the hashes pushed at
  one time, but counters fill over a thread's whole traversal. There are only false positives.
* An invalidation through a list (`:is(.x .y) .z`) can be pushed twice, in spite of the comment at
  `invalidator.rs:1383`; `NoRepeats` speaks of selectors without lists.
* `maybe_start_animations` returns after the first animation that was there already: those after it in the
  style are neither started nor updated. With two at a time only the first changes.
* A finished animation is dropped at the next restyle, so that its forwards fill is lost at the one after,
  and a later change of the animation's style starts it anew, against the comment that finished ones
  "should remain finished". No animation fills forwards in the run; that one starts anew breaks no property
  unless a transition of the same property is beside it, which no style has.
* Pausing within the delay restarts the delay; another delay in a later iteration forgets the iterations
  done; an animation that is resumed by the same style that changes its delay stays paused. Styles
  of one scenario differ in the play state or the delay.
