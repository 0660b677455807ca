------------------------- MODULE ElementInvalidation -------------------------
(* From changed names of elements to the elements to match again             *)
(* (state_and_attributes.rs, invalidator.rs, invalidation_map.rs). The       *)
(* embedder changes names and keeps a snapshot of the old ones; the restyle  *)
(* goes down the tree, and where it meets a snapshot it looks for the        *)
(* dependencies on what changed and walks what they may reach.               *)
(* Elements have no shadow trees or pseudo-elements and are all displayed;   *)
(* selectors have no :has, :nth or @scope.                                   *)
EXTENDS SelectorMap

CONSTANTS
  Sheets,           \* the sets of selectors a run is about
  InitialNames,     \* sets of [Element -> SUBSET Name]
  MayChange,        \* [Element -> names the embedder may add or remove]
  MayHint,          \* elements the embedder may ask to match again with what is below them
  ChangeMax,        \* bound on all those changes
  InvalidationsMax  \* with more of them everything below is matched again: 150 in the code

VARIABLES
  sheet,
  names,     \* [Element -> SUBSET Name]
  snapshot,  \* [Element -> {} or {the names it had}]
  changes,   \* how many there have been
  matched,   \* [Element -> the selectors its style was computed from]
  hint,      \* elements with RESTYLE_SELF
  below,     \* those with RESTYLE_DESCENDANTS
  noted,     \* where this restyle has got: elements that are noted for traversal
  visited,   \* and those that have been processed
  restyling,
  repeated   \* whether an element was reached by a list that repeats itself: history

vars == <<sheet, names, snapshot, changes, matched, hint, below, noted, visited, restyling, repeated>>

-----------------------------------------------------------------------------
(* The dependencies of a sheet: a place in a selector where a name matters,  *)
(* [sel, off, next]. For one within a list, next holds the dependency of the *)
(* compound with the list.                                                   *)

Lists(c) == {c.has[i].list : i \in {j \in DOMAIN c.has : c.has[j].kind \in {"is", "not"}}}
NamesIn(c) == {c.has[i].name : i \in {j \in DOMAIN c.has : c.has[j].kind = "name"}}

RECURSIVE VisitWholeSelectorFrom(_, _, _), VisitCompound(_, _)

\* The rightmost compound of a nested selector belongs to the compound with the list.
VisitCompound(c, dep) ==
  {[name |-> n, dep |-> dep] : n \in NamesIn(c)}
  \cup UNION {UNION {VisitCompound(list[i][1], dep)
                     \cup VisitWholeSelectorFrom(list[i], 2, <<dep>>) : i \in DOMAIN list} :
                list \in Lists(c)}

VisitWholeSelectorFrom(sel, from, next) ==
  UNION {VisitCompound(sel[off], [sel |-> sel, off |-> off, next |-> next]) : off \in from..Len(sel)}

InvalidationMap(s) == UNION {VisitWholeSelectorFrom(sel, 1, <<>>) : sel \in s}

\* Evaluated once.
InvalidationMaps == [s \in Sheets |-> InvalidationMap(s)]

-----------------------------------------------------------------------------
(* Snapshots.                                                                *)

\* The names of an element before the changes: ElementWrapper.
OldNames == [e \in Element |-> IF snapshot[e] = {} THEN names[e] ELSE CHOOSE old \in snapshot[e] : TRUE]

\* Mutant: only the element itself is seen as it was.
CheckDependencyOfOne(dep, e) ==
  MatchesComplexSelector(dep.sel, dep.off, e, names)
    # MatchesComplexSelector(dep.sel, dep.off, e, [names EXCEPT ![e] = OldNames[e]])

\* Does this part of the selector match e now where it did not, or the other way round?
CheckDependency(dep, e) ==
  MatchesComplexSelector(dep.sel, dep.off, e, names)
    # MatchesComplexSelector(dep.sel, dep.off, e, OldNames)

-----------------------------------------------------------------------------
(* Invalidations: [dep, at, before]. The compound at is to be matched next;  *)
(* before says that one has been that this one came by.                      *)

NewInvalidation(dep) == [dep |-> dep, at |-> dep.off - 1, before |-> FALSE]

CombinatorOf(inv) == inv.dep.sel[inv.at].comb
EffectiveForNext(inv) == CombinatorOf(inv) \in {"descendant", "later"}
InvalidationKind(inv) == IF CombinatorOf(inv) \in AncestorCombinators THEN "descendant" ELSE "sibling"

OfKind(invs, kind) == SelectSeq(invs, LAMBDA inv : InvalidationKind(inv) = kind)

RECURSIVE HandleFullyMatched(_, _)

\* All of a selector matched e: its dependency tells what comes after. [self, matched, next].
HandleFullyMatched(dep, e) ==
  IF dep.next = <<>> THEN [self |-> TRUE, matched |-> TRUE, next |-> <<>>]
  ELSE IF ~ CheckDependency(dep.next[1], e) THEN [self |-> FALSE, matched |-> FALSE, next |-> <<>>]
  ELSE IF dep.next[1].off = 1 THEN HandleFullyMatched(dep.next[1], e)
  ELSE [self |-> FALSE, matched |-> FALSE, next |-> <<NewInvalidation(dep.next[1])>>]

\* Mutant: one that matched before pushes its next again.
NeverSkipPushing(inv, kind, next) == FALSE

\* The next invalidation is on the list already.
CanSkipPushing(inv, kind, next) ==
  InvalidationKind(next) = kind /\ inv.before /\ EffectiveForNext(next)

ProcessInvalidation(inv, e, kind) ==
  LET result ==
        IF ~ MatchesCompoundSelector(inv.dep.sel[inv.at], e, names)
          THEN [self |-> FALSE, matched |-> FALSE, next |-> <<>>]
        ELSE IF inv.at = 1 THEN HandleFullyMatched(inv.dep, e)
        ELSE [self |-> FALSE, matched |-> TRUE, next |-> <<[inv EXCEPT !.at = @ - 1, !.before = FALSE]>>]
  IN [result EXCEPT !.next = SelectSeq(@, LAMBDA next : ~ CanSkipPushing(inv, kind, next))]

\* What goes on to the next sibling or to the children.
Remaining(inv, result) ==
  IF EffectiveForNext(inv) THEN <<[inv EXCEPT !.before = @ \/ result.matched]>> ELSE <<>>

\* Lists is [self, descendants, siblings]: whether e is invalidated, and the invalidations for what is
\* below and after it.
ProcessSiblingInvalidations(e, lists) ==
  LET results == [i \in DOMAIN lists.siblings |-> ProcessInvalidation(lists.siblings[i], e, "sibling")]
      next == FlattenSeq([i \in DOMAIN results |-> results[i].next])
  IN [self |-> lists.self \/ \E i \in DOMAIN results : results[i].self,
      descendants |-> lists.descendants \o OfKind(next, "descendant"),
      siblings |-> FlattenSeq([i \in DOMAIN results |-> Remaining(lists.siblings[i], results[i])])
                   \o OfKind(next, "sibling")]

ProcessDescendantInvalidations(e, invs, lists) ==
  LET results == [i \in DOMAIN invs |-> ProcessInvalidation(invs[i], e, "descendant")]
      next == FlattenSeq([i \in DOMAIN results |->
                            OfKind(results[i].next, "descendant") \o Remaining(invs[i], results[i])])
  IN [self |-> lists.self \/ \E i \in DOMAIN results : results[i].self,
      descendants |-> lists.descendants \o next,
      siblings |-> lists.siblings
                   \o FlattenSeq([i \in DOMAIN results |-> OfKind(results[i].next, "sibling")])]

\* What comes of e with the lists it is left with, and what it came by.
Reached(e, lists, descendants, siblings) ==
  [element |-> e, self |-> lists.self, came |-> <<descendants, siblings>>]

RECURSIVE InvalidateDescendants(_, _)

\* The elements reached below e; those that are all matched again anyway are not looked at.
InvalidateDescendants(e, invs) ==
  IF invs = <<>> \/ e \in below THEN {}
  ELSE LET kids == Children[e]
           lists[i \in 0..Len(kids)] ==
             IF i = 0 THEN [self |-> FALSE, descendants |-> <<>>, siblings |-> <<>>]
             ELSE ProcessDescendantInvalidations(kids[i], invs,
                    ProcessSiblingInvalidations(kids[i],
                      [self |-> FALSE, descendants |-> <<>>, siblings |-> lists[i - 1].siblings]))
       IN UNION {{Reached(kids[i], lists[i], invs, lists[i - 1].siblings)}
                 \cup InvalidateDescendants(kids[i], lists[i].descendants) : i \in DOMAIN kids}

RECURSIVE InvalidateSiblings(_, _)

NextSibling(e) == CHOOSE s \in LaterSiblings(e) : PrevSibling(s) = e

\* The elements reached after e and below those.
InvalidateSiblings(e, invs) ==
  IF invs = <<>> \/ LaterSiblings(e) = {} THEN {}
  ELSE LET s == NextSibling(e)
           lists == ProcessSiblingInvalidations(s, [self |-> FALSE, descendants |-> <<>>, siblings |-> invs])
       IN {Reached(s, lists, <<>>, invs)}
          \cup InvalidateDescendants(s, lists.descendants)
          \cup InvalidateSiblings(s, lists.siblings)

-----------------------------------------------------------------------------
(* What changed in an element: collect_invalidations.                        *)

Changed(e) == (names[e] \ OldNames[e]) \cup (OldNames[e] \ names[e])

\* Dependencies on a state are looked up by what the element has or had; those on other names by name.
DependenciesFor(e) ==
  {d.dep : d \in {d \in InvalidationMaps[sheet] :
     /\ d.name \in Changed(e)
     /\ Kind[d.name] \in {"state", "rare"} =>
          Lookup(d.dep.sel, d.dep.off, names[e] \cup OldNames[e])}}

RECURSIVE ScanDependency(_, _)

\* The dependencies left when those of the compound that e is the subject of are followed outwards.
ScanDependency(dep, e) ==
  IF ~ CheckDependency(dep, e) THEN [self |-> FALSE, deps |-> {}]
  ELSE IF dep.off > 1 THEN [self |-> FALSE, deps |-> {dep}]
  ELSE IF dep.next # <<>> THEN ScanDependency(dep.next[1], e)
  ELSE [self |-> TRUE, deps |-> {}]

CollectInvalidations(e) ==
  LET scanned == {ScanDependency(dep, e) : dep \in DependenciesFor(e)}
      invs == SetToSeq({NewInvalidation(dep) : dep \in UNION {s.deps : s \in scanned}})
  IN [self |-> \E s \in scanned : s.self,
      descendants |-> OfKind(invs, "descendant"), siblings |-> OfKind(invs, "sibling")]

\* Everything below the element is to be matched again if too many invalidations were generated.
TooMany(lists) == Len(lists.descendants) > InvalidationsMax

\* What is reached from an element that is matched again with all below it if covered.
ReachedFrom(e, lists, covered) ==
  (IF TooMany(lists) \/ covered THEN {} ELSE InvalidateDescendants(e, lists.descendants))
  \cup InvalidateSiblings(e, lists.siblings)

\* The elements to give RESTYLE_SELF and RESTYLE_DESCENDANTS, and the lists that others came by.
InvalidationResult(e, lists, reached) ==
  [self |-> (IF lists.self THEN {e} ELSE {}) \cup {r.element : r \in {r \in reached : r.self}},
   below |-> IF TooMany(lists) THEN {e} ELSE {},
   came |-> UNION {ToSet(r.came) : r \in reached}]

InvalidateWith(e, lists, covered) == InvalidationResult(e, lists, ReachedFrom(e, lists, covered))

Invalidate(e, covered) == InvalidateWith(e, CollectInvalidations(e), covered)

\* A list with the same invalidation twice.
Repeats(invs) ==
  \E i, j \in DOMAIN invs : i # j /\ invs[i].dep = invs[j].dep /\ invs[i].at = invs[j].at

-----------------------------------------------------------------------------
Rules == [e \in Element |-> GetAllMatchingRules(sheet, e, names)]

Init ==
  /\ sheet \in Sheets
  /\ names \in InitialNames
  /\ snapshot = [e \in Element |-> {}]
  /\ changes = 0
  /\ matched = Rules
  /\ hint = {} /\ below = {} /\ noted = {} /\ visited = {}
  /\ restyling = FALSE
  /\ repeated = FALSE

\* The embedder changes a class, id, attribute or state and keeps the names from before its first change.
Toggle(e, n) ==
  /\ ~ restyling /\ changes < ChangeMax /\ n \in MayChange[e]
  /\ names' = [names EXCEPT ![e] = IF n \in @ THEN @ \ {n} ELSE @ \cup {n}]
  /\ snapshot' = [snapshot EXCEPT ![e] = IF @ = {} THEN {names[e]} ELSE @]
  /\ changes' = changes + 1
  /\ UNCHANGED <<sheet, matched, hint, below, noted, visited, restyling, repeated>>

\* The embedder asks for a subtree to be matched again.
RestyleSubtree(e) ==
  /\ ~ restyling /\ changes < ChangeMax /\ e \in MayHint
  /\ hint' = hint \cup {e} /\ below' = below \cup {e}
  /\ changes' = changes + 1
  /\ UNCHANGED <<sheet, names, snapshot, matched, noted, visited, restyling, repeated>>

Given(e) == IF e # Root /\ Parent(e) \in below THEN {e} ELSE {}

NoteWith(e, found) ==
  /\ hint' = hint \cup found.self \cup Given(e)
  /\ below' = below \cup found.below \cup Given(e)
  /\ noted' = noted \cup {e}
  /\ repeated' = (repeated \/ \E invs \in found.came : Repeats(invs))

\* An element is noted for traversal: it takes over the hint of its parent, and its snapshot is handled.
Note(e) ==
  NoteWith(e, IF snapshot[e] # {} THEN Invalidate(e, e \in below \cup Given(e))
              ELSE [self |-> {}, below |-> {}, came |-> {}])

\* pre_traverse, which looks at the root.
StartRestyle ==
  /\ ~ restyling /\ \E e \in Element : snapshot[e] # {} \/ e \in hint
  /\ restyling' = TRUE
  /\ Note(Root)
  /\ UNCHANGED <<sheet, names, snapshot, changes, matched, visited>>

\* An element is matched again if it has a hint.
Visit(e) ==
  /\ restyling /\ e \in noted \ visited
  /\ matched' = IF e \in hint THEN [matched EXCEPT ![e] = Rules[e]] ELSE matched
  /\ visited' = visited \cup {e}
  /\ UNCHANGED <<sheet, names, snapshot, changes, hint, below, noted, restyling, repeated>>

\* note_children of a visited element, one child at a time and in order.
NoteChild(e) ==
  /\ restyling /\ e \notin noted /\ e # Root /\ Parent(e) \in visited
  /\ PrevSibling(e) = NoElement \/ PrevSibling(e) \in noted
  /\ Note(e)
  /\ UNCHANGED <<sheet, names, snapshot, changes, matched, visited, restyling>>

\* The hints, and the snapshots, go with the restyle.
FinishRestyle ==
  /\ restyling /\ visited = Element
  /\ restyling' = FALSE
  /\ hint' = {} /\ below' = {} /\ noted' = {} /\ visited' = {}
  /\ snapshot' = [e \in Element |-> {}]
  /\ UNCHANGED <<sheet, names, changes, matched, repeated>>

Next ==
  \/ \E e \in Element : \E n \in MayChange[e] : Toggle(e, n)
  \/ \E e \in MayHint : RestyleSubtree(e)
  \/ StartRestyle
  \/ \E e \in Element : Visit(e) \/ NoteChild(e)
  \/ FinishRestyle

Spec == Init /\ [][Next]_vars

-----------------------------------------------------------------------------
\* The rules found for an element, by buckets, fast rejection and backtracking, are those whose selector
\* it matches by what selectors mean (get_all_matching_rules, matches_complex_selector_internal).
RulesFound ==
  ~ restyling => \A e \in Element : Rules[e] = {sel \in sheet : Means(sel, 1, e, names)}

\* When a restyle is done every element has the rules that match it now, whatever changed since the last
\* one and however many elements at once (collect_invalidations, process_invalidation).
StyledAsMatched ==
  ~ restyling /\ hint = {} /\ (\A e \in Element : snapshot[e] = {})
    => \A e \in Element : matched[e] = {sel \in sheet : Means(sel, 1, e, names)}

\* Without lists in the selectors no element is reached by the same invalidation twice in one list: one
\* that matched before has its next in the list (can_skip_pushing in process_invalidation).
NoRepeats ==
  (\A d \in InvalidationMaps[sheet] : d.dep.next = <<>>) => ~ repeated
=============================================================================
