-------------------------- MODULE RestyleTraversal --------------------------
(* A restyle: the parallel traversal with what it does to each element       *)
(* (recalc_style_at and compute_style in traversal.rs, data.rs), with the    *)
(* hints and dirty bits that decide where it goes and the ancestor filters   *)
(* of the threads. Pending are the changes made since the last restyle:      *)
(* hints, elements with a snapshot of their old attributes, new elements.    *)
(* What a style turns out to be is given: the hint its change has for the    *)
(* children, and whether it was and is display: none.                        *)
EXTENDS ParallelTraversal, StyleBloom, RestyleHints

CONSTANTS
  Changes,     \* [start, hint, snapshot, fresh, hidden, hides, outcome]: what may be pending
  Flags,       \* [Element -> SUBSET StyleFlags]
  Invalidates  \* [Element -> elements whose match depends on what changed in the element]

\* A change of an element may matter to itself, what is below it and what comes after it.
ASSUME InvalidatesAssumption ==
  \A e \in Element :
    Invalidates[e] \subseteq {e} \cup Descendants(e) \cup LaterSiblings(e)
                             \cup UNION {Descendants(s) : s \in LaterSiblings(e)}

\* The elements that have no style yet.
Unstyled(c) == c.fresh \cup UNION {Descendants(h) : h \in c.hidden}

\* What a change of style asks of the children: finish_restyle, accumulate_damage_for.
ChildHints ==
  RestyleSubtree \cup {"RECASCADE_SELF", "RECASCADE_SELF_IF_INHERIT_RESET_STYLE",
                       "RESTYLE_IF_AFFECTED_BY_STYLE_QUERIES",
                       "RESTYLE_IF_AFFECTED_BY_NAMED_STYLE_CONTAINER",
                       "RESTYLE_IF_AFFECTED_BY_WM_OR_ANCESTOR_FONT"}

\* The embedder begins a restyle where all that has changed is in or below; what is below an element without
\* data has none either (clear_descendant_data), and only elements with data get snapshots.
ASSUME ChangesAssumption ==
  /\ Changes \subseteq [start : Element, hint : [Element -> SUBSET Hints], snapshot : SUBSET Element,
                        fresh : SUBSET Element, hidden : SUBSET Element, hides : SUBSET Element,
                        outcome : [Element -> SUBSET ChildHints]]
  /\ \A c \in Changes :
       /\ \A e \in c.fresh : Descendants(e) \subseteq c.fresh
       /\ c.snapshot \cap Unstyled(c) = {}
       /\ c.snapshot \cup c.fresh \cup {e \in Element : c.hint[e] # {}}
            \subseteq {c.start} \cup Descendants(c.start)
  /\ Flags \in [Element -> SUBSET StyleFlags]

VARIABLES
  change,    \* the pending changes, for reference: one of Changes
  hint,      \* [Element -> SUBSET Hints]
  styled,    \* elements with data, and so with styles
  displayed, \* those whose style is not display: none
  dirty,     \* elements with dirty descendants
  snapshot,  \* elements with a snapshot that is not handled
  bloom,     \* [Thread -> the filter of its context]
  work       \* [Element -> the kinds of restyle done to it]: history

data == <<hint, styled, displayed, dirty, snapshot>>
vars == <<pvars, change, data, bloom, work>>

-----------------------------------------------------------------------------
(* Handling a snapshot: invalidate_style_if_needed.                          *)

\* Mutant: the changed element itself is not marked.
PathBelow(d, e) == {a \in Ancestors(d) : e \in Ancestors(a)}

\* The elements between a changed element or its sibling and d, which lead a traversal to d.
PathTo(d, e) ==
  {a \in Ancestors(d) : \E s \in {e} \cup LaterSiblings(e) : a = s \/ s \in Ancestors(a)}

\* state is [hint, dirty, snapshot, ...]. What is below an element is not looked at if it is all restyled
\* anyway or has no style.
InvalidateStyleIfNeeded(state, e) ==
  IF e \notin state.snapshot THEN state
  ELSE LET processed(a) == a \in displayed /\ "RESTYLE_DESCENDANTS" \notin state.hint[a]
           found == {d \in Invalidates[e] \cap styled : \A a \in Ancestors(d) \ Ancestors(e) : processed(a)}
       IN [state EXCEPT
             !.hint = [d \in Element |-> @[d] \cup IF d \in found THEN {"RESTYLE_SELF"} ELSE {}],
             !.dirty = @ \cup UNION {PathTo(d, e) : d \in found},
             !.snapshot = @ \ {e}]

ElementNeedsTraversal(state, e) ==
  e \notin styled \/ e \in state.dirty \/ state.hint[e] # {}

-----------------------------------------------------------------------------
(* The start: pre_traverse.                                                  *)

\* The embedder has marked the way to whatever it gave a hint or a snapshot, and to new elements.
MarkedDirty(c) ==
  LET changed == c.snapshot \cup c.fresh \cup {e \in Element : c.hint[e] # {}}
  IN UNION {Ancestors(d) : d \in {e \in changed : Ancestors(e) \cap c.hidden = {}}}

\* The restyle begins at the parent if siblings of its root, or elements below them, were invalidated.
PreTraverse(c) ==
  LET s0 == [hint |-> c.hint, dirty |-> MarkedDirty(c), snapshot |-> c.snapshot, kids |-> <<>>]
      s1 == IF c.start \in Unstyled(c) THEN s0 ELSE InvalidateStyleIfNeeded(s0, c.start)
      beside == c.start \in c.snapshot \ Unstyled(c)
                /\ Invalidates[c.start] \ ({c.start} \cup Descendants(c.start)) # {}
      from == IF beside THEN TraversalParent(c.start) ELSE c.start
  IN /\ beside \/ ElementNeedsTraversal(s1, from)
     /\ start = from
     /\ hint = s1.hint /\ snapshot = s1.snapshot
     /\ dirty = IF beside THEN s1.dirty \cup {from} ELSE s1.dirty

Init ==
  /\ change \in Changes
  /\ ParallelInit
  /\ styled = Element \ Unstyled(change)
  /\ displayed = styled \ change.hidden
  /\ PreTraverse(change)
  /\ bloom = [t \in Thread |-> EmptyBloom(NoCounts)]
  /\ work = [e \in Element |-> {}]

-----------------------------------------------------------------------------
(* recalc_style_at.                                                          *)

\* finish_restyle: the hint of a changed style for the children. Those of an element that was not
\* displayed have no style yet.
ChangeHint(e) ==
  IF e \notin styled THEN {"RECASCADE_SELF"}
  ELSE change.outcome[e] \cup IF e \in change.hidden \ change.hides THEN {"RECASCADE_SELF"} ELSE {}

ComputedDisplay(e) == IF e \in change.hides THEN displayed \ {e} ELSE displayed \cup {e}

\* Mutant: the element is marked only if invalidation has reached below it.
NoteChildUnmarked(state, e, child, propagated) ==
  LET hinted == IF child \notin styled THEN state
                ELSE InvalidateStyleIfNeeded([state EXCEPT !.hint[child] = @ \cup propagated], child)
  IN IF ~ ElementNeedsTraversal(hinted, child) THEN hinted
     ELSE [hinted EXCEPT !.kids = Append(@, child)]

\* One child in note_children.
NoteChild(state, e, child, propagated) ==
  LET hinted == IF child \notin styled THEN state
                ELSE InvalidateStyleIfNeeded([state EXCEPT !.hint[child] = @ \cup propagated], child)
  IN IF ~ ElementNeedsTraversal(hinted, child) THEN hinted
     ELSE [hinted EXCEPT
             !.kids = Append(@, child),
             !.dirty = IF e \in styled THEN @ \cup {e} ELSE @]

\* Mutant: a sibling that a snapshot concerns is noted at once, and again in its turn.
NoteChildrenTwice(state, e, propagated) ==
  FoldLeft(LAMBDA s, child :
             LET noted1 == NoteChild(s, e, child, propagated)
                 marked == SelectSeq(Children[e], LAMBDA c : c \in LaterSiblings(child)
                                                             /\ noted1.hint[c] # s.hint[c])
             IN [noted1 EXCEPT !.kids = @ \o marked],
           state, Children[e])

NoteChildren(state, e, propagated) ==
  FoldLeft(LAMBDA s, child : NoteChild(s, e, child, propagated), state, Children[e])

\* clear_descendant_data: there is nothing to style below an element that is not displayed.
Cleared(state, e) ==
  [state EXCEPT
     !.hint = [d \in Element |-> IF d \in Descendants(e) THEN {} ELSE @[d]],
     !.dirty = @ \ ({e} \cup Descendants(e)),
     !.snapshot = @ \ Descendants(e)]

\* process_preorder and recalc_style_at for the first element in the queue.
Preorder(t) ==
  LET e == Head(discovered[t])
      kind == RestyleKind(e \in styled, hint[e], Flags[e])
      computed == kind # "none"
      display == IF computed THEN ComputedDisplay(e) ELSE displayed
      propagated == Propagate(hint[e]) \cup IF computed THEN ChangeHint(e) ELSE {}
      gone == IF computed /\ e \notin display THEN Descendants(e) ELSE {}
      s0 == [hint |-> [hint EXCEPT ![e] = {}], dirty |-> dirty, snapshot |-> snapshot, kids |-> <<>>]
      s1 == IF computed /\ e \notin display THEN Cleared(s0, e) ELSE s0
      s2 == IF (e \in s1.dirty \/ propagated # {}) /\ e \in display
            THEN NoteChildren(s1, e, propagated) ELSE s1
  IN /\ PreorderNoting(t, s2.kids)
     /\ hint' = s2.hint /\ dirty' = s2.dirty /\ snapshot' = s2.snapshot
     /\ styled' = (styled \ gone) \cup {e}
     /\ displayed' = display \ gone
     /\ bloom' = IF kind = "match"
                 THEN [bloom EXCEPT ![t] = InsertParentsRecovering(@, e, depth[t])]
                 ELSE bloom
     /\ work' = [work EXCEPT ![e] = @ \cup {kind}]
     /\ UNCHANGED change

\* The contexts are dropped after the scope, which clears the filters for the next restyle.
DropContexts ==
  /\ AllDone
  /\ \E t \in Thread : bloom[t].elements # <<>>
  /\ bloom' = [t \in Thread |-> Clear(bloom[t])]
  /\ UNCHANGED <<pvars, change, data, work>>

Step(t) == Preorder(t) \/ (TaskStep(t) /\ UNCHANGED <<change, data, bloom, work>>)

Next == (\E t \in Thread : Step(t)) \/ DropContexts

Spec == Init /\ [][Next]_vars

FairSpec == Spec /\ Fairness

-----------------------------------------------------------------------------
(* What the pending changes ask for, from the hints as they are documented:  *)
(* h, put on an element, concerns the one that is n levels below it.         *)

\* n = 0 is the element itself.
AsksToMatch(h, n, e) ==
  \/ h = "RESTYLE_SELF" /\ n = 0
  \/ h = "RESTYLE_DESCENDANTS" /\ n > 0
  \/ h = "RESTYLE_PSEUDOS" /\ n = 1 /\ "IS_PSEUDO" \in Flags[e]
  \/ h = "RESTYLE_SELF_IF_PSEUDO" /\ n = 0 /\ "IS_PSEUDO" \in Flags[e]
  \/ /\ h = "RESTYLE_IF_AFFECTED_BY_WM_OR_ANCESTOR_FONT"
     /\ "USES_FONT_OR_WM_RELATIVE_UNITS_ON_CONTAINER_QUERIES" \in Flags[e]
  \/ /\ "DEPENDS_ON_CONTAINER_STYLE_QUERY" \in Flags[e]
     /\ \/ h = "RESTYLE_IF_AFFECTED_BY_NAMED_STYLE_CONTAINER"
        \/ h = "RESTYLE_IF_AFFECTED_BY_STYLE_QUERIES" /\ n = 0
        \/ h = "RESTYLE_CHILD_IF_AFFECTED_BY_STYLE_QUERIES" /\ n = 1

AsksToCascade(h, n, e) ==
  \/ h = "RECASCADE_SELF" /\ n = 0
  \/ h = "RECASCADE_SELF_IF_INHERIT_RESET_STYLE" /\ n = 0 /\ "INHERITS_RESET_STYLE" \in Flags[e]
  \/ h = "RECASCADE_DESCENDANTS" /\ n > 0
  \/ h = "RESTYLE_IF_AFFECTED_BY_WM_OR_ANCESTOR_FONT" /\ "USES_FONT_OR_WM_RELATIVE_UNITS" \in Flags[e]

Below(a, e) == Depth(e) - Depth(a)

Restyled(e) == work[e] \cap {"match", "replace", "cascade"} # {}

\* What the new style of a asks of the elements below it.
HintOfChange(a) ==
  IF a \in Unstyled(change) THEN {"RECASCADE_SELF"} ELSE change.outcome[a]

\* Some hint on e or above it asks it of e: a pending one, or that of a style that was computed anew.
Asked(Asks(_, _, _), e) ==
  \/ \E a \in Ancestors(e) \cup {e} : \E h \in change.hint[a] : Asks(h, Below(a, e), e)
  \/ \E a \in Ancestors(e) : Restyled(a) /\ \E h \in HintOfChange(a) : Asks(h, Below(a, e) - 1, e)

MustMatch(e) ==
  \/ e \in Unstyled(change)
  \/ \E c \in change.snapshot : e \in Invalidates[c]
  \/ Asked(AsksToMatch, e)

MustReplace(e) == "RESTYLE_STYLE_ATTRIBUTE" \in change.hint[e]

\* What has to be done to e, given what was done above it.
Required(e) ==
  IF MustMatch(e) THEN "match" ELSE IF MustReplace(e) THEN "replace"
  ELSE IF Asked(AsksToCascade, e) THEN "cascade" ELSE "none"

Visible(e) == Ancestors(e) \subseteq displayed

\* The traversal goes to children of an element only, and to each once, whatever their siblings' snapshots
\* do to hints and dirty bits while they are noted: it is the one the theorems on ParallelTraversal are about.
ImplementsParallelTraversal == ParallelSpec

\* After a restyle every displayed element has been restyled in the way that the changes ask for, by the
\* cheapest kind that does, and once; no hint and no snapshot is left where it would never be found.
EveryElementRestyled ==
  AllDone => \A e \in Element : Ancestors(e) \subseteq displayed =>
    /\ work[e] \ {"none"} = {Required(e)} \ {"none"}
    /\ hint[e] = {} /\ e \in styled /\ e \notin snapshot

\* The pass after the traversal goes down the dirty bits to find what was restyled and had a style
\* before; it misses none.
PostTraversalFindsAll ==
  AllDone => \A e \in styled \ Unstyled(change) :
    Restyled(e) => Ancestors(e) \cap ({start} \cup Descendants(start)) \subseteq dirty

\* An element is matched with a filter that has exactly its ancestors and none of their hashes missing,
\* whichever parts of the tree the thread was in before and whichever counter is full.
MatchedWithAncestors ==
  [][\A t \in Thread :
       LET e == node'[t]
       IN at[t] = "next" /\ at'[t] = "noted" /\ "match" \in work'[e] =>
            /\ bloom'[t].elements = Chain[e]
            /\ \A a \in Ancestors(e) : \A h \in ToSet(HashesOf[a]) :
                 MightContainHash(bloom'[t].counts, h)]_vars
=============================================================================
