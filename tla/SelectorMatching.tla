-------------------------- MODULE SelectorMatching --------------------------
(* What a selector matches, and how it is matched: compounds from the right  *)
(* to the left with the backtracking of matching.rs, after a test of the     *)
(* selector's ancestor hashes against what the ancestors of the element      *)
(* have. A selector is a sequence of [has, comb], rightmost first: the       *)
(* simple selectors of a compound and the combinator to its left ("none"     *)
(* at the last). A simple selector is a name, or :is() or :not() of a list   *)
(* of selectors. at is [Element -> SUBSET Name]: the names elements have, or *)
(* had when a snapshot was taken. No shadow trees, :visited, :nth or :has.   *)
EXTENDS DomTree, SequencesExt

CONSTANTS
  Name,
  Kind   \* [Name -> the kind of name: what bucket and which filter it is for]

ASSUME KindAssumption ==
  Kind \in [Name -> {"root", "id", "class", "type", "attr", "rare", "state"}]

Is(list) == [kind |-> "is", list |-> list]
Not(list) == [kind |-> "not", list |-> list]
Simple(n) == [kind |-> "name", name |-> n]

AncestorCombinators == {"child", "descendant"}
SiblingCombinators == {"next", "later"}

NoElement == "no element"

Before(e, all) ==
  LET i == CHOOSE j \in DOMAIN all : all[j] = e IN IF i = 1 THEN NoElement ELSE all[i - 1]

PrevSibling(e) == IF e = Root THEN NoElement ELSE Before(e, Children[TraversalParent(e)])

Parent(e) == IF e = Root THEN NoElement ELSE TraversalParent(e)

-----------------------------------------------------------------------------
(* What it means to match.                                                   *)

Related(e, comb) ==
  CASE comb = "descendant" -> Ancestors(e)
    [] comb = "child" -> {Parent(e)} \ {NoElement}
    [] comb = "next" -> {PrevSibling(e)} \ {NoElement}
    [] comb = "later" -> {s \in Element : e \in LaterSiblings(s)}

RECURSIVE Means(_, _, _, _)

MeansCompound(c, e, at) ==
  \A i \in DOMAIN c.has :
    LET s == c.has[i]
    IN CASE s.kind = "name" -> s.name \in at[e]
         [] s.kind = "is" -> \E j \in DOMAIN s.list : Means(s.list[j], 1, e, at)
         [] s.kind = "not" -> \A j \in DOMAIN s.list : ~ Means(s.list[j], 1, e, at)

\* The compounds of sel from off on, leftwards, match with e for the first of them.
Means(sel, off, e, at) ==
  /\ MeansCompound(sel[off], e, at)
  /\ off = Len(sel) \/ \E r \in Related(e, sel[off].comb) : Means(sel, off + 1, r, at)

-----------------------------------------------------------------------------
(* How it is matched: matches_complex_selector_internal. A failure says from *)
(* where there is a point in going on: "later sibling", "descendant" or      *)
(* "globally" nowhere.                                                       *)

RECURSIVE MatchesComplexSelectorInternal(_, _, _, _), TryCandidates(_, _, _, _)

MatchesComplexSelector(sel, off, e, at) ==
  MatchesComplexSelectorInternal(sel, off, e, at) = "matched"

MatchesList(list, e, at) == \E j \in DOMAIN list : MatchesComplexSelector(list[j], 1, e, at)

MatchesCompoundSelector(c, e, at) ==
  \A i \in DOMAIN c.has :
    LET s == c.has[i]
    IN CASE s.kind = "name" -> s.name \in at[e]
         [] s.kind = "is" -> MatchesList(s.list, e, at)
         [] s.kind = "not" -> ~ MatchesList(s.list, e, at)

NextElementForCombinator(e, comb) ==
  IF comb \in SiblingCombinators THEN PrevSibling(e) ELSE Parent(e)

CandidateNotFound(comb) == IF comb \in SiblingCombinators THEN "descendant" ELSE "globally"

\* Mutant: a child that does not match is no more than a sibling that does not.
AfterFailureChildKept(comb, result) ==
  CASE comb = "descendant" -> "next"
    [] comb = "child" -> "globally"
    [] comb = "later" -> IF result = "descendant" THEN result ELSE "next"
    [] comb = "next" -> result

\* What a failed candidate means for a combinator: a result, or "next" for the next candidate.
AfterFailure(comb, result) ==
  CASE comb = "descendant" -> "next"
    [] comb = "child" -> "descendant"
    [] comb = "later" -> IF result = "descendant" THEN result ELSE "next"
    [] comb = "next" -> result

\* What comes of a candidate with this result for what is left of compound off.
AfterCandidate(sel, off, candidate, result, at) ==
  IF result \in {"matched", "globally"} THEN result
  ELSE IF AfterFailure(sel[off].comb, result) = "next" THEN TryCandidates(sel, off, candidate, at)
  ELSE AfterFailure(sel[off].comb, result)

TryCandidate(sel, off, candidate, at) ==
  IF candidate = NoElement THEN CandidateNotFound(sel[off].comb)
  ELSE AfterCandidate(sel, off, candidate, MatchesComplexSelectorInternal(sel, off + 1, candidate, at), at)

\* The loop over the candidates for what is left of compound off, which e matches.
TryCandidates(sel, off, e, at) ==
  TryCandidate(sel, off, NextElementForCombinator(e, sel[off].comb), at)

MatchesComplexSelectorInternal(sel, off, e, at) ==
  IF ~ MatchesCompoundSelector(sel[off], e, at) THEN "later sibling"
  ELSE IF off = Len(sel) THEN "matched"
  ELSE TryCandidates(sel, off, e, at)

-----------------------------------------------------------------------------
(* The fast rejection by ancestor hashes. The filter is exact here: a real   *)
(* one may also contain what no ancestor has, and rejects less. A selector   *)
(* keeps at most four hashes, and rejects less with fewer.                   *)

FilteredKinds == {"id", "class", "type", "attr"}

\* What the filter holds for an element: its ancestors' names.
BloomFilter(e, at) == {n \in UNION {at[a] : a \in Ancestors(e)} : Kind[n] \in FilteredKinds}

\* The compounds that an ancestor matches.
AncestorCompounds(sel) == {off \in 2..Len(sel) : sel[off - 1].comb \in AncestorCombinators}

RECURSIVE CollectSelectorHashes(_, _), CollectAncestorHashes(_)

\* Lists with one selector; with more of them no one need match.
SingleLists(c) == {c.has[i].list[1] : i \in {j \in DOMAIN c.has : c.has[j].kind = "is" /\ Len(c.has[j].list) = 1}}

CollectSelectorHashes(sel, offsets) ==
  UNION {{n \in Name : Simple(n) \in ToSet(sel[off].has) /\ Kind[n] \in FilteredKinds}
         \cup UNION {CollectSelectorHashes(s, {1} \cup AncestorCompounds(s)) : s \in SingleLists(sel[off])} :
           off \in offsets}

CollectAncestorHashes(sel) ==
  UNION {CollectAncestorHashes(s) : s \in SingleLists(sel[1])}
  \cup CollectSelectorHashes(sel, AncestorCompounds(sel))

SelectorMayMatch(sel, e, at) == CollectAncestorHashes(sel) \subseteq BloomFilter(e, at)
=============================================================================
