------------------------- MODULE MCRestyleTraversal -------------------------
EXTENDS RestyleTraversal, TLC

CONSTANTS main, worker

(*      root              Depth 0                                           *)
(*     /    \                                                               *)
(*    a      b                                                              *)
(*   / \     |                                                              *)
(*  c   d    e                                                              *)
(* / \  |                                                                   *)
(* g h  f                   Depth 3                                         *)
Elements == {"root", "a", "b", "c", "d", "e", "f", "g", "h"}
ElementChildren ==
  [e \in Elements |-> CASE e = "root" -> <<"a", "b">> [] e = "a" -> <<"c", "d">>
                        [] e = "b" -> <<"e">> [] e = "c" -> <<"g", "h">> [] e = "d" -> <<"f">> [] OTHER -> <<>>]

LocalQueues == main :> 1 @@ worker :> 0

\* The elements above one as a set and, from the root down, as a sequence.
ASSUME \A e \in Element : ToSet(Chain[e]) = Ancestors(e)

\* Every element is a div, some have a class; the hashes share slots.
Hashes == {"div", "x", "y"}
First  == "div" :> 1 @@ "x" :> 2 @@ "y" :> 3
Second == "div" :> 2 @@ "x" :> 3 @@ "y" :> 1
ElementHashes ==
  [e \in Elements |-> CASE e \in {"a", "b"} -> <<"div", "x">> [] e \in {"d", "e"} -> <<"div", "y">>
                        [] OTHER -> <<"div">>]

ElementFlags ==
  [e \in Elements |->
     CASE e = "c" -> {"IS_PSEUDO"}
       [] e = "b" -> {"INHERITS_RESET_STYLE", "DEPENDS_ON_CONTAINER_STYLE_QUERY"}
       [] e = "f" -> {"DEPENDS_ON_CONTAINER_STYLE_QUERY", "USES_FONT_OR_WM_RELATIVE_UNITS"}
       [] e = "e" -> {"USES_FONT_OR_WM_RELATIVE_UNITS_ON_CONTAINER_QUERIES"}
       [] OTHER -> {}]

\* A change of c matters to d and what is below it, one of a to b's child.
ElementInvalidates ==
  [e \in Elements |-> CASE e = "c" -> {"d", "f"} [] e = "a" -> {"a", "c", "e"}
                        [] e = "b" -> {"b"} [] OTHER -> {}]

NoHints == [e \in Elements |-> {}]
Quiet == [start |-> "root", hint |-> NoHints, snapshot |-> {}, fresh |-> {}, hidden |-> {},
          hides |-> {}, outcome |-> NoHints]

WithHint(c, e, h) == [c EXCEPT !.hint[e] = @ \cup h]

PendingHints ==
  {{h} : h \in Hints \ {"RESTYLE_PSEUDOS"}}
  \cup {RestyleSubtree, RecascadeSubtree, {"RESTYLE_SELF", "RESTYLE_PSEUDOS"}}

ChangeHints == {{"RECASCADE_SELF"}, {"RECASCADE_SELF_IF_INHERIT_RESET_STYLE"}, RestyleSubtree,
                {"RESTYLE_IF_AFFECTED_BY_NAMED_STYLE_CONTAINER"}}

\* Hints in two places, of which one changes its style.
HintChanges ==
  {WithHint(WithHint([Quiet EXCEPT !.outcome["a"] = h3], "b", {"RESTYLE_SELF"}), e, h) :
     e \in {"root", "a"}, h \in PendingHints, h3 \in ChangeHints}

SnapshotChanges ==
  {[Quiet EXCEPT !.snapshot = s, !.hint["d"] = h, !.start = r, !.hides = n] :
     s \in {{"c"}, {"a"}, {"a", "c"}, {"a", "b"}}, h \in {{}, RestyleSubtree}, r \in {"root"},
     n \in {{}, {"d"}}}
  \cup {[Quiet EXCEPT !.snapshot = {"a"}, !.start = "a"], [Quiet EXCEPT !.snapshot = {"c"}, !.start = "a"]}

DisplayChanges ==
  {[Quiet EXCEPT !.fresh = f, !.hidden = n, !.hides = m, !.hint["a"] = h] :
     f \in {{}, {"b", "e"}, {"c", "g", "h"}}, n \in {{}, {"a"}}, m \in {{}, {"a"}, {"root"}},
     h \in {{"RESTYLE_SELF"}, RestyleSubtree}}
  \cup {[Quiet EXCEPT !.fresh = Elements, !.hides = n] : n \in {{}, {"d"}}}

PendingChanges == HintChanges \cup SnapshotChanges \cup DisplayChanges
=============================================================================
