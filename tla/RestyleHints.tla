----------------------------- MODULE RestyleHints -----------------------------
(* What is to be done with an element's style: hints, how they pass from a   *)
(* parent to its children in a normal traversal, and the kind of restyle     *)
(* they ask for. A hint is a set of flags. The flags of animations are       *)
(* ElementRules' subject: a normal traversal meets none.                     *)

Hints == {"RESTYLE_SELF", "RESTYLE_PSEUDOS", "RESTYLE_SELF_IF_PSEUDO", "RESTYLE_DESCENDANTS",
          "RECASCADE_SELF", "RECASCADE_SELF_IF_INHERIT_RESET_STYLE", "RECASCADE_DESCENDANTS",
          "RESTYLE_STYLE_ATTRIBUTE", "RESTYLE_IF_AFFECTED_BY_STYLE_QUERIES",
          "RESTYLE_IF_AFFECTED_BY_NAMED_STYLE_CONTAINER",
          "RESTYLE_IF_AFFECTED_BY_WM_OR_ANCESTOR_FONT",
          "RESTYLE_CHILD_IF_AFFECTED_BY_STYLE_QUERIES"}

RestyleSubtree   == {"RESTYLE_SELF", "RESTYLE_DESCENDANTS"}
RecascadeSubtree == {"RECASCADE_SELF", "RECASCADE_DESCENDANTS"}

\* Flags of a computed style that decide what a conditional hint means for it.
StyleFlags == {"IS_PSEUDO", "INHERITS_RESET_STYLE", "DEPENDS_ON_CONTAINER_STYLE_QUERY",
               "USES_FONT_OR_WM_RELATIVE_UNITS",
               "USES_FONT_OR_WM_RELATIVE_UNITS_ON_CONTAINER_QUERIES"}

\* propagate_for_non_animation_restyle: the hint for the children.
Propagate(hint) ==
  LET Given(h, passed) == IF h \in hint THEN passed ELSE {}
  IN IF "RESTYLE_DESCENDANTS" \in hint THEN RestyleSubtree
     ELSE Given("RESTYLE_PSEUDOS", {"RESTYLE_SELF_IF_PSEUDO"})
          \cup Given("RECASCADE_DESCENDANTS", RecascadeSubtree)
          \cup Given("RESTYLE_IF_AFFECTED_BY_WM_OR_ANCESTOR_FONT",
                     {"RESTYLE_IF_AFFECTED_BY_WM_OR_ANCESTOR_FONT"})
          \cup Given("RESTYLE_CHILD_IF_AFFECTED_BY_STYLE_QUERIES",
                     {"RESTYLE_IF_AFFECTED_BY_STYLE_QUERIES"})
          \cup Given("RESTYLE_IF_AFFECTED_BY_NAMED_STYLE_CONTAINER",
                     {"RESTYLE_IF_AFFECTED_BY_NAMED_STYLE_CONTAINER"})

NeedsToMatchSelf(hint, flags) ==
  \/ "RESTYLE_SELF" \in hint
  \/ "RESTYLE_SELF_IF_PSEUDO" \in hint /\ "IS_PSEUDO" \in flags
  \/ /\ "RESTYLE_IF_AFFECTED_BY_WM_OR_ANCESTOR_FONT" \in hint
     /\ "USES_FONT_OR_WM_RELATIVE_UNITS_ON_CONTAINER_QUERIES" \in flags
  \/ /\ hint \cap {"RESTYLE_IF_AFFECTED_BY_STYLE_QUERIES",
                   "RESTYLE_IF_AFFECTED_BY_NAMED_STYLE_CONTAINER"} # {}
     /\ "DEPENDS_ON_CONTAINER_STYLE_QUERY" \in flags

NeedsToRecascadeSelf(hint, flags) ==
  \/ "RECASCADE_SELF" \in hint
  \/ "RECASCADE_SELF_IF_INHERIT_RESET_STYLE" \in hint /\ "INHERITS_RESET_STYLE" \in flags
  \/ /\ "RESTYLE_IF_AFFECTED_BY_WM_OR_ANCESTOR_FONT" \in hint
     /\ "USES_FONT_OR_WM_RELATIVE_UNITS" \in flags

\* restyle_kind. An element without styles is matched.
RestyleKind(styled, hint, flags) ==
  IF ~ styled \/ NeedsToMatchSelf(hint, flags) THEN "match"
  ELSE IF "RESTYLE_STYLE_ATTRIBUTE" \in hint THEN "replace"
  ELSE IF NeedsToRecascadeSelf(hint, flags) THEN "cascade"
  ELSE "none"
=============================================================================
