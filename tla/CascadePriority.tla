--------------------------- MODULE CascadePriority ---------------------------
(* The order in which rules are applied: cascade levels (rule_tree/level.rs) *)
(* and, within a level, cascade layers (applicable_declarations.rs). A level *)
(* is a record instead of eight bits; the flags that a priority carries have *)
(* no part in the order and are left out.                                    *)
EXTENDS Integers

\* CascadeOrigin, in ascending order of precedence.
UA               == 0
User             == 1
PresHints        == 2
Author           == 3
PositionFallback == 4
SMILOverride     == 5
Animations       == 6
Transitions      == 7

\* How many trees away a rule is from the element; three bits and a sign.
MaxShadowOrder == 7
ShadowCascadeOrder == -MaxShadowOrder .. MaxShadowOrder

CascadeLevel ==
  [origin : UA .. Transitions, order : ShadowCascadeOrder, important : BOOLEAN]

\* CascadeLevel::new
Level(origin) == [origin |-> origin, order |-> 0, important |-> FALSE]

AuthorNormal(order) == [Level(Author) EXCEPT !.order = order]

Important(level) == [level EXCEPT !.important = TRUE]

\* LayerOrder: what is in no layer comes after every layer, and the style
\* attribute after that.
StyleAttributeLayer == 65535

RootLayer == StyleAttributeLayer - 1
LayerOrder == 0 .. StyleAttributeLayer

Priority == [level : CascadeLevel, layer : LayerOrder]

-----------------------------------------------------------------------------
\* Ord for CascadeLevel, Ordering::Less. Important rules override all but
\* transitions, and the order among them is reversed.
LevelLess(a, b) ==
  LET Below(x, y) == x.origin < y.origin \/ (x.origin = y.origin /\ x.order < y.order)
  IN  IF a.important # b.important
        THEN IF a.important THEN b.origin = Transitions ELSE a.origin # Transitions
        ELSE IF a.important THEN Below(b, a) ELSE Below(a, b)

\* Ord for CascadePriority, Ordering::Less. Among important rules the first
\* layer wins, but the style attribute wins over all of its tree either way.
PriorityLess(p, q) ==
  \/ LevelLess(p.level, q.level)
  \/ /\ p.level = q.level
     /\ IF /\ p.level.important
           /\ p.layer # StyleAttributeLayer
           /\ q.layer # StyleAttributeLayer
          THEN q.layer < p.layer
          ELSE p.layer < q.layer
=============================================================================
