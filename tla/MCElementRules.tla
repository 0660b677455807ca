---------------------------- MODULE MCElementRules ----------------------------
(* Rules of every origin, tree and layer for TLC. *)
EXTENDS ElementRules, TLC

Rule(origin, depth, layer, specificity, block) ==
  [origin |-> origin, depth |-> depth, layer |-> layer, specificity |-> specificity,
   block |-> block]

Agent   == Rule(UA, 0, RootLayer, 1, "agent")
Reader  == Rule(User, 0, RootLayer, 1, "reader")
Hint    == Rule(PresHints, 0, RootLayer, 0, "hint")
Host    == Rule(Author, -2, RootLayer, 1, "host")
Slotted == Rule(Author, -1, RootLayer, 1, "slotted")
First   == Rule(Author, 0, 0, 2, "first")
Second  == Rule(Author, 0, 1, 1, "second")
Plain   == Rule(Author, 0, RootLayer, 1, "plain")
Id      == Rule(Author, 0, RootLayer, 2, "id")
Part    == Rule(Author, 1, RootLayer, 1, "part")
Base    == Rule(User, 0, 0, 1, "base")

Both == {"normal", "important"}

Contents ==
  [b \in {"agent", "reader", "host", "slotted", "first", "second", "id", "part", "base",
          "styled"} |-> Both]
  @@ [b \in {"hint", "plain", "attr", "smil", "run", "tick", "transition", "try"} |-> {"normal"}]

InLayersAndTrees ==
  {{Agent, Hint, First, Second, Plain}, {Reader, Host, Slotted, Id, Part}}

InUserLayers == {{Reader, Base}}

Attributes == {"attr", "styled"}

EffectBlocks ==
  (SMILOverride :> {"smil"}) @@ (Animations :> {"run", "tick"}) @@ (Transitions :> {"transition"})

Changed == [b \in Attributes |-> IF b = "attr" THEN {} ELSE {{"normal"}, {"important"}, Both}]
=============================================================================
