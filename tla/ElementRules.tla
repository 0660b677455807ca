----------------------------- MODULE ElementRules -----------------------------
(* The path that one element holds in the rule tree, while the rules that   *)
(* match it, its style attribute and its animations change. A change leaves *)
(* a hint; an animation-only traversal replaces the rules of animations and *)
(* a normal one replaces the style attribute's or matches anew              *)
(* (data.rs, traversal.rs, matching.rs). Gecko's handling of animations is  *)
(* modelled, since its two traversals are what the hints are for.           *)
EXTENDS RuleTreeInsert

CONSTANTS
  MatchSets,       \* sets of rules that may match together
  Slots,           \* how many slots the element is in, one inside the other
  Outer,           \* how many trees outwards have part rules
  AttributeBlock,  \* declarations a style attribute may have
  EffectBlock,     \* [Effects -> declarations an animation may have]
  FallbackBlock,   \* the declarations of a @position-try rule
  InitialContent,  \* [blocks -> SUBSET Importance]
  InPlace          \* [AttributeBlock -> contents it may be given in place]

Effects == {SMILOverride, Animations, Transitions}

ASSUME SlotsAssumption == Slots \in Nat /\ Slots < MaxShadowOrder /\ Outer \in Nat

Block == DOMAIN InitialContent

\* A rule that selectors match, or a presentational hint.
MatchedRule ==
  [origin : {UA, User, PresHints, Author}, depth : Int, layer : 0 .. RootLayer,
   specificity : Int, block : Block \ AttributeBlock]

\* Rules are in the trees around the element, and their order is settled by
\* their sort key. Hints, animations and @position-try have no important
\* declarations.
ASSUME ElementRulesAssumption ==
  /\ InitialContent \in [Block -> SUBSET Importance] /\ NoBlock \notin Block
  /\ AttributeBlock \subseteq Block
  /\ EffectBlock \in [Effects -> SUBSET (Block \ AttributeBlock)]
  /\ FallbackBlock \in Block \ AttributeBlock
  /\ \A e \in Effects : \A b \in EffectBlock[e] \cup {FallbackBlock} :
       "important" \notin InitialContent[b]
  /\ \A set \in MatchSets :
       /\ IsFiniteSet(set)
       /\ \A r \in set :
            /\ r \in MatchedRule
            /\ r.depth \in IF r.origin = Author THEN -(Slots + 1) .. Outer ELSE {0}
            /\ r.origin = PresHints => "important" \notin InitialContent[r.block]
       /\ \A r, q \in set :
            [r EXCEPT !.block = NoBlock] = [q EXCEPT !.block = NoBlock] => r = q

VARIABLES
  matched,    \* the rules that match the element now
  attribute,  \* its style attribute's declarations, or NoBlock
  effects,    \* [Effects -> declarations or NoBlock]
  content,    \* [blocks -> SUBSET Importance]
  path,       \* the element's rule node
  hint,       \* RestyleHint: a subset of Hints
  overriding  \* what the animations were told overrides them

vars == <<matched, attribute, effects, content, path, hint, overriding>>

\* The hint to replace the rule of an effect is the effect itself.
RestyleSelf           == 10
RestyleStyleAttribute == 11
Hints == {RestyleSelf, RestyleStyleAttribute} \cup Effects

-----------------------------------------------------------------------------
AuthorRuleOf(block, layer) ==
  [origin |-> Author, depth |-> 0, layer |-> layer, specificity |-> 0, block |-> block]

EffectRule(e, block) == [AuthorRuleOf(block, RootLayer) EXCEPT !.origin = e]

\* The rules that apply to an element with these effects.
RulesWith(some) ==
  matched
  \cup {AuthorRuleOf(b, StyleAttributeLayer) : b \in {attribute} \ {NoBlock}}
  \cup {EffectRule(e, some[e]) : e \in {d \in Effects : some[d] # NoBlock}}

PathWith(some) ==
  InsertOrderedRulesWithImportant(Collect(RulesWith(some), Slots, Outer), content)

MatchedPath == PathWith(effects)

NoEffects == [e \in Effects |-> NoBlock]

Init ==
  /\ matched \in MatchSets
  /\ attribute = NoBlock
  /\ effects = NoEffects
  /\ content = InitialContent
  /\ path = MatchedPath
  /\ hint = {}
  /\ overriding = OverridingAnimations(path, content)

-----------------------------------------------------------------------------
(* Changes, between traversals. *)

\* Sheets or the document change: the element needs to be matched.
ChangeMatches(set) ==
  /\ matched' = set
  /\ hint' = hint \cup {RestyleSelf}
  /\ UNCHANGED <<attribute, effects, content, path, overriding>>

SetAttribute(block) ==
  /\ attribute' = block
  /\ hint' = hint \cup {RestyleStyleAttribute}
  /\ UNCHANGED <<matched, effects, content, path, overriding>>

\* A script changes the declarations of the style attribute in place.
ChangeAttributeInPlace(importances) ==
  /\ attribute # NoBlock /\ importances \in InPlace[attribute]
  /\ content' = [content EXCEPT ![attribute] = importances]
  /\ hint' = hint \cup {RestyleStyleAttribute}
  /\ UNCHANGED <<matched, attribute, effects, path, overriding>>

\* An animation starts, ticks or ends. A new one is told what overrides it.
SetEffect(e, block) ==
  /\ effects' = [effects EXCEPT ![e] = block]
  /\ hint' = hint \cup {e}
  /\ overriding' = IF e = Animations /\ effects[e] = NoBlock
                     THEN OverridingAnimations(path, content) ELSE overriding
  /\ UNCHANGED <<matched, attribute, content, path>>

-----------------------------------------------------------------------------
(* Traversals. *)

\* replace_single_rule_node, for the effects in the order of the code.
ReplaceEffects(old, replacements) ==
  FoldLeft(LAMBDA p, e :
             IF e \in replacements
               THEN UpdateRuleAtLevel(p, Level(e), RootLayer, effects[e], content).path ELSE p,
           old, <<SMILOverride, Transitions, Animations>>)

\* The animation-only traversal never matches. An element that is not shown
\* and is to be matched is left alone, but its animation hints are gone too.
AnimationTraversal ==
  /\ hint \cap Effects # {}
  /\ \/ path' = ReplaceEffects(path, hint)
     \/ RestyleSelf \in hint /\ path' = path
  /\ hint' = hint \ Effects
  /\ UNCHANGED <<matched, attribute, effects, content, overriding>>

\* update_animations: CASCADE_RESULTS, for an element that has animations.
Tell(importantRulesChanged) ==
  IF importantRulesChanged /\ effects[Animations] # NoBlock
    THEN OverridingAnimations(path', content) ELSE overriding

\* RestyleKind::MatchAndCascade
Match ==
  /\ hint \cap Effects = {} /\ RestyleSelf \in hint
  /\ path' = MatchedPath
  /\ overriding' = Tell(TRUE)
  /\ hint' = {}
  /\ UNCHANGED <<matched, attribute, effects, content>>

\* RestyleKind::CascadeWithReplacements
ReplaceAttribute ==
  LET normal == UpdateRuleAtLevel(path, AuthorNormal(0), StyleAttributeLayer,
                                  attribute, content)
      both   == UpdateRuleAtLevel(normal.path, Important(AuthorNormal(0)),
                                  StyleAttributeLayer, attribute, content)
  IN  /\ hint = {RestyleStyleAttribute}
      /\ path' = both.path
      /\ overriding' = Tell(normal.importantChanged \/ both.importantChanged)
      /\ hint' = {}
      /\ UNCHANGED <<matched, attribute, effects, content>>

Next ==
  \/ \E set \in MatchSets : ChangeMatches(set)
  \/ \E b \in AttributeBlock \cup {NoBlock} : SetAttribute(b)
  \/ \E importances \in SUBSET Importance : ChangeAttributeInPlace(importances)
  \/ \E e \in Effects : \E b \in EffectBlock[e] \cup {NoBlock} : SetEffect(e, b)
  \/ AnimationTraversal
  \/ Match
  \/ ReplaceAttribute

Spec == Init /\ [][Next]_vars

-----------------------------------------------------------------------------
(* Properties. *)

\* The type invariant.
TypeOK ==
  /\ matched \in MatchSets
  /\ attribute \in AttributeBlock \cup {NoBlock}
  /\ \A e \in Effects : effects[e] \in EffectBlock[e] \cup {NoBlock}
  /\ content \in [Block -> SUBSET Importance]
  /\ path \in Seq([source : Block, priority : Priority])
  /\ hint \subseteq Hints
  /\ overriding \subseteq Block

\* The state has its type, and a child never has a lower priority than its
\* parent, however the path came about (ensure_child asserts it: "Should be
\* ordered").
PathOrdered == TypeOK /\ Ordered(path)

\* The cascade order as CSS states it: origin and importance, then tree,
\* then the style attribute, then layers, then specificity.
CascadeKey(rule, importance) ==
  LET tier == IF importance = "normal"
                THEN IF rule.origin = Transitions THEN 20 ELSE rule.origin
                ELSE 10 + (Author - rule.origin)
      sign == IF importance = "normal" THEN 1 ELSE -1
      attached == IF rule.layer = StyleAttributeLayer THEN 1 ELSE 0
  IN  <<tier, sign * rule.depth, attached, sign * rule.layer, rule.specificity>>

KeyLess(a, b) ==
  \E i \in DOMAIN a : a[i] < b[i] /\ \A j \in 1 .. i - 1 : a[j] = b[j]

\* The declarations of these rules in that order.
Cascaded(rules) ==
  LET all == {x \in rules \X Importance : x[2] \in content[x[1].block]}
      Less(x, y) == KeyLess(CascadeKey(x[1], x[2]), CascadeKey(y[1], y[2]))
      sorted == Ascending(all, Less)
  IN  [i \in DOMAIN sorted |-> <<sorted[i][1].block, sorted[i][2]>>]

\* The declarations that the cascade takes from a path, in its order.
Effective(p) ==
  LET entry(node) == <<node.source,
                       IF node.priority.level.important THEN "important" ELSE "normal">>
      nodes == Passing(p, LAMBDA node : entry(node)[2] \in content[entry(node)[1]])
  IN  [i \in DOMAIN nodes |-> entry(nodes[i])]

\* Once all hints are handled, the path gives the declarations of the rules,
\* the style attribute and the animations the element has now, in cascade
\* order, whether they were matched or replaced ("while still maintaining the
\* appropriate cascade order in the rule tree").
CascadeOrderRespected == hint = {} => Effective(path) = Cascaded(RulesWith(effects))

\* Then also the style before a change is the one without animations, the
\* style after it the one without transitions, and a @position-try rule lies
\* between author rules and animations.
DerivedPathsRight ==
  hint = {} =>
    LET Try(p) == UpdateRuleAtLevel(p, Level(PositionFallback), RootLayer,
                                    FallbackBlock, content).path
        fallback == EffectRule(PositionFallback, FallbackBlock)
    IN  /\ Effective(RemoveAnimationRules(path)) = Cascaded(RulesWith(NoEffects))
        /\ Effective(RemoveTransitionRule(path))
             = Cascaded(RulesWith([effects EXCEPT ![Transitions] = NoBlock]))
        /\ Effective(Try(path)) = Cascaded(RulesWith(effects) \cup {fallback})
        /\ Ordered(Try(path)) /\ Try(Try(path)) = Try(path)

\* Animations that run know which declarations override them: an important
\* rule never comes or goes without a report ("Returns true if an !important
\* rule was replaced").
AnimationsKnowOverrides ==
  hint = {} /\ effects[Animations] # NoBlock =>
    overriding = OverridingAnimations(path, content)
=============================================================================
