---------------------------- MODULE RuleTreeInsert ----------------------------
(* What a path of the rule tree is made of: the rules that apply to an      *)
(* element in the order in which they are collected (rule_collector.rs),    *)
(* their insertion (rule_tree/mod.rs) and the replacement of the one at a   *)
(* level. A path is the sequence of the sources and priorities of its nodes *)
(* below the root: ensure_child finds or makes the node for each. Content   *)
(* says which importances the declarations of a source have.                *)
EXTENDS CascadePriority, Sequences, SequencesExt, FiniteSets

CONSTANT
  NoBlock   \* no declarations

Importance == {"normal", "important"}

\* No node has a lower priority than its parent.
Ordered(path) == \A i \in 2 .. Len(path) : ~PriorityLess(path[i].priority, path[i - 1].priority)

\* The elements of S in ascending order, for a strict total order Less.
Ascending(S, Less(_, _)) ==
  [i \in 1 .. Cardinality(S) |->
     CHOOSE x \in S : Cardinality({y \in S : Less(y, x)}) = i - 1]

\* The elements of a sequence at some positions, in their order.
PartAt(list, positions) ==
  LET kept == Ascending(positions, <)
  IN  [k \in DOMAIN kept |-> list[kept[k]]]

\* SelectSeq, by the positions that it keeps.
Passing(list, Test(_)) == PartAt(list, {i \in DOMAIN list : Test(list[i])})

-----------------------------------------------------------------------------
(* Collecting. A rule is a record: its origin; for author rules how many     *)
(* trees outwards from the element it is (negative inwards, through the      *)
(* element's slots to the shadow tree it hosts itself); layer; specificity;  *)
(* declarations.                                                             *)

Smaller(a, b) == IF a < b THEN a ELSE b

\* dec once for each slot, from the outermost tree.
HostOrder(slots) == -Smaller(slots + 1, MaxShadowOrder)

\* inc once for each slot, back outwards; once for each tree with part rules.
ShadowOrder(slots, depth) ==
  IF depth < 0 THEN Smaller(HostOrder(slots) + (depth + slots + 1), MaxShadowOrder)
               ELSE Smaller(depth, MaxShadowOrder)

LevelOf(slots, rule) ==
  IF rule.origin = Author THEN AuthorNormal(ShadowOrder(slots, rule.depth))
                          ELSE Level(rule.origin)

Applicable(slots, rule) ==
  [source |-> rule.block,
   priority |-> [level |-> LevelOf(slots, rule), layer |-> rule.layer]]

\* ApplicableDeclarationBlock::sort_key; specificity stands for the proximity
\* and the source order too.
SortKeyLess(r, s) ==
  r.layer < s.layer \/ (r.layer = s.layer /\ r.specificity < s.specificity)

Of(rules, origin) == {r \in rules : r.origin = origin}

TreeRules(rules, depth) ==
  {r \in Of(rules, Author) : r.depth = depth /\ r.layer # StyleAttributeLayer}

\* The shadow tree the element hosts, then those of its slots, inmost first.
HostAndSlotted(rules, slots) ==
  [i \in 1 .. slots + 1 |-> TreeRules(rules, i - slots - 2)]

StyleAttribute(rules) == {r \in Of(rules, Author) : r.layer = StyleAttributeLayer}

\* ::part() rules, from the nearest tree outwards.
PartsFromOuterTrees(rules, outer) == [i \in 1 .. outer |-> TreeRules(rules, i)]

AnimationRules(rules) ==
  <<Of(rules, SMILOverride), Of(rules, Animations), Of(rules, Transitions)>>

\* in_tree: what one tree adds is sorted by itself.
SortedTree(slots, tree) ==
  LET sorted == Ascending(tree, SortKeyLess)
  IN  [i \in DOMAIN sorted |-> Applicable(slots, sorted[i])]

\* collect_all
Collect(rules, slots, outer) ==
  FoldLeft(LAMBDA list, tree : list \o SortedTree(slots, tree), << >>,
           <<Of(rules, UA), Of(rules, User), Of(rules, PresHints)>>
           \o HostAndSlotted(rules, slots)
           \o <<TreeRules(rules, 0), StyleAttribute(rules)>>
           \o PartsFromOuterTrees(rules, outer)
           \o AnimationRules(rules))

-----------------------------------------------------------------------------
(* Inserting. *)

AsImportant(applicable) ==
  [applicable EXCEPT !.priority.level = Important(applicable.priority.level)]

\* A mutant: important author rules stay in the order of the normal ones.
SortedByPriority_Unsorted(list) == list

\* The stable sort of the important author rules, needed only if they come
\* from different trees or layers.
SortedByPriority(list) ==
  LET Before(i, j) ==
        \/ PriorityLess(list[i].priority, list[j].priority)
        \/ /\ ~PriorityLess(list[j].priority, list[i].priority)
           /\ i < j
      order == Ascending(DOMAIN list, Before)
  IN  IF list = << >> \/ list[1].priority = list[Len(list)].priority
        THEN list
        ELSE [i \in DOMAIN list |-> list[order[i]]]

\* insert_ordered_rules_with_important
InsertOrderedRulesWithImportant(list, content) ==
  LET HasImportant(a)  == "important" \in content[a.source]
      IsTransition(a)  == a.priority.level.origin = Transitions
      ImportantOf(origin) ==
        LET found == Passing(list, LAMBDA a : HasImportant(a) /\ a.priority.level.origin = origin)
        IN  [i \in DOMAIN found |-> AsImportant(found[i])]
  IN  IF \A i \in DOMAIN list : ~HasImportant(list[i])
        THEN list
        ELSE Passing(list, LAMBDA a : ~IsTransition(a))
             \o SortedByPriority(ImportantOf(Author))
             \o ImportantOf(User)
             \o ImportantOf(UA)
             \o Passing(list, IsTransition)

-----------------------------------------------------------------------------
(* Replacing. *)

\* A mutant: the walk up passes the rule to replace.
WalkUp_TooFar(path, level) ==
  SelectLastInSubSeq(path, 1, Len(path), LAMBDA node : LevelLess(node.priority.level, level))

\* The nodes that update_rule_at_level leaves in place when it walks up from
\* the end of the path.
WalkUp(path, level) ==
  SelectLastInSubSeq(path, 1, Len(path), LAMBDA node : ~LevelLess(level, node.priority.level))

Relevant(level, block, content) ==
  /\ block # NoBlock
  /\ (IF level.important THEN "important" ELSE "normal") \in content[block]

\* A mutant: declarations that are there already are taken for unchanged.
ImportantChanged_NotInPlace(level, isHere, isSame, relevant) ==
  level.important /\ (relevant \/ isHere) /\ ~isSame

\* Whether important rules may have changed: the declarations that are there
\* already may have been changed in place.
ImportantChanged(level, isHere, isSame, relevant) ==
  level.important /\ (relevant \/ isHere)

\* update_rule_at_level: the new path and what it says of important rules.
UpdateRuleAtLevel(path, level, layer, block, content) ==
  LET kept     == WalkUp(path, level)
      priority == [level |-> level, layer |-> layer]
      isHere   == kept > 0 /\ path[kept].priority = priority
      isSame   == isHere /\ path[kept].source = block
      relevant == Relevant(level, block, content)
      above    == SubSeq(path, 1, IF isHere THEN kept - 1 ELSE kept)
      inserted == IF relevant THEN <<[source |-> block, priority |-> priority]>> ELSE << >>
  IN  [path |-> IF isSame THEN path
                ELSE above \o inserted \o SubSeq(path, kept + 1, Len(path)),
       importantChanged |-> ImportantChanged(level, isHere, isSame, relevant)]

\* remove_transition_rule_if_applicable
RemoveTransitionRule(path) ==
  IF path # << >> /\ path[Len(path)].priority.level.origin = Transitions
    THEN SubSeq(path, 1, Len(path) - 1) ELSE path

\* A mutant: the walk up ends below the level of CSS animations.
LowestAnimationLevel_Animations == Level(Animations)

LowestAnimationLevel == Level(SMILOverride)

\* is_animation
IsAnimation(level) == level.origin \in {SMILOverride, Animations, Transitions}

\* remove_animation_rules
RemoveAnimationRules(path) ==
  LET below == SelectLastInSubSeq(path, 1, Len(path),
                 LAMBDA node : LevelLess(node.priority.level, LowestAnimationLevel))
  IN  SubSeq(path, 1, below)
      \o Passing(SubSeq(path, below + 1, Len(path)),
                 LAMBDA node : ~IsAnimation(node.priority.level))

\* get_properties_overriding_animations, by the sources that have them: from
\* the end, transitions skipped, down to the level of animations.
OverridingAnimations(path, content) ==
  {node.source : node \in
     {n \in ToSet(path) : /\ n.priority.level.origin # Transitions
                          /\ LevelLess(Level(Animations), n.priority.level)
                          /\ "important" \in content[n.source]}}
=============================================================================
