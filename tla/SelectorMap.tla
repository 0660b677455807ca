----------------------------- MODULE SelectorMap -----------------------------
(* The map from buckets to selectors, by which the rules for an element are  *)
(* found, and what a bucket says of the selector beyond its name             *)
(* (selector_map.rs, Rule::matches_selector in stylist.rs).                  *)
EXTENDS SelectorMatching

Bucket(kind, name) == [kind |-> kind, name |-> name]
Universal == Bucket("universal", "any")
RarePseudoClasses == Bucket("rare", "any")

Specificity(b) ==
  CASE b.kind = "root" -> 7 [] b.kind = "id" -> 6 [] b.kind = "class" -> 5 [] b.kind = "attr" -> 4
    [] b.kind = "type" -> 3 [] b.kind = "rare" -> 2 [] b.kind = "universal" -> 0

BucketForName(n) ==
  CASE Kind[n] = "state" -> Universal
    [] Kind[n] = "rare" -> RarePseudoClasses
    [] OTHER -> Bucket(Kind[n], n)

\* found is [bucket, disjoint, known]: the bucket so far, the buckets of the selectors of a list, and
\* what an element in the bucket is known to match: the "full" selector, its "subject" or "unknown".
RECURSIVE FindBucket(_, _, _)

\* The bucket for one simple selector, with the lists and the knowledge of found.
SpecificBucketFor(s, found) ==
  CASE s.kind = "name" ->
         [found EXCEPT !.bucket = BucketForName(s.name),
                       !.known = IF Kind[s.name] \in {"attr", "rare", "state"} THEN "unknown" ELSE @]
    [] s.kind = "is" /\ Len(s.list) = 1 -> FindBucket(s.list[1], TRUE, found)
    [] s.kind = "is" /\ Len(s.list) # 1 ->
         LET each[i \in 0..Len(s.list)] ==
               IF i = 0 THEN [found EXCEPT !.known = "unknown"]
               ELSE LET inner == FindBucket(s.list[i], TRUE, each[i - 1])
                    IN [inner EXCEPT !.disjoint = @ \cup {inner.bucket}]
         IN [each[Len(s.list)] EXCEPT !.bucket = Universal]
    [] s.kind = "not" -> [found EXCEPT !.bucket = Universal, !.known = "unknown"]

\* Of several specific ones the most specific is taken, and the rightmost of those.
AddSimpleSelector(found, s) ==
  LET new == SpecificBucketFor(s, found)
  IN [new EXCEPT
        !.bucket = IF Specificity(new.bucket) >= Specificity(found.bucket) THEN @ ELSE found.bucket,
        !.known = IF found.bucket # Universal THEN "unknown" ELSE @]

FindBucket(sel, nested, found) ==
  LET own == FoldLeft(AddSimpleSelector, [found EXCEPT !.bucket = Universal], sel[1].has)
  IN IF Len(sel) = 1 \/ own.known = "unknown" THEN own
     ELSE [own EXCEPT !.known = IF nested THEN "unknown" ELSE "subject"]

\* The buckets a selector is put in, and what they tell: [buckets, known].
Insert(sel) ==
  LET found == FindBucket(sel, FALSE, [bucket |-> Universal, disjoint |-> {}, known |-> "full"])
      apart == found.disjoint # {} /\ \A b \in found.disjoint : Specificity(b) > Specificity(found.bucket)
  IN [buckets |-> IF apart THEN found.disjoint ELSE {found.bucket}, known |-> found.known]

\* The buckets an element with these names is looked up in.
BucketsOf(names) == {BucketForName(n) : n \in names} \cup {Universal}

\* A selector from another compound on, as a dependency is put in its map.
From(sel, off) == SubSeq(sel, off, Len(sel))

Lookup(sel, off, names) == Insert(From(sel, off)).buckets \cap BucketsOf(names) # {}

\* Rule::matches_selector.
RuleMatchesSelector(sel, e, at) ==
  LET known == Insert(sel).known
  IN /\ SelectorMayMatch(sel, e, at)
     /\ CASE known = "full" -> TRUE
          [] known = "subject" -> TryCandidates(sel, 1, e, at) = "matched"
          [] known = "unknown" -> MatchesComplexSelector(sel, 1, e, at)

\* get_all_matching_rules, for a sheet of selectors.
GetAllMatchingRules(sheet, e, at) ==
  {sel \in sheet : Lookup(sel, 1, at[e]) /\ RuleMatchesSelector(sel, e, at)}
=============================================================================
