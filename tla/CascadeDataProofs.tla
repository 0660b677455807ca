-------------------------- MODULE CascadeDataProofs --------------------------
(***************************************************************************)
(* That cascade data that are rebuilt sheet by sheet are what a build from *)
(* nothing gives, whatever the changes of the collection and of the rules  *)
(* were, for documents whose custom media queries are used in the sheet    *)
(* that defines them: then what a sheet adds to the data does not depend   *)
(* on the sheets before it. Nothing here is about a state: an environment, *)
(* a collection and the data built from it are given as values, for the    *)
(* proofs about the stylist and about the cache of shadow roots.           *)
(***************************************************************************)
EXTENDS StylesheetSet, SetInduction, SequenceTheorems

-----------------------------------------------------------------------------
(* Documents. *)

IsCustom(r) == Kind[r] = "custom_media"

Uses(s, n) ==
  \/ SheetMedia[s] = n
  \/ \E r \in RulesOf(s) : Kind[r] = "media" /\ InitialCondition[r] = n

\* A name that a sheet uses is defined in no other, and once at most.
NamesAreLocal ==
  \A s \in Sheet, n \in Name : Uses(s, n) =>
    /\ \A r \in Rule : IsCustom(r) /\ Defines[r] = n => r \in RulesOf(s)
    /\ \A q, r \in Rule : IsCustom(q) /\ IsCustom(r) /\ Defines[q] = n /\ Defines[r] = n => q = r

\* What the rules of sheets can be: scripts give blocks conditions without names.
Environment ==
  {env \in [wide : BOOLEAN, contents : [Sheet -> Seq(Rule)], condition : [Rule -> Condition]] :
     /\ \A s \in Sheet : ToSet(env.contents[s]) \subseteq RulesOf(s)
     /\ \A r \in Rule : env.condition[r] \in BaseCondition \/ (~IsCustom(r) /\ env.condition[r] = InitialCondition[r])}

-----------------------------------------------------------------------------
(* What a sheet adds. *)

\* A condition without names.
BaseHolds(env, cond) == cond = "all" \/ (cond = "wide" /\ env.wide)

\* The first i rules of s define n.
Given(env, s, i, n) == \E j \in 1 .. i : IsCustom(env.contents[s][j]) /\ Defines[env.contents[s][j]] = n

CondApplies(env, s, i, cond) ==
  \/ BaseHolds(env, cond)
  \/ \E j \in 1 .. i : LET q == env.contents[s][j]
                       IN IsCustom(q) /\ Defines[q] = cond /\ BaseHolds(env, env.condition[q])

SheetApplies(env, s) == BaseHolds(env, SheetMedia[s])

\* The positions of the blocks of s that apply.
Blocks(env, s) ==
  {i \in DOMAIN env.contents[s] : LET r == env.contents[s][i]
                                  IN Kind[r] = "media" /\ CondApplies(env, s, i - 1, env.condition[r])}

\* What s adds to the effective results, and to the cascade.
Noted(env, s) == IF SheetApplies(env, s) THEN {s} \cup {env.contents[s][i] : i \in Blocks(env, s)} ELSE {}

Cascading(env, s) ==
  IF SheetApplies(env, s)
    THEN {env.contents[s][i] : i \in Blocks(env, s)} \cup {r \in ToSet(env.contents[s]) : Kind[r] = "style"}
    ELSE {}

\* A custom media map that has of the names that s uses those that s defines.
Knows(env, custom, s) ==
  \A n \in Name : Uses(s, n) =>
    /\ n \in DOMAIN custom <=> SheetApplies(env, s) /\ Given(env, s, Len(env.contents[s]), n)
    /\ n \in DOMAIN custom => \A r \in Rule : IsCustom(r) /\ Defines[r] = n => custom[n] = env.condition[r]

\* The rules and custom media of data are those of a build of the first k sheets of ss.
BuiltTo(env, ss, k, data) ==
  LET built == Build(env, SubSeq(ss, 1, k))
  IN  data.rules = built.rules /\ data.custom = built.custom

-----------------------------------------------------------------------------
(* The invariant. *)

\* Whether a sheet of an origin was there at the last flush.
BuiltAt(o, coll, i) == o = "UserAgent" \/ coll.entries[i].committed

CollectionShape(o, coll) ==
  /\ \A i, j \in DOMAIN coll.entries : coll.entries[i].sheet = coll.entries[j].sheet => i = j
  /\ ~coll.dirty => coll.validity = Valid /\ \A i \in DOMAIN coll.entries : BuiltAt(o, coll, i)

\* Whether some of the data of the origin will be kept.
IsKept(o, coll) == IF o = "UserAgent" THEN ~coll.dirty ELSE coll.validity # FullyInvalid

BuiltSheets(o, coll) == {coll.entries[i].sheet : i \in {j \in DOMAIN coll.entries : BuiltAt(o, coll, j)}}

\* The kept data are right about the sheets that were there, and in their order unless it changed.
DataSound(env, o, coll, data) ==
  /\ data.effective = UNION {Noted(env, s) : s \in BuiltSheets(o, coll)}
  /\ \A s \in BuiltSheets(o, coll) : Cascading(env, s) \subseteq data.selectors /\ Knows(env, data.custom, s)
  /\ coll.validity = Valid =>
       \E k \in 0 .. Len(coll.entries) :
         /\ \A i \in DOMAIN coll.entries : BuiltAt(o, coll, i) <=> i <= k
         /\ BuiltTo(env, Sheets(coll), k, data)

\* What there is of an origin.
OriginOK(env, o, coll, data) ==
  /\ coll \in Collection /\ data \in CascadeDataType
  /\ CollectionShape(o, coll)
  /\ IsKept(o, coll) => DataSound(env, o, coll, data)

-----------------------------------------------------------------------------
(* One rule.                                                                *)

CustomMedia == UNION {[N -> BaseCondition] : N \in SUBSET Name}

\* Maps of custom media, by their values.
LEMMA CustomMediaMaps ==
  /\ \A m \in CustomMedia : /\ DOMAIN m \in SUBSET Name /\ m = [n \in DOMAIN m |-> m[n]]
                            /\ \A n \in DOMAIN m : m[n] \in BaseCondition
  /\ \A N \in SUBSET Name : [N -> BaseCondition] \subseteq CustomMedia
  /\ << >> \in CustomMedia /\ DOMAIN << >> = {}
<1>1. \A m \in CustomMedia : /\ DOMAIN m \in SUBSET Name /\ m = [n \in DOMAIN m |-> m[n]]
                             /\ \A n \in DOMAIN m : m[n] \in BaseCondition
  BY DEF CustomMedia
<1>2. \A N \in SUBSET Name : [N -> BaseCondition] \subseteq CustomMedia
  BY DEF CustomMedia
<1>3. << >> \in [{} -> BaseCondition] /\ DOMAIN << >> = {}
  <2>1. DOMAIN << >> = {}
    OBVIOUS
  <2>2. << >> = [n \in {} |-> "all"]
    BY SMT
  <2>. QED  BY <2>1, <2>2
<1>4. {} \in SUBSET Name
  OBVIOUS
<1>. QED  BY <1>1, <1>2, <1>3, <1>4

\* The data of an origin, by their fields.
LEMMA DataFields ==
  /\ CascadeDataType = [rules : Seq(Rule), custom : CustomMedia,
                        selectors : SUBSET Rule, effective : SUBSET (Sheet \cup Rule)]
  /\ EmptyData \in CascadeDataType
<1>1. CascadeDataType = [rules : Seq(Rule), custom : CustomMedia,
                         selectors : SUBSET Rule, effective : SUBSET (Sheet \cup Rule)]
  BY DEF CascadeDataType, CustomMedia
<1>2. << >> \in Seq(Rule) /\ << >> \in CustomMedia
  BY CustomMediaMaps
<1>. QED  BY <1>1, <1>2 DEF EmptyData

\* Setting the fields of a style rule.
LEMMA StyleFields ==
  ASSUME NEW data \in CascadeDataType, NEW x, NEW y
  PROVE  [data EXCEPT !.rules = x, !.selectors = y]
           = [rules |-> x, custom |-> data.custom, selectors |-> y, effective |-> data.effective]
<1>1. PICK r : r = [data EXCEPT !.rules = x]
  OBVIOUS
<1>2. r = [rules |-> x, custom |-> data.custom, selectors |-> data.selectors, effective |-> data.effective]
  BY <1>1, DataFields
<1>3. [r EXCEPT !.selectors = y]
        = [rules |-> x, custom |-> data.custom, selectors |-> y, effective |-> data.effective]
  BY ONLY <1>2
<1>4. [data EXCEPT !.rules = x, !.selectors = y] = [r EXCEPT !.selectors = y]
  BY ONLY <1>1, Zenon
<1>. QED  BY <1>3, <1>4

\* What adding rule r to data does, if blocks apply or not.
RuleAdded(env, full, data, r, result) ==
  LET applies == Kind[r] = "style" \/ (Kind[r] = "media" /\ Holds(env.condition[r], data.custom, env.wide))
  IN  /\ result \in CascadeDataType
      /\ result.rules = IF applies THEN Append(data.rules, r) ELSE data.rules
      /\ result.selectors = IF applies /\ full THEN data.selectors \cup {r} ELSE data.selectors
      /\ result.effective = IF applies /\ full /\ Kind[r] = "media" THEN data.effective \cup {r}
                            ELSE data.effective
      /\ result.custom = IF IsCustom(r)
                           THEN [n \in DOMAIN data.custom \cup {Defines[r]} |->
                                   IF n = Defines[r] THEN env.condition[r] ELSE data.custom[n]]
                           ELSE data.custom

\* The kinds of a rule and the name of a definition.
LEMMA RuleKinds ==
  ASSUME NEW r \in Rule
  PROVE  /\ Kind[r] \in {"style", "media", "custom_media"}
         /\ IsCustom(r) => Defines[r] \in Name
         /\ IsCustom(r) <=> Kind[r] = "custom_media"
BY CascadeDataAssumption DEF IsCustom

\* A rule is added like that.
LEMMA AddOneRule ==
  ASSUME NEW env \in Environment, NEW full \in BOOLEAN, NEW data \in CascadeDataType, NEW r \in Rule
  PROVE  RuleAdded(env, full, data, r, AddRule(env, full, data, r))
<1>. DEFINE added == AddRule(env, full, data, r)
<1>0. PICK a, b, c, d : /\ a \in Seq(Rule) /\ b \in CustomMedia /\ c \in SUBSET Rule
                        /\ d \in SUBSET (Sheet \cup Rule)
                        /\ data = [rules |-> a, custom |-> b, selectors |-> c, effective |-> d]
  BY DataFields
<1>1. Append(a, r) \in Seq(Rule) /\ c \cup {r} \in SUBSET Rule /\ d \cup {r} \in SUBSET (Sheet \cup Rule)
  BY <1>0
<1>11. ASSUME NEW y \in CascadeDataType
       PROVE  LET z == AddStyle(full, y, r)
              IN  /\ z.rules = Append(y.rules, r) /\ z.custom = y.custom
                  /\ z.selectors = (IF full THEN y.selectors \cup {r} ELSE y.selectors)
                  /\ z.effective = y.effective /\ z \in CascadeDataType
  <2>1. PICK x \in SUBSET Rule : x = IF full THEN y.selectors \cup {r} ELSE y.selectors
    BY DataFields
  <2>2. AddStyle(full, y, r) = [y EXCEPT !.rules = Append(y.rules, r), !.selectors = x]
    BY <2>1, Zenon DEF AddStyle
  <2>3. Append(y.rules, r) \in Seq(Rule)
    BY DataFields
  <2>4. AddStyle(full, y, r) = [rules |-> Append(y.rules, r), custom |-> y.custom, selectors |-> x,
                                effective |-> y.effective]
    BY <2>2, StyleFields
  <2>5. PICK z : z = AddStyle(full, y, r)
    OBVIOUS
  <2>6. z = [rules |-> Append(y.rules, r), custom |-> y.custom, selectors |-> x, effective |-> y.effective]
    BY <2>4, <2>5
  <2>7. z \in CascadeDataType
    BY <2>3, <2>6, DataFields
  <2>8. /\ z.rules = Append(y.rules, r) /\ z.custom = y.custom /\ z.selectors = x
        /\ z.effective = y.effective
    BY ONLY <2>6
  <2>. QED  BY <2>1, <2>5, <2>7, <2>8
<1>2. CASE Kind[r] = "style"
  <2>1. added = AddStyle(full, data, r)
    BY <1>2 DEF AddRule
  <2>2. ~IsCustom(r) /\ Kind[r] # "media"
    BY <1>2, RuleKinds
  <2>3. /\ added.rules = Append(data.rules, r) /\ added.custom = data.custom
        /\ added.selectors = (IF full THEN data.selectors \cup {r} ELSE data.selectors)
        /\ added.effective = data.effective /\ added \in CascadeDataType
    BY <1>11, <2>1
  <2>. HIDE DEF added
  <2>4. RuleAdded(env, full, data, r, added)
    BY <1>2, <2>2, <2>3 DEF RuleAdded
  <2>. QED  BY <2>4 DEF added
<1>3. CASE Kind[r] = "media" /\ Holds(env.condition[r], data.custom, env.wide)
  <2>1. PICK e : e = SawEffective(full, data, r)
    OBVIOUS
  <2>2. /\ e = [rules |-> a, custom |-> b, selectors |-> c, effective |-> IF full THEN d \cup {r} ELSE d]
        /\ e \in CascadeDataType
    BY <1>0, <1>1, <2>1, DataFields DEF SawEffective
  <2>3. added = AddStyle(full, e, r)
    BY <1>3, <2>1 DEF AddRule
  <2>4. ~IsCustom(r)
    BY <1>3, RuleKinds
  <2>5. /\ added.rules = Append(e.rules, r) /\ added.custom = e.custom
        /\ added.selectors = (IF full THEN e.selectors \cup {r} ELSE e.selectors)
        /\ added.effective = e.effective /\ added \in CascadeDataType
    BY <1>11, <2>2, <2>3
  <2>6. /\ e.rules = data.rules /\ e.custom = data.custom /\ e.selectors = data.selectors
        /\ e.effective = IF full THEN data.effective \cup {r} ELSE data.effective
    BY <1>0, <2>2
  <2>. HIDE DEF added
  <2>7. RuleAdded(env, full, data, r, added)
    BY <1>3, <2>4, <2>5, <2>6 DEF RuleAdded
  <2>. QED  BY <2>7 DEF added
<1>4. CASE Kind[r] = "media" /\ ~Holds(env.condition[r], data.custom, env.wide)
  <2>1. added = data
    BY <1>4 DEF AddRule
  <2>. QED  BY <1>4, <2>1 DEF RuleAdded, IsCustom
<1>5. CASE Kind[r] = "custom_media"
  <2>1. PICK m : m = [n \in DOMAIN b \cup {Defines[r]} |-> IF n = Defines[r] THEN env.condition[r] ELSE b[n]]
    OBVIOUS
  <2>2. added = [rules |-> a, custom |-> m, selectors |-> c, effective |-> d]
    BY <1>0, <1>5, <2>1 DEF AddRule
  <2>3. env.condition[r] \in BaseCondition
    BY <1>5 DEF Environment, IsCustom
  <2>4. m \in CustomMedia
    <3>1. DOMAIN b \cup {Defines[r]} \in SUBSET Name
      BY <1>0, <1>5, CustomMediaMaps, RuleKinds
    <3>2. m \in [DOMAIN b \cup {Defines[r]} -> BaseCondition]
      BY <1>0, <2>1, <2>3, CustomMediaMaps
    <3>. QED  BY <3>1, <3>2, CustomMediaMaps
  <2>. QED  BY <1>0, <1>5, <2>1, <2>2, <2>4, DataFields DEF RuleAdded, IsCustom
<1>. QED  BY <1>2, <1>3, <1>4, <1>5, RuleKinds

-----------------------------------------------------------------------------
(* The folds, unfolded.                                                     *)

\* Noting that something is effective.
LEMMA SawIt ==
  ASSUME NEW full \in BOOLEAN, NEW data \in CascadeDataType, NEW x \in Sheet \cup Rule
  PROVE  LET e == SawEffective(full, data, x)
         IN  /\ e \in CascadeDataType /\ e.rules = data.rules /\ e.custom = data.custom
             /\ e.selectors = data.selectors
             /\ e.effective = data.effective \cup IF full THEN {x} ELSE {}
<1>1. PICK e : e = SawEffective(full, data, x)
  OBVIOUS
<1>2. PICK y \in SUBSET (Sheet \cup Rule) : y = IF full THEN data.effective \cup {x} ELSE data.effective
  BY DataFields
<1>3. e = [rules |-> data.rules, custom |-> data.custom, selectors |-> data.selectors, effective |-> y]
  BY <1>1, <1>2, DataFields DEF SawEffective
<1>4. e \in CascadeDataType
  BY <1>3, DataFields
<1>. QED  BY <1>1, <1>2, <1>3, <1>4

\* The rules of a sheet, one after the other.
RulesAdded(env, full, data, v) == FoldLeft(LAMBDA d, r : AddRule(env, full, d, r), data, v)

\* That is a sequence of steps.
LEMMA RulesInTurn ==
  ASSUME NEW env \in Environment, NEW full \in BOOLEAN, NEW data \in CascadeDataType, NEW v \in Seq(Rule)
  PROVE  \E g \in [0 .. Len(v) -> CascadeDataType] :
           /\ g[0] = data /\ g[Len(v)] = RulesAdded(env, full, data, v)
           /\ \A i \in 1 .. Len(v) : g[i] = AddRule(env, full, g[i - 1], v[i])
<1>. DEFINE n == Len(v)
            f == [x \in (1 .. n) \X CascadeDataType |-> AddRule(env, full, x[2], v[x[1]])]
            Eq(h) == h = [q \in SUBSET (1 .. n) |->
                            IF q = {} THEN data ELSE AddRule(env, full, h[q \ {Max(q)}], v[Max(q)])]
<1>1. n \in Nat /\ DOMAIN v = 1 .. n /\ \A i \in 1 .. n : v[i] \in Rule
  OBVIOUS
<1>2. data \in CascadeDataType
  OBVIOUS
<1>. HIDE DEF n
<1>3. ASSUME NEW i \in 1 .. n, NEW d \in CascadeDataType PROVE AddRule(env, full, d, v[i]) \in CascadeDataType
  BY <1>1, AddOneRule DEF RuleAdded
<1>4. f \in [(1 .. n) \X CascadeDataType -> CascadeDataType] /\ \A i \in 1 .. n, d \in CascadeDataType : f[<<i, d>>] = AddRule(env, full, d, v[i])
  BY <1>3
<1>. HIDE DEF f
<1>5. PICK h \in [SUBSET (1 .. n) -> CascadeDataType] : IsFold(h, n, data, f)
  <2>1. PICK f1, D1, b1 : f1 = f /\ D1 = CascadeDataType /\ b1 = data
    OBVIOUS
  <2>2. f1 \in [(1 .. n) \X D1 -> D1] /\ b1 \in D1
    BY <1>2, <1>4, <2>1
  <2>3. \E h \in [SUBSET (1 .. n) -> D1] : IsFold(h, n, b1, f1)
    BY ONLY <1>1, <2>2, FoldExists
  <2>. QED  BY <2>1, <2>3
<1>6. Eq(h)
  <2>1. ASSUME NEW q \in SUBSET (1 .. n), q # {}
        PROVE  h[q] = AddRule(env, full, h[q \ {Max(q)}], v[Max(q)])
    <3>1. Max(q) \in 1 .. n
      BY <1>1, <2>1, LastPosition
    <3>2. h[q \ {Max(q)}] \in CascadeDataType
      BY <2>1
    <3>3. h[q] = f[<<Max(q), h[q \ {Max(q)}]>>]
      BY <1>5, <2>1 DEF IsFold
    <3>. QED  BY <1>4, <3>1, <3>2, <3>3
  <2>2. h[{}] = data
    <3>1. {} \in SUBSET (1 .. n)
      OBVIOUS
    <3>. QED  BY <1>5, <3>1 DEF IsFold
  <2>. QED  BY <2>1, <2>2
<1>7. PICK c : Eq(c) /\ RulesAdded(env, full, data, v) = c[1 .. n]
  <2>1. RulesAdded(env, full, data, v) = (CHOOSE c : Eq(c))[1 .. n]
    BY <1>1 DEF RulesAdded, FoldLeft, MapThenFoldSet
  <2>. HIDE DEF Eq
  <2>. QED  BY <1>6, <2>1
<1>. DEFINE g == [i \in 0 .. n |-> c[1 .. i]]
<1>8. g[0] = data
  <2>1. 1 .. 0 = {} /\ {} \in SUBSET (1 .. n)
    OBVIOUS
  <2>2. c[{}] = data
    BY <1>7, <2>1
  <2>3. 0 \in 0 .. n
    BY <1>1
  <2>4. g[0] = c[1 .. 0]
    BY <2>3
  <2>. QED  BY <2>1, <2>2, <2>4
<1>9. ASSUME NEW i \in 1 .. n PROVE g[i] = AddRule(env, full, g[i - 1], v[i])
  <2>1. /\ (1 .. i) \in SUBSET (1 .. n) /\ 1 .. i # {}
        /\ Max(1 .. i) = i /\ (1 .. i) \ {Max(1 .. i)} = 1 .. (i - 1)
    BY <1>1, LastOfPrefix
  <2>2. c[1 .. i] = AddRule(env, full, c[1 .. (i - 1)], v[i])
    BY <1>7, <2>1
  <2>3. i \in 0 .. n /\ i - 1 \in 0 .. n
    BY <1>1
  <2>. QED  BY <2>2, <2>3
<1>10. n \in 0 .. n
  BY <1>1
<1>11. g[n] = RulesAdded(env, full, data, v)
  BY <1>7, <1>10
<1>. HIDE DEF g
<1>12. \A i \in 0 .. n : g[i] \in CascadeDataType
  <2>. DEFINE T == {i \in 0 .. n : g[i] \in CascadeDataType}
  <2>1. 0 \in T
    BY <1>1, <1>2, <1>8
  <2>2. ASSUME NEW i \in 1 .. n, i - 1 \in T PROVE i \in T
    <3>1. PICK d \in CascadeDataType : d = g[i - 1]
      BY <2>2
    <3>2. g[i] = AddRule(env, full, d, v[i])
      BY <1>9, <3>1
    <3>. QED  BY <1>1, <1>3, <3>2
  <2>. HIDE DEF T
  <2>3. 0 .. n \subseteq T
    <3>1. PICK T1 : T1 = T
      OBVIOUS
    <3>2. 0 \in T1 /\ \A i \in 1 .. n : i - 1 \in T1 => i \in T1
      BY <2>1, <2>2, <3>1
    <3>3. 0 .. n \subseteq T1
      BY ONLY <1>1, <3>2, PrefixInduction
    <3>. QED  BY <3>1, <3>3
  <2>. QED  BY <2>3 DEF T
<1>13. g \in [0 .. n -> CascadeDataType]
  BY <1>12 DEF g
<1>. QED  BY <1>8, <1>9, <1>11, <1>13 DEF n

-----------------------------------------------------------------------------
(* One sheet.                                                               *)

\* Of the names that s uses, the map has those that the first i rules define.
KnowsTo(env, custom, s, i) ==
  \A n \in Name : Uses(s, n) =>
    /\ n \in DOMAIN custom <=> Given(env, s, i, n)
    /\ n \in DOMAIN custom => \A r \in Rule : IsCustom(r) /\ Defines[r] = n => custom[n] = env.condition[r]

\* A map without the names that s uses.
NewTo(custom, s) == \A n \in Name : Uses(s, n) => n \notin DOMAIN custom

\* What an environment is.
LEMMA EnvironmentFacts ==
  ASSUME NEW env \in Environment, NEW s \in Sheet
  PROVE  /\ env.contents[s] \in Seq(Rule) /\ env.wide \in BOOLEAN
         /\ \A i \in 1 .. Len(env.contents[s]) : env.contents[s][i] \in Rule /\ env.contents[s][i] \in RulesOf(s)
         /\ \A r \in Rule : /\ env.condition[r] \in Condition
                            /\ env.condition[r] \in BaseCondition
                               \/ (~IsCustom(r) /\ env.condition[r] = InitialCondition[r])
<1>1. env.contents \in [Sheet -> Seq(Rule)] /\ env.wide \in BOOLEAN /\ env.condition \in [Rule -> Condition]
      /\ ToSet(env.contents[s]) \subseteq RulesOf(s)
      /\ \A r \in Rule : env.condition[r] \in BaseCondition
                         \/ (~IsCustom(r) /\ env.condition[r] = InitialCondition[r])
  BY DEF Environment
<1>2. PICK v \in Seq(Rule) : v = env.contents[s]
  BY <1>1
<1>3. \A i \in 1 .. Len(v) : v[i] \in Rule /\ v[i] \in ToSet(v)
  BY DEF ToSet
<1>. QED  BY <1>1, <1>2, <1>3

\* A condition is one without names, or a name, and not both.
LEMMA Conditions ==
  ASSUME NEW c \in Condition
  PROVE  c \in Name <=> c # "all" /\ c # "wide"
BY CascadeDataAssumption DEF Condition, BaseCondition

\* Whether a block applies depends on the rules before it in its sheet.
LEMMA CondHolds ==
  ASSUME NamesAreLocal, NEW env \in Environment, NEW s \in Sheet, NEW i \in 0 .. Len(env.contents[s]),
         NEW custom \in CustomMedia, KnowsTo(env, custom, s, i),
         NEW r \in RulesOf(s), r \in Rule, Kind[r] = "media"
  PROVE  Holds(env.condition[r], custom, env.wide) <=> CondApplies(env, s, i, env.condition[r])
<1>1. PICK cond \in Condition : cond = env.condition[r]
  BY EnvironmentFacts
<1>2. PICK c \in Seq(Rule) : c = env.contents[s] /\ \A j \in 1 .. Len(c) : c[j] \in Rule
  BY EnvironmentFacts
<1>3. DOMAIN custom \in SUBSET Name
  BY CustomMediaMaps
<1>4. CASE cond \in Name
  <2>1. cond # "all" /\ cond # "wide"
    BY <1>4, Conditions
  <2>2. Uses(s, cond)
    <3>1. cond = InitialCondition[r]
      BY <1>1, <2>1, EnvironmentFacts DEF BaseCondition
    <3>. QED  BY <3>1 DEF Uses
  <2>3. /\ cond \in DOMAIN custom <=> Given(env, s, i, cond)
        /\ cond \in DOMAIN custom =>
             \A q \in Rule : IsCustom(q) /\ Defines[q] = cond => custom[cond] = env.condition[q]
    BY <1>4, <2>2 DEF KnowsTo
  <2>4. Given(env, s, i, cond) <=> \E j \in 1 .. i : IsCustom(c[j]) /\ Defines[c[j]] = cond
    BY <1>2 DEF Given
  <2>5. CondApplies(env, s, i, cond)
          <=> \E j \in 1 .. i : IsCustom(c[j]) /\ Defines[c[j]] = cond /\ BaseHolds(env, env.condition[c[j]])
    BY <1>2, <2>1 DEF CondApplies, BaseHolds
  <2>6. Holds(cond, custom, env.wide) <=> cond \in DOMAIN custom /\ BaseHolds(env, custom[cond])
    BY <2>1 DEF Holds, BaseHolds
  <2>7. \A j \in 1 .. i : c[j] \in Rule
    BY <1>2
  <2>8. ASSUME NEW j \in 1 .. i, IsCustom(c[j]), Defines[c[j]] = cond, cond \in DOMAIN custom
        PROVE  custom[cond] = env.condition[c[j]]
    BY <2>3, <2>7, <2>8
  <2>. QED  BY <1>1, <2>3, <2>4, <2>5, <2>6, <2>8
<1>5. CASE cond \notin Name
  <2>1. cond \notin DOMAIN custom
    BY <1>3, <1>5
  <2>2. \A j \in 1 .. i : IsCustom(c[j]) => Defines[c[j]] # cond
    BY <1>2, <1>5, RuleKinds
  <2>3. Holds(cond, custom, env.wide) <=> BaseHolds(env, cond)
    BY <2>1 DEF Holds, BaseHolds
  <2>4. CondApplies(env, s, i, cond) <=> BaseHolds(env, cond)
    BY <1>2, <2>2 DEF CondApplies
  <2>. QED  BY <1>1, <2>3, <2>4
<1>. QED  BY <1>4, <1>5

\* One more rule that may be a definition.
LEMMA GivenMore ==
  ASSUME NEW env \in Environment, NEW s \in Sheet, NEW i \in 1 .. Len(env.contents[s]), NEW n
  PROVE  Given(env, s, i, n)
           <=> Given(env, s, i - 1, n) \/ (IsCustom(env.contents[s][i]) /\ Defines[env.contents[s][i]] = n)
<1>1. \A j \in 1 .. i : j \in 1 .. (i - 1) \/ j = i
  BY EnvironmentFacts
<1>2. \A j \in 1 .. (i - 1) : j \in 1 .. i
  BY EnvironmentFacts
<1>3. i \in 1 .. i
  BY EnvironmentFacts
<1>. QED  BY <1>1, <1>2, <1>3 DEF Given

\* Adding it keeps the map right.
LEMMA KnowsMore ==
  ASSUME NamesAreLocal, NEW env \in Environment, NEW s \in Sheet, NEW i \in 1 .. Len(env.contents[s]),
         NEW full \in BOOLEAN, NEW x \in CascadeDataType, NEW y,
         RuleAdded(env, full, x, env.contents[s][i], y), KnowsTo(env, x.custom, s, i - 1)
  PROVE  KnowsTo(env, y.custom, s, i)
<1>1. PICK r \in Rule : r = env.contents[s][i]
  BY EnvironmentFacts
<1>2. CASE ~IsCustom(r)
  <2>1. y.custom = x.custom
    BY <1>1, <1>2 DEF RuleAdded
  <2>. QED  BY <1>1, <1>2, <2>1, GivenMore DEF KnowsTo
<1>3. CASE IsCustom(r)
  <2>1. PICK d : d = Defines[r]
    OBVIOUS
  <2>2. y.custom = [n \in DOMAIN x.custom \cup {d} |-> IF n = d THEN env.condition[r] ELSE x.custom[n]]
    BY <1>1, <1>3, <2>1 DEF RuleAdded
  <2>3. ASSUME NEW n \in Name, Uses(s, n)
        PROVE  /\ n \in DOMAIN y.custom <=> Given(env, s, i, n)
               /\ n \in DOMAIN y.custom =>
                    \A q \in Rule : IsCustom(q) /\ Defines[q] = n => y.custom[n] = env.condition[q]
    <3>1. Given(env, s, i, n) <=> Given(env, s, i - 1, n) \/ n = d
      BY <1>1, <1>3, <2>1, GivenMore
    <3>2. /\ n \in DOMAIN x.custom <=> Given(env, s, i - 1, n)
          /\ n \in DOMAIN x.custom =>
               \A q \in Rule : IsCustom(q) /\ Defines[q] = n => x.custom[n] = env.condition[q]
      BY <2>3 DEF KnowsTo
    <3>3. ASSUME n = d, NEW q \in Rule, IsCustom(q), Defines[q] = n PROVE q = r
      BY <1>3, <2>1, <2>3, <3>3 DEF NamesAreLocal
    <3>. QED  BY <2>2, <3>1, <3>2, <3>3
  <2>. QED  BY <2>3 DEF KnowsTo
<1>. QED  BY <1>2, <1>3

\* The block at a position applies when the rules before it have been added.
LEMMA BlockHolds ==
  ASSUME NamesAreLocal, NEW env \in Environment, NEW s \in Sheet, NEW i \in 1 .. Len(env.contents[s]),
         NEW custom \in CustomMedia, KnowsTo(env, custom, s, i - 1)
  PROVE  LET r == env.contents[s][i]
         IN  i \in Blocks(env, s) <=> Kind[r] = "media" /\ Holds(env.condition[r], custom, env.wide)
<1>1. PICK r \in Rule : r = env.contents[s][i] /\ r \in RulesOf(s)
  BY EnvironmentFacts
<1>2. i - 1 \in 0 .. Len(env.contents[s]) /\ i \in DOMAIN env.contents[s]
  BY EnvironmentFacts
<1>3. Kind[r] = "media" =>
        (Holds(env.condition[r], custom, env.wide) <=> CondApplies(env, s, i - 1, env.condition[r]))
  BY <1>1, <1>2, CondHolds
<1>4. i \in Blocks(env, s) <=> Kind[r] = "media" /\ CondApplies(env, s, i - 1, env.condition[r])
  BY <1>1, <1>2 DEF Blocks
<1>. QED  BY <1>1, <1>3, <1>4

\* The position of a rule that applies.
Applied(env, s, i) == Kind[env.contents[s][i]] = "style" \/ i \in Blocks(env, s)

\* What the first i rules of s have made of data.
PartNoted(env, full, data, s, i, y) ==
  \A x : x \in y.effective <=>
    \/ x \in data.effective
    \/ full /\ (x = s \/ \E j \in 1 .. i : j \in Blocks(env, s) /\ env.contents[s][j] = x)

PartSelected(env, full, data, s, i, y) ==
  /\ data.selectors \subseteq y.selectors
  /\ full => \A j \in 1 .. i : Applied(env, s, j) => env.contents[s][j] \in y.selectors

PartRules(env, data, s, i, y) ==
  \A x \in ToSet(y.rules) :
    x \in ToSet(data.rules) \/ \E j \in 1 .. i : Applied(env, s, j) /\ env.contents[s][j] = x

PartNames(data, s, y) ==
  /\ \A n \in DOMAIN y.custom :
       n \in DOMAIN data.custom \/ \E q \in RulesOf(s) : IsCustom(q) /\ Defines[q] = n
  /\ \A n : (\A q \in RulesOf(s) : IsCustom(q) => Defines[q] # n) =>
       /\ n \in DOMAIN y.custom <=> n \in DOMAIN data.custom
       /\ n \in DOMAIN y.custom => y.custom[n] = data.custom[n]

SheetPart(env, full, data, s, i, y) ==
  /\ y \in CascadeDataType
  /\ KnowsTo(env, y.custom, s, i)
  /\ PartNoted(env, full, data, s, i, y)
  /\ PartSelected(env, full, data, s, i, y)
  /\ PartRules(env, data, s, i, y)
  /\ PartNames(data, s, y)

\* The elements of a longer sequence.
LEMMA Appended ==
  ASSUME NEW v \in Seq(Rule), NEW r \in Rule
  PROVE  \A x \in ToSet(Append(v, r)) : x \in ToSet(v) \/ x = r
BY DEF ToSet

\* The sheet itself is noted first.
LEMMA PartStarts ==
  ASSUME NEW env \in Environment, NEW full \in BOOLEAN, NEW data \in CascadeDataType, NEW s \in Sheet,
         NewTo(data.custom, s)
  PROVE  SheetPart(env, full, data, s, 0, SawEffective(full, data, s))
<1>1. PICK e \in CascadeDataType :
        /\ e = SawEffective(full, data, s) /\ e.rules = data.rules /\ e.custom = data.custom
        /\ e.selectors = data.selectors /\ e.effective = data.effective \cup IF full THEN {s} ELSE {}
  BY SawIt
<1>2. 1 .. 0 = {}
  OBVIOUS
<1>3. \A n : ~Given(env, s, 0, n)
  BY <1>2 DEF Given
<1>4. KnowsTo(env, e.custom, s, 0)
  BY <1>1, <1>3 DEF KnowsTo, NewTo
<1>5. PartNoted(env, full, data, s, 0, e)
  BY <1>1, <1>2 DEF PartNoted
<1>6. PartSelected(env, full, data, s, 0, e)
  BY <1>1, <1>2 DEF PartSelected
<1>7. PartRules(env, data, s, 0, e)
  BY <1>1 DEF PartRules
<1>8. PartNames(data, s, e)
  BY <1>1 DEF PartNames
<1>9. SheetPart(env, full, data, s, 0, e)
  BY <1>4, <1>5, <1>6, <1>7, <1>8 DEF SheetPart
<1>. QED  BY <1>1, <1>9

\* Then one rule after the other.
LEMMA PartGrows ==
  ASSUME NamesAreLocal, NEW env \in Environment, NEW full \in BOOLEAN, NEW data \in CascadeDataType,
         NEW s \in Sheet, NEW i \in 1 .. Len(env.contents[s]),
         NEW x, SheetPart(env, full, data, s, i - 1, x)
  PROVE  SheetPart(env, full, data, s, i, AddRule(env, full, x, env.contents[s][i]))
<1>1. PICK r \in Rule : r = env.contents[s][i] /\ r \in RulesOf(s)
  BY EnvironmentFacts
<1>2. x \in CascadeDataType /\ KnowsTo(env, x.custom, s, i - 1)
  BY DEF SheetPart
<1>3. PICK y : y = AddRule(env, full, x, r)
  OBVIOUS
<1>4. RuleAdded(env, full, x, r, y)
  BY <1>2, <1>3, AddOneRule
<1>5. y \in CascadeDataType
  BY <1>4 DEF RuleAdded
<1>6. KnowsTo(env, y.custom, s, i)
  BY <1>1, <1>2, <1>4, KnowsMore
<1>7. x.custom \in CustomMedia /\ x.rules \in Seq(Rule)
  BY <1>2, DataFields
<1>8. i \in Blocks(env, s) <=> Kind[r] = "media" /\ Holds(env.condition[r], x.custom, env.wide)
  BY <1>1, <1>2, <1>7, BlockHolds
<1>9. Applied(env, s, i) <=> Kind[r] = "style" \/ i \in Blocks(env, s)
  BY <1>1 DEF Applied
<1>10. /\ y.rules = (IF Applied(env, s, i) THEN Append(x.rules, r) ELSE x.rules)
       /\ y.selectors = IF Applied(env, s, i) /\ full THEN x.selectors \cup {r} ELSE x.selectors
       /\ y.effective = IF i \in Blocks(env, s) /\ full THEN x.effective \cup {r} ELSE x.effective
  BY <1>4, <1>8, <1>9 DEF RuleAdded
<1>11. /\ \A j \in 1 .. i : j \in 1 .. (i - 1) \/ j = i
       /\ \A j \in 1 .. (i - 1) : j \in 1 .. i
       /\ i \in 1 .. i
  BY EnvironmentFacts
<1>12. PartNoted(env, full, data, s, i, y)
  <2>1. PartNoted(env, full, data, s, i - 1, x)
    BY DEF SheetPart
  <2>2. \A z : (\E j \in 1 .. i : j \in Blocks(env, s) /\ env.contents[s][j] = z)
          <=> \/ \E j \in 1 .. (i - 1) : j \in Blocks(env, s) /\ env.contents[s][j] = z
              \/ i \in Blocks(env, s) /\ r = z
    BY <1>1, <1>11
  <2>3. \A z : z \in y.effective <=> z \in x.effective \/ (full /\ i \in Blocks(env, s) /\ r = z)
    BY <1>10
  <2>. QED  BY <2>1, <2>2, <2>3 DEF PartNoted
<1>13. PartSelected(env, full, data, s, i, y)
  <2>1. PartSelected(env, full, data, s, i - 1, x)
    BY DEF SheetPart
  <2>. QED  BY <1>1, <1>10, <1>11, <2>1 DEF PartSelected
<1>14. PartRules(env, data, s, i, y)
  <2>1. PartRules(env, data, s, i - 1, x)
    BY DEF SheetPart
  <2>2. \A z \in ToSet(y.rules) : z \in ToSet(x.rules) \/ (Applied(env, s, i) /\ z = r)
    BY <1>7, <1>10, Appended
  <2>. QED  BY <1>1, <1>11, <2>1, <2>2 DEF PartRules
<1>15. PartNames(data, s, y)
  <2>1. PartNames(data, s, x)
    BY DEF SheetPart
  <2>2. CASE ~IsCustom(r)
    <3>1. y.custom = x.custom
      BY <1>4, <2>2 DEF RuleAdded
    <3>. QED  BY <2>1, <3>1 DEF PartNames
  <2>3. CASE IsCustom(r)
    <3>1. PICK d : d = Defines[r]
      OBVIOUS
    <3>2. y.custom = [n \in DOMAIN x.custom \cup {d} |-> IF n = d THEN env.condition[r] ELSE x.custom[n]]
      BY <1>4, <2>3, <3>1 DEF RuleAdded
    <3>3. \A n : n # d => /\ n \in DOMAIN y.custom <=> n \in DOMAIN x.custom
                          /\ n \in DOMAIN y.custom => y.custom[n] = x.custom[n]
      BY <3>2
    <3>4. \A n : (\A q \in RulesOf(s) : IsCustom(q) => Defines[q] # n) => n # d
      BY <1>1, <2>3, <3>1
    <3>5. \E q \in RulesOf(s) : IsCustom(q) /\ Defines[q] = d
      BY <1>1, <2>3, <3>1
    <3>. QED  BY <2>1, <3>3, <3>4, <3>5 DEF PartNames
  <2>. QED  BY <2>2, <2>3
<1>16. SheetPart(env, full, data, s, i, y)
  BY <1>5, <1>6, <1>12, <1>13, <1>14, <1>15 DEF SheetPart
<1>. QED  BY <1>1, <1>3, <1>16

\* What adding sheet s has made of data.
SheetAdded(env, full, data, s, y) ==
  /\ y \in CascadeDataType
  /\ y.effective = data.effective \cup IF full THEN Noted(env, s) ELSE {}
  /\ data.selectors \subseteq y.selectors
  /\ full => Cascading(env, s) \subseteq y.selectors
  /\ ToSet(y.rules) \subseteq ToSet(data.rules) \cup Cascading(env, s)
  /\ Knows(env, y.custom, s)
  /\ PartNames(data, s, y)

\* A whole sheet.
LEMMA AddOneSheet ==
  ASSUME NamesAreLocal, NEW env \in Environment, NEW full \in BOOLEAN, NEW data \in CascadeDataType,
         NEW s \in Sheet, NewTo(data.custom, s)
  PROVE  SheetAdded(env, full, data, s, AddStylesheet(env, full, data, s))
<1>1. PICK y : y = AddStylesheet(env, full, data, s)
  OBVIOUS
<1>2. PICK v \in Seq(Rule) : v = env.contents[s]
  BY EnvironmentFacts
<1>3. Holds(SheetMedia[s], data.custom, env.wide) <=> SheetApplies(env, s)
  <2>1. SheetMedia[s] \in Condition /\ data.custom \in CustomMedia
    BY CascadeDataAssumption, DataFields
  <2>2. SheetMedia[s] \notin DOMAIN data.custom
    <3>1. SheetMedia[s] \in Name => Uses(s, SheetMedia[s])
      BY DEF Uses
    <3>2. DOMAIN data.custom \in SUBSET Name
      BY <2>1, CustomMediaMaps
    <3>. QED  BY <3>1, <3>2 DEF NewTo
  <2>. QED  BY <2>2 DEF Holds, SheetApplies, BaseHolds
<1>4. CASE ~SheetApplies(env, s)
  <2>1. y = data
    BY <1>1, <1>3, <1>4 DEF AddStylesheet
  <2>2. Noted(env, s) = {} /\ Cascading(env, s) = {}
    BY <1>4 DEF Noted, Cascading
  <2>3. Knows(env, y.custom, s)
    BY <1>4, <2>1 DEF Knows, NewTo
  <2>4. PartNames(data, s, y)
    BY <2>1 DEF PartNames
  <2>5. SheetAdded(env, full, data, s, y)
    BY <2>1, <2>2, <2>3, <2>4 DEF SheetAdded
  <2>. QED  BY <1>1, <2>5
<1>5. CASE SheetApplies(env, s)
  <2>1. PICK e \in CascadeDataType : e = SawEffective(full, data, s) /\ SheetPart(env, full, data, s, 0, e)
    BY PartStarts DEF SheetPart
  <2>2. y = RulesAdded(env, full, e, v)
    BY <1>1, <1>2, <1>3, <1>5, <2>1 DEF AddStylesheet, RulesAdded
  <2>3. PICK g \in [0 .. Len(v) -> CascadeDataType] :
          /\ g[0] = e /\ g[Len(v)] = y
          /\ \A i \in 1 .. Len(v) : g[i] = AddRule(env, full, g[i - 1], v[i])
    BY <2>2, RulesInTurn
  <2>. DEFINE T == {i \in 0 .. Len(v) : SheetPart(env, full, data, s, i, g[i])}
  <2>4. PICK n \in Nat : n = Len(v)
    OBVIOUS
  <2>5. 0 \in T
    BY <2>1, <2>3, <2>4
  <2>6. ASSUME NEW i \in 1 .. n, i - 1 \in T PROVE i \in T
    <3>1. SheetPart(env, full, data, s, i - 1, g[i - 1])
      BY <2>6
    <3>2. i \in 1 .. Len(env.contents[s])
      BY <1>2, <2>4
    <3>3. SheetPart(env, full, data, s, i, AddRule(env, full, g[i - 1], env.contents[s][i]))
      BY <3>1, <3>2, PartGrows
    <3>. QED  BY <1>2, <2>3, <2>4, <3>3
  <2>. HIDE DEF T
  <2>7. 0 .. n \subseteq T
    <3>1. PICK T1 : T1 = T
      OBVIOUS
    <3>2. 0 \in T1 /\ \A i \in 1 .. n : i - 1 \in T1 => i \in T1
      BY <2>5, <2>6, <3>1
    <3>3. 0 .. n \subseteq T1
      BY ONLY <3>2, PrefixInduction
    <3>. QED  BY <3>1, <3>3
  <2>8. n \in T
    BY <2>7
  <2>9. SheetPart(env, full, data, s, n, y)
    BY <2>3, <2>4, <2>8 DEF T
  <2>10. /\ y \in CascadeDataType /\ KnowsTo(env, y.custom, s, n)
         /\ PartNoted(env, full, data, s, n, y) /\ PartSelected(env, full, data, s, n, y)
         /\ PartRules(env, data, s, n, y) /\ PartNames(data, s, y)
    BY <2>9 DEF SheetPart
  <2>. HIDE DEF T
  <2>11. Blocks(env, s) \subseteq 1 .. n
    BY <1>2, <2>4 DEF Blocks
  <2>12. \A j \in 1 .. n : env.contents[s][j] \in ToSet(env.contents[s])
    BY <1>2, <2>4 DEF ToSet
  <2>13. \A r \in ToSet(env.contents[s]) : \E j \in 1 .. n : env.contents[s][j] = r
    BY <1>2, <2>4 DEF ToSet
  <2>14. Knows(env, y.custom, s)
    BY <1>2, <1>5, <2>4, <2>10 DEF Knows, KnowsTo
  <2>15. Noted(env, s) = {s} \cup {env.contents[s][i] : i \in Blocks(env, s)}
    BY <1>5 DEF Noted
  <2>16. y.effective = data.effective \cup IF full THEN Noted(env, s) ELSE {}
    BY <2>10, <2>11, <2>15 DEF PartNoted
  <2>17. \A x : x \in Cascading(env, s) <=> \E j \in 1 .. n : Applied(env, s, j) /\ env.contents[s][j] = x
    <3>1. Cascading(env, s) = {env.contents[s][i] : i \in Blocks(env, s)}
                                \cup {r \in ToSet(env.contents[s]) : Kind[r] = "style"}
      BY <1>5 DEF Cascading
    <3>. QED  BY <2>11, <2>12, <2>13, <3>1 DEF Applied
  <2>18. full => Cascading(env, s) \subseteq y.selectors
    BY <2>10, <2>17 DEF PartSelected
  <2>19. ToSet(y.rules) \subseteq ToSet(data.rules) \cup Cascading(env, s)
    BY <2>10, <2>17 DEF PartRules
  <2>20. data.selectors \subseteq y.selectors
    BY <2>10 DEF PartSelected
  <2>21. SheetAdded(env, full, data, s, y)
    BY <2>10, <2>14, <2>16, <2>18, <2>19, <2>20 DEF SheetAdded
  <2>. QED  BY <1>1, <2>21
<1>. QED  BY <1>4, <1>5

-----------------------------------------------------------------------------
(* The same sheet, in two environments.                                     *)

\* A sheet that adds the same to the cascade in both.
SameSheet(env1, env2, s) ==
  /\ env1.contents[s] = env2.contents[s]
  /\ \A r \in RulesOf(s) : IsCustom(r) => env1.condition[r] = env2.condition[r]
  /\ SheetApplies(env1, s) <=> SheetApplies(env2, s)
  /\ SheetApplies(env1, s) => Blocks(env1, s) = Blocks(env2, s)

SameCascade(x, y) == x.rules = y.rules /\ x.custom = y.custom

\* The sheet does.
LEMMA SameAdded ==
  ASSUME NamesAreLocal, NEW env1 \in Environment, NEW env2 \in Environment,
         NEW full1 \in BOOLEAN, NEW full2 \in BOOLEAN,
         NEW data1 \in CascadeDataType, NEW data2 \in CascadeDataType, SameCascade(data1, data2),
         NEW s \in Sheet, NewTo(data1.custom, s), SameSheet(env1, env2, s)
  PROVE  SameCascade(AddStylesheet(env1, full1, data1, s), AddStylesheet(env2, full2, data2, s))
<1>1. NewTo(data2.custom, s)
  BY DEF SameCascade
<1>2. ASSUME NEW env \in Environment, NEW data \in CascadeDataType, NewTo(data.custom, s)
      PROVE  Holds(SheetMedia[s], data.custom, env.wide) <=> SheetApplies(env, s)
  <2>1. SheetMedia[s] \in Condition /\ data.custom \in CustomMedia
    BY CascadeDataAssumption, DataFields
  <2>2. SheetMedia[s] \notin DOMAIN data.custom
    <3>1. SheetMedia[s] \in Name => Uses(s, SheetMedia[s])
      BY DEF Uses
    <3>2. DOMAIN data.custom \in SUBSET Name
      BY <2>1, CustomMediaMaps
    <3>. QED  BY <1>2, <3>1, <3>2 DEF NewTo
  <2>. QED  BY <2>2 DEF Holds, SheetApplies, BaseHolds
<1>3. CASE ~SheetApplies(env1, s)
  <2>1. ~SheetApplies(env2, s)
    BY <1>3 DEF SameSheet
  <2>2. AddStylesheet(env1, full1, data1, s) = data1
    BY <1>2, <1>3 DEF AddStylesheet
  <2>3. AddStylesheet(env2, full2, data2, s) = data2
    BY <1>1, <1>2, <2>1 DEF AddStylesheet
  <2>. QED  BY <2>2, <2>3
<1>4. CASE SheetApplies(env1, s)
  <2>1. SheetApplies(env2, s) /\ Blocks(env1, s) = Blocks(env2, s)
    BY <1>4 DEF SameSheet
  <2>2. PICK v \in Seq(Rule) : v = env1.contents[s] /\ v = env2.contents[s]
    BY EnvironmentFacts DEF SameSheet
  <2>3. PICK e1 \in CascadeDataType : e1 = SawEffective(full1, data1, s) /\ SheetPart(env1, full1, data1, s, 0, e1)
    BY PartStarts DEF SheetPart
  <2>4. PICK e2 \in CascadeDataType : e2 = SawEffective(full2, data2, s) /\ SheetPart(env2, full2, data2, s, 0, e2)
    BY <1>1, PartStarts DEF SheetPart
  <2>5. SameCascade(e1, e2)
    BY <2>3, <2>4, SawIt DEF SameCascade
  <2>6. AddStylesheet(env1, full1, data1, s) = RulesAdded(env1, full1, e1, v)
    BY <1>2, <1>4, <2>2, <2>3 DEF AddStylesheet, RulesAdded
  <2>7. AddStylesheet(env2, full2, data2, s) = RulesAdded(env2, full2, e2, v)
    BY <1>1, <1>2, <2>1, <2>2, <2>4 DEF AddStylesheet, RulesAdded
  <2>8. PICK g1 \in [0 .. Len(v) -> CascadeDataType] :
          /\ g1[0] = e1 /\ g1[Len(v)] = AddStylesheet(env1, full1, data1, s)
          /\ \A i \in 1 .. Len(v) : g1[i] = AddRule(env1, full1, g1[i - 1], v[i])
    BY <2>6, RulesInTurn
  <2>9. PICK g2 \in [0 .. Len(v) -> CascadeDataType] :
          /\ g2[0] = e2 /\ g2[Len(v)] = AddStylesheet(env2, full2, data2, s)
          /\ \A i \in 1 .. Len(v) : g2[i] = AddRule(env2, full2, g2[i - 1], v[i])
    BY <2>7, RulesInTurn
  <2>10. PICK n \in Nat : n = Len(v)
    OBVIOUS
  <2>. DEFINE T == {i \in 0 .. n : /\ SheetPart(env1, full1, data1, s, i, g1[i])
                                   /\ SheetPart(env2, full2, data2, s, i, g2[i])
                                   /\ SameCascade(g1[i], g2[i])}
  <2>11. 0 \in T
    BY <2>3, <2>4, <2>5, <2>8, <2>9, <2>10
  <2>12. ASSUME NEW i \in 1 .. n, i - 1 \in T PROVE i \in T
    <3>1. /\ SheetPart(env1, full1, data1, s, i - 1, g1[i - 1])
          /\ SheetPart(env2, full2, data2, s, i - 1, g2[i - 1])
          /\ SameCascade(g1[i - 1], g2[i - 1])
      BY <2>12
    <3>2. i \in 1 .. Len(env1.contents[s]) /\ i \in 1 .. Len(env2.contents[s])
      BY <2>2, <2>10
    <3>3. SheetPart(env1, full1, data1, s, i, AddRule(env1, full1, g1[i - 1], env1.contents[s][i]))
      BY <3>1, <3>2, PartGrows
    <3>4. SheetPart(env2, full2, data2, s, i, AddRule(env2, full2, g2[i - 1], env2.contents[s][i]))
      BY <3>1, <3>2, PartGrows
    <3>5. PICK r \in Rule : r = v[i] /\ r \in RulesOf(s)
      BY <2>2, <3>2, EnvironmentFacts
    <3>6. PICK x1 \in CascadeDataType : x1 = g1[i - 1] /\ KnowsTo(env1, x1.custom, s, i - 1)
      BY <3>1 DEF SheetPart
    <3>7. PICK x2 \in CascadeDataType : x2 = g2[i - 1] /\ KnowsTo(env2, x2.custom, s, i - 1)
      BY <3>1 DEF SheetPart
    <3>8. g1[i] = AddRule(env1, full1, x1, r) /\ g2[i] = AddRule(env2, full2, x2, r)
      BY <2>8, <2>9, <2>10, <3>5, <3>6, <3>7
    <3>9. RuleAdded(env1, full1, x1, r, g1[i]) /\ RuleAdded(env2, full2, x2, r, g2[i])
      BY <3>8, AddOneRule
    <3>10. x1.custom \in CustomMedia /\ x2.custom \in CustomMedia
      BY DataFields
    <3>11. i \in Blocks(env1, s) <=> Kind[r] = "media" /\ Holds(env1.condition[r], x1.custom, env1.wide)
      <4>1. env1.contents[s][i] = r
        BY <2>2, <3>5
      <4>. QED  BY <3>2, <3>6, <3>10, <4>1, BlockHolds
    <3>12. i \in Blocks(env2, s) <=> Kind[r] = "media" /\ Holds(env2.condition[r], x2.custom, env2.wide)
      BY <2>2, <3>2, <3>5, <3>7, <3>10, BlockHolds
    <3>13. x1.rules = x2.rules /\ x1.custom = x2.custom
      BY <3>1, <3>6, <3>7 DEF SameCascade
    <3>14. g1[i].rules = g2[i].rules
      BY <2>1, <3>9, <3>11, <3>12, <3>13 DEF RuleAdded
    <3>15. IsCustom(r) => env1.condition[r] = env2.condition[r]
      BY <3>5 DEF SameSheet
    <3>16. g1[i].custom = g2[i].custom
      BY <3>9, <3>13, <3>15 DEF RuleAdded
    <3>17. SameCascade(g1[i], g2[i])
      BY <3>14, <3>16 DEF SameCascade
    <3>. QED  BY <2>2, <2>10, <3>2, <3>3, <3>4, <3>5, <3>6, <3>7, <3>8, <3>17
  <2>. HIDE DEF T
  <2>13. 0 .. n \subseteq T
    <3>1. PICK T1 : T1 = T
      OBVIOUS
    <3>2. 0 \in T1 /\ \A i \in 1 .. n : i - 1 \in T1 => i \in T1
      BY <2>11, <2>12, <3>1
    <3>3. 0 .. n \subseteq T1
      BY ONLY <3>2, PrefixInduction
    <3>. QED  BY <3>1, <3>3
  <2>14. n \in T
    BY <2>13
  <2>15. SameCascade(g1[n], g2[n])
    BY <2>14 DEF T
  <2>. QED  BY <2>8, <2>9, <2>10, <2>15
<1>. QED  BY <1>3, <1>4

-----------------------------------------------------------------------------
(* A build.                                                                 *)

\* A sheet added to anything.
LEMMA SheetTyped ==
  ASSUME NEW env \in Environment, NEW full \in BOOLEAN, NEW data \in CascadeDataType, NEW s \in Sheet
  PROVE  AddStylesheet(env, full, data, s) \in CascadeDataType
<1>1. PICK e \in CascadeDataType : e = SawEffective(full, data, s)
  BY SawIt
<1>2. PICK v \in Seq(Rule) : v = env.contents[s]
  BY EnvironmentFacts
<1>3. RulesAdded(env, full, e, v) \in CascadeDataType
  <2>1. PICK g \in [0 .. Len(v) -> CascadeDataType] : g[Len(v)] = RulesAdded(env, full, e, v)
    BY RulesInTurn
  <2>. QED  BY <2>1
<1>. QED  BY <1>1, <1>2, <1>3 DEF AddStylesheet, RulesAdded

\* The sheets of a build, one after the other.
LEMMA SheetsInTurn ==
  ASSUME NEW env \in Environment, NEW ss \in Seq(Sheet)
  PROVE  \E g \in [0 .. Len(ss) -> CascadeDataType] :
           /\ g[0] = EmptyData /\ g[Len(ss)] = Build(env, ss)
           /\ \A i \in 1 .. Len(ss) : g[i] = AddStylesheet(env, TRUE, g[i - 1], ss[i])
<1>. DEFINE n == Len(ss)
            f == [x \in (1 .. n) \X CascadeDataType |-> AddStylesheet(env, TRUE, x[2], ss[x[1]])]
            Eq(h) == h = [q \in SUBSET (1 .. n) |->
                            IF q = {} THEN EmptyData ELSE AddStylesheet(env, TRUE, h[q \ {Max(q)}], ss[Max(q)])]
<1>1. n \in Nat /\ DOMAIN ss = 1 .. n /\ \A i \in 1 .. n : ss[i] \in Sheet
  OBVIOUS
<1>2. EmptyData \in CascadeDataType
  BY DataFields
<1>. HIDE DEF n
<1>3. ASSUME NEW i \in 1 .. n, NEW d \in CascadeDataType PROVE AddStylesheet(env, TRUE, d, ss[i]) \in CascadeDataType
  BY <1>1, SheetTyped
<1>4. f \in [(1 .. n) \X CascadeDataType -> CascadeDataType] /\ \A i \in 1 .. n, d \in CascadeDataType : f[<<i, d>>] = AddStylesheet(env, TRUE, d, ss[i])
  BY <1>3
<1>. HIDE DEF f
<1>5. PICK h \in [SUBSET (1 .. n) -> CascadeDataType] : IsFold(h, n, EmptyData, f)
  <2>1. PICK f1, D1, b1 : f1 = f /\ D1 = CascadeDataType /\ b1 = EmptyData
    OBVIOUS
  <2>2. f1 \in [(1 .. n) \X D1 -> D1] /\ b1 \in D1
    BY <1>2, <1>4, <2>1
  <2>3. \E h \in [SUBSET (1 .. n) -> D1] : IsFold(h, n, b1, f1)
    BY ONLY <1>1, <2>2, FoldExists
  <2>. QED  BY <2>1, <2>3
<1>6. Eq(h)
  <2>1. ASSUME NEW q \in SUBSET (1 .. n), q # {}
        PROVE  h[q] = AddStylesheet(env, TRUE, h[q \ {Max(q)}], ss[Max(q)])
    <3>1. Max(q) \in 1 .. n
      BY <1>1, <2>1, LastPosition
    <3>2. h[q \ {Max(q)}] \in CascadeDataType
      BY <2>1
    <3>3. h[q] = f[<<Max(q), h[q \ {Max(q)}]>>]
      BY <1>5, <2>1 DEF IsFold
    <3>. QED  BY <1>4, <3>1, <3>2, <3>3
  <2>2. h[{}] = EmptyData
    <3>1. {} \in SUBSET (1 .. n)
      OBVIOUS
    <3>. QED  BY <1>5, <3>1 DEF IsFold
  <2>. QED  BY <2>1, <2>2
<1>7. PICK c : Eq(c) /\ Build(env, ss) = c[1 .. n]
  <2>1. Build(env, ss) = (CHOOSE c : Eq(c))[1 .. n]
    BY <1>1 DEF Build, FoldLeft, MapThenFoldSet
  <2>. HIDE DEF Eq
  <2>. QED  BY <1>6, <2>1
<1>. DEFINE g == [i \in 0 .. n |-> c[1 .. i]]
<1>8. g[0] = EmptyData
  <2>1. 1 .. 0 = {} /\ {} \in SUBSET (1 .. n)
    OBVIOUS
  <2>2. c[{}] = EmptyData
    BY <1>7, <2>1
  <2>3. 0 \in 0 .. n
    BY <1>1
  <2>4. g[0] = c[1 .. 0]
    BY <2>3
  <2>. QED  BY <2>1, <2>2, <2>4
<1>9. ASSUME NEW i \in 1 .. n PROVE g[i] = AddStylesheet(env, TRUE, g[i - 1], ss[i])
  <2>1. /\ (1 .. i) \in SUBSET (1 .. n) /\ 1 .. i # {}
        /\ Max(1 .. i) = i /\ (1 .. i) \ {Max(1 .. i)} = 1 .. (i - 1)
    BY <1>1, LastOfPrefix
  <2>2. c[1 .. i] = AddStylesheet(env, TRUE, c[1 .. (i - 1)], ss[i])
    BY <1>7, <2>1
  <2>3. i \in 0 .. n /\ i - 1 \in 0 .. n
    BY <1>1
  <2>. QED  BY <2>2, <2>3
<1>10. n \in 0 .. n
  BY <1>1
<1>11. g[n] = Build(env, ss)
  BY <1>7, <1>10
<1>. HIDE DEF g
<1>12. \A i \in 0 .. n : g[i] \in CascadeDataType
  <2>. DEFINE T == {i \in 0 .. n : g[i] \in CascadeDataType}
  <2>1. 0 \in T
    BY <1>1, <1>2, <1>8
  <2>2. ASSUME NEW i \in 1 .. n, i - 1 \in T PROVE i \in T
    <3>1. PICK d \in CascadeDataType : d = g[i - 1]
      BY <2>2
    <3>2. g[i] = AddStylesheet(env, TRUE, d, ss[i])
      BY <1>9, <3>1
    <3>3. g[i] \in CascadeDataType
      BY <1>3, <3>2
    <3>. QED  BY <1>1, <3>3
  <2>. HIDE DEF T
  <2>3. 0 .. n \subseteq T
    <3>1. PICK T1 : T1 = T
      OBVIOUS
    <3>2. 0 \in T1 /\ \A i \in 1 .. n : i - 1 \in T1 => i \in T1
      BY <2>1, <2>2, <3>1
    <3>3. 0 .. n \subseteq T1
      BY ONLY <1>1, <3>2, PrefixInduction
    <3>. QED  BY <3>1, <3>3
  <2>. QED  BY <2>3 DEF T
<1>13. g \in [0 .. n -> CascadeDataType]
  BY <1>12 DEF g
<1>. QED  BY <1>8, <1>9, <1>11, <1>13 DEF n

\* What an entry is worth to a rebuild.
EntryAdded(env, coll, data, e) ==
  IF RebuildKind(coll, e) = "skip" THEN data
  ELSE AddStylesheet(env, RebuildKind(coll, e) = "Full", data, e.sheet)

\* The entries of a rebuild, one after the other.
LEMMA EntriesInTurn ==
  ASSUME NEW env \in Environment, NEW data \in CascadeDataType, NEW coll \in Collection
  PROVE  \E g \in [0 .. Len(coll.entries) -> CascadeDataType] :
           /\ g[0] = data /\ g[Len(coll.entries)] = AddEntries(env, data, coll)
           /\ \A i \in 1 .. Len(coll.entries) : g[i] = EntryAdded(env, coll, g[i - 1], coll.entries[i])
<1>. DEFINE n == Len(coll.entries)
            f == [x \in (1 .. n) \X CascadeDataType |-> EntryAdded(env, coll, x[2], coll.entries[x[1]])]
            Eq(h) == h = [q \in SUBSET (1 .. n) |->
                            IF q = {} THEN data ELSE EntryAdded(env, coll, h[q \ {Max(q)}], coll.entries[Max(q)])]
<1>1. n \in Nat /\ DOMAIN coll.entries = 1 .. n /\ \A i \in 1 .. n : coll.entries[i] \in Entry
  BY DEF Collection
<1>2. data \in CascadeDataType
  OBVIOUS
<1>. HIDE DEF n
<1>3. ASSUME NEW i \in 1 .. n, NEW d \in CascadeDataType PROVE EntryAdded(env, coll, d, coll.entries[i]) \in CascadeDataType
  BY <1>1, SheetTyped DEF EntryAdded, Entry
<1>4. f \in [(1 .. n) \X CascadeDataType -> CascadeDataType] /\ \A i \in 1 .. n, d \in CascadeDataType : f[<<i, d>>] = EntryAdded(env, coll, d, coll.entries[i])
  BY <1>3
<1>. HIDE DEF f
<1>5. PICK h \in [SUBSET (1 .. n) -> CascadeDataType] : IsFold(h, n, data, f)
  <2>1. PICK f1, D1, b1 : f1 = f /\ D1 = CascadeDataType /\ b1 = data
    OBVIOUS
  <2>2. f1 \in [(1 .. n) \X D1 -> D1] /\ b1 \in D1
    BY <1>2, <1>4, <2>1
  <2>3. \E h \in [SUBSET (1 .. n) -> D1] : IsFold(h, n, b1, f1)
    BY ONLY <1>1, <2>2, FoldExists
  <2>. QED  BY <2>1, <2>3
<1>6. Eq(h)
  <2>1. ASSUME NEW q \in SUBSET (1 .. n), q # {}
        PROVE  h[q] = EntryAdded(env, coll, h[q \ {Max(q)}], coll.entries[Max(q)])
    <3>1. Max(q) \in 1 .. n
      BY <1>1, <2>1, LastPosition
    <3>2. h[q \ {Max(q)}] \in CascadeDataType
      BY <2>1
    <3>3. h[q] = f[<<Max(q), h[q \ {Max(q)}]>>]
      BY <1>5, <2>1 DEF IsFold
    <3>. QED  BY <1>4, <3>1, <3>2, <3>3
  <2>2. h[{}] = data
    <3>1. {} \in SUBSET (1 .. n)
      OBVIOUS
    <3>. QED  BY <1>5, <3>1 DEF IsFold
  <2>. QED  BY <2>1, <2>2
<1>7. PICK c : Eq(c) /\ AddEntries(env, data, coll) = c[1 .. n]
  <2>1. AddEntries(env, data, coll) = (CHOOSE c : Eq(c))[1 .. n]
    BY <1>1 DEF AddEntries, EntryAdded, FoldLeft, MapThenFoldSet
  <2>. HIDE DEF Eq
  <2>. QED  BY <1>6, <2>1
<1>. DEFINE g == [i \in 0 .. n |-> c[1 .. i]]
<1>8. g[0] = data
  <2>1. 1 .. 0 = {} /\ {} \in SUBSET (1 .. n)
    OBVIOUS
  <2>2. c[{}] = data
    BY <1>7, <2>1
  <2>3. 0 \in 0 .. n
    BY <1>1
  <2>4. g[0] = c[1 .. 0]
    BY <2>3
  <2>. QED  BY <2>1, <2>2, <2>4
<1>9. ASSUME NEW i \in 1 .. n PROVE g[i] = EntryAdded(env, coll, g[i - 1], coll.entries[i])
  <2>1. /\ (1 .. i) \in SUBSET (1 .. n) /\ 1 .. i # {}
        /\ Max(1 .. i) = i /\ (1 .. i) \ {Max(1 .. i)} = 1 .. (i - 1)
    BY <1>1, LastOfPrefix
  <2>2. c[1 .. i] = EntryAdded(env, coll, c[1 .. (i - 1)], coll.entries[i])
    BY <1>7, <2>1
  <2>3. i \in 0 .. n /\ i - 1 \in 0 .. n
    BY <1>1
  <2>. QED  BY <2>2, <2>3
<1>10. n \in 0 .. n
  BY <1>1
<1>11. g[n] = AddEntries(env, data, coll)
  BY <1>7, <1>10
<1>. HIDE DEF g
<1>12. \A i \in 0 .. n : g[i] \in CascadeDataType
  <2>. DEFINE T == {i \in 0 .. n : g[i] \in CascadeDataType}
  <2>1. 0 \in T
    BY <1>1, <1>2, <1>8
  <2>2. ASSUME NEW i \in 1 .. n, i - 1 \in T PROVE i \in T
    <3>1. PICK d \in CascadeDataType : d = g[i - 1]
      BY <2>2
    <3>2. g[i] = EntryAdded(env, coll, d, coll.entries[i])
      BY <1>9, <3>1
    <3>. QED  BY <1>1, <1>3, <3>2
  <2>. HIDE DEF T
  <2>3. 0 .. n \subseteq T
    <3>1. PICK T1 : T1 = T
      OBVIOUS
    <3>2. 0 \in T1 /\ \A i \in 1 .. n : i - 1 \in T1 => i \in T1
      BY <2>1, <2>2, <3>1
    <3>3. 0 .. n \subseteq T1
      BY ONLY <1>1, <3>2, PrefixInduction
    <3>. QED  BY <3>1, <3>3
  <2>. QED  BY <2>3 DEF T
<1>13. g \in [0 .. n -> CascadeDataType]
  BY <1>12 DEF g
<1>. QED  BY <1>8, <1>9, <1>11, <1>13 DEF n

\* A sheet does not disturb what another one uses.
LEMMA OtherSheet ==
  ASSUME NamesAreLocal, NEW env \in Environment, NEW data \in CascadeDataType, NEW s \in Sheet, NEW t \in Sheet,
         s # t, NEW y, PartNames(data, s, y)
  PROVE  /\ NewTo(data.custom, t) => NewTo(y.custom, t)
         /\ Knows(env, data.custom, t) => Knows(env, y.custom, t)
<1>1. RulesOf(s) \cap RulesOf(t) = {}
  BY CascadeDataAssumption
<1>2. RulesOf(s) \subseteq Rule
  <2>1. InitialContents[s] \in Seq(Rule)
    BY CascadeDataAssumption
  <2>. QED  BY <2>1 DEF RulesOf, ToSet
<1>3. ASSUME NEW n \in Name, Uses(t, n), NEW q \in RulesOf(s), IsCustom(q) PROVE Defines[q] # n
  BY <1>1, <1>2, <1>3 DEF NamesAreLocal
<1>4. \A n \in Name : Uses(t, n) =>
        /\ n \in DOMAIN y.custom <=> n \in DOMAIN data.custom
        /\ n \in DOMAIN y.custom => y.custom[n] = data.custom[n]
  BY <1>3 DEF PartNames
<1>. QED  BY <1>4 DEF NewTo, Knows

Distinct(ss) == \A i, j \in 1 .. Len(ss) : ss[i] = ss[j] => i = j

\* The data after each of the first k sheets of a build.
Builds(env, ss, k, g) ==
  /\ g \in [0 .. k -> CascadeDataType]
  /\ g[0] = EmptyData
  /\ \A i \in 1 .. k : g[i] = AddStylesheet(env, TRUE, g[i - 1], ss[i])

\* What they are.
BuildPart(env, ss, i, y) ==
  /\ y \in CascadeDataType
  /\ y.effective = UNION {Noted(env, ss[j]) : j \in 1 .. i}
  /\ \A j \in 1 .. i : Knows(env, y.custom, ss[j]) /\ Cascading(env, ss[j]) \subseteq y.selectors
  /\ ToSet(y.rules) \subseteq UNION {Cascading(env, ss[j]) : j \in 1 .. i}
  /\ \A j \in i + 1 .. Len(ss) : NewTo(y.custom, ss[j])

\* They are that.
LEMMA BuildsRight ==
  ASSUME NamesAreLocal, NEW env \in Environment, NEW ss \in Seq(Sheet), Distinct(ss),
         NEW k \in 0 .. Len(ss), NEW g, Builds(env, ss, k, g)
  PROVE  \A i \in 0 .. k : BuildPart(env, ss, i, g[i])
<1>. DEFINE T == {i \in 0 .. k : BuildPart(env, ss, i, g[i])}
<1>1. k \in Nat /\ \A i \in 1 .. k : i \in 1 .. Len(ss) /\ ss[i] \in Sheet /\ i - 1 \in 0 .. k /\ i \in 0 .. k
  OBVIOUS
<1>2. \A j \in 1 .. Len(ss) : ss[j] \in Sheet
  OBVIOUS
<1>3. 0 \in T
  <2>1. g[0] = EmptyData /\ EmptyData \in CascadeDataType
    BY DataFields DEF Builds
  <2>2. PICK y \in CascadeDataType : y = EmptyData
    BY DataFields
  <2>3. y.rules = << >> /\ y.effective = {} /\ y.custom = << >>
    BY <2>2 DEF EmptyData
  <2>4. ToSet(y.rules) = {}
    BY <2>3 DEF ToSet
  <2>5. \A j \in 0 + 1 .. Len(ss) : NewTo(y.custom, ss[j])
    BY <2>3, CustomMediaMaps DEF NewTo
  <2>6. 1 .. 0 = {}
    OBVIOUS
  <2>7. BuildPart(env, ss, 0, y)
    BY <2>3, <2>4, <2>5, <2>6 DEF BuildPart
  <2>. QED  BY <1>1, <2>1, <2>2, <2>7
<1>4. ASSUME NEW i \in 1 .. k, i - 1 \in T PROVE i \in T
  <2>1. PICK x : x = g[i - 1] /\ BuildPart(env, ss, i - 1, x)
    BY <1>4
  <2>2. x \in CascadeDataType
    BY <2>1 DEF BuildPart
  <2>3. PICK s \in Sheet : s = ss[i]
    BY <1>1
  <2>4. NewTo(x.custom, s)
    <3>1. i \in (i - 1) + 1 .. Len(ss)
      BY <1>1
    <3>. QED  BY <2>1, <2>3, <3>1 DEF BuildPart
  <2>5. PICK y : y = g[i]
    OBVIOUS
  <2>6. y = AddStylesheet(env, TRUE, x, s)
    BY <1>1, <2>1, <2>3, <2>5 DEF Builds
  <2>7. SheetAdded(env, TRUE, x, s, y)
    BY <2>2, <2>4, <2>6, AddOneSheet
  <2>8. /\ \A j \in 1 .. i : j \in 1 .. (i - 1) \/ j = i
        /\ \A j \in 1 .. (i - 1) : j \in 1 .. i /\ j # i /\ j \in 1 .. Len(ss)
        /\ i \in 1 .. i /\ i \in 1 .. Len(ss)
        /\ \A j \in i + 1 .. Len(ss) : j \in (i - 1) + 1 .. Len(ss) /\ j # i /\ j \in 1 .. Len(ss)
    BY <1>1
  <2>9. /\ y \in CascadeDataType
        /\ y.effective = x.effective \cup Noted(env, s)
        /\ x.selectors \subseteq y.selectors /\ Cascading(env, s) \subseteq y.selectors
        /\ ToSet(y.rules) \subseteq ToSet(x.rules) \cup Cascading(env, s)
        /\ Knows(env, y.custom, s) /\ PartNames(x, s, y)
    BY <2>7 DEF SheetAdded
  <2>10. /\ x.effective = UNION {Noted(env, ss[j]) : j \in 1 .. (i - 1)}
         /\ \A j \in 1 .. (i - 1) : Knows(env, x.custom, ss[j]) /\ Cascading(env, ss[j]) \subseteq x.selectors
         /\ ToSet(x.rules) \subseteq UNION {Cascading(env, ss[j]) : j \in 1 .. (i - 1)}
         /\ \A j \in (i - 1) + 1 .. Len(ss) : NewTo(x.custom, ss[j])
    BY <2>1 DEF BuildPart
  <2>11. \A j \in 1 .. Len(ss) : j # i => ss[j] # s
    BY <2>3, <2>8 DEF Distinct
  <2>12. y.effective = UNION {Noted(env, ss[j]) : j \in 1 .. i}
    BY <2>3, <2>8, <2>9, <2>10
  <2>13. ToSet(y.rules) \subseteq UNION {Cascading(env, ss[j]) : j \in 1 .. i}
    BY <2>3, <2>8, <2>9, <2>10
  <2>14. ASSUME NEW j \in 1 .. i
         PROVE  Knows(env, y.custom, ss[j]) /\ Cascading(env, ss[j]) \subseteq y.selectors
    <3>1. CASE j = i
      BY <2>3, <2>9, <3>1
    <3>2. CASE j \in 1 .. (i - 1)
      <4>1. ss[j] \in Sheet /\ s # ss[j]
        BY <1>2, <2>8, <2>11, <3>2
      <4>2. Knows(env, y.custom, ss[j])
        BY <2>2, <2>9, <2>10, <3>2, <4>1, OtherSheet
      <4>. QED  BY <2>9, <2>10, <3>2, <4>2
    <3>. QED  BY <2>8, <3>1, <3>2
  <2>15. ASSUME NEW j \in i + 1 .. Len(ss) PROVE NewTo(y.custom, ss[j])
    <3>1. ss[j] \in Sheet /\ s # ss[j]
      BY <1>2, <2>8, <2>11
    <3>. QED  BY <2>2, <2>8, <2>9, <2>10, <3>1, OtherSheet
  <2>16. BuildPart(env, ss, i, y)
    BY <2>9, <2>12, <2>13, <2>14, <2>15 DEF BuildPart
  <2>. QED  BY <1>1, <2>5, <2>16
<1>. HIDE DEF T
<1>5. 0 .. k \subseteq T
  <2>1. PICK T1 : T1 = T
    OBVIOUS
  <2>2. k \in Nat /\ 0 \in T1 /\ \A i \in 1 .. k : i - 1 \in T1 => i \in T1
    BY <1>1, <1>3, <1>4, <2>1
  <2>3. 0 .. k \subseteq T1
    BY ONLY <2>2, PrefixInduction
  <2>. QED  BY <2>1, <2>3
<1>. QED  BY <1>5 DEF T

AgreeTo(ss, tt, k) == \A i \in 1 .. k : ss[i] = tt[i]

\* The data after the first sheets are determined.
LEMMA BuildsSame ==
  ASSUME NEW env \in Environment, NEW ss, NEW tt, NEW n \in Nat, NEW k \in 0 .. n, AgreeTo(ss, tt, k),
         NEW g, NEW h, Builds(env, ss, n, g), Builds(env, tt, k, h)
  PROVE  g[k] = h[k]
<1>. DEFINE T == {i \in 0 .. k : g[i] = h[i]}
<1>0. k \in Nat /\ 0 \in 0 .. k
  OBVIOUS
<1>1. 0 \in T
  BY <1>0 DEF Builds
<1>2. ASSUME NEW i \in 1 .. k, i - 1 \in T PROVE i \in T
  <2>1. i \in 1 .. n /\ i \in 1 .. k /\ i \in 0 .. k
    OBVIOUS
  <2>. QED  BY <1>2, <2>1 DEF Builds, AgreeTo
<1>. HIDE DEF T
<1>3. 0 .. k \subseteq T
  <2>1. PICK T1 : T1 = T
    OBVIOUS
  <2>2. k \in Nat /\ 0 \in T1 /\ \A i \in 1 .. k : i - 1 \in T1 => i \in T1
    BY <1>0, <1>1, <1>2, <2>1
  <2>3. 0 .. k \subseteq T1
    BY ONLY <2>2, PrefixInduction
  <2>. QED  BY <2>1, <2>3
<1>4. k \in T
  BY <1>0, <1>3
<1>. QED  BY <1>4 DEF T

\* The first k of some sheets.
LEMMA FirstSheets ==
  ASSUME NEW ss \in Seq(Sheet), NEW k \in 0 .. Len(ss)
  PROVE  /\ SubSeq(ss, 1, k) \in Seq(Sheet) /\ Len(SubSeq(ss, 1, k)) = k
         /\ \A i \in 1 .. k : SubSeq(ss, 1, k)[i] = ss[i]
         /\ k = Len(ss) => SubSeq(ss, 1, k) = ss
<1>1. PICK v : v = SubSeq(ss, 1, k)
  OBVIOUS
<1>2. 1 \in Int /\ k \in Int /\ \A i \in 1 .. k : ss[i] \in Sheet
  OBVIOUS
<1>3. /\ v \in Seq(Sheet) /\ Len(v) = (IF 1 <= k THEN k - 1 + 1 ELSE 0)
      /\ \A i \in 1 .. (k - 1 + 1) : v[i] = ss[1 + i - 1]
  BY ONLY <1>1, <1>2, SubSeqProperties
<1>4. Len(v) = k
  BY <1>2, <1>3
<1>5. \A i \in 1 .. k : i \in 1 .. (k - 1 + 1) /\ 1 + i - 1 = i
  OBVIOUS
<1>6. k = Len(ss) => v = ss
  <2>1. SubSeq(ss, 1, Len(ss)) = ss
    BY SubSeqFull
  <2>. QED  BY <1>1, <2>1
<1>. QED  BY <1>1, <1>3, <1>4, <1>5, <1>6

\* A build goes through the builds of its first sheets.
LEMMA BuildExists ==
  ASSUME NEW env \in Environment, NEW ss \in Seq(Sheet)
  PROVE  \E g : /\ Builds(env, ss, Len(ss), g)
                /\ \A k \in 0 .. Len(ss) : Build(env, SubSeq(ss, 1, k)) = g[k]
<1>1. PICK g \in [0 .. Len(ss) -> CascadeDataType] :
        /\ g[0] = EmptyData /\ g[Len(ss)] = Build(env, ss)
        /\ \A i \in 1 .. Len(ss) : g[i] = AddStylesheet(env, TRUE, g[i - 1], ss[i])
  BY SheetsInTurn
<1>2. Builds(env, ss, Len(ss), g)
  BY <1>1 DEF Builds
<1>3. ASSUME NEW k \in 0 .. Len(ss) PROVE Build(env, SubSeq(ss, 1, k)) = g[k]
  <2>1. PICK v \in Seq(Sheet) : v = SubSeq(ss, 1, k) /\ Len(v) = k /\ \A i \in 1 .. k : v[i] = ss[i]
    BY FirstSheets
  <2>2. PICK h \in [0 .. Len(v) -> CascadeDataType] :
          /\ h[0] = EmptyData /\ h[Len(v)] = Build(env, v)
          /\ \A i \in 1 .. Len(v) : h[i] = AddStylesheet(env, TRUE, h[i - 1], v[i])
    BY SheetsInTurn
  <2>3. Builds(env, v, Len(v), h)
    BY <2>2 DEF Builds
  <2>4. g[k] = h[k]
    <3>1. PICK m \in Nat : m = Len(ss) /\ k \in 0 .. m
      OBVIOUS
    <3>2. AgreeTo(ss, v, k)
      BY <2>1 DEF AgreeTo
    <3>3. Builds(env, ss, m, g) /\ Builds(env, v, k, h)
      BY <1>2, <2>1, <2>3, <3>1
    <3>. QED  BY <3>1, <3>2, <3>3, BuildsSame
  <2>. QED  BY <2>1, <2>2, <2>4
<1>. QED  BY <1>2, <1>3

-----------------------------------------------------------------------------
(* The data of a build, and those a rebuild leaves.                         *)

\* The data of some sheets are up to date.
FreshData(env, ss, y) ==
  /\ y \in CascadeDataType
  /\ SameCascade(y, Build(env, ss))
  /\ y.effective = UNION {Noted(env, ss[j]) : j \in 1 .. Len(ss)}
  /\ \A j \in 1 .. Len(ss) : Knows(env, y.custom, ss[j]) /\ Cascading(env, ss[j]) \subseteq y.selectors

\* Those of a build are.
LEMMA BuildIsFresh ==
  ASSUME NamesAreLocal, NEW env \in Environment, NEW ss \in Seq(Sheet), Distinct(ss)
  PROVE  /\ FreshData(env, ss, Build(env, ss))
         /\ ToSet(Build(env, ss).rules) \subseteq UNION {Cascading(env, ss[j]) : j \in 1 .. Len(ss)}
<1>1. PICK g : /\ Builds(env, ss, Len(ss), g)
               /\ \A k \in 0 .. Len(ss) : Build(env, SubSeq(ss, 1, k)) = g[k]
  BY BuildExists
<1>2. PICK n \in Nat : n = Len(ss) /\ n \in 0 .. Len(ss)
  OBVIOUS
<1>3. Build(env, ss) = g[n]
  BY <1>1, <1>2, FirstSheets
<1>4. BuildPart(env, ss, n, g[n])
  BY <1>1, <1>2, BuildsRight
<1>. QED  BY <1>2, <1>3, <1>4 DEF BuildPart, FreshData, SameCascade

\* The sheets of a collection.
LEMMA SheetsOfCollection ==
  ASSUME NEW coll \in Collection
  PROVE  /\ coll.entries \in Seq(Entry) /\ coll.validity \in {Valid, CascadeInvalid, FullyInvalid}
         /\ coll.dirty \in BOOLEAN
         /\ Len(coll.entries) \in Nat /\ DOMAIN coll.entries = 1 .. Len(coll.entries)
         /\ Sheets(coll) \in Seq(Sheet) /\ Len(Sheets(coll)) = Len(coll.entries)
         /\ \A i \in 1 .. Len(coll.entries) :
              /\ coll.entries[i] \in Entry /\ coll.entries[i].sheet \in Sheet
              /\ Sheets(coll)[i] = coll.entries[i].sheet
<1>1. coll.entries \in Seq(Entry) /\ coll.validity \in {Valid, CascadeInvalid, FullyInvalid}
      /\ coll.dirty \in BOOLEAN
  BY DEF Collection, Valid, CascadeInvalid, FullyInvalid
<1>2. PICK v \in Seq(Entry) : v = coll.entries
  BY <1>1
<1>3. PICK n \in Nat : n = Len(v) /\ DOMAIN v = 1 .. n /\ \A i \in 1 .. n : v[i] \in Entry
  OBVIOUS
<1>4. \A i \in 1 .. n : v[i].sheet \in Sheet
  BY <1>3 DEF Entry
<1>5. PICK ss : ss = Sheets(coll)
  OBVIOUS
<1>6. ss = [i \in 1 .. n |-> v[i].sheet]
  BY <1>2, <1>3, <1>5 DEF Sheets
<1>7. ss \in Seq(Sheet) /\ Len(ss) = n
  BY <1>3, <1>4, <1>6
<1>. QED  BY <1>1, <1>2, <1>3, <1>4, <1>5, <1>6, <1>7

\* The kinds of rebuild.
LEMMA RebuildKinds ==
  ASSUME NEW coll \in Collection, NEW e \in Entry
  PROVE  /\ RebuildKind(coll, e) = "skip" <=> coll.validity = Valid /\ e.committed
         /\ RebuildKind(coll, e) = "Full" <=> coll.validity = FullyInvalid \/ ~e.committed
<1>1. e.committed \in BOOLEAN /\ coll.validity \in {0, 1, 2}
  BY SheetsOfCollection DEF Entry, Valid, CascadeInvalid, FullyInvalid
<1>2. CASE ~e.committed
  BY <1>2 DEF RebuildKind
<1>3. CASE e.committed /\ coll.validity = 0
  BY <1>3 DEF RebuildKind, Valid, CascadeInvalid, FullyInvalid
<1>4. CASE e.committed /\ coll.validity = 1
  BY <1>4 DEF RebuildKind, Valid, CascadeInvalid, FullyInvalid
<1>5. CASE e.committed /\ coll.validity = 2
  BY <1>5 DEF RebuildKind, Valid, CascadeInvalid, FullyInvalid
<1>. QED  BY <1>1, <1>2, <1>3, <1>4, <1>5

\* What a rebuild starts from: nothing, the invalidation data, or everything.
Kept(data, coll, y) ==
  /\ y \in CascadeDataType
  /\ coll.validity = Valid => y = data
  /\ coll.validity # Valid => SameCascade(y, EmptyData)
  /\ coll.validity = CascadeInvalid => y.effective = data.effective /\ y.selectors = data.selectors
  /\ coll.validity = FullyInvalid => y.effective = {} /\ y.selectors = {}

\* It does.
LEMMA RebuildKeeps ==
  ASSUME NEW env, NEW data \in CascadeDataType, NEW coll \in Collection, coll.dirty
  PROVE  \E kept : Kept(data, coll, kept) /\ Rebuild(env, data, coll) = AddEntries(env, kept, coll)
<1>0. coll.validity \in {0, 1, 2}
  BY SheetsOfCollection DEF Valid, CascadeInvalid, FullyInvalid
<1>1. PICK a, b, c, d : /\ a \in Seq(Rule) /\ b \in CustomMedia /\ c \in SUBSET Rule
                        /\ d \in SUBSET (Sheet \cup Rule)
                        /\ data = [rules |-> a, custom |-> b, selectors |-> c, effective |-> d]
  BY DataFields
<1>2. << >> \in Seq(Rule) /\ << >> \in CustomMedia
  BY CustomMediaMaps
<1>3. PICK x : x = ClearCascadeData(data)
  OBVIOUS
<1>4. x = [rules |-> << >>, custom |-> << >>, selectors |-> c, effective |-> d]
  <2>1. PICK r : r = [data EXCEPT !.rules = << >>]
    OBVIOUS
  <2>2. PICK e : e = << >>
    OBVIOUS
  <2>3. r = [rules |-> e, custom |-> b, selectors |-> c, effective |-> d]
    BY <1>1, <2>1, <2>2
  <2>5. [r EXCEPT !.custom = e] = [rules |-> e, custom |-> e, selectors |-> c, effective |-> d]
    BY ONLY <2>3
  <2>4. [data EXCEPT !.rules = << >>, !.custom = << >>] = [r EXCEPT !.custom = << >>]
    BY ONLY <2>1, Zenon
  <2>. QED  BY <1>3, <2>2, <2>4, <2>5 DEF ClearCascadeData
<1>5. PICK y : y = ClearInvalidationData(x)
  OBVIOUS
<1>6. y = [rules |-> << >>, custom |-> << >>, selectors |-> {}, effective |-> {}]
  <2>1. PICK r : r = [x EXCEPT !.selectors = {}]
    OBVIOUS
  <2>2. PICK e, z : e = << >> /\ z = {}
    OBVIOUS
  <2>3. r = [rules |-> e, custom |-> e, selectors |-> z, effective |-> d]
    BY <1>4, <2>1, <2>2
  <2>5. [r EXCEPT !.effective = z] = [rules |-> e, custom |-> e, selectors |-> z, effective |-> z]
    BY ONLY <2>3
  <2>4. [x EXCEPT !.selectors = {}, !.effective = {}] = [r EXCEPT !.effective = {}]
    BY ONLY <2>1, Zenon
  <2>. QED  BY <1>5, <2>2, <2>4, <2>5 DEF ClearInvalidationData
<1>7. x \in CascadeDataType /\ y \in CascadeDataType
  BY <1>1, <1>2, <1>4, <1>6, DataFields
<1>8. SameCascade(x, EmptyData) /\ SameCascade(y, EmptyData)
  BY <1>4, <1>6 DEF SameCascade, EmptyData
<1>9. CASE coll.validity = 0
  <2>1. Rebuild(env, data, coll) = AddEntries(env, data, coll)
    BY <1>9 DEF Rebuild, Valid, CascadeInvalid, FullyInvalid
  <2>2. Kept(data, coll, data)
    BY <1>9 DEF Kept, Valid, CascadeInvalid, FullyInvalid
  <2>. QED  BY <2>1, <2>2
<1>10. CASE coll.validity = 1
  <2>1. Rebuild(env, data, coll) = AddEntries(env, x, coll)
    BY <1>3, <1>10 DEF Rebuild, Valid, CascadeInvalid, FullyInvalid
  <2>2. x.effective = data.effective /\ x.selectors = data.selectors
    BY <1>1, <1>4
  <2>3. Kept(data, coll, x)
    BY <1>7, <1>8, <1>10, <2>2 DEF Kept, Valid, CascadeInvalid, FullyInvalid
  <2>. QED  BY <2>1, <2>3
<1>11. CASE coll.validity = 2
  <2>1. Rebuild(env, data, coll) = AddEntries(env, y, coll)
    BY <1>3, <1>5, <1>11 DEF Rebuild, Valid, CascadeInvalid, FullyInvalid
  <2>2. y.effective = {} /\ y.selectors = {}
    BY <1>6
  <2>3. Kept(data, coll, y)
    BY <1>7, <1>8, <1>11, <2>2 DEF Kept, Valid, CascadeInvalid, FullyInvalid
  <2>. QED  BY <2>1, <2>3
<1>. QED  BY <1>0, <1>9, <1>10, <1>11

\* The entries among the first i that are added in full.
FullTo(coll, i) == {j \in 1 .. i : RebuildKind(coll, coll.entries[j]) = "Full"}

\* The data after the first i entries, of which the first k are skipped.
RebuildPart(env, coll, kept, k, g, i, y) ==
  /\ y \in CascadeDataType
  /\ i <= k => SameCascade(y, g[k])
  /\ i >= k => SameCascade(y, g[i])
  /\ y.effective = kept.effective \cup UNION {Noted(env, Sheets(coll)[j]) : j \in FullTo(coll, i)}
  /\ kept.selectors \subseteq y.selectors
  /\ \A j \in FullTo(coll, i) : Cascading(env, Sheets(coll)[j]) \subseteq y.selectors

\* A rebuild goes on where a build of the skipped sheets would be.
LEMMA RebuildsRight ==
  ASSUME NamesAreLocal, NEW env \in Environment, NEW coll \in Collection, Distinct(Sheets(coll)),
         NEW kept \in CascadeDataType, NEW n, n = Len(coll.entries), NEW k \in 0 .. n,
         NEW g, Builds(env, Sheets(coll), n, g), SameCascade(kept, g[k]),
         \A i \in 1 .. n : RebuildKind(coll, coll.entries[i]) = "skip" <=> i <= k
  PROVE  RebuildPart(env, coll, kept, k, g, n, AddEntries(env, kept, coll))
<1>1. PICK ss \in Seq(Sheet) :
        /\ ss = Sheets(coll) /\ Len(ss) = n /\ n \in Nat /\ k \in Nat /\ Distinct(ss)
        /\ \A i \in 1 .. n : coll.entries[i] \in Entry /\ coll.entries[i].sheet \in Sheet /\ ss[i] = coll.entries[i].sheet
  BY SheetsOfCollection
<1>2. PICK h \in [0 .. n -> CascadeDataType] :
        /\ h[0] = kept /\ h[n] = AddEntries(env, kept, coll)
        /\ \A i \in 1 .. n : h[i] = EntryAdded(env, coll, h[i - 1], coll.entries[i])
  BY EntriesInTurn
<1>3. \A i \in 0 .. n : BuildPart(env, ss, i, g[i])
  <2>1. n \in 0 .. Len(ss) /\ Builds(env, ss, n, g)
    BY <1>1
  <2>. QED  BY <1>1, <2>1, BuildsRight
<1>. DEFINE T == {i \in 0 .. n : RebuildPart(env, coll, kept, k, g, i, h[i])}
<1>4. 0 \in T
  <2>1. FullTo(coll, 0) = {}
    BY DEF FullTo
  <2>2. 0 <= k /\ (0 >= k => k = 0) /\ 0 \in 0 .. n
    BY <1>1
  <2>3. RebuildPart(env, coll, kept, k, g, 0, kept)
    BY <2>1, <2>2 DEF RebuildPart
  <2>. QED  BY <1>2, <2>2, <2>3
<1>5. ASSUME NEW i \in 1 .. n, i - 1 \in T PROVE i \in T
  <2>1. PICK x : x = h[i - 1] /\ RebuildPart(env, coll, kept, k, g, i - 1, x)
    BY <1>5
  <2>2. PICK y : y = h[i]
    OBVIOUS
  <2>3. PICK e \in Entry : e = coll.entries[i]
    BY <1>1
  <2>4. PICK s \in Sheet : s = ss[i] /\ s = e.sheet
    BY <1>1, <2>3
  <2>5. y = EntryAdded(env, coll, x, e)
    BY <1>2, <2>1, <2>2, <2>3
  <2>6. /\ x \in CascadeDataType
        /\ i - 1 <= k => SameCascade(x, g[k])
        /\ i - 1 >= k => SameCascade(x, g[i - 1])
        /\ x.effective = kept.effective \cup UNION {Noted(env, ss[j]) : j \in FullTo(coll, i - 1)}
        /\ kept.selectors \subseteq x.selectors
        /\ \A j \in FullTo(coll, i - 1) : Cascading(env, ss[j]) \subseteq x.selectors
    BY <1>1, <2>1 DEF RebuildPart
  <2>7. /\ \A j : j \in FullTo(coll, i) <=>
             j \in FullTo(coll, i - 1) \/ (j = i /\ RebuildKind(coll, e) = "Full")
        /\ i \in 0 .. n
    BY <1>1, <2>3 DEF FullTo
  <2>8. CASE i <= k
    <3>1. RebuildKind(coll, e) = "skip"
      BY <2>3, <2>8
    <3>2. y = x
      BY <2>5, <3>1 DEF EntryAdded
    <3>3. i - 1 <= k /\ (i >= k => i = k)
      BY <1>1, <2>8
    <3>4. FullTo(coll, i) = FullTo(coll, i - 1)
      BY <2>7, <3>1
    <3>5. RebuildPart(env, coll, kept, k, g, i, y)
      BY <1>1, <2>6, <2>8, <3>2, <3>3, <3>4 DEF RebuildPart
    <3>. QED  BY <2>2, <2>7, <3>5
  <2>9. CASE ~(i <= k)
    <3>1. RebuildKind(coll, e) # "skip"
      BY <2>3, <2>9
    <3>2. PICK full \in BOOLEAN : full <=> RebuildKind(coll, e) = "Full"
      OBVIOUS
    <3>3. y = AddStylesheet(env, full, x, s)
      BY <2>4, <2>5, <3>1, <3>2 DEF EntryAdded
    <3>4. i - 1 >= k /\ i - 1 \in 0 .. n
      BY <1>1, <2>9
    <3>5. PICK b \in CascadeDataType : b = g[i - 1] /\ SameCascade(x, b)
      BY <1>1, <2>6, <3>4 DEF Builds
    <3>6. NewTo(b.custom, s)
      <4>1. BuildPart(env, ss, i - 1, b)
        BY <1>3, <3>4, <3>5
      <4>2. i \in (i - 1) + 1 .. Len(ss)
        BY <1>1
      <4>. QED  BY <2>4, <4>1, <4>2 DEF BuildPart
    <3>7. NewTo(x.custom, s)
      BY <3>5, <3>6 DEF SameCascade
    <3>8. SheetAdded(env, full, x, s, y)
      BY <2>6, <3>3, <3>7, AddOneSheet
    <3>9. SameCascade(y, g[i])
      <4>1. SameSheet(env, env, s)
        BY DEF SameSheet
      <4>2. g[i] = AddStylesheet(env, TRUE, b, s)
        BY <1>1, <2>4, <3>5 DEF Builds
      <4>3. PICK full2 \in BOOLEAN : full2 = TRUE
        OBVIOUS
      <4>4. x \in CascadeDataType /\ SameCascade(x, b)
        BY <2>6, <3>5
      <4>5. SameCascade(AddStylesheet(env, full, x, s), AddStylesheet(env, full2, b, s))
        BY <3>7, <4>1, <4>4, SameAdded
      <4>. QED  BY <3>3, <4>2, <4>3, <4>5
    <3>10. /\ y \in CascadeDataType /\ x.selectors \subseteq y.selectors
           /\ y.effective = x.effective \cup IF full THEN Noted(env, s) ELSE {}
           /\ full => Cascading(env, s) \subseteq y.selectors
      BY <3>8 DEF SheetAdded
    <3>11. y.effective = kept.effective \cup UNION {Noted(env, ss[j]) : j \in FullTo(coll, i)}
      <4>1. CASE full
        <5>1. FullTo(coll, i) = FullTo(coll, i - 1) \cup {i}
          BY <2>7, <3>2, <4>1
        <5>2. y.effective = x.effective \cup Noted(env, ss[i])
          BY <2>4, <3>10, <4>1
        <5>. QED  BY <2>6, <5>1, <5>2
      <4>2. CASE ~full
        <5>1. FullTo(coll, i) = FullTo(coll, i - 1)
          BY <2>7, <3>2, <4>2
        <5>. QED  BY <2>6, <3>10, <4>2, <5>1
      <4>. QED  BY <4>1, <4>2
    <3>12. ASSUME NEW j \in FullTo(coll, i) PROVE Cascading(env, ss[j]) \subseteq y.selectors
      BY <2>4, <2>6, <2>7, <3>2, <3>10
    <3>13. RebuildPart(env, coll, kept, k, g, i, y)
      BY <1>1, <2>6, <2>9, <3>9, <3>10, <3>11, <3>12 DEF RebuildPart
    <3>. QED  BY <2>2, <2>7, <3>13
  <2>. QED  BY <2>8, <2>9
<1>. HIDE DEF T
<1>6. 0 .. n \subseteq T
  <2>1. PICK T1 : T1 = T
    OBVIOUS
  <2>2. n \in Nat /\ 0 \in T1 /\ \A i \in 1 .. n : i - 1 \in T1 => i \in T1
    BY <1>1, <1>4, <1>5, <2>1
  <2>3. 0 .. n \subseteq T1
    BY ONLY <2>2, PrefixInduction
  <2>. QED  BY <2>1, <2>3
<1>7. n \in T
  BY <1>1, <1>6
<1>. QED  BY <1>2, <1>7 DEF T

\* After it the data are up to date.
LEMMA RebuildIsFresh ==
  ASSUME NamesAreLocal, NEW env \in Environment, NEW o, o # "UserAgent",
         NEW coll \in Collection, Distinct(Sheets(coll)), coll.dirty,
         NEW data \in CascadeDataType, coll.validity # FullyInvalid => DataSound(env, o, coll, data)
  PROVE  FreshData(env, Sheets(coll), Rebuild(env, data, coll))
<1>1. PICK ss \in Seq(Sheet), n \in Nat :
        /\ ss = Sheets(coll) /\ Len(ss) = n /\ n = Len(coll.entries) /\ Distinct(ss)
        /\ DOMAIN coll.entries = 1 .. n
        /\ \A i \in 1 .. n : coll.entries[i] \in Entry /\ coll.entries[i].sheet \in Sheet /\ ss[i] = coll.entries[i].sheet
  BY SheetsOfCollection
<1>2. PICK g : /\ Builds(env, ss, n, g)
               /\ \A k \in 0 .. n : Build(env, SubSeq(ss, 1, k)) = g[k]
  BY <1>1, BuildExists
<1>3. PICK kept : Kept(data, coll, kept) /\ Rebuild(env, data, coll) = AddEntries(env, kept, coll)
  BY RebuildKeeps
<1>4. kept \in CascadeDataType
  BY <1>3 DEF Kept
<1>5. \A i \in 1 .. n :
        /\ RebuildKind(coll, coll.entries[i]) = "skip" <=> coll.validity = Valid /\ coll.entries[i].committed
        /\ RebuildKind(coll, coll.entries[i]) = "Full" <=> coll.validity = FullyInvalid \/ ~coll.entries[i].committed
  BY <1>1, RebuildKinds
<1>6. \A i \in 1 .. n : BuiltAt(o, coll, i) <=> coll.entries[i].committed
  BY DEF BuiltAt
<1>7. \E k \in 0 .. n : /\ SameCascade(kept, g[k])
                        /\ \A i \in 1 .. n : RebuildKind(coll, coll.entries[i]) = "skip" <=> i <= k
  <2>1. CASE coll.validity = Valid
    <3>1. coll.validity # FullyInvalid /\ kept = data
      BY <1>3, <2>1 DEF Kept, Valid, FullyInvalid
    <3>2. PICK k \in 0 .. n : /\ \A i \in 1 .. n : BuiltAt(o, coll, i) <=> i <= k
                              /\ BuiltTo(env, ss, k, data)
      BY <1>1, <2>1, <3>1 DEF DataSound
    <3>3. SameCascade(kept, g[k])
      BY <1>2, <3>1, <3>2 DEF BuiltTo, SameCascade
    <3>. QED  BY <1>5, <1>6, <2>1, <3>2, <3>3
  <2>2. CASE coll.validity # Valid
    <3>1. SameCascade(kept, g[0])
      BY <1>2, <1>3, <2>2 DEF Kept, Builds
    <3>2. \A i \in 1 .. n : RebuildKind(coll, coll.entries[i]) # "skip" /\ ~(i <= 0)
      BY <1>5, <2>2
    <3>3. 0 \in 0 .. n
      OBVIOUS
    <3>. QED  BY <3>1, <3>2, <3>3
  <2>. QED  BY <2>1, <2>2
<1>8. PICK k \in 0 .. n : /\ SameCascade(kept, g[k])
                          /\ \A i \in 1 .. n : RebuildKind(coll, coll.entries[i]) = "skip" <=> i <= k
  BY <1>7
<1>9. PICK y : y = Rebuild(env, data, coll)
  OBVIOUS
<1>10. RebuildPart(env, coll, kept, k, g, n, y)
  BY <1>1, <1>2, <1>3, <1>4, <1>8, <1>9, RebuildsRight
<1>11. /\ y \in CascadeDataType /\ SameCascade(y, g[n])
       /\ y.effective = kept.effective \cup UNION {Noted(env, ss[j]) : j \in FullTo(coll, n)}
       /\ kept.selectors \subseteq y.selectors
       /\ \A j \in FullTo(coll, n) : Cascading(env, ss[j]) \subseteq y.selectors
  BY <1>1, <1>10 DEF RebuildPart
<1>12. n \in 0 .. n /\ Build(env, ss) = g[n]
  <2>1. n \in 0 .. n /\ n \in 0 .. Len(ss)
    BY <1>1
  <2>2. SubSeq(ss, 1, n) = ss
    BY <1>1, <2>1, FirstSheets
  <2>. QED  BY <1>2, <2>1, <2>2
<1>13. BuildPart(env, ss, n, g[n])
  BY <1>1, <1>2, <1>12, BuildsRight
<1>14. \A j \in 1 .. n : Knows(env, y.custom, ss[j])
  BY <1>11, <1>13 DEF BuildPart, SameCascade
<1>15. \A j \in 1 .. n : j \in FullTo(coll, n) <=> coll.validity = FullyInvalid \/ ~coll.entries[j].committed
  BY <1>5 DEF FullTo
<1>16. CASE coll.validity = FullyInvalid
  <2>1. kept.effective = {}
    BY <1>3, <1>16 DEF Kept
  <2>2. FullTo(coll, n) = 1 .. n
    BY <1>15, <1>16 DEF FullTo
  <2>3. y.effective = UNION {Noted(env, ss[j]) : j \in 1 .. n}
    BY <1>11, <2>1, <2>2
  <2>4. \A j \in 1 .. n : Cascading(env, ss[j]) \subseteq y.selectors
    BY <1>11, <2>2
  <2>. QED  BY <1>1, <1>9, <1>11, <1>12, <1>14, <2>3, <2>4 DEF FreshData
<1>17. CASE coll.validity # FullyInvalid
  <2>1. kept.effective = data.effective /\ kept.selectors = data.selectors
    BY <1>3, <1>17, SheetsOfCollection DEF Kept
  <2>2. DataSound(env, o, coll, data)
    BY <1>17
  <2>3. BuiltSheets(o, coll) = {ss[j] : j \in {i \in 1 .. n : coll.entries[i].committed}}
    BY <1>1, <1>6 DEF BuiltSheets
  <2>4. \A x : (\E s \in BuiltSheets(o, coll) : x \in Noted(env, s))
                 <=> \E j \in 1 .. n : coll.entries[j].committed /\ x \in Noted(env, ss[j])
    BY <2>3
  <2>5. \A x : x \in kept.effective <=> \E j \in 1 .. n : coll.entries[j].committed /\ x \in Noted(env, ss[j])
    <3>1. kept.effective = UNION {Noted(env, s) : s \in BuiltSheets(o, coll)}
      BY <2>1, <2>2 DEF DataSound
    <3>. QED  BY <2>4, <3>1
  <2>6. \A x : (\E j \in FullTo(coll, n) : x \in Noted(env, ss[j]))
                 <=> \E j \in 1 .. n : ~coll.entries[j].committed /\ x \in Noted(env, ss[j])
    BY <1>15, <1>17 DEF FullTo
  <2>7. y.effective = UNION {Noted(env, ss[j]) : j \in 1 .. n}
    BY <1>11, <2>5, <2>6
  <2>8. ASSUME NEW j \in 1 .. n PROVE Cascading(env, ss[j]) \subseteq y.selectors
    <3>1. CASE coll.entries[j].committed
      <4>1. ss[j] \in BuiltSheets(o, coll)
        BY <2>3, <3>1
      <4>. QED  BY <1>11, <2>1, <2>2, <4>1 DEF DataSound
    <3>2. CASE ~coll.entries[j].committed
      BY <1>11, <1>15, <3>2
    <3>. QED  BY <3>1, <3>2
  <2>. QED  BY <1>1, <1>9, <1>11, <1>12, <1>14, <2>7, <2>8 DEF FreshData
<1>. QED  BY <1>16, <1>17

-----------------------------------------------------------------------------
(* Sound data, in one environment and another.                              *)

\* Fresh data are sound for a collection whose sheets were all there.
LEMMA FreshIsSound ==
  ASSUME NEW env, NEW o, NEW coll \in Collection, NEW data,
         \A i \in DOMAIN coll.entries : BuiltAt(o, coll, i), FreshData(env, Sheets(coll), data)
  PROVE  DataSound(env, o, coll, data)
<1>1. PICK ss \in Seq(Sheet), n \in Nat :
        /\ ss = Sheets(coll) /\ Len(ss) = n /\ n = Len(coll.entries)
        /\ DOMAIN coll.entries = 1 .. n /\ \A i \in 1 .. n : ss[i] = coll.entries[i].sheet
  BY SheetsOfCollection
<1>2. BuiltSheets(o, coll) = {ss[j] : j \in 1 .. n}
  BY <1>1 DEF BuiltSheets
<1>3. data.effective = UNION {Noted(env, s) : s \in BuiltSheets(o, coll)}
  BY <1>1, <1>2 DEF FreshData
<1>4. \A s \in BuiltSheets(o, coll) : Cascading(env, s) \subseteq data.selectors /\ Knows(env, data.custom, s)
  BY <1>1, <1>2 DEF FreshData
<1>5. n \in 0 .. Len(coll.entries) /\ \A i \in DOMAIN coll.entries : BuiltAt(o, coll, i) <=> i <= n
  BY <1>1
<1>6. BuiltTo(env, Sheets(coll), n, data)
  <2>1. n \in 0 .. Len(ss)
    BY <1>1
  <2>2. SubSeq(ss, 1, n) = ss
    BY <1>1, <2>1, FirstSheets
  <2>. QED  BY <1>1, <2>2 DEF BuiltTo, FreshData, SameCascade
<1>. QED  BY <1>3, <1>4, <1>5, <1>6 DEF DataSound

\* And the other way round.
LEMMA SoundIsFresh ==
  ASSUME NEW env, NEW o, NEW coll \in Collection, NEW data \in CascadeDataType,
         \A i \in DOMAIN coll.entries : BuiltAt(o, coll, i), coll.validity = Valid,
         DataSound(env, o, coll, data)
  PROVE  FreshData(env, Sheets(coll), data)
<1>1. PICK ss \in Seq(Sheet), n \in Nat :
        /\ ss = Sheets(coll) /\ Len(ss) = n /\ n = Len(coll.entries)
        /\ DOMAIN coll.entries = 1 .. n /\ \A i \in 1 .. n : ss[i] = coll.entries[i].sheet
  BY SheetsOfCollection
<1>2. BuiltSheets(o, coll) = {ss[j] : j \in 1 .. n}
  BY <1>1 DEF BuiltSheets
<1>3. PICK k \in 0 .. n : /\ \A i \in 1 .. n : BuiltAt(o, coll, i) <=> i <= k
                          /\ BuiltTo(env, ss, k, data)
  BY <1>1 DEF DataSound
<1>4. k = n
  <2>1. CASE n = 0
    BY <2>1
  <2>2. CASE n # 0
    <3>1. n \in 1 .. n
      BY <2>2
    <3>2. n <= k
      BY <1>1, <1>3, <3>1
    <3>. QED  BY <3>2
  <2>. QED  BY <2>1, <2>2
<1>5. SameCascade(data, Build(env, ss))
  <2>1. n \in 0 .. Len(ss)
    BY <1>1
  <2>2. SubSeq(ss, 1, n) = ss
    BY <1>1, <2>1, FirstSheets
  <2>. QED  BY <1>3, <1>4, <2>2 DEF BuiltTo, SameCascade
<1>6. data.effective = UNION {Noted(env, ss[j]) : j \in 1 .. n}
  BY <1>2 DEF DataSound
<1>7. \A j \in 1 .. n : Knows(env, data.custom, ss[j]) /\ Cascading(env, ss[j]) \subseteq data.selectors
  BY <1>2 DEF DataSound
<1>. QED  BY <1>1, <1>5, <1>6, <1>7 DEF FreshData

\* A sheet that adds the same to the cascade notes the same.
LEMMA SameNoted ==
  ASSUME NamesAreLocal, NEW env1 \in Environment, NEW env2 \in Environment, NEW s \in Sheet,
         SameSheet(env1, env2, s)
  PROVE  /\ Noted(env1, s) = Noted(env2, s) /\ Cascading(env1, s) = Cascading(env2, s)
         /\ \A custom : Knows(env1, custom, s) => Knows(env2, custom, s)
<1>1. PICK c : c = env1.contents[s] /\ c = env2.contents[s]
  BY DEF SameSheet
<1>2. SheetApplies(env1, s) <=> SheetApplies(env2, s)
  BY DEF SameSheet
<1>3. SheetApplies(env1, s) => Blocks(env1, s) = Blocks(env2, s)
  BY DEF SameSheet
<1>4. Noted(env1, s) = Noted(env2, s)
  BY <1>1, <1>2, <1>3 DEF Noted
<1>5. Cascading(env1, s) = Cascading(env2, s)
  BY <1>1, <1>2, <1>3 DEF Cascading
<1>6. ASSUME NEW custom, Knows(env1, custom, s) PROVE Knows(env2, custom, s)
  <2>1. \A n, i : Given(env1, s, i, n) <=> Given(env2, s, i, n)
    BY <1>1 DEF Given
  <2>2. \A n \in Name, r \in Rule : Uses(s, n) /\ IsCustom(r) /\ Defines[r] = n =>
          env1.condition[r] = env2.condition[r]
    BY DEF NamesAreLocal, SameSheet
  <2>. QED  BY <1>1, <1>2, <1>6, <2>1, <2>2 DEF Knows
<1>. QED  BY <1>4, <1>5, <1>6

\* Builds of sheets that add the same.
LEMMA SameBuilt ==
  ASSUME NamesAreLocal, NEW env1 \in Environment, NEW env2 \in Environment, NEW ss \in Seq(Sheet), Distinct(ss),
         NEW k \in 0 .. Len(ss), \A i \in 1 .. k : SameSheet(env1, env2, ss[i])
  PROVE  SameCascade(Build(env1, SubSeq(ss, 1, k)), Build(env2, SubSeq(ss, 1, k)))
<1>1. PICK n \in Nat : n = Len(ss) /\ \A i \in 1 .. n : ss[i] \in Sheet
  OBVIOUS
<1>2. PICK g1 : Builds(env1, ss, n, g1) /\ \A i \in 0 .. n : Build(env1, SubSeq(ss, 1, i)) = g1[i]
  BY <1>1, BuildExists
<1>3. PICK g2 : Builds(env2, ss, n, g2) /\ \A i \in 0 .. n : Build(env2, SubSeq(ss, 1, i)) = g2[i]
  BY <1>1, BuildExists
<1>4. \A i \in 0 .. n : BuildPart(env1, ss, i, g1[i])
  BY <1>1, <1>2, BuildsRight
<1>. DEFINE T == {i \in 0 .. k : SameCascade(g1[i], g2[i])}
<1>5. k \in Nat /\ \A i \in 1 .. k : i \in 1 .. n /\ i - 1 \in 0 .. n /\ i \in 0 .. n /\ i \in 0 .. k
  BY <1>1
<1>6. 0 \in T
  BY <1>2, <1>3, <1>5 DEF Builds, SameCascade
<1>7. ASSUME NEW i \in 1 .. k, i - 1 \in T PROVE i \in T
  <2>1. PICK x1 \in CascadeDataType : x1 = g1[i - 1]
    BY <1>2, <1>5 DEF Builds
  <2>2. PICK x2 \in CascadeDataType : x2 = g2[i - 1]
    BY <1>3, <1>5 DEF Builds
  <2>3. PICK s \in Sheet : s = ss[i]
    BY <1>1, <1>5
  <2>4. SameCascade(x1, x2) /\ SameSheet(env1, env2, s)
    BY <1>7, <2>1, <2>2, <2>3
  <2>5. NewTo(x1.custom, s)
    <3>1. BuildPart(env1, ss, i - 1, x1)
      BY <1>4, <1>5, <2>1
    <3>2. i \in (i - 1) + 1 .. Len(ss)
      BY <1>1
    <3>. QED  BY <2>3, <3>1, <3>2 DEF BuildPart
  <2>6. PICK full \in BOOLEAN : full = TRUE
    OBVIOUS
  <2>7. SameCascade(AddStylesheet(env1, full, x1, s), AddStylesheet(env2, full, x2, s))
    BY <2>4, <2>5, SameAdded
  <2>8. g1[i] = AddStylesheet(env1, full, x1, s) /\ g2[i] = AddStylesheet(env2, full, x2, s)
    BY <1>2, <1>3, <1>5, <2>1, <2>2, <2>3, <2>6 DEF Builds
  <2>. QED  BY <1>5, <2>7, <2>8
<1>. HIDE DEF T
<1>8. 0 .. k \subseteq T
  <2>1. PICK T1 : T1 = T
    OBVIOUS
  <2>2. k \in Nat /\ 0 \in T1 /\ \A i \in 1 .. k : i - 1 \in T1 => i \in T1
    BY <1>5, <1>6, <1>7, <2>1
  <2>3. 0 .. k \subseteq T1
    BY ONLY <2>2, PrefixInduction
  <2>. QED  BY <2>1, <2>3
<1>9. k \in T /\ k \in 0 .. n
  BY <1>1, <1>5, <1>8
<1>. QED  BY <1>2, <1>3, <1>9 DEF T

\* Data stay sound when the sheets they were built from add the same.
LEMMA SoundTransfers ==
  ASSUME NamesAreLocal, NEW env1 \in Environment, NEW env2 \in Environment, NEW o, NEW coll \in Collection,
         Distinct(Sheets(coll)), \A s \in BuiltSheets(o, coll) : SameSheet(env1, env2, s),
         NEW data, DataSound(env1, o, coll, data)
  PROVE  DataSound(env2, o, coll, data)
<1>1. PICK ss \in Seq(Sheet), n \in Nat :
        /\ ss = Sheets(coll) /\ Len(ss) = n /\ n = Len(coll.entries) /\ Distinct(ss)
        /\ DOMAIN coll.entries = 1 .. n /\ \A i \in 1 .. n : ss[i] = coll.entries[i].sheet
  BY SheetsOfCollection
<1>2. BuiltSheets(o, coll) \subseteq Sheet
  BY <1>1 DEF BuiltSheets
<1>3. \A s \in BuiltSheets(o, coll) :
        /\ Noted(env1, s) = Noted(env2, s) /\ Cascading(env1, s) = Cascading(env2, s)
        /\ \A custom : Knows(env1, custom, s) => Knows(env2, custom, s)
  BY <1>2, SameNoted
<1>4. data.effective = UNION {Noted(env2, s) : s \in BuiltSheets(o, coll)}
  <2>1. data.effective = UNION {Noted(env1, s) : s \in BuiltSheets(o, coll)}
    BY DEF DataSound
  <2>. QED  BY <1>3, <2>1
<1>5. \A s \in BuiltSheets(o, coll) : Cascading(env2, s) \subseteq data.selectors /\ Knows(env2, data.custom, s)
  <2>1. \A s \in BuiltSheets(o, coll) : Cascading(env1, s) \subseteq data.selectors /\ Knows(env1, data.custom, s)
    BY DEF DataSound
  <2>. QED  BY <1>3, <2>1
<1>6. ASSUME coll.validity = Valid
      PROVE  \E k \in 0 .. Len(coll.entries) :
               /\ \A i \in DOMAIN coll.entries : BuiltAt(o, coll, i) <=> i <= k
               /\ BuiltTo(env2, Sheets(coll), k, data)
  <2>1. PICK k \in 0 .. n : /\ \A i \in 1 .. n : BuiltAt(o, coll, i) <=> i <= k
                            /\ BuiltTo(env1, ss, k, data)
    BY <1>1, <1>6 DEF DataSound
  <2>2. \A i \in 1 .. k : ss[i] \in BuiltSheets(o, coll)
    BY <1>1, <2>1 DEF BuiltSheets
  <2>3. SameCascade(Build(env1, SubSeq(ss, 1, k)), Build(env2, SubSeq(ss, 1, k)))
    BY <1>1, <2>2, SameBuilt
  <2>4. BuiltTo(env2, ss, k, data)
    BY <2>1, <2>3 DEF BuiltTo, SameCascade
  <2>. QED  BY <1>1, <2>1, <2>4
<1>. QED  BY <1>4, <1>5, <1>6 DEF DataSound

\* A sheet that nothing touched adds the same.
LEMMA UntouchedSheet ==
  ASSUME NEW env1 \in Environment, NEW env2 \in Environment, NEW s \in Sheet,
         env1.wide = env2.wide, env1.contents[s] = env2.contents[s],
         \A r \in RulesOf(s) : env1.condition[r] = env2.condition[r]
  PROVE  SameSheet(env1, env2, s)
<1>1. PICK c \in Seq(Rule) : c = env1.contents[s] /\ c = env2.contents[s]
  BY EnvironmentFacts
<1>2. PICK n \in Nat : n = Len(c) /\ DOMAIN c = 1 .. n /\ \A i \in 1 .. n : env1.condition[c[i]] = env2.condition[c[i]]
  BY <1>1, EnvironmentFacts
<1>3. \A cond : BaseHolds(env1, cond) <=> BaseHolds(env2, cond)
  BY DEF BaseHolds
<1>4. ASSUME NEW i \in 1 .. n, NEW cond
      PROVE  CondApplies(env1, s, i - 1, cond) <=> CondApplies(env2, s, i - 1, cond)
  <2>1. \A j \in 1 .. (i - 1) : j \in 1 .. n
    BY <1>2
  <2>2. \A j \in 1 .. (i - 1) : BaseHolds(env1, env1.condition[c[j]]) <=> BaseHolds(env2, env2.condition[c[j]])
    BY <1>2, <1>3, <2>1
  <2>. QED  BY <1>1, <1>3, <2>2 DEF CondApplies
<1>5. Blocks(env1, s) = Blocks(env2, s)
  BY <1>1, <1>2, <1>4 DEF Blocks
<1>6. SheetApplies(env1, s) <=> SheetApplies(env2, s)
  BY <1>3 DEF SheetApplies
<1>. QED  BY <1>5, <1>6 DEF SameSheet

\* With the final map, a block also has to come after the definition it uses.
LEMMA CondSplits ==
  ASSUME NamesAreLocal, NEW env \in Environment, NEW s \in Sheet, SheetApplies(env, s),
         NEW i \in 0 .. Len(env.contents[s]), NEW custom \in CustomMedia, Knows(env, custom, s),
         NEW r \in RulesOf(s), r \in Rule, Kind[r] = "media"
  PROVE  LET cond == env.condition[r]
         IN  CondApplies(env, s, i, cond)
               <=> (cond \in Name => Given(env, s, i, cond)) /\ Holds(cond, custom, env.wide)
<1>1. PICK cond \in Condition : cond = env.condition[r]
  BY EnvironmentFacts
<1>2. PICK c \in Seq(Rule) : c = env.contents[s] /\ \A j \in 1 .. Len(c) : c[j] \in Rule
  BY EnvironmentFacts
<1>3. DOMAIN custom \in SUBSET Name
  BY CustomMediaMaps
<1>4. CASE cond \in Name
  <2>1. cond # "all" /\ cond # "wide"
    BY <1>4, Conditions
  <2>2. Uses(s, cond)
    <3>1. cond = InitialCondition[r]
      BY <1>1, <2>1, EnvironmentFacts DEF BaseCondition
    <3>. QED  BY <3>1 DEF Uses
  <2>3. /\ cond \in DOMAIN custom <=> Given(env, s, Len(c), cond)
        /\ cond \in DOMAIN custom =>
             \A q \in Rule : IsCustom(q) /\ Defines[q] = cond => custom[cond] = env.condition[q]
    BY <1>2, <1>4, <2>2 DEF Knows
  <2>4. \A j \in 1 .. i : j \in 1 .. Len(c) /\ c[j] \in Rule
    BY <1>2
  <2>5. Given(env, s, i, cond) <=> \E j \in 1 .. i : IsCustom(c[j]) /\ Defines[c[j]] = cond
    BY <1>2 DEF Given
  <2>6. Given(env, s, i, cond) => cond \in DOMAIN custom
    BY <1>2, <2>3, <2>4, <2>5 DEF Given
  <2>7. CondApplies(env, s, i, cond)
          <=> \E j \in 1 .. i : IsCustom(c[j]) /\ Defines[c[j]] = cond /\ BaseHolds(env, env.condition[c[j]])
    BY <1>2, <2>1 DEF CondApplies, BaseHolds
  <2>8. Holds(cond, custom, env.wide) <=> cond \in DOMAIN custom /\ BaseHolds(env, custom[cond])
    BY <2>1 DEF Holds, BaseHolds
  <2>9. ASSUME NEW j \in 1 .. i, IsCustom(c[j]), Defines[c[j]] = cond, cond \in DOMAIN custom
        PROVE  custom[cond] = env.condition[c[j]]
    BY <2>3, <2>4, <2>9
  <2>. QED  BY <1>1, <1>4, <2>5, <2>6, <2>7, <2>8, <2>9
<1>5. CASE cond \notin Name
  <2>1. cond \notin DOMAIN custom
    BY <1>3, <1>5
  <2>2. \A j \in 1 .. i : IsCustom(c[j]) => Defines[c[j]] # cond
    BY <1>2, <1>5, RuleKinds
  <2>3. Holds(cond, custom, env.wide) <=> BaseHolds(env, cond)
    BY <2>1 DEF Holds, BaseHolds
  <2>4. CondApplies(env, s, i, cond) <=> BaseHolds(env, cond)
    BY <1>2, <2>2 DEF CondApplies
  <2>. QED  BY <1>1, <1>5, <2>3, <2>4
<1>. QED  BY <1>4, <1>5

\* What is effective of a sheet is what it noted.
LEMMA OwnEffective ==
  ASSUME NEW env \in Environment, NEW o, NEW coll, NEW data, DataSound(env, o, coll, data),
         BuiltSheets(o, coll) \subseteq Sheet, NEW s \in BuiltSheets(o, coll)
  PROVE  \A x \in {s} \cup RulesOf(s) : x \in data.effective <=> x \in Noted(env, s)
<1>1. \A t \in Sheet : RulesOf(t) \subseteq Rule
  <2>1. \A t \in Sheet : InitialContents[t] \in Seq(Rule)
    BY CascadeDataAssumption
  <2>. QED  BY <2>1 DEF RulesOf, ToSet
<1>2. ASSUME NEW t \in Sheet PROVE Noted(env, t) \subseteq {t} \cup RulesOf(t)
  <2>1. \A i \in Blocks(env, t) : env.contents[t][i] \in RulesOf(t)
    <3>1. env.contents[t] \in Seq(Rule) /\ \A i \in 1 .. Len(env.contents[t]) : env.contents[t][i] \in RulesOf(t)
      BY EnvironmentFacts
    <3>. QED  BY <3>1 DEF Blocks
  <2>. QED  BY <2>1 DEF Noted
<1>3. ASSUME NEW t \in Sheet, t # s PROVE \A x \in {s} \cup RulesOf(s) : x \notin Noted(env, t)
  <2>1. RulesOf(s) \cap RulesOf(t) = {} /\ Sheet \cap Rule = {}
    BY <1>3, CascadeDataAssumption, CascadeDataAssumption
  <2>. QED  BY <1>1, <1>2, <1>3, <2>1
<1>4. data.effective = UNION {Noted(env, t) : t \in BuiltSheets(o, coll)}
  BY DEF DataSound
<1>. QED  BY <1>3, <1>4

\* A sheet whose media the check finds as they were adds the same on the other device.
LEMMA UnaffectedSheet ==
  ASSUME NamesAreLocal, NEW env1 \in Environment, NEW env2 \in Environment,
         env1.contents = env2.contents, env1.condition = env2.condition,
         NEW o, NEW coll, NEW data \in CascadeDataType, DataSound(env1, o, coll, data),
         BuiltSheets(o, coll) \subseteq Sheet, NEW s \in BuiltSheets(o, coll),
         MediaFeatureAffectedMatches(env2, data, s)
  PROVE  SameSheet(env1, env2, s)
<1>1. PICK c \in Seq(Rule) : c = env1.contents[s] /\ c = env2.contents[s]
  BY EnvironmentFacts
<1>2. PICK n \in Nat : /\ n = Len(c) /\ DOMAIN c = 1 .. n
                       /\ \A i \in 1 .. n : c[i] \in Rule /\ c[i] \in RulesOf(s) /\ c[i] \in ToSet(env2.contents[s])
                       /\ \A i \in 1 .. n : i - 1 \in 0 .. Len(c)
  <2>1. \A i \in 1 .. Len(c) : c[i] \in ToSet(c)
    BY DEF ToSet
  <2>. QED  BY <1>1, <2>1, EnvironmentFacts
<1>3. s \in Sheet /\ s \notin Rule
  BY CascadeDataAssumption
<1>4. \A x \in {s} \cup RulesOf(s) : x \in data.effective <=> x \in Noted(env1, s)
  BY OwnEffective
<1>5. Knows(env1, data.custom, s)
  BY DEF DataSound
<1>6. data.custom \in CustomMedia /\ DOMAIN data.custom \in SUBSET Name
  BY DataFields, CustomMediaMaps
<1>7. Holds(SheetMedia[s], data.custom, env2.wide) <=> SheetApplies(env2, s)
  <2>1. SheetMedia[s] \notin DOMAIN data.custom
    <3>1. CASE SheetMedia[s] \in Name
      <4>1. Uses(s, SheetMedia[s])
        BY DEF Uses
      <4>2. ~SheetApplies(env1, s)
        <5>1. SheetMedia[s] \in Condition
          BY <1>3, CascadeDataAssumption
        <5>2. SheetMedia[s] # "all" /\ SheetMedia[s] # "wide"
          BY <3>1, <5>1, Conditions
        <5>. QED  BY <5>2 DEF SheetApplies, BaseHolds
      <4>. QED  BY <1>5, <3>1, <4>1, <4>2 DEF Knows
    <3>. QED  BY <1>6, <3>1
  <2>. QED  BY <2>1 DEF Holds, SheetApplies, BaseHolds
<1>8. SheetApplies(env1, s) <=> SheetApplies(env2, s)
  <2>1. SheetApplies(env2, s) <=> s \in data.effective
    BY <1>7 DEF MediaFeatureAffectedMatches
  <2>2. s \in Noted(env1, s) <=> SheetApplies(env1, s)
    BY DEF Noted
  <2>. QED  BY <1>4, <2>1, <2>2
<1>9. ASSUME SheetApplies(env1, s) PROVE Blocks(env1, s) = Blocks(env2, s)
  <2>1. Knows(env2, data.custom, s)
    <3>1. \A m, i : Given(env1, s, i, m) <=> Given(env2, s, i, m)
      BY DEF Given
    <3>. QED  BY <1>5, <1>8, <3>1 DEF Knows
  <2>2. \A x \in RulesOf(s) : x \in Noted(env1, s) <=> \E j \in Blocks(env1, s) : c[j] = x
    <3>1. s \notin RulesOf(s)
      <4>1. InitialContents[s] \in Seq(Rule)
        BY <1>3, CascadeDataAssumption
      <4>. QED  BY <1>3, <4>1 DEF RulesOf, ToSet
    <3>. QED  BY <1>1, <1>9, <3>1 DEF Noted
  <2>3. ASSUME NEW i \in 1 .. n, Kind[c[i]] = "media"
        PROVE  LET cond == env1.condition[c[i]]
               IN  /\ i \in Blocks(env1, s)
                        <=> (cond \in Name => Given(env1, s, i - 1, cond)) /\ Holds(cond, data.custom, env1.wide)
                   /\ i \in Blocks(env2, s)
                        <=> (cond \in Name => Given(env1, s, i - 1, cond)) /\ Holds(cond, data.custom, env2.wide)
    <3>1. PICK r \in Rule : r = c[i] /\ r \in RulesOf(s) /\ Kind[r] = "media"
      BY <1>2, <2>3
    <3>2. PICK cond : cond = env1.condition[r] /\ cond = env2.condition[r]
      OBVIOUS
    <3>3. i - 1 \in 0 .. Len(env1.contents[s]) /\ i - 1 \in 0 .. Len(env2.contents[s])
      BY <1>1, <1>2
    <3>4. CondApplies(env1, s, i - 1, cond)
            <=> (cond \in Name => Given(env1, s, i - 1, cond)) /\ Holds(cond, data.custom, env1.wide)
      BY <1>3, <1>5, <1>6, <1>9, <3>1, <3>2, <3>3, CondSplits
    <3>5. CondApplies(env2, s, i - 1, cond)
            <=> (cond \in Name => Given(env2, s, i - 1, cond)) /\ Holds(cond, data.custom, env2.wide)
      BY <1>3, <1>6, <1>8, <1>9, <2>1, <3>1, <3>2, <3>3, CondSplits
    <3>6. Given(env1, s, i - 1, cond) <=> Given(env2, s, i - 1, cond)
      BY DEF Given
    <3>7. i \in Blocks(env1, s) <=> CondApplies(env1, s, i - 1, cond)
      BY <1>1, <1>2, <3>1, <3>2 DEF Blocks
    <3>8. i \in Blocks(env2, s) <=> CondApplies(env2, s, i - 1, cond)
      BY <1>1, <1>2, <3>1, <3>2 DEF Blocks
    <3>. QED  BY <3>1, <3>2, <3>4, <3>5, <3>6, <3>7, <3>8
  <2>4. ASSUME NEW i \in 1 .. n, Kind[c[i]] = "media"
        PROVE  Holds(env1.condition[c[i]], data.custom, env2.wide) <=> \E j \in Blocks(env1, s) : c[j] = c[i]
    <3>1. Holds(env2.condition[c[i]], data.custom, env2.wide) <=> c[i] \in data.effective
      BY <1>2, <1>7, <1>8, <1>9, <2>4 DEF MediaFeatureAffectedMatches
    <3>. QED  BY <1>2, <1>4, <2>2, <3>1
  <2>5. \A i \in Blocks(env1, s) : i \in 1 .. n /\ Kind[c[i]] = "media"
    BY <1>1, <1>2 DEF Blocks
  <2>6. \A i \in Blocks(env2, s) : i \in 1 .. n /\ Kind[c[i]] = "media"
    BY <1>1, <1>2 DEF Blocks
  <2>7. ASSUME NEW i \in Blocks(env1, s) PROVE i \in Blocks(env2, s)
    <3>1. Holds(env1.condition[c[i]], data.custom, env2.wide)
      BY <2>4, <2>5
    <3>. QED  BY <2>3, <2>5, <3>1
  <2>8. ASSUME NEW i \in Blocks(env2, s) PROVE i \in Blocks(env1, s)
    <3>1. Holds(env1.condition[c[i]], data.custom, env2.wide)
      BY <2>3, <2>6
    <3>2. PICK j \in Blocks(env1, s) : c[j] = c[i]
      BY <2>4, <2>6, <3>1
    <3>3. Holds(env1.condition[c[i]], data.custom, env1.wide)
      BY <2>3, <2>5, <3>2
    <3>. QED  BY <2>3, <2>6, <3>3
  <2>. QED  BY <2>7, <2>8
<1>. QED  BY <1>8, <1>9 DEF SameSheet

-----------------------------------------------------------------------------
(* The operations of a collection.                                          *)

\* A part of a sequence.
LEMMA Part ==
  ASSUME NEW S, NEW v \in Seq(S), NEW a \in 1 .. Len(v) + 1, NEW b \in a - 1 .. Len(v)
  PROVE  /\ SubSeq(v, a, b) \in Seq(S) /\ Len(SubSeq(v, a, b)) = b - a + 1
         /\ \A i \in 1 .. (b - a + 1) : SubSeq(v, a, b)[i] = v[a + i - 1]
<1>1. PICK w : w = SubSeq(v, a, b)
  OBVIOUS
<1>2. a \in Int /\ b \in Int /\ \A i \in a .. b : v[i] \in S
  OBVIOUS
<1>3. /\ w \in Seq(S) /\ Len(w) = (IF a <= b THEN b - a + 1 ELSE 0)
      /\ \A i \in 1 .. (b - a + 1) : w[i] = v[a + i - 1]
  BY ONLY <1>1, <1>2, SubSeqProperties
<1>4. Len(w) = b - a + 1
  BY <1>2, <1>3
<1>. QED  BY <1>1, <1>3, <1>4

\* The start of a sequence.
LEMMA Start ==
  ASSUME NEW S, NEW v \in Seq(S), NEW i \in 0 .. Len(v), NEW a, a = SubSeq(v, 1, i)
  PROVE  a \in Seq(S) /\ Len(a) = i /\ \A j \in 1 .. i : a[j] = v[j]
<1>1. 1 \in 1 .. Len(v) + 1 /\ i \in 1 - 1 .. Len(v)
  OBVIOUS
<1>2. a \in Seq(S) /\ Len(a) = i - 1 + 1 /\ \A j \in 1 .. (i - 1 + 1) : a[j] = v[1 + j - 1]
  BY <1>1, Part
<1>3. i - 1 + 1 = i /\ \A j \in 1 .. i : 1 + j - 1 = j
  OBVIOUS
<1>. QED  BY <1>2, <1>3

\* And its end.
LEMMA End ==
  ASSUME NEW S, NEW v \in Seq(S), NEW i \in 0 .. Len(v), NEW b, b = SubSeq(v, i + 1, Len(v))
  PROVE  b \in Seq(S) /\ Len(b) = Len(v) - i /\ \A j \in 1 .. (Len(v) - i) : b[j] = v[i + j]
<1>0. PICK n \in Nat : n = Len(v)
  OBVIOUS
<1>1. i + 1 \in 1 .. Len(v) + 1 /\ n \in (i + 1) - 1 .. Len(v)
  BY <1>0
<1>2. /\ b \in Seq(S) /\ Len(b) = n - (i + 1) + 1
      /\ \A j \in 1 .. (n - (i + 1) + 1) : b[j] = v[(i + 1) + j - 1]
  BY <1>0, <1>1, Part
<1>3. n - (i + 1) + 1 = n - i /\ \A j \in 1 .. (n - i) : (i + 1) + j - 1 = i + j
  BY <1>0
<1>. QED  BY <1>0, <1>2, <1>3

\* A sequence with one more element.
IsLonger(v, i, e, w) ==
  /\ Len(w) = Len(v) + 1
  /\ \A j \in 1 .. Len(v) + 1 : /\ j < i => w[j] = v[j]
                                /\ j = i => w[j] = e
                                /\ j > i => w[j] = v[j - 1]

\* It is what an insertion gives.
LEMMA Inserted ==
  ASSUME NEW S, NEW v \in Seq(S), NEW i \in 1 .. Len(v) + 1, NEW e \in S
  PROVE  InsertAt(v, i, e) \in Seq(S) /\ IsLonger(v, i, e, InsertAt(v, i, e))
<1>1. PICK n \in Nat : n = Len(v)
  OBVIOUS
<1>2. PICK k \in 0 .. n : k = i - 1
  BY <1>1
<1>3. PICK a, b, z : a = SubSeq(v, 1, k) /\ b = SubSeq(v, k + 1, n) /\ z = <<e>>
  OBVIOUS
<1>4. a \in Seq(S) /\ Len(a) = k /\ \A j \in 1 .. k : a[j] = v[j]
  BY <1>1, <1>3, Start
<1>5. b \in Seq(S) /\ Len(b) = n - k /\ \A j \in 1 .. (n - k) : b[j] = v[k + j]
  BY <1>1, <1>3, End
<1>6. z \in Seq(S) /\ Len(z) = 1 /\ z[1] = e
  BY ONLY <1>3, e \in S
<1>7. PICK d : d = a \o z
  OBVIOUS
<1>8. /\ d \in Seq(S) /\ Len(d) = Len(a) + Len(z)
      /\ \A j \in 1 .. Len(a) : d[j] = a[j]
      /\ \A j \in 1 .. Len(z) : d[Len(a) + j] = z[j]
  <2>1. a \in Seq(S) /\ z \in Seq(S)
    BY <1>4, <1>6
  <2>. QED  BY ONLY <2>1, <1>7
<1>9. PICK w : w = d \o b
  OBVIOUS
<1>10. /\ w \in Seq(S) /\ Len(w) = Len(d) + Len(b)
       /\ \A j \in 1 .. Len(d) : w[j] = d[j]
       /\ \A j \in 1 .. Len(b) : w[Len(d) + j] = b[j]
  <2>1. d \in Seq(S) /\ b \in Seq(S)
    BY <1>5, <1>8
  <2>. QED  BY ONLY <2>1, <1>9
<1>11. Len(d) = i /\ Len(w) = n + 1
  BY <1>1, <1>2, <1>4, <1>5, <1>6, <1>8, <1>10
<1>12. ASSUME NEW j \in 1 .. n + 1, j < i PROVE w[j] = v[j]
  <2>1. j \in 1 .. k /\ j \in 1 .. i
    BY <1>2, <1>12
  <2>. QED  BY <1>4, <1>8, <1>10, <1>11, <2>1
<1>13. w[i] = e
  <2>1. i \in 1 .. i /\ Len(a) + 1 = i /\ 1 \in 1 .. Len(z)
    BY <1>2, <1>4, <1>6
  <2>2. d[Len(a) + 1] = z[1]
    BY <1>8, <2>1
  <2>. QED  BY <1>6, <1>10, <1>11, <2>1, <2>2
<1>14. ASSUME NEW j \in 1 .. n + 1, j > i PROVE w[j] = v[j - 1]
  <2>1. j - i \in 1 .. (n - k) /\ i + (j - i) = j /\ k + (j - i) = j - 1
    BY <1>1, <1>2, <1>14
  <2>2. w[i + (j - i)] = b[j - i]
    BY <1>5, <1>10, <1>11, <2>1
  <2>3. b[j - i] = v[k + (j - i)]
    BY <1>5, <2>1
  <2>. QED  BY <2>1, <2>2, <2>3
<1>15. InsertAt(v, i, e) = w
  <2>1. k + 1 = i
    BY <1>2
  <2>. QED  BY <1>1, <1>2, <1>3, <1>7, <1>9, <2>1 DEF InsertAt
<1>16. IsLonger(v, i, e, w)
  BY <1>1, <1>11, <1>12, <1>13, <1>14 DEF IsLonger
<1>. QED  BY <1>10, <1>15, <1>16

\* A shorter one.
LEMMA Removed ==
  ASSUME NEW S, NEW v \in Seq(S), NEW i \in 1 .. Len(v)
  PROVE  LET w == RemoveAt(v, i)
         IN  /\ w \in Seq(S) /\ Len(w) = Len(v) - 1
             /\ \A j \in 1 .. (Len(v) - 1) : w[j] = IF j < i THEN v[j] ELSE v[j + 1]
<1>1. PICK n \in Nat : n = Len(v)
  OBVIOUS
<1>2. PICK k \in 0 .. n : k = i - 1
  BY <1>1
<1>3. PICK a, b : a = SubSeq(v, 1, k) /\ b = SubSeq(v, i + 1, n)
  OBVIOUS
<1>4. a \in Seq(S) /\ Len(a) = k /\ \A j \in 1 .. k : a[j] = v[j]
  BY <1>1, <1>3, Start
<1>5. b \in Seq(S) /\ Len(b) = n - i /\ \A j \in 1 .. (n - i) : b[j] = v[i + j]
  BY <1>1, <1>3, End
<1>6. PICK w : w = a \o b
  OBVIOUS
<1>7. /\ w \in Seq(S) /\ Len(w) = Len(a) + Len(b)
      /\ \A j \in 1 .. Len(a) : w[j] = a[j]
      /\ \A j \in 1 .. Len(b) : w[Len(a) + j] = b[j]
  <2>1. a \in Seq(S) /\ b \in Seq(S)
    BY <1>4, <1>5
  <2>. QED  BY ONLY <2>1, <1>6
<1>8. Len(w) = n - 1
  BY <1>1, <1>2, <1>4, <1>5, <1>7
<1>9. ASSUME NEW j \in 1 .. (n - 1), j < i PROVE w[j] = v[j]
  <2>1. j \in 1 .. k
    BY <1>2, <1>9
  <2>. QED  BY <1>4, <1>7, <2>1
<1>10. ASSUME NEW j \in 1 .. (n - 1), ~(j < i) PROVE w[j] = v[j + 1]
  <2>1. j - k \in 1 .. (n - i) /\ k + (j - k) = j /\ i + (j - k) = j + 1
    BY <1>1, <1>2, <1>10
  <2>2. w[k + (j - k)] = b[j - k]
    BY <1>4, <1>5, <1>7, <2>1
  <2>3. b[j - k] = v[i + (j - k)]
    BY <1>5, <2>1
  <2>. QED  BY <2>1, <2>2, <2>3
<1>11. RemoveAt(v, i) = w
  BY <1>1, <1>2, <1>3, <1>6 DEF RemoveAt
<1>. QED  BY <1>1, <1>7, <1>8, <1>9, <1>10, <1>11

\* Setting the fields of a collection.
LEMMA SetFields ==
  ASSUME NEW coll \in Collection, NEW x, NEW y
  PROVE  /\ [coll EXCEPT !.entries = x, !.dirty = y] = [entries |-> x, validity |-> coll.validity, dirty |-> y]
         /\ [coll EXCEPT !.dirty = y, !.validity = x] = [entries |-> coll.entries, validity |-> x, dirty |-> y]
         /\ [coll EXCEPT !.entries = x] = [entries |-> x, validity |-> coll.validity, dirty |-> coll.dirty]
<1>1. coll = [entries |-> coll.entries, validity |-> coll.validity, dirty |-> coll.dirty]
  BY DEF Collection
<1>2. PICK a, b, c : a = coll.entries /\ b = coll.validity /\ c = coll.dirty
  OBVIOUS
<1>3. coll = [entries |-> a, validity |-> b, dirty |-> c]
  BY <1>1, <1>2
<1>4. [coll EXCEPT !.entries = x, !.dirty = y] = [entries |-> x, validity |-> b, dirty |-> y]
  <2>1. PICK r : r = [coll EXCEPT !.entries = x]
    OBVIOUS
  <2>2. r = [entries |-> x, validity |-> b, dirty |-> c]
    BY <1>3, <2>1
  <2>3. [r EXCEPT !.dirty = y] = [entries |-> x, validity |-> b, dirty |-> y]
    BY ONLY <2>2
  <2>4. [coll EXCEPT !.entries = x, !.dirty = y] = [r EXCEPT !.dirty = y]
    BY ONLY <2>1, Zenon
  <2>. QED  BY <2>3, <2>4
<1>5. [coll EXCEPT !.dirty = y, !.validity = x] = [entries |-> a, validity |-> x, dirty |-> y]
  <2>1. PICK r : r = [coll EXCEPT !.dirty = y]
    OBVIOUS
  <2>2. r = [entries |-> a, validity |-> b, dirty |-> y]
    BY <1>3, <2>1
  <2>3. [r EXCEPT !.validity = x] = [entries |-> a, validity |-> x, dirty |-> y]
    BY ONLY <2>2
  <2>4. [coll EXCEPT !.dirty = y, !.validity = x] = [r EXCEPT !.validity = x]
    BY ONLY <2>1, Zenon
  <2>. QED  BY <2>3, <2>4
<1>6. [coll EXCEPT !.entries = x] = [entries |-> x, validity |-> b, dirty |-> c]
  BY <1>3
<1>. QED  BY <1>2, <1>4, <1>5, <1>6

\* What a collection is.
LEMMA IsCollection ==
  ASSUME NEW x \in Seq(Entry), NEW v \in {Valid, CascadeInvalid, FullyInvalid}, NEW y \in BOOLEAN,
         NEW c, c = [entries |-> x, validity |-> v, dirty |-> y]
  PROVE  c \in Collection /\ c.entries = x /\ c.validity = v /\ c.dirty = y
<1>1. v \in Valid .. FullyInvalid
  BY DEF Valid, CascadeInvalid, FullyInvalid
<1>. QED  BY <1>1 DEF Collection

\* Where a sheet is.
LEMMA Located ==
  ASSUME NEW coll \in Collection, NEW s
  PROVE  /\ HasSheet(coll, s) <=> \E i \in 1 .. Len(coll.entries) : coll.entries[i].sheet = s
         /\ HasSheet(coll, s) => /\ IndexOf(coll, s) \in 1 .. Len(coll.entries)
                                 /\ coll.entries[IndexOf(coll, s)].sheet = s
<1>1. PICK ss \in Seq(Sheet), n \in Nat :
        /\ ss = Sheets(coll) /\ Len(ss) = n /\ n = Len(coll.entries)
        /\ DOMAIN coll.entries = 1 .. n /\ \A i \in 1 .. n : ss[i] = coll.entries[i].sheet
  BY SheetsOfCollection
<1>2. HasSheet(coll, s) <=> \E i \in 1 .. n : ss[i] = s
  <2>1. HasSheet(coll, s) <=> s \in ToSet(ss)
    BY <1>1 DEF HasSheet
  <2>. QED  BY <1>1, <2>1 DEF ToSet
<1>3. HasSheet(coll, s) => \E i \in DOMAIN coll.entries : coll.entries[i].sheet = s
  BY <1>1, <1>2
<1>4. HasSheet(coll, s) => IndexOf(coll, s) \in DOMAIN coll.entries /\ coll.entries[IndexOf(coll, s)].sheet = s
  BY <1>3 DEF IndexOf
<1>. QED  BY <1>1, <1>2, <1>4

\* A new entry.
LEMMA NewEntryFields ==
  ASSUME NEW s \in Sheet
  PROVE  NewEntry(s) \in Entry /\ NewEntry(s).sheet = s /\ NewEntry(s).committed = FALSE
BY DEF NewEntry, Entry

\* Marking a collection.
LEMMA Marked ==
  ASSUME NEW c \in Collection, NEW v \in {Valid, CascadeInvalid, FullyInvalid}, NEW d, d = SetValidityAtLeast(c, v)
  PROVE  /\ d \in Collection /\ d.entries = c.entries /\ d.dirty = TRUE
         /\ d.validity = IF v > c.validity THEN v ELSE c.validity
<1>1. PICK w \in {Valid, CascadeInvalid, FullyInvalid} : w = IF v > c.validity THEN v ELSE c.validity
  BY SheetsOfCollection
<1>2. d = [c EXCEPT !.dirty = TRUE, !.validity = w]
  BY <1>1, Zenon DEF SetValidityAtLeast
<1>3. d = [entries |-> c.entries, validity |-> w, dirty |-> TRUE]
  BY <1>2, SetFields
<1>4. PICK y \in BOOLEAN : y = TRUE
  OBVIOUS
<1>5. PICK x \in Seq(Entry) : x = c.entries
  BY SheetsOfCollection
<1>6. d = [entries |-> x, validity |-> w, dirty |-> y]
  BY <1>3, <1>4, <1>5
<1>7. d \in Collection /\ d.entries = x /\ d.validity = w /\ d.dirty = y
  BY ONLY <1>6, IsCollection
<1>. QED  BY <1>1, <1>4, <1>5, <1>7

\* Adding a sheet at the end.
LEMMA AppendRaw ==
  ASSUME NEW c \in Collection, NEW s \in Sheet, NEW d, d = AppendSheet(c, s)
  PROVE  /\ d \in Collection /\ d.validity = c.validity /\ d.dirty = TRUE
         /\ Len(d.entries) = Len(c.entries) + 1
         /\ \A i \in 1 .. Len(c.entries) : d.entries[i] = c.entries[i]
         /\ d.entries[Len(c.entries) + 1] = NewEntry(s)
<1>1. PICK v : v \in Seq(Entry) /\ v = c.entries
  BY SheetsOfCollection
<1>2. PICK e \in Entry : e = NewEntry(s)
  BY NewEntryFields
<1>3. PICK w : w = Append(v, e)
  OBVIOUS
<1>4. /\ w \in Seq(Entry) /\ Len(w) = Len(v) + 1 /\ w[Len(v) + 1] = e
      /\ \A i \in 1 .. Len(v) : w[i] = v[i]
  BY <1>1, <1>3
<1>5. d = [c EXCEPT !.entries = w, !.dirty = TRUE]
  BY <1>1, <1>2, <1>3, Zenon DEF AppendSheet
<1>6. d = [entries |-> w, validity |-> c.validity, dirty |-> TRUE]
  BY <1>5, SetFields
<1>7. d \in Collection /\ d.entries = w /\ d.validity = c.validity /\ d.dirty = TRUE
  <2>1. PICK y \in BOOLEAN : y = TRUE
    OBVIOUS
  <2>2. PICK z \in {Valid, CascadeInvalid, FullyInvalid} : z = c.validity
    BY SheetsOfCollection
  <2>3. w \in Seq(Entry) /\ d = [entries |-> w, validity |-> z, dirty |-> y]
    BY <1>4, <1>6, <2>1, <2>2
  <2>4. d \in Collection /\ d.entries = w /\ d.validity = z /\ d.dirty = y
    BY ONLY <2>3, IsCollection
  <2>. QED  BY <2>1, <2>2, <2>4
<1>. QED  BY <1>1, <1>2, <1>4, <1>7

\* Adding a sheet before another one.
LEMMA InsertRaw ==
  ASSUME NEW c \in Collection, NEW s \in Sheet, NEW b, HasSheet(c, b), NEW d, d = InsertBefore(c, s, b)
  PROVE  /\ d \in Collection /\ d.dirty = TRUE
         /\ d.validity = IF c.validity = FullyInvalid THEN FullyInvalid ELSE CascadeInvalid
         /\ \E i \in 1 .. Len(c.entries) : IsLonger(c.entries, i, NewEntry(s), d.entries)
<1>1. PICK v : v \in Seq(Entry) /\ v = c.entries
  BY SheetsOfCollection
<1>2. PICK e \in Entry : e = NewEntry(s)
  BY NewEntryFields
<1>3. PICK i \in 1 .. Len(v) : i = IndexOf(c, b)
  BY <1>1, Located
<1>4. PICK m : m = SetValidityAtLeast(c, CascadeInvalid)
  OBVIOUS
<1>5. /\ m \in Collection /\ m.entries = v /\ m.dirty = TRUE
      /\ m.validity = IF CascadeInvalid > c.validity THEN CascadeInvalid ELSE c.validity
  <2>1. PICK x \in {Valid, CascadeInvalid, FullyInvalid} : x = CascadeInvalid
    OBVIOUS
  <2>. QED  BY <1>1, <1>4, <2>1, Marked
<1>6. PICK w : w = InsertAt(v, i, e)
  OBVIOUS
<1>7. w \in Seq(Entry) /\ IsLonger(v, i, e, w)
  <2>1. i \in 1 .. Len(v) + 1
    BY <1>1
  <2>. QED  BY <1>1, <1>6, <2>1, Inserted
<1>8. d = [m EXCEPT !.entries = w]
  BY <1>2, <1>3, <1>4, <1>5, <1>6, Zenon DEF InsertBefore
<1>9. d \in Collection /\ d.entries = w /\ d.validity = m.validity /\ d.dirty = m.dirty
  <2>1. d = [entries |-> w, validity |-> m.validity, dirty |-> m.dirty]
    BY <1>5, <1>8, SetFields
  <2>. QED  BY <1>5, <1>7, <2>1, IsCollection, SheetsOfCollection
<1>10. m.validity = IF c.validity = FullyInvalid THEN FullyInvalid ELSE CascadeInvalid
  BY <1>5, SheetsOfCollection DEF Valid, CascadeInvalid, FullyInvalid
<1>. QED  BY <1>1, <1>2, <1>5, <1>7, <1>9, <1>10

\* A sequence with one element less.
IsShorter(v, i, w) ==
  /\ Len(w) = Len(v) - 1
  /\ \A j \in 1 .. (Len(v) - 1) : w[j] = IF j < i THEN v[j] ELSE v[j + 1]

\* Taking a sheet out.
LEMMA RemoveRaw ==
  ASSUME NEW c \in Collection, NEW s, HasSheet(c, s), NEW d, d = RemoveSheet(c, s)
  PROVE  /\ d \in Collection /\ d.dirty = TRUE
         /\ d.validity = IF Committed(c, s) THEN FullyInvalid ELSE c.validity
         /\ \E i \in 1 .. Len(c.entries) :
              /\ c.entries[i].sheet = s /\ (Committed(c, s) <=> c.entries[i].committed)
              /\ IsShorter(c.entries, i, d.entries)
<1>1. PICK v : v \in Seq(Entry) /\ v = c.entries
  BY SheetsOfCollection
<1>2. PICK i \in 1 .. Len(v) : i = IndexOf(c, s) /\ v[i].sheet = s
  BY <1>1, Located
<1>3. PICK w : w = RemoveAt(v, i)
  OBVIOUS
<1>4. w \in Seq(Entry) /\ IsShorter(v, i, w)
  BY <1>1, <1>3, Removed DEF IsShorter
<1>5. PICK m : m = [c EXCEPT !.entries = w]
  OBVIOUS
<1>6. m \in Collection /\ m.entries = w /\ m.validity = c.validity /\ m.dirty = c.dirty
  <2>1. m = [entries |-> w, validity |-> c.validity, dirty |-> c.dirty]
    BY <1>5, SetFields
  <2>. QED  BY <1>4, <2>1, IsCollection, SheetsOfCollection
<1>7. Committed(c, s) <=> v[i].committed
  BY <1>1, <1>2 DEF Committed
<1>8. d = IF Committed(c, s) THEN SetValidityAtLeast(m, FullyInvalid) ELSE [m EXCEPT !.dirty = TRUE]
  BY <1>1, <1>2, <1>3, <1>5, Zenon DEF RemoveSheet
<1>9. d \in Collection /\ d.dirty = TRUE /\ d.entries = w
      /\ d.validity = IF Committed(c, s) THEN FullyInvalid ELSE c.validity
  <2>1. CASE Committed(c, s)
    <3>1. PICK x \in {Valid, CascadeInvalid, FullyInvalid} : x = FullyInvalid
      OBVIOUS
    <3>2. d = SetValidityAtLeast(m, x)
      BY <1>8, <2>1, <3>1
    <3>3. d \in Collection /\ d.entries = m.entries /\ d.dirty = TRUE
          /\ d.validity = IF x > m.validity THEN x ELSE m.validity
      BY <1>6, <3>2, Marked
    <3>4. d.validity = FullyInvalid
      BY <1>6, <3>1, <3>3, SheetsOfCollection DEF Valid, CascadeInvalid, FullyInvalid
    <3>. QED  BY <1>6, <2>1, <3>3, <3>4
  <2>2. CASE ~Committed(c, s)
    <3>1. d = [m EXCEPT !.dirty = TRUE]
      BY <1>8, <2>2
    <3>2. PICK x, y, z : m = [entries |-> x, validity |-> y, dirty |-> z]
      BY <1>6 DEF Collection
    <3>3. d = [entries |-> x, validity |-> y, dirty |-> TRUE]
      BY <3>1, <3>2
    <3>4. d \in Collection
      BY <1>6, <3>2, <3>3 DEF Collection
    <3>5. d.entries = m.entries /\ d.validity = m.validity /\ d.dirty = TRUE
      BY <3>2, <3>3
    <3>. QED  BY <1>6, <2>2, <3>4, <3>5
  <2>. QED  BY <2>1, <2>2
<1>. QED  BY <1>1, <1>2, <1>4, <1>7, <1>9

\* Two lists of sheets that start alike.
LEMMA SameStart ==
  ASSUME NEW ss \in Seq(Sheet), NEW tt \in Seq(Sheet), NEW k \in 0 .. Len(ss), k <= Len(tt), AgreeTo(ss, tt, k)
  PROVE  SubSeq(ss, 1, k) = SubSeq(tt, 1, k)
<1>1. PICK v : v = SubSeq(ss, 1, k)
  OBVIOUS
<1>2. PICK w : w = SubSeq(tt, 1, k)
  OBVIOUS
<1>3. v \in Seq(Sheet) /\ Len(v) = k /\ \A i \in 1 .. k : v[i] = ss[i]
  BY <1>1, FirstSheets
<1>4. w \in Seq(Sheet) /\ Len(w) = k /\ \A i \in 1 .. k : w[i] = tt[i]
  <2>1. k \in 0 .. Len(tt)
    OBVIOUS
  <2>. QED  BY <1>2, <2>1, FirstSheets
<1>5. \A i \in 1 .. k : v[i] = w[i]
  BY <1>3, <1>4 DEF AgreeTo
<1>6. v = w
  <2>1. v \in Seq(Sheet) /\ w \in Seq(Sheet) /\ Len(v) = Len(w) /\ \A i \in 1 .. Len(v) : v[i] = w[i]
    BY <1>3, <1>4, <1>5
  <2>. QED  BY ONLY <2>1
<1>. QED  BY <1>1, <1>2, <1>6

\* A change of the list adds at most the sheet it is about.
LEMMA AppendedSheets ==
  ASSUME NEW c \in Collection, NEW s \in Sheet, NEW t, HasSheet(AppendSheet(c, s), t)
  PROVE  HasSheet(c, t) \/ t = s
<1>1. PICK d : d = AppendSheet(c, s)
  OBVIOUS
<1>2. PICK n \in Nat : n = Len(c.entries)
  BY SheetsOfCollection
<1>3. /\ d \in Collection /\ Len(d.entries) = n + 1 /\ \A i \in 1 .. n : d.entries[i] = c.entries[i]
      /\ d.entries[n + 1].sheet = s
  <2>1. PICK e : e = NewEntry(s) /\ e.sheet = s
    BY NewEntryFields
  <2>2. /\ d \in Collection /\ Len(d.entries) = Len(c.entries) + 1
        /\ \A i \in 1 .. Len(c.entries) : d.entries[i] = c.entries[i]
        /\ d.entries[Len(c.entries) + 1] = NewEntry(s)
    BY <1>1, AppendRaw
  <2>. QED  BY <1>2, <2>1, <2>2
<1>4. PICK i \in 1 .. n + 1 : d.entries[i].sheet = t
  BY <1>1, <1>3, Located
<1>5. CASE i \in 1 .. n
  <2>1. c.entries[i].sheet = t /\ i \in 1 .. Len(c.entries)
    BY <1>2, <1>3, <1>4, <1>5
  <2>. QED  BY <2>1, Located
<1>6. CASE i = n + 1
  BY <1>3, <1>4, <1>6
<1>. QED  BY <1>5, <1>6

LEMMA InsertedSheets ==
  ASSUME NEW c \in Collection, NEW s \in Sheet, NEW b, HasSheet(c, b), NEW t, HasSheet(InsertBefore(c, s, b), t)
  PROVE  HasSheet(c, t) \/ t = s
<1>1. PICK d : d = InsertBefore(c, s, b)
  OBVIOUS
<1>2. PICK n \in Nat : n = Len(c.entries)
  BY SheetsOfCollection
<1>3. d \in Collection /\ \E i \in 1 .. n : IsLonger(c.entries, i, NewEntry(s), d.entries)
  BY <1>1, <1>2, InsertRaw
<1>4. PICK i \in 1 .. n : /\ Len(d.entries) = n + 1
                          /\ \A j \in 1 .. n + 1 : /\ j < i => d.entries[j] = c.entries[j]
                                                   /\ j = i => d.entries[j] = NewEntry(s)
                                                   /\ j > i => d.entries[j] = c.entries[j - 1]
  BY <1>2, <1>3 DEF IsLonger
<1>5. PICK j \in 1 .. n + 1 : d.entries[j].sheet = t
  <2>1. \E j \in 1 .. Len(d.entries) : d.entries[j].sheet = t
    BY <1>1, <1>3, Located
  <2>2. Len(d.entries) = n + 1
    BY <1>4
  <2>. QED  BY <2>1, <2>2
<1>6. CASE j = i
  <2>1. PICK e : e = NewEntry(s) /\ e.sheet = s
    BY NewEntryFields
  <2>. QED  BY <1>4, <1>5, <1>6, <2>1
<1>7. CASE j # i
  <2>1. \E m \in 1 .. n : d.entries[j] = c.entries[m]
    <3>1. CASE j < i
      BY <1>4, <3>1
    <3>2. CASE j > i
      <4>1. j - 1 \in 1 .. n
        BY <3>2
      <4>. QED  BY <1>4, <3>2, <4>1
    <3>. QED  BY <1>7, <3>1, <3>2
  <2>. QED  BY <1>2, <1>5, <2>1, Located
<1>. QED  BY <1>6, <1>7

LEMMA RemovedSheets ==
  ASSUME NEW c \in Collection, NEW s, HasSheet(c, s), NEW t, HasSheet(RemoveSheet(c, s), t)
  PROVE  HasSheet(c, t)
<1>1. PICK d : d = RemoveSheet(c, s)
  OBVIOUS
<1>2. PICK n \in Nat : n = Len(c.entries)
  BY SheetsOfCollection
<1>3. d \in Collection /\ \E i \in 1 .. n : IsShorter(c.entries, i, d.entries)
  BY <1>1, <1>2, RemoveRaw
<1>4. PICK i \in 1 .. n : /\ Len(d.entries) = n - 1
                          /\ \A j \in 1 .. (n - 1) : d.entries[j] = IF j < i THEN c.entries[j] ELSE c.entries[j + 1]
  BY <1>2, <1>3 DEF IsShorter
<1>5. PICK j \in 1 .. (n - 1) : d.entries[j].sheet = t
  BY <1>1, <1>3, <1>4, Located
<1>6. \E m \in 1 .. n : d.entries[j] = c.entries[m]
  BY <1>4
<1>. QED  BY <1>2, <1>5, <1>6, Located

\* A mark does not change the sheets.
LEMMA MarkedSheets ==
  ASSUME NEW c \in Collection
  PROVE  Sheets(SetValidityAtLeast(c, FullyInvalid)) = Sheets(c)
<1>1. PICK d : d = SetValidityAtLeast(c, FullyInvalid)
  OBVIOUS
<1>2. d.entries = c.entries
  BY <1>1, Marked
<1>. QED  BY <1>1, <1>2 DEF Sheets

\* The first k sheets of a collection were there at the last flush, and no other.
BuiltFirst(o, coll, k) == \A i \in DOMAIN coll.entries : BuiltAt(o, coll, i) <=> i <= k

\* A collection after a change that leaves what its marks say of the data true.
Changed(o, c, d) ==
  /\ d \in Collection /\ d.dirty = TRUE /\ CollectionShape(o, d)
  /\ d.validity # FullyInvalid /\ o # "UserAgent" =>
       /\ c.validity # FullyInvalid /\ BuiltSheets(o, d) = BuiltSheets(o, c)
       /\ d.validity = Valid =>
            /\ c.validity = Valid
            /\ \A k \in 0 .. Len(c.entries) : BuiltFirst(o, c, k) =>
                 /\ k \in 0 .. Len(d.entries) /\ BuiltFirst(o, d, k)
                 /\ SubSeq(Sheets(d), 1, k) = SubSeq(Sheets(c), 1, k)

\* It does.
LEMMA ChangedSound ==
  ASSUME NEW env, NEW o, NEW c \in Collection, CollectionShape(o, c), NEW d, Changed(o, c, d), IsKept(o, d), NEW data,
         IsKept(o, c) => DataSound(env, o, c, data)
  PROVE  DataSound(env, o, d, data)
<1>1. d.dirty = TRUE
  BY DEF Changed
<1>2. o # "UserAgent" /\ d.validity # FullyInvalid
  BY <1>1 DEF IsKept
<1>3. c.validity # FullyInvalid /\ BuiltSheets(o, d) = BuiltSheets(o, c)
  BY <1>2 DEF Changed
<1>4. DataSound(env, o, c, data)
  BY <1>2, <1>3 DEF IsKept
<1>5. ASSUME d.validity = Valid
      PROVE  \E k \in 0 .. Len(d.entries) : BuiltFirst(o, d, k) /\ BuiltTo(env, Sheets(d), k, data)
  <2>1. c.validity = Valid
    BY <1>2, <1>5 DEF Changed
  <2>2. PICK k \in 0 .. Len(c.entries) : BuiltFirst(o, c, k) /\ BuiltTo(env, Sheets(c), k, data)
    BY <1>4, <2>1 DEF DataSound, BuiltFirst
  <2>3. k \in 0 .. Len(d.entries) /\ BuiltFirst(o, d, k) /\ SubSeq(Sheets(d), 1, k) = SubSeq(Sheets(c), 1, k)
    BY <1>2, <1>5, <2>2 DEF Changed
  <2>4. BuiltTo(env, Sheets(d), k, data)
    BY <2>2, <2>3 DEF BuiltTo
  <2>. QED  BY <2>3, <2>4
<1>. QED  BY <1>3, <1>4, <1>5 DEF DataSound, BuiltFirst

\* Appending a sheet is such a change.
LEMMA AppendChanges ==
  ASSUME NEW o, NEW c \in Collection, CollectionShape(o, c), NEW s \in Sheet, ~HasSheet(c, s)
  PROVE  Changed(o, c, AppendSheet(c, s))
<1>1. PICK d : d = AppendSheet(c, s)
  OBVIOUS
<1>2. PICK n \in Nat : n = Len(c.entries) /\ DOMAIN c.entries = 1 .. n
  BY SheetsOfCollection
<1>3. /\ d \in Collection /\ d.validity = c.validity /\ d.dirty = TRUE /\ Len(d.entries) = n + 1
      /\ \A i \in 1 .. n : d.entries[i] = c.entries[i]
      /\ d.entries[n + 1] = NewEntry(s)
  BY <1>1, <1>2, AppendRaw
<1>4. DOMAIN d.entries = 1 .. n + 1
  BY <1>3, SheetsOfCollection
<1>5. /\ \A i \in 1 .. n + 1 : i \in 1 .. n \/ i = n + 1
      /\ \A i \in 1 .. n : i \in 1 .. n + 1
      /\ d.entries[n + 1].sheet = s /\ d.entries[n + 1].committed = FALSE
  <2>1. d.entries[n + 1].sheet = s /\ d.entries[n + 1].committed = FALSE
    BY <1>3, NewEntryFields
  <2>. QED  BY <2>1
<1>6. \A i \in 1 .. n : c.entries[i].sheet # s
  BY <1>2, Located
<1>7. CollectionShape(o, d)
  <2>1. ASSUME NEW i \in 1 .. n + 1, NEW j \in 1 .. n + 1, d.entries[i].sheet = d.entries[j].sheet
        PROVE  i = j
    <3>1. CASE i \in 1 .. n /\ j \in 1 .. n
      BY <1>2, <1>3, <2>1, <3>1 DEF CollectionShape
    <3>2. CASE ~(i \in 1 .. n /\ j \in 1 .. n)
      BY <1>3, <1>5, <1>6, <2>1, <3>2
    <3>. QED  BY <3>1, <3>2
  <2>. QED  BY <1>3, <1>4, <2>1 DEF CollectionShape
<1>8. ASSUME o # "UserAgent"
      PROVE  /\ BuiltSheets(o, d) = BuiltSheets(o, c)
             /\ \A k \in 0 .. n : BuiltFirst(o, c, k) =>
                  /\ k \in 0 .. Len(d.entries) /\ BuiltFirst(o, d, k)
                  /\ SubSeq(Sheets(d), 1, k) = SubSeq(Sheets(c), 1, k)
  <2>1. \A i \in 1 .. n : BuiltAt(o, d, i) <=> BuiltAt(o, c, i)
    BY <1>3, <1>8 DEF BuiltAt
  <2>2. ~BuiltAt(o, d, n + 1)
    BY <1>5, <1>8 DEF BuiltAt
  <2>3. BuiltSheets(o, d) = BuiltSheets(o, c)
    <3>1. {i \in DOMAIN d.entries : BuiltAt(o, d, i)} = {i \in DOMAIN c.entries : BuiltAt(o, c, i)}
      BY <1>2, <1>4, <1>5, <2>1, <2>2
    <3>. QED  BY <1>2, <1>3, <3>1 DEF BuiltSheets
  <2>4. ASSUME NEW k \in 0 .. n, BuiltFirst(o, c, k)
        PROVE  /\ k \in 0 .. Len(d.entries) /\ BuiltFirst(o, d, k)
               /\ SubSeq(Sheets(d), 1, k) = SubSeq(Sheets(c), 1, k)
    <3>1. k \in 0 .. n + 1 /\ ~(n + 1 <= k)
      BY <1>2
    <3>2. BuiltFirst(o, d, k)
      BY <1>2, <1>4, <1>5, <2>1, <2>2, <2>4, <3>1 DEF BuiltFirst
    <3>3. AgreeTo(Sheets(d), Sheets(c), k)
      <4>1. ASSUME NEW j \in 1 .. k PROVE Sheets(d)[j] = Sheets(c)[j]
        <5>1. j \in 1 .. n + 1 /\ j \in 1 .. n
          BY <1>2
        <5>. QED  BY <1>2, <1>3, <5>1, SheetsOfCollection
      <4>. QED  BY <4>1 DEF AgreeTo
    <3>4. SubSeq(Sheets(d), 1, k) = SubSeq(Sheets(c), 1, k)
      <4>1. /\ Sheets(d) \in Seq(Sheet) /\ Sheets(c) \in Seq(Sheet)
            /\ k \in 0 .. Len(Sheets(d)) /\ k <= Len(Sheets(c))
        BY <1>2, <1>3, <3>1, SheetsOfCollection
      <4>. QED  BY <3>3, <4>1, SameStart
    <3>. QED  BY <1>3, <3>1, <3>2, <3>4
  <2>. QED  BY <2>3, <2>4
<1>9. Changed(o, c, d)
  BY <1>2, <1>3, <1>7, <1>8 DEF Changed
<1>. QED  BY <1>1, <1>9

\* So is inserting one.
LEMMA InsertChanges ==
  ASSUME NEW o, NEW c \in Collection, CollectionShape(o, c), NEW s \in Sheet, ~HasSheet(c, s),
         NEW b, HasSheet(c, b)
  PROVE  Changed(o, c, InsertBefore(c, s, b))
<1>1. PICK d : d = InsertBefore(c, s, b)
  OBVIOUS
<1>2. PICK n \in Nat : n = Len(c.entries) /\ DOMAIN c.entries = 1 .. n
  BY SheetsOfCollection
<1>3. /\ d \in Collection /\ d.dirty = TRUE
      /\ d.validity = IF c.validity = FullyInvalid THEN FullyInvalid ELSE CascadeInvalid
      /\ \E i \in 1 .. n : IsLonger(c.entries, i, NewEntry(s), d.entries)
  BY <1>1, <1>2, InsertRaw
<1>4. PICK i \in 1 .. n :
        /\ Len(d.entries) = n + 1
        /\ \A j \in 1 .. n + 1 : /\ j < i => d.entries[j] = c.entries[j]
                                 /\ j = i => d.entries[j] = NewEntry(s)
                                 /\ j > i => d.entries[j] = c.entries[j - 1]
  BY <1>2, <1>3 DEF IsLonger
<1>5. DOMAIN d.entries = 1 .. n + 1
  BY <1>3, <1>4, SheetsOfCollection
<1>. DEFINE old(j) == IF j < i THEN j ELSE j - 1
<1>6. /\ \A j \in 1 .. n + 1 : j # i => old(j) \in 1 .. n /\ d.entries[j] = c.entries[old(j)]
      /\ \A j, k \in 1 .. n + 1 : j # i /\ k # i /\ old(j) = old(k) => j = k
      /\ \A m \in 1 .. n : \E j \in 1 .. n + 1 : j # i /\ old(j) = m
      /\ i \in 1 .. n + 1 /\ d.entries[i] = NewEntry(s)
  <2>1. \A j \in 1 .. n + 1 : j # i => old(j) \in 1 .. n /\ d.entries[j] = c.entries[old(j)]
    BY <1>2, <1>4
  <2>2. \A j, k \in 1 .. n + 1 : j # i /\ k # i /\ old(j) = old(k) => j = k
    BY <1>2
  <2>3. ASSUME NEW m \in 1 .. n PROVE \E j \in 1 .. n + 1 : j # i /\ old(j) = m
    <3>1. CASE m < i
      <4>1. m \in 1 .. n + 1 /\ m # i /\ old(m) = m
        BY <1>2, <3>1
      <4>. QED  BY <4>1
    <3>2. CASE ~(m < i)
      <4>1. m + 1 \in 1 .. n + 1 /\ m + 1 # i /\ old(m + 1) = m
        BY <1>2, <3>2
      <4>. QED  BY <4>1
    <3>. QED  BY <3>1, <3>2
  <2>4. i \in 1 .. n + 1 /\ d.entries[i] = NewEntry(s)
    BY <1>2, <1>4
  <2>. QED  BY <2>1, <2>2, <2>3, <2>4
<1>. HIDE DEF old
<1>7. \A m \in 1 .. n : c.entries[m].sheet # s
  BY <1>2, Located
<1>8. d.entries[i].sheet = s /\ d.entries[i].committed = FALSE
  BY <1>6, NewEntryFields
<1>9. CollectionShape(o, d)
  <2>1. ASSUME NEW j \in 1 .. n + 1, NEW k \in 1 .. n + 1, d.entries[j].sheet = d.entries[k].sheet
        PROVE  j = k
    <3>1. CASE j # i /\ k # i
      <4>1. old(j) \in 1 .. n /\ old(k) \in 1 .. n /\ c.entries[old(j)].sheet = c.entries[old(k)].sheet
        BY <1>6, <2>1, <3>1
      <4>2. old(j) = old(k)
        BY <1>2, <4>1 DEF CollectionShape
      <4>. QED  BY <1>6, <3>1, <4>2
    <3>2. CASE j = i \/ k = i
      BY <1>6, <1>7, <1>8, <2>1, <3>2
    <3>. QED  BY <3>1, <3>2
  <2>. QED  BY <1>3, <1>5, <2>1 DEF CollectionShape
<1>10. ASSUME o # "UserAgent" PROVE BuiltSheets(o, d) = BuiltSheets(o, c)
  <2>1. \A j \in 1 .. n + 1 : BuiltAt(o, d, j) <=> d.entries[j].committed
    BY <1>10 DEF BuiltAt
  <2>2. \A j \in 1 .. n : BuiltAt(o, c, j) <=> c.entries[j].committed
    BY <1>10 DEF BuiltAt
  <2>3. \A t : t \in BuiltSheets(o, d) <=> \E j \in 1 .. n + 1 : d.entries[j].committed /\ d.entries[j].sheet = t
    BY <1>5, <2>1 DEF BuiltSheets
  <2>4. \A t : t \in BuiltSheets(o, c) <=> \E j \in 1 .. n : c.entries[j].committed /\ c.entries[j].sheet = t
    BY <1>2, <2>2 DEF BuiltSheets
  <2>5. ASSUME NEW t, NEW j \in 1 .. n + 1, d.entries[j].committed, d.entries[j].sheet = t
        PROVE  \E m \in 1 .. n : c.entries[m].committed /\ c.entries[m].sheet = t
    <3>1. j # i
      BY <1>8, <2>5
    <3>. QED  BY <1>6, <2>5, <3>1
  <2>6. ASSUME NEW t, NEW m \in 1 .. n, c.entries[m].committed, c.entries[m].sheet = t
        PROVE  \E j \in 1 .. n + 1 : d.entries[j].committed /\ d.entries[j].sheet = t
    BY <1>6, <2>6
  <2>. QED  BY <2>3, <2>4, <2>5, <2>6
<1>11. Changed(o, c, d)
  <2>1. d.validity # Valid /\ (d.validity # FullyInvalid => c.validity # FullyInvalid)
    BY <1>3 DEF Valid, CascadeInvalid, FullyInvalid
  <2>. QED  BY <1>3, <1>9, <1>10, <2>1 DEF Changed
<1>. QED  BY <1>1, <1>11

\* And so is removing one.
LEMMA RemoveChanges ==
  ASSUME NEW o, NEW c \in Collection, CollectionShape(o, c), NEW s, HasSheet(c, s)
  PROVE  Changed(o, c, RemoveSheet(c, s))
<1>1. PICK d : d = RemoveSheet(c, s)
  OBVIOUS
<1>2. PICK n \in Nat : n = Len(c.entries) /\ DOMAIN c.entries = 1 .. n
  BY SheetsOfCollection
<1>3. /\ d \in Collection /\ d.dirty = TRUE
      /\ d.validity = IF Committed(c, s) THEN FullyInvalid ELSE c.validity
      /\ \E i \in 1 .. n : /\ c.entries[i].sheet = s /\ (Committed(c, s) <=> c.entries[i].committed)
                            /\ IsShorter(c.entries, i, d.entries)
  BY <1>1, <1>2, RemoveRaw
<1>4. PICK i \in 1 .. n : /\ c.entries[i].sheet = s /\ (Committed(c, s) <=> c.entries[i].committed)
                          /\ Len(d.entries) = n - 1
                          /\ \A j \in 1 .. (n - 1) : d.entries[j] = IF j < i THEN c.entries[j] ELSE c.entries[j + 1]
  BY <1>2, <1>3 DEF IsShorter
<1>5. DOMAIN d.entries = 1 .. (n - 1)
  BY <1>3, <1>4, SheetsOfCollection
<1>. DEFINE old(j) == IF j < i THEN j ELSE j + 1
<1>6. /\ \A j \in 1 .. (n - 1) : old(j) \in 1 .. n /\ old(j) # i /\ d.entries[j] = c.entries[old(j)]
      /\ \A j, k \in 1 .. (n - 1) : old(j) = old(k) => j = k
      /\ \A m \in 1 .. n : m # i => \E j \in 1 .. (n - 1) : old(j) = m
  <2>1. \A j \in 1 .. (n - 1) : old(j) \in 1 .. n /\ old(j) # i /\ d.entries[j] = c.entries[old(j)]
    BY <1>2, <1>4
  <2>2. \A j, k \in 1 .. (n - 1) : old(j) = old(k) => j = k
    BY <1>2
  <2>3. ASSUME NEW m \in 1 .. n, m # i PROVE \E j \in 1 .. (n - 1) : old(j) = m
    <3>1. CASE m < i
      <4>1. m \in 1 .. (n - 1) /\ old(m) = m
        BY <1>2, <3>1
      <4>. QED  BY <4>1
    <3>2. CASE ~(m < i)
      <4>1. m - 1 \in 1 .. (n - 1) /\ old(m - 1) = m
        BY <1>2, <2>3, <3>2
      <4>. QED  BY <4>1
    <3>. QED  BY <3>1, <3>2
  <2>. QED  BY <2>1, <2>2, <2>3
<1>7. \A j \in 1 .. (n - 1) : j < i => old(j) = j
  OBVIOUS
<1>8. \A j \in 1 .. (n - 1) : ~(j < i) => old(j) = j + 1
  OBVIOUS
<1>. HIDE DEF old
<1>9. CollectionShape(o, d)
  <2>1. ASSUME NEW j \in 1 .. (n - 1), NEW k \in 1 .. (n - 1), d.entries[j].sheet = d.entries[k].sheet
        PROVE  j = k
    <3>1. old(j) \in 1 .. n /\ old(k) \in 1 .. n /\ c.entries[old(j)].sheet = c.entries[old(k)].sheet
      BY <1>6, <2>1
    <3>2. old(j) = old(k)
      BY <1>2, <3>1 DEF CollectionShape
    <3>. QED  BY <1>6, <3>2
  <2>. QED  BY <1>3, <1>5, <2>1 DEF CollectionShape
<1>10. ASSUME o # "UserAgent", d.validity # FullyInvalid
       PROVE  /\ ~c.entries[i].committed /\ d.validity = c.validity /\ BuiltSheets(o, d) = BuiltSheets(o, c)
              /\ \A j \in 1 .. (n - 1) : BuiltAt(o, d, j) <=> d.entries[j].committed
              /\ \A j \in 1 .. n : BuiltAt(o, c, j) <=> c.entries[j].committed
  <2>1. \A j \in 1 .. (n - 1) : BuiltAt(o, d, j) <=> d.entries[j].committed
    BY <1>10 DEF BuiltAt
  <2>2. \A j \in 1 .. n : BuiltAt(o, c, j) <=> c.entries[j].committed
    BY <1>10 DEF BuiltAt
  <2>3. ~c.entries[i].committed /\ d.validity = c.validity
    BY <1>3, <1>4, <1>10
  <2>4. \A t : t \in BuiltSheets(o, d) <=> \E j \in 1 .. (n - 1) : d.entries[j].committed /\ d.entries[j].sheet = t
    BY <1>5, <2>1 DEF BuiltSheets
  <2>5. \A t : t \in BuiltSheets(o, c) <=> \E j \in 1 .. n : c.entries[j].committed /\ c.entries[j].sheet = t
    BY <1>2, <2>2 DEF BuiltSheets
  <2>6. ASSUME NEW t, NEW j \in 1 .. (n - 1), d.entries[j].committed, d.entries[j].sheet = t
        PROVE  \E m \in 1 .. n : c.entries[m].committed /\ c.entries[m].sheet = t
    BY <1>6, <2>6
  <2>7. ASSUME NEW t, NEW m \in 1 .. n, c.entries[m].committed, c.entries[m].sheet = t
        PROVE  \E j \in 1 .. (n - 1) : d.entries[j].committed /\ d.entries[j].sheet = t
    <3>1. m # i
      BY <2>3, <2>7
    <3>. QED  BY <1>6, <2>7, <3>1
  <2>8. BuiltSheets(o, d) = BuiltSheets(o, c)
    BY <2>4, <2>5, <2>6, <2>7
  <2>. QED  BY <2>1, <2>2, <2>3, <2>8
<1>11. ASSUME o # "UserAgent", d.validity # FullyInvalid, NEW k \in 0 .. n, BuiltFirst(o, c, k)
       PROVE  /\ k \in 0 .. Len(d.entries) /\ BuiltFirst(o, d, k)
              /\ SubSeq(Sheets(d), 1, k) = SubSeq(Sheets(c), 1, k)
  <2>1. k < i
    BY <1>2, <1>10, <1>11 DEF BuiltFirst
  <2>2. k \in 0 .. (n - 1)
    BY <1>2, <2>1
  <2>3. \A j \in 1 .. (n - 1) : c.entries[old(j)].committed <=> old(j) <= k
    BY <1>2, <1>6, <1>10, <1>11 DEF BuiltFirst
  <2>4. \A j \in 1 .. (n - 1) : old(j) <= k <=> j <= k
    BY <1>2, <1>7, <1>8, <2>1
  <2>5. BuiltFirst(o, d, k)
    BY <1>5, <1>6, <1>10, <1>11, <2>3, <2>4 DEF BuiltFirst
  <2>6. AgreeTo(Sheets(d), Sheets(c), k)
    <3>1. ASSUME NEW j \in 1 .. k PROVE Sheets(d)[j] = Sheets(c)[j]
      <4>1. j \in 1 .. (n - 1) /\ j \in 1 .. n /\ j < i
        BY <1>2, <2>1, <2>2
      <4>2. d.entries[j] = c.entries[j]
        BY <1>6, <1>7, <4>1
      <4>. QED  BY <1>2, <1>3, <1>4, <4>1, <4>2, SheetsOfCollection
    <3>. QED  BY <3>1 DEF AgreeTo
  <2>7. SubSeq(Sheets(d), 1, k) = SubSeq(Sheets(c), 1, k)
    <3>1. /\ Sheets(d) \in Seq(Sheet) /\ Sheets(c) \in Seq(Sheet)
          /\ k \in 0 .. Len(Sheets(d)) /\ k <= Len(Sheets(c))
      BY <1>2, <1>3, <1>4, <2>2, SheetsOfCollection
    <3>. QED  BY <2>6, <3>1, SameStart
  <2>. QED  BY <1>3, <1>4, <2>2, <2>5, <2>7
<1>12. Changed(o, c, d)
  BY <1>2, <1>3, <1>9, <1>10, <1>11 DEF Changed
<1>. QED  BY <1>1, <1>12

-----------------------------------------------------------------------------
(* The steps, one origin at a time.                                         *)

\* The sheets of a collection are different ones.
LEMMA SheetsDistinct ==
  ASSUME NEW o, NEW coll \in Collection, CollectionShape(o, coll)
  PROVE  Distinct(Sheets(coll))
<1>1. \A i \in 1 .. Len(Sheets(coll)) : i \in DOMAIN coll.entries /\ Sheets(coll)[i] = coll.entries[i].sheet
  BY SheetsOfCollection
<1>. QED  BY <1>1 DEF Distinct, CollectionShape

\* A change of the list of its sheets.
LEMMA ListChange ==
  ASSUME NEW env, NEW o, NEW c, NEW d, NEW data, OriginOK(env, o, c, data), Changed(o, c, d)
  PROVE  OriginOK(env, o, d, data)
<1>1. /\ c \in Collection /\ CollectionShape(o, c) /\ data \in CascadeDataType
      /\ IsKept(o, c) => DataSound(env, o, c, data)
  BY DEF OriginOK
<1>2. d \in Collection /\ CollectionShape(o, d)
  BY DEF Changed
<1>3. IsKept(o, d) => DataSound(env, o, d, data)
  BY <1>1, ChangedSound
<1>. QED  BY <1>1, <1>2, <1>3 DEF OriginOK

\* A change that makes all its data stale, whatever else it does.
LEMMA AllStale ==
  ASSUME NEW env1, NEW env2, NEW o, NEW c, NEW d, NEW data, OriginOK(env1, o, c, data),
         d = SetValidityAtLeast(c, FullyInvalid)
  PROVE  OriginOK(env2, o, d, data)
<1>1. c \in Collection /\ CollectionShape(o, c) /\ data \in CascadeDataType
  BY DEF OriginOK
<1>2. FullyInvalid \in {Valid, CascadeInvalid, FullyInvalid} /\ c.validity \in {Valid, CascadeInvalid, FullyInvalid}
  BY <1>1, SheetsOfCollection
<1>3. /\ d \in Collection /\ d.entries = c.entries /\ d.dirty = TRUE
      /\ d.validity = IF FullyInvalid > c.validity THEN FullyInvalid ELSE c.validity
  BY <1>1, <1>2, Marked
<1>4. d.validity = FullyInvalid
  BY <1>2, <1>3 DEF Valid, CascadeInvalid, FullyInvalid
<1>5. ~IsKept(o, d)
  BY <1>3, <1>4 DEF IsKept
<1>6. CollectionShape(o, d)
  BY <1>1, <1>3 DEF CollectionShape
<1>. QED  BY <1>1, <1>3, <1>5, <1>6 DEF OriginOK

\* A change elsewhere.
LEMMA ChangeElsewhere ==
  ASSUME NamesAreLocal, NEW env1 \in Environment, NEW env2 \in Environment,
         NEW o, NEW c, NEW data, OriginOK(env1, o, c, data),
         IsKept(o, c) => \A s \in BuiltSheets(o, c) : SameSheet(env1, env2, s)
  PROVE  OriginOK(env2, o, c, data)
<1>1. c \in Collection /\ CollectionShape(o, c) /\ data \in CascadeDataType
  BY DEF OriginOK
<1>2. Distinct(Sheets(c))
  BY <1>1, SheetsDistinct
<1>3. ASSUME IsKept(o, c)
      PROVE  DataSound(env2, o, c, data)
  <2>1. DataSound(env1, o, c, data)
    BY <1>3 DEF OriginOK
  <2>. QED  BY <1>1, <1>2, <1>3, <2>1, SoundTransfers
<1>. QED  BY <1>1, <1>3 DEF OriginOK

\* The sheets that were built are sheets of the collection.
LEMMA BuiltAreSheets ==
  ASSUME NEW o, NEW coll \in Collection, CollectionShape(o, coll), NEW s \in BuiltSheets(o, coll)
  PROVE  s \in Sheet /\ s \in ToSet(Sheets(coll)) /\ HasSheet(coll, s)
<1>1. PICK i \in DOMAIN coll.entries : coll.entries[i].sheet = s
  BY DEF BuiltSheets
<1>2. i \in 1 .. Len(coll.entries)
  BY <1>1, SheetsOfCollection
<1>3. s \in Sheet /\ Sheets(coll)[i] = s
  BY <1>1, <1>2, SheetsOfCollection
<1>4. s \in ToSet(Sheets(coll))
  BY <1>1, <1>3 DEF ToSet, Sheets
<1>. QED  BY <1>3, <1>4 DEF HasSheet

\* A device change that the check does not report.
LEMMA UnaffectedOrigin ==
  ASSUME NamesAreLocal, NEW env1 \in Environment, NEW env2 \in Environment,
         env1.contents = env2.contents, env1.condition = env2.condition,
         NEW o, NEW c, NEW data, OriginOK(env1, o, c, data),
         \A s \in ToSet(Sheets(c)) : MediaFeatureAffectedMatches(env2, data, s)
  PROVE  OriginOK(env2, o, c, data)
<1>1. c \in Collection /\ CollectionShape(o, c) /\ data \in CascadeDataType
  BY DEF OriginOK
<1>2. BuiltSheets(o, c) \subseteq Sheet /\ BuiltSheets(o, c) \subseteq ToSet(Sheets(c))
  BY <1>1, BuiltAreSheets
<1>3. ASSUME IsKept(o, c), NEW s \in BuiltSheets(o, c)
      PROVE  SameSheet(env1, env2, s)
  <2>1. DataSound(env1, o, c, data)
    BY <1>3 DEF OriginOK
  <2>2. MediaFeatureAffectedMatches(env2, data, s)
    BY <1>2, <1>3
  <2>. QED  BY <1>1, <1>2, <1>3, <2>1, <2>2, UnaffectedSheet
<1>. QED  BY <1>3, ChangeElsewhere

\* The two marks are taken.
LEMMA FlushedFields ==
  ASSUME NEW c \in Collection, NEW d, d = Flushed(c)
  PROVE  d \in Collection /\ d.entries = c.entries /\ d.validity = Valid /\ d.dirty = FALSE
<1>1. PICK y \in BOOLEAN : y = FALSE
  OBVIOUS
<1>2. PICK w \in {Valid, CascadeInvalid, FullyInvalid} : w = Valid
  OBVIOUS
<1>3. PICK x \in Seq(Entry) : x = c.entries
  BY SheetsOfCollection
<1>4. d = [c EXCEPT !.dirty = y, !.validity = w]
  BY <1>1, <1>2, Zenon DEF Flushed
<1>5. d = [entries |-> x, validity |-> w, dirty |-> y]
  BY <1>3, <1>4, SetFields
<1>6. d \in Collection /\ d.entries = x /\ d.validity = w /\ d.dirty = y
  BY ONLY <1>5, IsCollection
<1>. QED  BY <1>1, <1>2, <1>3, <1>6

\* And the sheets are committed.
LEMMA CommittedFields ==
  ASSUME NEW c \in Collection, NEW d, d = CommitAll(c)
  PROVE  /\ d \in Collection /\ d.validity = c.validity /\ d.dirty = c.dirty
         /\ Len(d.entries) = Len(c.entries)
         /\ \A i \in 1 .. Len(c.entries) : d.entries[i].sheet = c.entries[i].sheet /\ d.entries[i].committed = TRUE
<1>1. PICK n \in Nat : /\ n = Len(c.entries) /\ DOMAIN c.entries = 1 .. n
                       /\ \A i \in 1 .. n : c.entries[i] \in Entry
  BY SheetsOfCollection
<1>2. PICK x : x = [i \in 1 .. n |-> [c.entries[i] EXCEPT !.committed = TRUE]]
  OBVIOUS
<1>3. \A i \in 1 .. n : x[i] \in Entry /\ x[i].sheet = c.entries[i].sheet /\ x[i].committed = TRUE
  BY <1>1, <1>2 DEF Entry
<1>4. x \in [1 .. n -> Entry]
  BY <1>2, <1>3
<1>5. x \in Seq(Entry) /\ Len(x) = n
  BY <1>4
<1>6. [c EXCEPT !.entries = x] = [entries |-> x, validity |-> c.validity, dirty |-> c.dirty]
  BY SetFields
<1>7. d = [entries |-> x, validity |-> c.validity, dirty |-> c.dirty]
  <2>1. d = [c EXCEPT !.entries = [i \in DOMAIN c.entries |-> [c.entries[i] EXCEPT !.committed = TRUE]]]
    BY DEF CommitAll
  <2>. QED  BY <1>1, <1>2, <1>6, <2>1
<1>8. c.validity \in {Valid, CascadeInvalid, FullyInvalid} /\ c.dirty \in BOOLEAN
  BY SheetsOfCollection
<1>9. d \in Collection /\ d.entries = x /\ d.validity = c.validity /\ d.dirty = c.dirty
  BY <1>5, <1>7, <1>8, IsCollection
<1>. QED  BY <1>1, <1>3, <1>5, <1>9

\* A collection is clean after the flush, and its sheets are those of before.
LEMMA CollectionFlushed ==
  ASSUME NEW o, NEW c \in Collection, CollectionShape(o, c), NEW hit \in BOOLEAN,
         NEW d, d = IF c.dirty /\ (o = "UserAgent" => hit) THEN CommitAll(Flushed(c)) ELSE Flushed(c)
  PROVE  /\ d \in Collection /\ d.validity = Valid /\ d.dirty = FALSE /\ CollectionShape(o, d)
         /\ Sheets(d) = Sheets(c) /\ \A i \in DOMAIN d.entries : BuiltAt(o, d, i)
<1>1. PICK f : f = Flushed(c)
  OBVIOUS
<1>2. f \in Collection /\ f.entries = c.entries /\ f.validity = Valid /\ f.dirty = FALSE
  BY <1>1, FlushedFields
<1>3. PICK n \in Nat : n = Len(c.entries) /\ DOMAIN c.entries = 1 .. n
  BY SheetsOfCollection
<1>4. CASE c.dirty /\ (o = "UserAgent" => hit)
  <2>1. d = CommitAll(f)
    BY <1>1, <1>4
  <2>2. f \in Collection
    BY <1>2
  <2>3. /\ d \in Collection /\ d.validity = f.validity /\ d.dirty = f.dirty /\ Len(d.entries) = Len(f.entries)
        /\ \A i \in 1 .. Len(f.entries) : d.entries[i].sheet = f.entries[i].sheet /\ d.entries[i].committed = TRUE
    BY ONLY <2>2, <2>1, CommittedFields
  <2>4. /\ d \in Collection /\ d.validity = Valid /\ d.dirty = FALSE /\ Len(d.entries) = n
        /\ \A i \in 1 .. n : d.entries[i].sheet = c.entries[i].sheet /\ d.entries[i].committed = TRUE
    BY <1>2, <1>3, <2>3
  <2>5. DOMAIN d.entries = 1 .. n
    BY <2>4, SheetsOfCollection
  <2>6. \A i \in DOMAIN d.entries : BuiltAt(o, d, i)
    BY <2>4, <2>5 DEF BuiltAt
  <2>7. CollectionShape(o, d)
    BY <1>3, <2>4, <2>5, <2>6 DEF CollectionShape
  <2>8. Sheets(d) = Sheets(c)
    BY <1>3, <2>4, <2>5 DEF Sheets
  <2>. QED  BY <2>4, <2>6, <2>7, <2>8
<1>5. CASE ~(c.dirty /\ (o = "UserAgent" => hit))
  <2>1. d = f
    BY <1>1, <1>5
  <2>2. ~c.dirty \/ o = "UserAgent"
    BY <1>5
  <2>3. \A i \in DOMAIN d.entries : BuiltAt(o, d, i)
    BY <1>2, <2>1, <2>2 DEF BuiltAt, CollectionShape
  <2>4. CollectionShape(o, d)
    BY <1>2, <2>1, <2>3 DEF CollectionShape
  <2>5. Sheets(d) = Sheets(c)
    BY <1>2, <2>1 DEF Sheets
  <2>. QED  BY <1>2, <2>1, <2>3, <2>4, <2>5
<1>. QED  BY <1>4, <1>5

\* The data of a clean origin are up to date.
LEMMA CleanIsFresh ==
  ASSUME NEW env, NEW o, NEW c, NEW data, OriginOK(env, o, c, data), ~c.dirty
  PROVE  FreshData(env, Sheets(c), data)
<1>1. c \in Collection /\ CollectionShape(o, c) /\ data \in CascadeDataType
  BY DEF OriginOK
<1>2. c.validity = Valid /\ \A i \in DOMAIN c.entries : BuiltAt(o, c, i)
  BY <1>1 DEF CollectionShape
<1>3. IsKept(o, c)
  BY <1>2 DEF IsKept, Valid, FullyInvalid
<1>4. DataSound(env, o, c, data)
  BY <1>3 DEF OriginOK
<1>. QED  BY <1>1, <1>2, <1>4, SoundIsFresh

\* Those that a flush leaves are.
LEMMA DataFlushed ==
  ASSUME NamesAreLocal, NEW env \in Environment, NEW o, NEW c, NEW data, OriginOK(env, o, c, data),
         NEW y, y = IF o = "UserAgent" /\ c.dirty THEN Build(env, Sheets(c)) ELSE Rebuild(env, data, c)
  PROVE  FreshData(env, Sheets(c), y)
<1>1. c \in Collection /\ CollectionShape(o, c) /\ data \in CascadeDataType
  BY DEF OriginOK
<1>2. Distinct(Sheets(c)) /\ Sheets(c) \in Seq(Sheet)
  BY <1>1, SheetsDistinct, SheetsOfCollection
<1>3. CASE ~c.dirty
  <2>1. y = data
    BY <1>3 DEF Rebuild
  <2>. QED  BY <1>3, <2>1, CleanIsFresh
<1>4. CASE o = "UserAgent" /\ c.dirty
  <2>1. y = Build(env, Sheets(c))
    BY <1>4
  <2>. QED  BY <1>2, <2>1, BuildIsFresh
<1>5. CASE o # "UserAgent" /\ c.dirty
  <2>1. y = Rebuild(env, data, c)
    BY <1>5
  <2>2. c.validity # FullyInvalid => DataSound(env, o, c, data)
    BY <1>5 DEF OriginOK, IsKept
  <2>. QED  BY <1>1, <1>2, <1>5, <2>1, <2>2, RebuildIsFresh
<1>. QED  BY <1>3, <1>4, <1>5

\* An origin after the flush.
LEMMA FlushedOrigin ==
  ASSUME NamesAreLocal, NEW env \in Environment, NEW o, NEW c, NEW data, OriginOK(env, o, c, data),
         NEW hit \in BOOLEAN,
         NEW d, d = IF c.dirty /\ (o = "UserAgent" => hit) THEN CommitAll(Flushed(c)) ELSE Flushed(c),
         NEW y, y = IF o = "UserAgent" /\ c.dirty THEN Build(env, Sheets(c)) ELSE Rebuild(env, data, c)
  PROVE  OriginOK(env, o, d, y)
<1>1. c \in Collection /\ CollectionShape(o, c)
  BY DEF OriginOK
<1>2. /\ d \in Collection /\ CollectionShape(o, d)
      /\ Sheets(d) = Sheets(c) /\ \A i \in DOMAIN d.entries : BuiltAt(o, d, i)
  BY <1>1, CollectionFlushed
<1>3. FreshData(env, Sheets(d), y)
  BY <1>2, DataFlushed
<1>4. y \in CascadeDataType
  BY <1>3 DEF FreshData
<1>5. DataSound(env, o, d, y)
  BY <1>2, <1>3, FreshIsSound
<1>. QED  BY <1>2, <1>4, <1>5 DEF OriginOK

\* What a flush makes of the data of an origin.
LEMMA FlushTyped ==
  ASSUME NEW env \in Environment, NEW data \in CascadeDataType, NEW coll \in Collection
  PROVE  Rebuild(env, data, coll) \in CascadeDataType /\ Build(env, Sheets(coll)) \in CascadeDataType
<1>1. Build(env, Sheets(coll)) \in CascadeDataType
  <2>1. PICK ss \in Seq(Sheet) : ss = Sheets(coll)
    BY SheetsOfCollection
  <2>2. PICK g \in [0 .. Len(ss) -> CascadeDataType] : g[Len(ss)] = Build(env, ss)
    BY SheetsInTurn
  <2>. QED  BY <2>1, <2>2
<1>2. CASE coll.dirty
  <2>1. PICK kept \in CascadeDataType : Rebuild(env, data, coll) = AddEntries(env, kept, coll)
    BY <1>2, RebuildKeeps DEF Kept
  <2>2. PICK g \in [0 .. Len(coll.entries) -> CascadeDataType] : g[Len(coll.entries)] = AddEntries(env, kept, coll)
    BY EntriesInTurn
  <2>3. Len(coll.entries) \in 0 .. Len(coll.entries)
    BY SheetsOfCollection
  <2>. QED  BY <1>1, <2>1, <2>2, <2>3
<1>3. CASE ~coll.dirty
  BY <1>1, <1>3 DEF Rebuild
<1>. QED  BY <1>2, <1>3

\* An origin without sheets.
LEMMA NoSheets ==
  ASSUME NamesAreLocal, NEW env \in Environment, NEW o
  PROVE  OriginOK(env, o, NewCollection, EmptyData)
<1>1. PICK c : c = NewCollection
  OBVIOUS
<1>2. c \in Collection /\ c.entries = << >> /\ c.validity = Valid /\ c.dirty = FALSE
  <2>1. << >> \in Seq(Entry) /\ FALSE \in BOOLEAN /\ Valid \in {Valid, CascadeInvalid, FullyInvalid}
    OBVIOUS
  <2>. QED  BY <1>1, <2>1, IsCollection DEF NewCollection
<1>3. DOMAIN c.entries = {} /\ CollectionShape(o, c) /\ \A i \in DOMAIN c.entries : BuiltAt(o, c, i)
  BY <1>2 DEF CollectionShape
<1>4. PICK ss \in Seq(Sheet) : ss = Sheets(c) /\ Len(ss) = 0
  BY <1>2, SheetsOfCollection
<1>5. Distinct(ss)
  BY <1>4 DEF Distinct
<1>6. Build(env, ss) = EmptyData
  <2>1. PICK g \in [0 .. Len(ss) -> CascadeDataType] : g[0] = EmptyData /\ g[Len(ss)] = Build(env, ss)
    BY <1>4, SheetsInTurn
  <2>. QED  BY <1>4, <2>1
<1>7. FreshData(env, ss, EmptyData)
  BY <1>4, <1>5, <1>6, BuildIsFresh
<1>8. DataSound(env, o, c, EmptyData)
  BY <1>2, <1>3, <1>4, <1>7, FreshIsSound
<1>. QED  BY <1>1, <1>2, <1>3, <1>8, DataFields DEF OriginOK

-----------------------------------------------------------------------------
(* The changes of the environment.                                          *)

\* The rules of different sheets are different.
LEMMA RulesApart ==
  ASSUME NEW s \in Sheet, NEW t \in Sheet, s # t, NEW r \in RulesOf(s)
  PROVE  r \notin RulesOf(t)
BY CascadeDataAssumption

\* The list of rules of a sheet is changed.
LEMMA EditedSheet ==
  ASSUME NEW env1 \in Environment, NEW s \in Sheet, NEW w \in Seq(Rule), ToSet(w) \subseteq RulesOf(s),
         NEW env2, env2 = [wide |-> env1.wide, contents |-> [env1.contents EXCEPT ![s] = w], condition |-> env1.condition]
  PROVE  env2 \in Environment /\ \A t \in Sheet \ {s} : SameSheet(env1, env2, t)
<1>1. /\ env1.wide \in BOOLEAN /\ env1.contents \in [Sheet -> Seq(Rule)] /\ env1.condition \in [Rule -> Condition]
      /\ \A t \in Sheet : ToSet(env1.contents[t]) \subseteq RulesOf(t)
      /\ \A r \in Rule : env1.condition[r] \in BaseCondition \/ (~IsCustom(r) /\ env1.condition[r] = InitialCondition[r])
  BY DEF Environment
<1>2. PICK cs \in [Sheet -> Seq(Rule)] : cs = [env1.contents EXCEPT ![s] = w]
  BY <1>1
<1>3. /\ \A t \in Sheet : ToSet(cs[t]) \subseteq RulesOf(t)
      /\ \A t \in Sheet \ {s} : cs[t] = env1.contents[t]
  BY <1>1, <1>2
<1>4. env2 = [wide |-> env1.wide, contents |-> cs, condition |-> env1.condition]
  BY <1>2
<1>5. /\ env2.wide = env1.wide /\ env2.contents = cs /\ env2.condition = env1.condition
      /\ env2 \in [wide : BOOLEAN, contents : [Sheet -> Seq(Rule)], condition : [Rule -> Condition]]
  BY <1>1, <1>4
<1>6. env2 \in Environment
  BY <1>1, <1>3, <1>5 DEF Environment
<1>7. ASSUME NEW t \in Sheet \ {s}
      PROVE  SameSheet(env1, env2, t)
  BY <1>3, <1>5, <1>6, UntouchedSheet
<1>. QED  BY <1>6, <1>7

\* The media of a block are.
LEMMA EditedBlock ==
  ASSUME NEW env1 \in Environment, NEW s \in Sheet, NEW r \in RulesOf(s), r \in Rule, NEW cond \in BaseCondition,
         NEW env2, env2 = [wide |-> env1.wide, contents |-> env1.contents, condition |-> [env1.condition EXCEPT ![r] = cond]]
  PROVE  env2 \in Environment /\ \A t \in Sheet \ {s} : SameSheet(env1, env2, t)
<1>1. /\ env1.wide \in BOOLEAN /\ env1.contents \in [Sheet -> Seq(Rule)] /\ env1.condition \in [Rule -> Condition]
      /\ \A t \in Sheet : ToSet(env1.contents[t]) \subseteq RulesOf(t)
      /\ \A q \in Rule : env1.condition[q] \in BaseCondition \/ (~IsCustom(q) /\ env1.condition[q] = InitialCondition[q])
  BY DEF Environment
<1>2. cond \in Condition
  BY DEF Condition
<1>3. PICK cd \in [Rule -> Condition] : cd = [env1.condition EXCEPT ![r] = cond]
  BY <1>1, <1>2
<1>4. /\ \A q \in Rule : cd[q] \in BaseCondition \/ (~IsCustom(q) /\ cd[q] = InitialCondition[q])
      /\ \A q \in Rule \ {r} : cd[q] = env1.condition[q]
  BY <1>1, <1>3
<1>5. env2 = [wide |-> env1.wide, contents |-> env1.contents, condition |-> cd]
  BY <1>3
<1>6. env2 \in Environment /\ env2.wide = env1.wide /\ env2.contents = env1.contents /\ env2.condition = cd
  BY <1>1, <1>4, <1>5 DEF Environment
<1>7. ASSUME NEW t \in Sheet \ {s}
      PROVE  SameSheet(env1, env2, t)
  <2>1. RulesOf(t) \subseteq Rule
    BY CascadeDataAssumption DEF RulesOf, ToSet
  <2>2. r \notin RulesOf(t)
    BY RulesApart
  <2>3. \A q \in RulesOf(t) : env1.condition[q] = env2.condition[q]
    BY <1>4, <1>6, <2>1, <2>2
  <2>. QED  BY <1>6, <2>3, UntouchedSheet
<1>. QED  BY <1>6, <1>7

\* The other device.
LEMMA Flips ==
  ASSUME NEW b \in BOOLEAN
  PROVE  (~b) \in BOOLEAN
BY SMT

\* The device is.
LEMMA OtherDevice ==
  ASSUME NEW env1 \in Environment, NEW device \in BOOLEAN,
         NEW env2, env2 = [wide |-> device, contents |-> env1.contents, condition |-> env1.condition]
  PROVE  env2 \in Environment /\ env2.wide = device /\ env2.contents = env1.contents /\ env2.condition = env1.condition
<1>1. /\ env1.contents \in [Sheet -> Seq(Rule)] /\ env1.condition \in [Rule -> Condition]
      /\ \A t \in Sheet : ToSet(env1.contents[t]) \subseteq RulesOf(t)
      /\ \A q \in Rule : env1.condition[q] \in BaseCondition \/ (~IsCustom(q) /\ env1.condition[q] = InitialCondition[q])
  BY DEF Environment
<1>. QED  BY <1>1 DEF Environment

\* A rule inserted into a sheet, or taken out, leaves rules of the sheet.
LEMMA EditedRules ==
  ASSUME NEW v \in Seq(Rule), NEW R, ToSet(v) \subseteq R
  PROVE  /\ \A i \in 1 .. Len(v) + 1, r \in Rule : r \in R =>
              InsertAt(v, i, r) \in Seq(Rule) /\ ToSet(InsertAt(v, i, r)) \subseteq R
         /\ \A i \in 1 .. Len(v) : RemoveAt(v, i) \in Seq(Rule) /\ ToSet(RemoveAt(v, i)) \subseteq R
<1>1. \A j \in 1 .. Len(v) : v[j] \in R
  BY DEF ToSet
<1>2. ASSUME NEW i \in 1 .. Len(v) + 1, NEW r \in Rule, r \in R
      PROVE  InsertAt(v, i, r) \in Seq(Rule) /\ ToSet(InsertAt(v, i, r)) \subseteq R
  <2>1. PICK w : w = InsertAt(v, i, r)
    OBVIOUS
  <2>2. w \in Seq(Rule) /\ IsLonger(v, i, r, w)
    BY <2>1, Inserted
  <2>3. Len(w) = Len(v) + 1 /\ \A j \in 1 .. Len(v) + 1 : w[j] \in R
    BY <1>1, <1>2, <2>2 DEF IsLonger
  <2>. QED  BY <2>1, <2>2, <2>3 DEF ToSet
<1>3. ASSUME NEW i \in 1 .. Len(v)
      PROVE  RemoveAt(v, i) \in Seq(Rule) /\ ToSet(RemoveAt(v, i)) \subseteq R
  <2>1. PICK w : w = RemoveAt(v, i)
    OBVIOUS
  <2>2. /\ w \in Seq(Rule) /\ Len(w) = Len(v) - 1
        /\ \A j \in 1 .. (Len(v) - 1) : w[j] = IF j < i THEN v[j] ELSE v[j + 1]
    BY <2>1, Removed
  <2>3. \A j \in 1 .. Len(w) : w[j] \in R
    BY <1>1, <2>2
  <2>. QED  BY <2>1, <2>2, <2>3 DEF ToSet
<1>. QED  BY <1>2, <1>3
=============================================================================
