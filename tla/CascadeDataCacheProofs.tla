----------------------- MODULE CascadeDataCacheProofs -----------------------
(***************************************************************************)
(* That shadow roots can share cascade data by the keys of the cache: for  *)
(* documents whose custom media queries are used in the sheet that defines *)
(* them, what the key records determines the data, so an entry that was    *)
(* right for one root is right for every root with its key, on any device; *)
(* and if a sheet that scripts edit is in one root, that root does not     *)
(* find what the cache has from before the edit. That the sheets of clean  *)
(* roots are committed needs neither.                                      *)
(***************************************************************************)
EXTENDS CascadeDataCache, CascadeDataProofs

-----------------------------------------------------------------------------
(* The key, one rule and one sheet after the other.                         *)

\* What a key is while it is collected.
KeyType == [contents : Seq(Sheet), results : Seq(Rule), custom : CustomMedia]

EmptyKey == [contents |-> << >>, results |-> << >>, custom |-> << >>]

FullKey(env, ss) == FoldLeft(LAMBDA k, s : AddKeySheet(env, k, s), EmptyKey, ss)

\* A key by its fields, and setting each.
LEMMA KeyFields ==
  /\ EmptyKey \in KeyType
  /\ \A key \in KeyType :
       /\ key.contents \in Seq(Sheet) /\ key.results \in Seq(Rule) /\ key.custom \in CustomMedia
       /\ \A x \in Seq(Sheet) : [key EXCEPT !.contents = x] = [contents |-> x, results |-> key.results, custom |-> key.custom]
       /\ \A x \in Seq(Rule) : [key EXCEPT !.results = x] = [contents |-> key.contents, results |-> x, custom |-> key.custom]
       /\ \A x \in CustomMedia : [key EXCEPT !.custom = x] = [contents |-> key.contents, results |-> key.results, custom |-> x]
<1>1. << >> \in Seq(Sheet) /\ << >> \in Seq(Rule) /\ << >> \in CustomMedia
  BY CustomMediaMaps
<1>2. EmptyKey \in KeyType
  BY <1>1 DEF EmptyKey, KeyType
<1>3. ASSUME NEW key \in KeyType
      PROVE  /\ key.contents \in Seq(Sheet) /\ key.results \in Seq(Rule) /\ key.custom \in CustomMedia
             /\ \A x : [key EXCEPT !.contents = x] = [contents |-> x, results |-> key.results, custom |-> key.custom]
             /\ \A x : [key EXCEPT !.results = x] = [contents |-> key.contents, results |-> x, custom |-> key.custom]
             /\ \A x : [key EXCEPT !.custom = x] = [contents |-> key.contents, results |-> key.results, custom |-> x]
  BY DEF KeyType
<1>. QED  BY <1>2, <1>3

\* A sequence with one more element.
LEMMA OneMore ==
  ASSUME NEW S, NEW v \in Seq(S), NEW e \in S
  PROVE  /\ Append(v, e) \in Seq(S) /\ ToSet(Append(v, e)) = ToSet(v) \cup {e}
         /\ Len(Append(v, e)) = Len(v) + 1 /\ Append(v, e)[Len(v) + 1] = e
         /\ \A i \in 1 .. Len(v) : Append(v, e)[i] = v[i]
<1>1. PICK w : w = Append(v, e)
  OBVIOUS
<1>2. PICK n \in Nat : n = Len(v)
  OBVIOUS
<1>3. w \in Seq(S) /\ Len(w) = n + 1 /\ w[n + 1] = e /\ \A i \in 1 .. n : w[i] = v[i]
  BY <1>1, <1>2
<1>4. DOMAIN w = 1 .. (n + 1) /\ DOMAIN v = 1 .. n
  BY <1>2, <1>3
<1>5. \A i \in 1 .. (n + 1) : i \in 1 .. n \/ i = n + 1
  OBVIOUS
<1>6. \A i \in 1 .. n : i \in 1 .. (n + 1)
  OBVIOUS
<1>7. n + 1 \in 1 .. (n + 1)
  OBVIOUS
<1>8. ToSet(w) = ToSet(v) \cup {e}
  BY <1>3, <1>4, <1>5, <1>6, <1>7 DEF ToSet
<1>. QED  BY <1>1, <1>2, <1>3, <1>8

\* What adding a rule does to a key.
KeyRuleAdded(env, key, r, result) ==
  /\ result \in KeyType /\ result.contents = key.contents
  /\ result.results = IF Kind[r] = "media" /\ Holds(env.condition[r], key.custom, env.wide)
                        THEN Append(key.results, r) ELSE key.results
  /\ result.custom = IF IsCustom(r)
                       THEN [n \in DOMAIN key.custom \cup {Defines[r]} |->
                               IF n = Defines[r] THEN env.condition[r] ELSE key.custom[n]]
                       ELSE key.custom

\* A rule is added like that.
LEMMA AddOneKeyRule ==
  ASSUME NEW env \in Environment, NEW key \in KeyType, NEW r \in Rule
  PROVE  KeyRuleAdded(env, key, r, AddKeyRule(env, key, r))
<1>1. PICK y : y = AddKeyRule(env, key, r)
  OBVIOUS
<1>2. CASE Kind[r] = "style"
  <2>1. y = key
    BY <1>1, <1>2 DEF AddKeyRule
  <2>. QED  BY <1>1, <1>2, <2>1, RuleKinds DEF KeyRuleAdded
<1>3. CASE Kind[r] = "media"
  <2>1. CASE Holds(env.condition[r], key.custom, env.wide)
    <3>0. PICK q \in Seq(Rule) : q = key.results
      BY KeyFields
    <3>01. Append(q, r) \in Seq(Rule)
      OBVIOUS
    <3>1. PICK x : x = Append(key.results, r) /\ x \in Seq(Rule)
      BY <3>0, <3>01
    <3>2. y = [key EXCEPT !.results = x]
      BY <1>1, <1>3, <2>1, <3>1 DEF AddKeyRule
    <3>3. y = [contents |-> key.contents, results |-> x, custom |-> key.custom]
      BY <3>1, <3>2, KeyFields
    <3>4. y \in KeyType
      BY <3>1, <3>3, KeyFields DEF KeyType
    <3>. QED  BY <1>1, <1>3, <2>1, <3>1, <3>3, <3>4 DEF KeyRuleAdded, IsCustom
  <2>2. CASE ~Holds(env.condition[r], key.custom, env.wide)
    <3>1. y = key
      BY <1>1, <1>3, <2>2 DEF AddKeyRule
    <3>. QED  BY <1>1, <1>3, <2>2, <3>1 DEF KeyRuleAdded, IsCustom
  <2>. QED  BY <2>1, <2>2
<1>4. CASE Kind[r] = "custom_media"
  <2>1. PICK b \in CustomMedia : b = key.custom
    BY KeyFields
  <2>2. PICK m : m = [n \in DOMAIN b \cup {Defines[r]} |-> IF n = Defines[r] THEN env.condition[r] ELSE b[n]]
    OBVIOUS
  <2>3. y = [key EXCEPT !.custom = m]
    BY <1>1, <1>4, <2>1, <2>2 DEF AddKeyRule
  <2>4. env.condition[r] \in BaseCondition
    BY <1>4 DEF Environment, IsCustom
  <2>5. m \in CustomMedia
    <3>1. DOMAIN b \cup {Defines[r]} \in SUBSET Name
      BY <2>1, <1>4, CustomMediaMaps, RuleKinds
    <3>2. m \in [DOMAIN b \cup {Defines[r]} -> BaseCondition]
      BY <2>1, <2>2, <2>4, CustomMediaMaps
    <3>. QED  BY <3>1, <3>2, CustomMediaMaps
  <2>6. y = [contents |-> key.contents, results |-> key.results, custom |-> m]
    BY <2>3, <2>5, KeyFields
  <2>7. y \in KeyType
    BY <2>5, <2>6, KeyFields DEF KeyType
  <2>. QED  BY <1>1, <1>4, <2>1, <2>2, <2>6, <2>7 DEF KeyRuleAdded, IsCustom
<1>. QED  BY <1>2, <1>3, <1>4, RuleKinds

\* The rules of a sheet, one after the other.
KeyRulesAdded(env, key, v) == FoldLeft(LAMBDA k, r : AddKeyRule(env, k, r), key, v)

\* That is a sequence of steps.
LEMMA KeyRulesInTurn ==
  ASSUME NEW env \in Environment, NEW key \in KeyType, NEW v \in Seq(Rule)
  PROVE  \E g \in [0 .. Len(v) -> KeyType] :
           /\ g[0] = key /\ g[Len(v)] = KeyRulesAdded(env, key, v)
           /\ \A i \in 1 .. Len(v) : g[i] = AddKeyRule(env, g[i - 1], v[i])
<1>. DEFINE n == Len(v)
            f == [x \in (1 .. n) \X KeyType |-> AddKeyRule(env, x[2], v[x[1]])]
            Eq(h) == h = [q \in SUBSET (1 .. n) |->
                            IF q = {} THEN key ELSE AddKeyRule(env, h[q \ {Max(q)}], v[Max(q)])]
<1>1. n \in Nat /\ DOMAIN v = 1 .. n /\ \A i \in 1 .. n : v[i] \in Rule
  OBVIOUS
<1>2. key \in KeyType
  OBVIOUS
<1>. HIDE DEF n
<1>3. ASSUME NEW i \in 1 .. n, NEW d \in KeyType PROVE AddKeyRule(env, d, v[i]) \in KeyType
  BY <1>1, AddOneKeyRule DEF KeyRuleAdded
<1>4. f \in [(1 .. n) \X KeyType -> KeyType] /\ \A i \in 1 .. n, d \in KeyType : f[<<i, d>>] = AddKeyRule(env, d, v[i])
  BY <1>3
<1>. HIDE DEF f
<1>5. PICK h \in [SUBSET (1 .. n) -> KeyType] : IsFold(h, n, key, f)
  <2>1. PICK f1, D1, b1 : f1 = f /\ D1 = KeyType /\ b1 = key
    OBVIOUS
  <2>2. f1 \in [(1 .. n) \X D1 -> D1] /\ b1 \in D1
    BY <1>2, <1>4, <2>1
  <2>3. \E h \in [SUBSET (1 .. n) -> D1] : IsFold(h, n, b1, f1)
    BY ONLY <1>1, <2>2, FoldExists
  <2>. QED  BY <2>1, <2>3
<1>6. Eq(h)
  <2>1. ASSUME NEW q \in SUBSET (1 .. n), q # {}
        PROVE  h[q] = AddKeyRule(env, h[q \ {Max(q)}], v[Max(q)])
    <3>1. Max(q) \in 1 .. n
      BY <1>1, <2>1, LastPosition
    <3>2. h[q \ {Max(q)}] \in KeyType
      BY <2>1
    <3>3. h[q] = f[<<Max(q), h[q \ {Max(q)}]>>]
      BY <1>5, <2>1 DEF IsFold
    <3>. QED  BY <1>4, <3>1, <3>2, <3>3
  <2>2. h[{}] = key
    <3>1. {} \in SUBSET (1 .. n)
      OBVIOUS
    <3>. QED  BY <1>5, <3>1 DEF IsFold
  <2>. QED  BY <2>1, <2>2
<1>7. PICK c : Eq(c) /\ KeyRulesAdded(env, key, v) = c[1 .. n]
  <2>1. KeyRulesAdded(env, key, v) = (CHOOSE c : Eq(c))[1 .. n]
    BY <1>1 DEF KeyRulesAdded, FoldLeft, MapThenFoldSet
  <2>. HIDE DEF Eq
  <2>. QED  BY <1>6, <2>1
<1>. DEFINE g == [i \in 0 .. n |-> c[1 .. i]]
<1>8. g[0] = key
  <2>1. 1 .. 0 = {} /\ {} \in SUBSET (1 .. n)
    OBVIOUS
  <2>2. c[{}] = key
    BY <1>7, <2>1
  <2>3. 0 \in 0 .. n
    BY <1>1
  <2>4. g[0] = c[1 .. 0]
    BY <2>3
  <2>. QED  BY <2>1, <2>2, <2>4
<1>9. ASSUME NEW i \in 1 .. n PROVE g[i] = AddKeyRule(env, g[i - 1], v[i])
  <2>1. /\ (1 .. i) \in SUBSET (1 .. n) /\ 1 .. i # {}
        /\ Max(1 .. i) = i /\ (1 .. i) \ {Max(1 .. i)} = 1 .. (i - 1)
    BY <1>1, LastOfPrefix
  <2>2. c[1 .. i] = AddKeyRule(env, c[1 .. (i - 1)], v[i])
    BY <1>7, <2>1
  <2>3. i \in 0 .. n /\ i - 1 \in 0 .. n
    BY <1>1
  <2>. QED  BY <2>2, <2>3
<1>10. n \in 0 .. n
  BY <1>1
<1>11. g[n] = KeyRulesAdded(env, key, v)
  BY <1>7, <1>10
<1>. HIDE DEF g
<1>12. \A i \in 0 .. n : g[i] \in KeyType
  <2>. DEFINE T == {i \in 0 .. n : g[i] \in KeyType}
  <2>1. 0 \in T
    BY <1>1, <1>2, <1>8
  <2>2. ASSUME NEW i \in 1 .. n, i - 1 \in T PROVE i \in T
    <3>1. PICK d \in KeyType : d = g[i - 1]
      BY <2>2
    <3>2. g[i] = AddKeyRule(env, d, v[i])
      BY <1>9, <3>1
    <3>. QED  BY <1>1, <1>3, <3>2
  <2>. HIDE DEF T
  <2>3. 0 .. n \subseteq T
    <3>1. PICK T1 : T1 = T
      OBVIOUS
    <3>2. 0 \in T1 /\ \A i \in 1 .. n : i - 1 \in T1 => i \in T1
      BY <2>1, <2>2, <3>1
    <3>3. 0 .. n \subseteq T1
      BY ONLY <1>1, <3>2, PrefixInduction
    <3>. QED  BY <3>1, <3>3
  <2>. QED  BY <2>3 DEF T
<1>13. g \in [0 .. n -> KeyType]
  BY <1>12 DEF g
<1>. QED  BY <1>8, <1>9, <1>11, <1>13 DEF n

\* What a key says of the data that are built from the same sheets.
KeyMatches(key, data) ==
  /\ key.custom = data.custom
  /\ data.effective = ToSet(key.contents) \cup ToSet(key.results)

\* It says so after one more rule.
LEMMA RuleMatches ==
  ASSUME NEW env \in Environment, NEW key \in KeyType, NEW data \in CascadeDataType, KeyMatches(key, data),
         NEW r \in Rule
  PROVE  KeyMatches(AddKeyRule(env, key, r), AddRule(env, TRUE, data, r))
<1>1. PICK k \in KeyType : k = AddKeyRule(env, key, r) /\ KeyRuleAdded(env, key, r, k)
  BY AddOneKeyRule DEF KeyRuleAdded
<1>2. PICK full \in BOOLEAN : full = TRUE
  OBVIOUS
<1>3. PICK d : d = AddRule(env, full, data, r) /\ RuleAdded(env, full, data, r, d)
  BY AddOneRule
<1>4. k.custom = d.custom
  BY <1>1, <1>3 DEF KeyRuleAdded, RuleAdded, KeyMatches
<1>5. d.effective = ToSet(k.contents) \cup ToSet(k.results)
  <2>1. key.results \in Seq(Rule)
    BY KeyFields
  <2>2. ToSet(Append(key.results, r)) = ToSet(key.results) \cup {r}
    BY <2>1, OneMore
  <2>. QED  BY <1>1, <1>2, <1>3, <2>2 DEF KeyRuleAdded, RuleAdded, KeyMatches
<1>. QED  BY <1>1, <1>2, <1>3, <1>4, <1>5 DEF KeyMatches

\* What adding a sheet does to a key: its contents are added if it applies.
KeySheetAdded(env, key, s, y) ==
  /\ y \in KeyType
  /\ y.contents = IF Holds(SheetMedia[s], key.custom, env.wide) THEN Append(key.contents, s) ELSE key.contents
  /\ \A data \in CascadeDataType : KeyMatches(key, data) => KeyMatches(y, AddStylesheet(env, TRUE, data, s))

\* A sheet is added like that.
LEMMA SheetMatches ==
  ASSUME NEW env \in Environment, NEW key \in KeyType, NEW s \in Sheet, NEW y, y = AddKeySheet(env, key, s)
  PROVE  KeySheetAdded(env, key, s, y)
<1>1. PICK v \in Seq(Rule) : v = env.contents[s]
  BY EnvironmentFacts
<1>2. CASE ~Holds(SheetMedia[s], key.custom, env.wide)
  <2>1. y = key
    BY <1>2 DEF AddKeySheet
  <2>2. \A data \in CascadeDataType : KeyMatches(key, data) => AddStylesheet(env, TRUE, data, s) = data
    BY <1>2 DEF KeyMatches, AddStylesheet
  <2>. QED  BY <1>2, <2>1, <2>2 DEF KeySheetAdded
<1>3. CASE Holds(SheetMedia[s], key.custom, env.wide)
  <2>0. PICK b \in Seq(Sheet) : b = key.contents
    BY KeyFields
  <2>01. Append(b, s) \in Seq(Sheet) /\ ToSet(Append(b, s)) = ToSet(b) \cup {s}
    BY OneMore
  <2>02. PICK c : c = Append(b, s)
    OBVIOUS
  <2>1. c \in Seq(Sheet) /\ c = Append(key.contents, s) /\ ToSet(c) = ToSet(key.contents) \cup {s}
    BY <2>0, <2>01, <2>02
  <2>2. PICK start : start = [key EXCEPT !.contents = c]
    OBVIOUS
  <2>3. start = [contents |-> c, results |-> key.results, custom |-> key.custom]
    BY <2>1, <2>2, KeyFields
  <2>4. start \in KeyType
    BY <2>1, <2>3, KeyFields DEF KeyType
  <2>5. y = KeyRulesAdded(env, start, v)
    BY <1>1, <1>3, <2>1, <2>2 DEF AddKeySheet, KeyRulesAdded
  <2>6. PICK g \in [0 .. Len(v) -> KeyType] :
          /\ g[0] = start /\ g[Len(v)] = y
          /\ \A i \in 1 .. Len(v) : g[i] = AddKeyRule(env, g[i - 1], v[i])
    BY <2>4, <2>5, KeyRulesInTurn
  <2>7. PICK n \in Nat : n = Len(v) /\ \A i \in 1 .. n : v[i] \in Rule
    OBVIOUS
  <2>8. y \in KeyType
    BY <2>6, <2>7
  <2>9. y.contents = c
    <3>. DEFINE T == {i \in 0 .. n : g[i].contents = c}
    <3>1. 0 \in T
      BY <2>3, <2>6, <2>7
    <3>2. ASSUME NEW i \in 1 .. n, i - 1 \in T PROVE i \in T
      <4>1. PICK k \in KeyType : k = g[i - 1] /\ k.contents = c
        BY <2>6, <2>7, <3>2
      <4>2. g[i] = AddKeyRule(env, k, v[i]) /\ v[i] \in Rule
        BY <2>6, <2>7, <4>1
      <4>3. g[i].contents = c
        BY <4>1, <4>2, AddOneKeyRule DEF KeyRuleAdded
      <4>. QED  BY <2>7, <4>3
    <3>. HIDE DEF T
    <3>3. 0 .. n \subseteq T
      <4>1. PICK T1 : T1 = T
        OBVIOUS
      <4>2. 0 \in T1 /\ \A i \in 1 .. n : i - 1 \in T1 => i \in T1
        BY <3>1, <3>2, <4>1
      <4>3. 0 .. n \subseteq T1
        BY ONLY n \in Nat, <4>2, PrefixInduction
      <4>. QED  BY <4>1, <4>3
    <3>. QED  BY <2>6, <2>7, <3>3 DEF T
  <2>10. ASSUME NEW data \in CascadeDataType, KeyMatches(key, data)
         PROVE  KeyMatches(y, AddStylesheet(env, TRUE, data, s))
    <3>1. PICK full \in BOOLEAN : full = TRUE
      OBVIOUS
    <3>2. PICK e \in CascadeDataType : /\ e = SawEffective(full, data, s) /\ e.custom = data.custom
                                       /\ e.effective = data.effective \cup {s}
      BY <3>1, SawIt
    <3>3. Holds(SheetMedia[s], data.custom, env.wide)
      BY <1>3, <2>10 DEF KeyMatches
    <3>4. PICK z : z = AddStylesheet(env, full, data, s)
      OBVIOUS
    <3>5. z = RulesAdded(env, full, e, v)
      BY <1>1, <3>2, <3>3, <3>4 DEF AddStylesheet, RulesAdded
    <3>6. PICK h \in [0 .. Len(v) -> CascadeDataType] :
            /\ h[0] = e /\ h[Len(v)] = z
            /\ \A i \in 1 .. Len(v) : h[i] = AddRule(env, full, h[i - 1], v[i])
      BY <3>5, RulesInTurn
    <3>. DEFINE T == {i \in 0 .. n : KeyMatches(g[i], h[i])}
    <3>7. 0 \in T
      <4>1. KeyMatches(start, e)
        BY <2>1, <2>3, <2>10, <3>2 DEF KeyMatches
      <4>. QED  BY <2>6, <2>7, <3>6, <4>1
    <3>8. ASSUME NEW i \in 1 .. n, i - 1 \in T PROVE i \in T
      <4>0. i - 1 \in 0 .. Len(v)
        BY <2>7
      <4>1. PICK k \in KeyType : k = g[i - 1]
        BY ONLY <4>0, g \in [0 .. Len(v) -> KeyType]
      <4>2. PICK d \in CascadeDataType : d = h[i - 1]
        BY ONLY <4>0, h \in [0 .. Len(v) -> CascadeDataType]
      <4>3. KeyMatches(k, d)
        BY <3>8, <4>1, <4>2
      <4>4. v[i] \in Rule /\ g[i] = AddKeyRule(env, k, v[i]) /\ h[i] = AddRule(env, TRUE, d, v[i])
        BY <2>6, <2>7, <3>1, <3>6, <4>1, <4>2
      <4>5. KeyMatches(g[i], h[i])
        BY <4>3, <4>4, RuleMatches
      <4>. QED  BY <2>7, <4>5
    <3>. HIDE DEF T
    <3>9. 0 .. n \subseteq T
      <4>1. PICK T1 : T1 = T
        OBVIOUS
      <4>2. 0 \in T1 /\ \A i \in 1 .. n : i - 1 \in T1 => i \in T1
        BY <3>7, <3>8, <4>1
      <4>3. 0 .. n \subseteq T1
        BY ONLY n \in Nat, <4>2, PrefixInduction
      <4>. QED  BY <4>1, <4>3
    <3>10. n \in T
      BY <3>9
    <3>. QED  BY <2>6, <2>7, <3>1, <3>4, <3>6, <3>10 DEF T
  <2>. QED  BY <1>3, <2>1, <2>8, <2>9, <2>10 DEF KeySheetAdded
<1>. QED  BY <1>2, <1>3

\* A key stays one.
LEMMA KeySheetTyped ==
  ASSUME NEW env \in Environment, NEW key \in KeyType, NEW s \in Sheet
  PROVE  AddKeySheet(env, key, s) \in KeyType
BY SheetMatches DEF KeySheetAdded

\* The sheets of a key, one after the other.
LEMMA KeySheetsInTurn ==
  ASSUME NEW env \in Environment, NEW ss \in Seq(Sheet)
  PROVE  \E g \in [0 .. Len(ss) -> KeyType] :
           /\ g[0] = EmptyKey /\ g[Len(ss)] = FullKey(env, ss)
           /\ \A i \in 1 .. Len(ss) : g[i] = AddKeySheet(env, g[i - 1], ss[i])
<1>. DEFINE n == Len(ss)
            f == [x \in (1 .. n) \X KeyType |-> AddKeySheet(env, x[2], ss[x[1]])]
            Eq(h) == h = [q \in SUBSET (1 .. n) |->
                            IF q = {} THEN EmptyKey ELSE AddKeySheet(env, h[q \ {Max(q)}], ss[Max(q)])]
<1>1. n \in Nat /\ DOMAIN ss = 1 .. n /\ \A i \in 1 .. n : ss[i] \in Sheet
  OBVIOUS
<1>2. EmptyKey \in KeyType
  BY KeyFields
<1>. HIDE DEF n
<1>3. ASSUME NEW i \in 1 .. n, NEW d \in KeyType PROVE AddKeySheet(env, d, ss[i]) \in KeyType
  BY <1>1, KeySheetTyped
<1>4. f \in [(1 .. n) \X KeyType -> KeyType] /\ \A i \in 1 .. n, d \in KeyType : f[<<i, d>>] = AddKeySheet(env, d, ss[i])
  BY <1>3
<1>. HIDE DEF f
<1>5. PICK h \in [SUBSET (1 .. n) -> KeyType] : IsFold(h, n, EmptyKey, f)
  <2>1. PICK f1, D1, b1 : f1 = f /\ D1 = KeyType /\ b1 = EmptyKey
    OBVIOUS
  <2>2. f1 \in [(1 .. n) \X D1 -> D1] /\ b1 \in D1
    BY <1>2, <1>4, <2>1
  <2>3. \E h \in [SUBSET (1 .. n) -> D1] : IsFold(h, n, b1, f1)
    BY ONLY <1>1, <2>2, FoldExists
  <2>. QED  BY <2>1, <2>3
<1>6. Eq(h)
  <2>1. ASSUME NEW q \in SUBSET (1 .. n), q # {}
        PROVE  h[q] = AddKeySheet(env, h[q \ {Max(q)}], ss[Max(q)])
    <3>1. Max(q) \in 1 .. n
      BY <1>1, <2>1, LastPosition
    <3>2. h[q \ {Max(q)}] \in KeyType
      BY <2>1
    <3>3. h[q] = f[<<Max(q), h[q \ {Max(q)}]>>]
      BY <1>5, <2>1 DEF IsFold
    <3>. QED  BY <1>4, <3>1, <3>2, <3>3
  <2>2. h[{}] = EmptyKey
    <3>1. {} \in SUBSET (1 .. n)
      OBVIOUS
    <3>. QED  BY <1>5, <3>1 DEF IsFold
  <2>. QED  BY <2>1, <2>2
<1>7. PICK c : Eq(c) /\ FullKey(env, ss) = c[1 .. n]
  <2>1. FullKey(env, ss) = (CHOOSE c : Eq(c))[1 .. n]
    BY <1>1 DEF FullKey, FoldLeft, MapThenFoldSet
  <2>. HIDE DEF Eq
  <2>. QED  BY <1>6, <2>1
<1>. DEFINE g == [i \in 0 .. n |-> c[1 .. i]]
<1>8. g[0] = EmptyKey
  <2>1. 1 .. 0 = {} /\ {} \in SUBSET (1 .. n)
    OBVIOUS
  <2>2. c[{}] = EmptyKey
    BY <1>7, <2>1
  <2>3. 0 \in 0 .. n
    BY <1>1
  <2>4. g[0] = c[1 .. 0]
    BY <2>3
  <2>. QED  BY <2>1, <2>2, <2>4
<1>9. ASSUME NEW i \in 1 .. n PROVE g[i] = AddKeySheet(env, g[i - 1], ss[i])
  <2>1. /\ (1 .. i) \in SUBSET (1 .. n) /\ 1 .. i # {}
        /\ Max(1 .. i) = i /\ (1 .. i) \ {Max(1 .. i)} = 1 .. (i - 1)
    BY <1>1, LastOfPrefix
  <2>2. c[1 .. i] = AddKeySheet(env, c[1 .. (i - 1)], ss[i])
    BY <1>7, <2>1
  <2>3. i \in 0 .. n /\ i - 1 \in 0 .. n
    BY <1>1
  <2>. QED  BY <2>2, <2>3
<1>10. n \in 0 .. n
  BY <1>1
<1>11. g[n] = FullKey(env, ss)
  BY <1>7, <1>10
<1>. HIDE DEF g
<1>12. \A i \in 0 .. n : g[i] \in KeyType
  <2>. DEFINE T == {i \in 0 .. n : g[i] \in KeyType}
  <2>1. 0 \in T
    BY <1>1, <1>2, <1>8
  <2>2. ASSUME NEW i \in 1 .. n, i - 1 \in T PROVE i \in T
    <3>1. PICK d \in KeyType : d = g[i - 1]
      BY <2>2
    <3>2. g[i] = AddKeySheet(env, d, ss[i])
      BY <1>9, <3>1
    <3>3. g[i] \in KeyType
      BY <1>3, <3>2
    <3>. QED  BY <1>1, <3>3
  <2>. HIDE DEF T
  <2>3. 0 .. n \subseteq T
    <3>1. PICK T1 : T1 = T
      OBVIOUS
    <3>2. 0 \in T1 /\ \A i \in 1 .. n : i - 1 \in T1 => i \in T1
      BY <2>1, <2>2, <3>1
    <3>3. 0 .. n \subseteq T1
      BY ONLY <1>1, <3>2, PrefixInduction
    <3>. QED  BY <3>1, <3>3
  <2>. QED  BY <2>3 DEF T
<1>13. g \in [0 .. n -> KeyType]
  BY <1>12 DEF g
<1>. QED  BY <1>8, <1>9, <1>11, <1>13 DEF n

\* A build of one more sheet.
LEMMA BuildAppend ==
  ASSUME NEW env \in Environment, NEW c \in Seq(Sheet), NEW s \in Sheet
  PROVE  /\ Build(env, c) \in CascadeDataType
         /\ Build(env, Append(c, s)) = AddStylesheet(env, TRUE, Build(env, c), s)
<1>1. PICK n \in Nat : n = Len(c) /\ n \in 0 .. Len(c)
  OBVIOUS
<1>2. Append(c, s) \in Seq(Sheet) /\ Len(Append(c, s)) = n + 1 /\ Append(c, s)[n + 1] = s
      /\ \A i \in 1 .. n : Append(c, s)[i] = c[i]
  BY <1>1, OneMore
<1>3. PICK v : v = Append(c, s)
  OBVIOUS
<1>4. v \in Seq(Sheet) /\ Len(v) = n + 1 /\ v[n + 1] = s /\ \A i \in 1 .. n : v[i] = c[i]
  BY <1>2, <1>3
<1>5. PICK g : /\ Builds(env, v, Len(v), g)
               /\ \A k \in 0 .. Len(v) : Build(env, SubSeq(v, 1, k)) = g[k]
  BY <1>4, BuildExists
<1>6. n \in 0 .. Len(v) /\ n + 1 \in 0 .. Len(v) /\ n + 1 \in 1 .. Len(v) /\ (n + 1) - 1 = n
  BY <1>4
<1>7. SubSeq(v, 1, n + 1) = v
  BY <1>4, <1>6, FirstSheets
<1>8. SubSeq(v, 1, n) = c
  <2>1. AgreeTo(v, c, n) /\ n <= Len(c)
    BY <1>1, <1>4 DEF AgreeTo
  <2>2. SubSeq(v, 1, n) = SubSeq(c, 1, n)
    BY <1>4, <1>6, <2>1, SameStart
  <2>3. SubSeq(c, 1, n) = c
    BY <1>1, FirstSheets
  <2>. QED  BY <2>2, <2>3
<1>9. g[n] = Build(env, c) /\ g[n + 1] = Build(env, v)
  BY <1>5, <1>6, <1>7, <1>8
<1>10. g[n] \in CascadeDataType /\ g[n + 1] = AddStylesheet(env, TRUE, g[n], s)
  BY <1>4, <1>5, <1>6 DEF Builds
<1>. QED  BY <1>3, <1>9, <1>10

\* The key and the data after the first i sheets.
KeyPart(env, ss, i, k, d) ==
  /\ KeyMatches(k, d)
  /\ Distinct(k.contents)
  /\ SameCascade(d, Build(env, k.contents))

\* The sheets of the key are among them.
KeyFrom(ss, i, k) == \A j \in 1 .. Len(k.contents) : \E l \in 1 .. i : k.contents[j] = ss[l]

\* One more sheet is at most one more.
LEMMA KeyFromGrows ==
  ASSUME NEW env \in Environment, NEW ss, NEW i \in Nat \ {0}, NEW k \in KeyType, NEW s \in Sheet, s = ss[i],
         KeyFrom(ss, i - 1, k)
  PROVE  KeyFrom(ss, i, AddKeySheet(env, k, s))
<1>1. PICK y : y = AddKeySheet(env, k, s)
  OBVIOUS
<1>2. y.contents = IF Holds(SheetMedia[s], k.custom, env.wide) THEN Append(k.contents, s) ELSE k.contents
  <2>1. KeySheetAdded(env, k, s, y)
    BY <1>1, SheetMatches
  <2>. QED  BY <2>1 DEF KeySheetAdded
<1>3. i \in 1 .. i /\ \A l \in 1 .. (i - 1) : l \in 1 .. i
  OBVIOUS
<1>4. KeyFrom(ss, i, k)
  BY <1>3 DEF KeyFrom
<1>5. PICK c \in Seq(Sheet) : c = k.contents
  BY KeyFields
<1>6. PICK m \in Nat : m = Len(c)
  OBVIOUS
<1>7. PICK w : w = Append(c, s)
  OBVIOUS
<1>8. Len(w) = m + 1 /\ w[m + 1] = s /\ \A j \in 1 .. m : w[j] = c[j]
  BY <1>6, <1>7, OneMore
<1>9. \A j \in 1 .. Len(w) : \E l \in 1 .. i : w[j] = ss[l]
  <2>1. \A j \in 1 .. (m + 1) : j \in 1 .. m \/ j = m + 1
    OBVIOUS
  <2>2. \A j \in 1 .. m : \E l \in 1 .. i : c[j] = ss[l]
    BY <1>4, <1>5, <1>6 DEF KeyFrom
  <2>. QED  BY <1>3, <1>8, <2>1, <2>2
<1>10. y.contents = w \/ y.contents = k.contents
  BY <1>2, <1>5, <1>7
<1>. QED  BY <1>1, <1>4, <1>9, <1>10 DEF KeyFrom

\* What a key is, whatever names the sheets use.
LEMMA KeyTyped ==
  ASSUME NEW env \in Environment, NEW ss \in Seq(Sheet)
  PROVE  /\ Key(env, ss) = [contents |-> FullKey(env, ss).contents, results |-> FullKey(env, ss).results]
         /\ FullKey(env, ss) \in KeyType
         /\ KeyFrom(ss, Len(ss), FullKey(env, ss))
<1>1. Key(env, ss) = [contents |-> FullKey(env, ss).contents, results |-> FullKey(env, ss).results]
  BY DEF Key, FullKey, EmptyKey
<1>2. PICK g \in [0 .. Len(ss) -> KeyType] :
        /\ g[0] = EmptyKey /\ g[Len(ss)] = FullKey(env, ss)
        /\ \A i \in 1 .. Len(ss) : g[i] = AddKeySheet(env, g[i - 1], ss[i])
  BY KeySheetsInTurn
<1>3. PICK n \in Nat : n = Len(ss) /\ \A i \in 1 .. n : ss[i] \in Sheet
  OBVIOUS
<1>. DEFINE T == {i \in 0 .. n : KeyFrom(ss, i, g[i])}
<1>4. 0 \in T
  <2>1. Len(EmptyKey.contents) = 0
    BY DEF EmptyKey
  <2>. QED  BY <1>2, <1>3, <2>1 DEF KeyFrom
<1>5. ASSUME NEW i \in 1 .. n, i - 1 \in T PROVE i \in T
  <2>0. i - 1 \in 0 .. Len(ss) /\ i \in 0 .. n
    BY <1>3
  <2>1. PICK k \in KeyType : k = g[i - 1]
    BY ONLY <2>0, g \in [0 .. Len(ss) -> KeyType]
  <2>2. PICK s \in Sheet : s = ss[i]
    BY <1>3
  <2>3. g[i] = AddKeySheet(env, k, s)
    BY <1>2, <1>3, <2>1, <2>2
  <2>4. KeyFrom(ss, i - 1, k)
    BY <1>5, <2>1
  <2>5. KeyFrom(ss, i, AddKeySheet(env, k, s))
    BY <1>3, <2>2, <2>4, KeyFromGrows
  <2>. QED  BY <2>0, <2>3, <2>5
<1>. HIDE DEF T
<1>6. 0 .. n \subseteq T
  <2>1. PICK T1 : T1 = T
    OBVIOUS
  <2>2. 0 \in T1 /\ \A i \in 1 .. n : i - 1 \in T1 => i \in T1
    BY <1>4, <1>5, <2>1
  <2>3. 0 .. n \subseteq T1
    BY ONLY n \in Nat, <2>2, PrefixInduction
  <2>. QED  BY <2>1, <2>3
<1>7. n \in T
  BY <1>6
<1>8. KeyFrom(ss, n, g[n])
  BY <1>7 DEF T
<1>9. g[n] \in KeyType
  <2>1. n \in 0 .. Len(ss)
    BY <1>3
  <2>. QED  BY ONLY <2>1, g \in [0 .. Len(ss) -> KeyType]
<1>. QED  BY <1>1, <1>2, <1>3, <1>8, <1>9

\* One more sheet.
LEMMA KeyPartGrows ==
  ASSUME NamesAreLocal, NEW env \in Environment, NEW ss, NEW i, NEW s \in Sheet,
         NEW k \in KeyType, NEW d \in CascadeDataType, KeyPart(env, ss, i - 1, k, d),
         NewTo(d.custom, s), \A j \in 1 .. Len(k.contents) : k.contents[j] # s
  PROVE  KeyPart(env, ss, i, AddKeySheet(env, k, s), AddStylesheet(env, TRUE, d, s))
<1>1. PICK y : y = AddKeySheet(env, k, s)
  OBVIOUS
<1>2. /\ y.contents = IF Holds(SheetMedia[s], k.custom, env.wide) THEN Append(k.contents, s) ELSE k.contents
      /\ KeyMatches(k, d) => KeyMatches(y, AddStylesheet(env, TRUE, d, s))
  <2>1. KeySheetAdded(env, k, s, y)
    BY <1>1, SheetMatches
  <2>. QED  BY <2>1 DEF KeySheetAdded
<1>3. KeyMatches(k, d) /\ Distinct(k.contents) /\ SameCascade(d, Build(env, k.contents))
  BY DEF KeyPart
<1>4. PICK c \in Seq(Sheet) : c = k.contents
  BY KeyFields
<1>5. CASE ~Holds(SheetMedia[s], k.custom, env.wide)
  <2>1. AddStylesheet(env, TRUE, d, s) = d
    BY <1>3, <1>5 DEF KeyMatches, AddStylesheet
  <2>. QED  BY <1>1, <1>2, <1>3, <1>5, <2>1 DEF KeyPart
<1>6. CASE Holds(SheetMedia[s], k.custom, env.wide)
  <2>1. PICK w : w = Append(c, s)
    OBVIOUS
  <2>2. y.contents = w
    BY <1>2, <1>4, <1>6, <2>1
  <2>3. PICK m \in Nat : m = Len(c)
    OBVIOUS
  <2>4. Len(w) = m + 1 /\ w[m + 1] = s /\ \A j \in 1 .. m : w[j] = c[j]
    BY <2>1, <2>3, OneMore
  <2>5. Distinct(w)
    <3>1. \A j \in 1 .. (m + 1) : j \in 1 .. m \/ j = m + 1
      OBVIOUS
    <3>2. \A j \in 1 .. m : c[j] # s
      BY <1>4, <2>3
    <3>3. \A j, l \in 1 .. m : c[j] = c[l] => j = l
      BY <1>3, <1>4, <2>3 DEF Distinct
    <3>. QED  BY <2>4, <3>1, <3>2, <3>3 DEF Distinct
  <2>6. PICK b \in CascadeDataType : b = Build(env, c) /\ Build(env, w) = AddStylesheet(env, TRUE, b, s)
    BY <2>1, BuildAppend
  <2>7. SameCascade(d, b)
    BY <1>3, <1>4, <2>6
  <2>8. PICK full \in BOOLEAN : full = TRUE
    OBVIOUS
  <2>9. SameSheet(env, env, s)
    BY DEF SameSheet
  <2>10. SameCascade(AddStylesheet(env, full, d, s), AddStylesheet(env, full, b, s))
    BY <2>7, <2>9, SameAdded
  <2>11. SameCascade(AddStylesheet(env, TRUE, d, s), Build(env, y.contents))
    BY <2>2, <2>6, <2>8, <2>10
  <2>12. Distinct(y.contents)
    BY <2>2, <2>5
  <2>. QED  BY <1>1, <1>2, <1>3, <2>11, <2>12 DEF KeyPart
<1>. QED  BY <1>5, <1>6

\* The whole key: it records what the data say is effective, and its sheets give the same cascade.
LEMMA KeyWhole ==
  ASSUME NamesAreLocal, NEW env \in Environment, NEW ss \in Seq(Sheet), Distinct(ss)
  PROVE  KeyPart(env, ss, Len(ss), FullKey(env, ss), Build(env, ss))
<1>1. PICK g \in [0 .. Len(ss) -> KeyType] :
        /\ g[0] = EmptyKey /\ g[Len(ss)] = FullKey(env, ss)
        /\ \A i \in 1 .. Len(ss) : g[i] = AddKeySheet(env, g[i - 1], ss[i])
  BY KeySheetsInTurn
<1>2. PICK h : /\ Builds(env, ss, Len(ss), h)
               /\ \A k \in 0 .. Len(ss) : Build(env, SubSeq(ss, 1, k)) = h[k]
  BY BuildExists
<1>3. PICK n \in Nat : n = Len(ss) /\ n \in 0 .. Len(ss) /\ \A i \in 1 .. n : ss[i] \in Sheet
  OBVIOUS
<1>4. \A i \in 0 .. n : BuildPart(env, ss, i, h[i])
  BY <1>2, <1>3, BuildsRight
<1>5. Build(env, ss) = h[n]
  BY <1>2, <1>3, FirstSheets
<1>. DEFINE T == {i \in 0 .. n : KeyFrom(ss, i, g[i]) /\ KeyPart(env, ss, i, g[i], h[i])}
<1>6. 0 \in T
  <2>1. h[0] = EmptyData
    BY <1>2 DEF Builds
  <2>2. KeyMatches(EmptyKey, EmptyData)
    <3>1. ToSet(<< >>) = {}
      BY DEF ToSet
    <3>. QED  BY <3>1 DEF KeyMatches, EmptyKey, EmptyData
  <2>3. PICK e : e = EmptyKey.contents
    OBVIOUS
  <2>4. e = << >>
    BY <2>3 DEF EmptyKey
  <2>5. Len(e) = 0 /\ e \in Seq(Sheet)
    BY <2>4
  <2>6. Distinct(e) /\ KeyFrom(ss, 0, EmptyKey)
    BY <2>3, <2>5 DEF Distinct, KeyFrom
  <2>7. Build(env, e) = EmptyData
    <3>1. PICK f \in [0 .. Len(e) -> CascadeDataType] : f[0] = EmptyData /\ f[Len(e)] = Build(env, e)
      BY <2>5, SheetsInTurn
    <3>. QED  BY <2>5, <3>1
  <2>8. KeyPart(env, ss, 0, EmptyKey, EmptyData)
    BY <2>2, <2>3, <2>6, <2>7 DEF KeyPart, SameCascade
  <2>. QED  BY <1>1, <1>3, <2>1, <2>6, <2>8
<1>7. ASSUME NEW i \in 1 .. n, i - 1 \in T PROVE i \in T
  <2>0. i - 1 \in 0 .. Len(ss) /\ i \in 0 .. n /\ i \in 1 .. Len(ss) /\ i - 1 \in 0 .. n
    BY <1>3
  <2>1. PICK k \in KeyType : k = g[i - 1]
    BY ONLY <2>0, g \in [0 .. Len(ss) -> KeyType]
  <2>2. PICK s \in Sheet : s = ss[i]
    BY <1>3
  <2>3. PICK d \in CascadeDataType : d = h[i - 1]
    BY <1>4, <2>0 DEF BuildPart
  <2>4. g[i] = AddKeySheet(env, k, s) /\ h[i] = AddStylesheet(env, TRUE, d, s)
    BY <1>1, <1>2, <2>0, <2>1, <2>2, <2>3 DEF Builds
  <2>5. KeyFrom(ss, i - 1, k) /\ KeyPart(env, ss, i - 1, k, d)
    BY <1>7, <2>1, <2>3
  <2>6. NewTo(d.custom, s)
    <3>1. BuildPart(env, ss, i - 1, d)
      BY <1>4, <2>0, <2>3
    <3>2. i \in (i - 1) + 1 .. Len(ss)
      BY <2>0
    <3>. QED  BY <2>2, <3>1, <3>2 DEF BuildPart
  <2>7. \A j \in 1 .. Len(k.contents) : k.contents[j] # s
    <3>1. \A l \in 1 .. (i - 1) : ss[l] # s
      <4>1. \A l \in 1 .. (i - 1) : l \in 1 .. Len(ss) /\ l # i
        BY <2>0
      <4>. QED  BY <2>0, <2>2, <4>1 DEF Distinct
    <3>. QED  BY <2>5, <3>1 DEF KeyFrom
  <2>8. KeyPart(env, ss, i, g[i], h[i])
    BY <2>4, <2>5, <2>6, <2>7, KeyPartGrows
  <2>9. KeyFrom(ss, i, g[i])
    BY <1>3, <2>2, <2>4, <2>5, KeyFromGrows
  <2>. QED  BY <2>0, <2>8, <2>9
<1>. HIDE DEF T
<1>8. 0 .. n \subseteq T
  <2>1. PICK T1 : T1 = T
    OBVIOUS
  <2>2. 0 \in T1 /\ \A i \in 1 .. n : i - 1 \in T1 => i \in T1
    BY <1>6, <1>7, <2>1
  <2>3. 0 .. n \subseteq T1
    BY ONLY n \in Nat, <2>2, PrefixInduction
  <2>. QED  BY <2>1, <2>3
<1>9. n \in T
  BY <1>8
<1>. QED  BY <1>1, <1>3, <1>5, <1>9 DEF T

-----------------------------------------------------------------------------
(* What is recorded in a key determines the data.                           *)

\* Environments in which no rule is twice in a sheet.
Unrepeated(env) == \A s \in Sheet : IsInjective(env.contents[s])

\* The set of what is effective says which sheets apply, and which of their blocks.
EffectiveOf(env, s, E) ==
  /\ s \in E <=> SheetApplies(env, s)
  /\ SheetApplies(env, s) =>
       Blocks(env, s) = {i \in DOMAIN env.contents[s] : Kind[env.contents[s][i]] = "media" /\ env.contents[s][i] \in E}

\* What the sheets of a list note is such a set.
LEMMA EffectiveParts ==
  ASSUME NEW env \in Environment, Unrepeated(env), NEW ss \in Seq(Sheet), Distinct(ss),
         NEW E, E = UNION {Noted(env, ss[j]) : j \in 1 .. Len(ss)}, NEW j \in 1 .. Len(ss)
  PROVE  EffectiveOf(env, ss[j], E)
<1>1. PICK s \in Sheet : s = ss[j]
  OBVIOUS
<1>2. PICK v \in Seq(Rule) : v = env.contents[s]
  BY EnvironmentFacts
<1>3. PICK n \in Nat : n = Len(v) /\ DOMAIN v = 1 .. n /\ \A i \in 1 .. n : v[i] \in RulesOf(s) /\ v[i] \in Rule
  <2>1. \A i \in 1 .. Len(v) : v[i] \in RulesOf(s) /\ v[i] \in Rule
    BY <1>2, EnvironmentFacts
  <2>2. Len(v) \in Nat /\ DOMAIN v = 1 .. Len(v)
    OBVIOUS
  <2>. QED  BY <2>1, <2>2
<1>4. \A t \in Sheet : Noted(env, t) \subseteq {t} \cup RulesOf(t)
  <2>1. ASSUME NEW t \in Sheet
        PROVE  \A i \in Blocks(env, t) : env.contents[t][i] \in RulesOf(t)
    <3>1. PICK w \in Seq(Rule) : w = env.contents[t] /\ \A i \in 1 .. Len(w) : w[i] \in RulesOf(t)
      BY EnvironmentFacts
    <3>2. Blocks(env, t) \subseteq 1 .. Len(w)
      BY <3>1 DEF Blocks
    <3>. QED  BY <3>1, <3>2
  <2>. QED  BY <2>1 DEF Noted
<1>5. \A t \in Sheet : RulesOf(t) \subseteq Rule
  BY CascadeDataAssumption DEF RulesOf, ToSet
<1>6. \A l \in 1 .. Len(ss) : ss[l] \in Sheet /\ (ss[l] = s => l = j)
  BY <1>1 DEF Distinct
<1>7. \A x \in {s} \cup RulesOf(s) : x \in E <=> x \in Noted(env, s)
  <2>1. ASSUME NEW x \in {s} \cup RulesOf(s), NEW t \in Sheet, x \in Noted(env, t)
        PROVE  t = s
    <3>1. x \in {t} \cup RulesOf(t)
      BY <1>4, <2>1
    <3>2. Sheet \cap Rule = {}
      BY CascadeDataAssumption
    <3>3. t # s => RulesOf(s) \cap RulesOf(t) = {}
      BY CascadeDataAssumption
    <3>. QED  BY <1>5, <2>1, <3>1, <3>2, <3>3
  <2>. QED  BY <1>1, <1>6, <2>1
<1>8. s \in E <=> SheetApplies(env, s)
  <2>1. s \notin Rule
    BY CascadeDataAssumption
  <2>2. SheetApplies(env, s) => s \in Noted(env, s)
    BY DEF Noted
  <2>3. ~SheetApplies(env, s) => s \notin Noted(env, s)
    BY DEF Noted
  <2>. QED  BY <1>7, <2>2, <2>3
<1>9. ASSUME SheetApplies(env, s), NEW i \in 1 .. n
      PROVE  i \in Blocks(env, s) <=> Kind[v[i]] = "media" /\ v[i] \in E
  <2>1. v[i] \in E <=> v[i] \in Noted(env, s)
    BY <1>3, <1>7
  <2>2. v[i] # s
    BY <1>3, CascadeDataAssumption
  <2>3. v[i] \in Noted(env, s) <=> \E l \in Blocks(env, s) : v[l] = v[i]
    BY <1>2, <1>9, <2>2 DEF Noted
  <2>4. Blocks(env, s) \subseteq 1 .. n /\ \A l \in Blocks(env, s) : Kind[v[l]] = "media"
    BY <1>2, <1>3 DEF Blocks
  <2>5. \A l \in 1 .. n : v[l] = v[i] => l = i
    BY <1>2, <1>3 DEF Unrepeated, IsInjective
  <2>. QED  BY <2>1, <2>3, <2>4, <2>5
<1>10. Blocks(env, s) \subseteq 1 .. n
  BY <1>2, <1>3 DEF Blocks
<1>. QED  BY <1>1, <1>2, <1>3, <1>8, <1>9, <1>10 DEF EffectiveOf

\* What is said of the data of some sheets by their key.
KeyFacts(env, ss, K) ==
  /\ K.contents \in Seq(Sheet) /\ Distinct(K.contents)
  /\ \A j \in 1 .. Len(K.contents) : \E l \in 1 .. Len(ss) : K.contents[j] = ss[l]
  /\ SameCascade(Build(env, ss), Build(env, K.contents))
  /\ Build(env, ss).effective = ToSet(K.contents) \cup ToSet(K.results)
  /\ ToSet(K.results) \subseteq Rule
  /\ FreshData(env, ss, Build(env, ss))

\* That is true.
LEMMA KeyTells ==
  ASSUME NamesAreLocal, NEW env \in Environment, NEW ss \in Seq(Sheet), Distinct(ss), NEW K, K = Key(env, ss)
  PROVE  KeyFacts(env, ss, K)
<1>1. PICK k \in KeyType : k = FullKey(env, ss) /\ K.contents = k.contents /\ K.results = k.results
  BY KeyTyped
<1>2. KeyPart(env, ss, Len(ss), k, Build(env, ss)) /\ KeyFrom(ss, Len(ss), k)
  BY <1>1, KeyWhole, KeyTyped
<1>3. ToSet(K.results) \subseteq Rule
  <2>1. K.results \in Seq(Rule)
    BY <1>1, KeyFields
  <2>. QED  BY <2>1 DEF ToSet
<1>4. K.contents \in Seq(Sheet)
  BY <1>1, KeyFields
<1>5. FreshData(env, ss, Build(env, ss))
  BY BuildIsFresh
<1>. QED  BY <1>1, <1>2, <1>3, <1>4, <1>5 DEF KeyFacts, KeyPart, KeyFrom, KeyMatches

\* The environments agree about the sheets whose contents are in a key.
AgreeOn(env1, env2, K) == \A s \in ToSet(K.contents) : env1.contents[s] = env2.contents[s]

SharedSheet(env1, env2, ss1, s) ==
  SameSheet(env1, env2, s) /\ s \in Sheet /\ \E j \in 1 .. Len(ss1) : ss1[j] = s

\* The sheets of a key add the same wherever the key is the same.
LEMMA KeySheetsSame ==
  ASSUME NamesAreLocal, NEW env1 \in Environment, NEW env2 \in Environment, Unrepeated(env1), Unrepeated(env2),
         env1.condition = env2.condition,
         NEW ss1 \in Seq(Sheet), NEW ss2 \in Seq(Sheet), Distinct(ss1), Distinct(ss2),
         NEW K, KeyFacts(env1, ss1, K), KeyFacts(env2, ss2, K), AgreeOn(env1, env2, K), NEW s \in ToSet(K.contents)
  PROVE  SharedSheet(env1, env2, ss1, s)
<1>1. PICK E : E = ToSet(K.contents) \cup ToSet(K.results)
  OBVIOUS
<1>2. E = UNION {Noted(env1, ss1[j]) : j \in 1 .. Len(ss1)}
  BY <1>1 DEF KeyFacts, FreshData
<1>3. E = UNION {Noted(env2, ss2[j]) : j \in 1 .. Len(ss2)}
  BY <1>1 DEF KeyFacts, FreshData
<1>4. PICK c \in Seq(Sheet) : c = K.contents
  BY DEF KeyFacts
<1>5. PICK i \in 1 .. Len(c) : c[i] = s
  BY <1>4 DEF ToSet
<1>6. PICK j1 \in 1 .. Len(ss1) : ss1[j1] = s
  BY <1>4, <1>5 DEF KeyFacts
<1>7. PICK j2 \in 1 .. Len(ss2) : ss2[j2] = s
  BY <1>4, <1>5 DEF KeyFacts
<1>8. s \in Sheet /\ s \in E
  BY <1>1, <1>6
<1>9. EffectiveOf(env1, s, E)
  BY <1>2, <1>6, EffectiveParts
<1>10. EffectiveOf(env2, s, E)
  BY <1>3, <1>7, EffectiveParts
<1>11. env1.contents[s] = env2.contents[s]
  BY DEF AgreeOn
<1>12. SheetApplies(env1, s) /\ SheetApplies(env2, s) /\ Blocks(env1, s) = Blocks(env2, s)
  BY <1>8, <1>9, <1>10, <1>11 DEF EffectiveOf
<1>13. SameSheet(env1, env2, s)
  BY <1>11, <1>12 DEF SameSheet
<1>. QED  BY <1>6, <1>8, <1>13 DEF SharedSheet

\* Data that are up to date for one list of sheets are so for every list with the same key.
THEOREM KeyDeterminesData ==
  ASSUME NamesAreLocal, NEW env1 \in Environment, NEW env2 \in Environment, Unrepeated(env1), Unrepeated(env2),
         env1.condition = env2.condition,
         NEW ss1 \in Seq(Sheet), NEW ss2 \in Seq(Sheet), Distinct(ss1), Distinct(ss2),
         NEW K, K = Key(env1, ss1), K = Key(env2, ss2), AgreeOn(env1, env2, K),
         NEW data, FreshData(env1, ss1, data)
  PROVE  FreshData(env2, ss2, data)
<1>1. KeyFacts(env1, ss1, K) /\ KeyFacts(env2, ss2, K)
  BY KeyTells
<1>21. \A s \in ToSet(K.contents) : SharedSheet(env1, env2, ss1, s)
  BY <1>1, KeySheetsSame
<1>2. \A s \in ToSet(K.contents) : /\ SameSheet(env1, env2, s) /\ s \in Sheet
                                   /\ \E j \in 1 .. Len(ss1) : ss1[j] = s
  BY <1>21 DEF SharedSheet
<1>3. PICK c \in Seq(Sheet) : c = K.contents /\ Distinct(c)
  BY <1>1 DEF KeyFacts
<1>4. \A i \in 1 .. Len(c) : SameSheet(env1, env2, c[i])
  BY <1>2, <1>3 DEF ToSet
<1>5. SameCascade(Build(env1, c), Build(env2, c))
  <2>1. Len(c) \in 0 .. Len(c)
    OBVIOUS
  <2>2. SameCascade(Build(env1, SubSeq(c, 1, Len(c))), Build(env2, SubSeq(c, 1, Len(c))))
    BY <1>3, <1>4, <2>1, SameBuilt
  <2>3. SubSeq(c, 1, Len(c)) = c
    BY <2>1, FirstSheets
  <2>. QED  BY <2>2, <2>3
<1>6. SameCascade(data, Build(env2, ss2))
  BY <1>1, <1>3, <1>5 DEF FreshData, KeyFacts, SameCascade
<1>7. data.effective = Build(env1, ss1).effective
  BY <1>1 DEF KeyFacts, FreshData
<1>8. data.effective = UNION {Noted(env2, ss2[j]) : j \in 1 .. Len(ss2)}
  BY <1>1, <1>7 DEF KeyFacts, FreshData
<1>9. ASSUME NEW j \in 1 .. Len(ss2)
      PROVE  Knows(env2, data.custom, ss2[j]) /\ Cascading(env2, ss2[j]) \subseteq data.selectors
  <2>1. Knows(env2, data.custom, ss2[j])
    BY <1>1, <1>6, <1>9 DEF KeyFacts, FreshData, SameCascade
  <2>2. PICK s \in Sheet : s = ss2[j]
    BY <1>9
  <2>3. CASE ~SheetApplies(env2, s)
    <3>1. Cascading(env2, s) = {}
      BY <2>3 DEF Cascading
    <3>. QED  BY <2>1, <2>2, <3>1
  <2>4. CASE SheetApplies(env2, s)
    <3>1. s \in Noted(env2, s)
      BY <2>4 DEF Noted
    <3>2. s \in ToSet(K.contents) \cup ToSet(K.results)
      BY <1>1, <1>7, <1>8, <1>9, <2>2, <3>1 DEF KeyFacts
    <3>3. s \notin ToSet(K.results)
      BY <1>1, CascadeDataAssumption DEF KeyFacts
    <3>4. SameSheet(env1, env2, s) /\ \E l \in 1 .. Len(ss1) : ss1[l] = s
      BY <1>2, <3>2, <3>3
    <3>5. Cascading(env1, s) \subseteq data.selectors
      BY <3>4 DEF FreshData
    <3>6. Cascading(env1, s) = Cascading(env2, s)
      BY <3>4, SameNoted
    <3>. QED  BY <2>1, <2>2, <3>5, <3>6
  <2>. QED  BY <2>3, <2>4
<1>10. data \in CascadeDataType
  BY DEF FreshData
<1>. QED  BY <1>6, <1>8, <1>9, <1>10 DEF FreshData

-----------------------------------------------------------------------------
(* The sheets of clean roots are committed.                                 *)

AuthorStyles == [stylesheets : Collection, data : Address]

CacheTyped(ca) == \A K \in DOMAIN ca : K.contents \in Seq(Sheet) /\ ca[K] \in Address \ {0}

ShapesOK(st) == \A r \in Root : CollectionShape("Root", st[r].stylesheets)

RootsInv ==
  /\ Env \in Environment /\ Unrepeated(Env)
  /\ styles \in [Root -> AuthorStyles] /\ ShapesOK(styles)
  /\ entries \in [Address -> CascadeDataType]
  /\ CacheTyped(cache)
  /\ phase \in {"idle", "round"}

\* The environment, by its parts.
LEMMA RootsEnvParts ==
  ASSUME Env \in Environment
  PROVE  /\ Env.wide = wide /\ Env.contents = contents /\ Env.condition = InitialCondition
         /\ wide \in BOOLEAN /\ contents \in [Sheet -> Seq(Rule)]
         /\ \A s \in Sheet : ToSet(contents[s]) \subseteq RulesOf(s) /\ RulesOf(s) \subseteq Rule
<1>1. Env.wide = wide /\ Env.contents = contents /\ Env.condition = InitialCondition
  BY DEF Env
<1>2. /\ wide \in BOOLEAN /\ contents \in [Sheet -> Seq(Rule)]
      /\ \A s \in Sheet : ToSet(contents[s]) \subseteq RulesOf(s)
  BY <1>1 DEF Environment
<1>3. \A s \in Sheet : RulesOf(s) \subseteq Rule
  BY CascadeDataAssumption DEF RulesOf, ToSet
<1>. QED  BY <1>1, <1>2, <1>3

\* The first environment.
LEMMA RootsInitEnvironment ==
  ASSUME Init
  PROVE  Env \in Environment /\ Unrepeated(Env)
<1>1. /\ InitialContents \in [Sheet -> Seq(Rule)] /\ InitialCondition \in [Rule -> Condition]
      /\ \A s \in Sheet : ToSet(InitialContents[s]) \subseteq RulesOf(s) /\ IsInjective(InitialContents[s])
      /\ \A r \in Rule : InitialCondition[r] \in BaseCondition \/ (~IsCustom(r) /\ InitialCondition[r] = InitialCondition[r])
  BY CascadeDataAssumption DEF RulesOf, IsCustom
<1>2. PICK env : env = Env
  OBVIOUS
<1>3. env = [wide |-> TRUE, contents |-> InitialContents, condition |-> InitialCondition]
  BY <1>2 DEF Init, Env
<1>4. /\ env \in [wide : BOOLEAN, contents : [Sheet -> Seq(Rule)], condition : [Rule -> Condition]]
      /\ env.contents = InitialContents /\ env.condition = InitialCondition
  BY <1>1, <1>3
<1>. QED  BY <1>1, <1>2, <1>4 DEF Environment, Unrepeated

\* A sequence that is injective stays so when something new is inserted, or something taken out.
LEMMA InjectiveEdits ==
  ASSUME NEW v \in Seq(Rule), IsInjective(v)
  PROVE  /\ \A i \in 1 .. Len(v) + 1, x \in Rule : x \notin ToSet(v) => IsInjective(InsertAt(v, i, x))
         /\ \A i \in 1 .. Len(v) : IsInjective(RemoveAt(v, i))
<1>1. PICK n \in Nat : n = Len(v) /\ DOMAIN v = 1 .. n
  OBVIOUS
<1>2. \A j, l \in 1 .. n : v[j] = v[l] => j = l
  BY <1>1 DEF IsInjective
<1>3. ASSUME NEW i \in 1 .. Len(v) + 1, NEW x \in Rule, x \notin ToSet(v)
      PROVE  IsInjective(InsertAt(v, i, x))
  <2>1. PICK w \in Seq(Rule) : w = InsertAt(v, i, x) /\ IsLonger(v, i, x, w)
    BY <1>3, Inserted
  <2>2. \A j \in 1 .. n : v[j] # x
    BY <1>1, <1>3 DEF ToSet
  <2>3. /\ DOMAIN w = 1 .. n + 1
        /\ \A j \in 1 .. n + 1 : /\ j < i => w[j] = v[j] /\ j \in 1 .. n
                                 /\ j = i => w[j] = x
                                 /\ j > i => w[j] = v[j - 1] /\ j - 1 \in 1 .. n
    BY <1>1, <2>1 DEF IsLonger
  <2>4. ASSUME NEW j \in 1 .. n + 1, NEW l \in 1 .. n + 1, w[j] = w[l]
        PROVE  j = l
    <3>1. j < i \/ j = i \/ j > i
      BY <1>1
    <3>2. l < i \/ l = i \/ l > i
      BY <1>1
    <3>3. CASE j < i
      BY <1>1, <1>2, <2>2, <2>3, <2>4, <3>2, <3>3
    <3>4. CASE j = i
      BY <1>1, <1>2, <2>2, <2>3, <2>4, <3>2, <3>4
    <3>5. CASE j > i
      BY <1>1, <1>2, <2>2, <2>3, <2>4, <3>2, <3>5
    <3>. QED  BY <3>1, <3>3, <3>4, <3>5
  <2>. QED  BY <2>1, <2>3, <2>4 DEF IsInjective
<1>4. ASSUME NEW i \in 1 .. Len(v)
      PROVE  IsInjective(RemoveAt(v, i))
  <2>1. PICK w \in Seq(Rule) : /\ w = RemoveAt(v, i) /\ Len(w) = n - 1
                               /\ \A j \in 1 .. (n - 1) : w[j] = IF j < i THEN v[j] ELSE v[j + 1]
    BY <1>1, Removed
  <2>2. DOMAIN w = 1 .. (n - 1) /\ \A j \in 1 .. (n - 1) : j \in 1 .. n /\ j + 1 \in 1 .. n
    BY <1>1, <2>1
  <2>3. ASSUME NEW j \in 1 .. (n - 1), NEW l \in 1 .. (n - 1), w[j] = w[l]
        PROVE  j = l
    BY <1>1, <1>2, <2>1, <2>2, <2>3
  <2>. QED  BY <2>1, <2>2, <2>3 DEF IsInjective
<1>. QED  BY <1>3, <1>4

\* A root is given another collection, or its data too.
LEMMA SetRoot ==
  ASSUME NEW st \in [Root -> AuthorStyles], NEW r \in Root, NEW d \in Collection
  PROVE  /\ \A st2 : st2 = [st EXCEPT ![r].stylesheets = d] =>
              /\ st2 \in [Root -> AuthorStyles] /\ st2[r].stylesheets = d /\ st2[r].data = st[r].data
              /\ \A q \in Root : q # r => st2[q] = st[q]
         /\ \A st2, a : a \in Address /\ st2 = [st EXCEPT ![r] = [stylesheets |-> d, data |-> a]] =>
              /\ st2 \in [Root -> AuthorStyles] /\ st2[r].stylesheets = d /\ st2[r].data = a
              /\ \A q \in Root : q # r => st2[q] = st[q]
<1>1. \A q \in Root : st[q] \in AuthorStyles /\ st[q].stylesheets \in Collection /\ st[q].data \in Address
  BY DEF AuthorStyles
<1>2. ASSUME NEW st2, st2 = [st EXCEPT ![r].stylesheets = d]
      PROVE  /\ st2 \in [Root -> AuthorStyles] /\ st2[r].stylesheets = d /\ st2[r].data = st[r].data
             /\ \A q \in Root : q # r => st2[q] = st[q]
  <2>1. PICK x : x = [stylesheets |-> d, data |-> st[r].data]
    OBVIOUS
  <2>2. [st[r] EXCEPT !.stylesheets = d] = x
    BY <1>1, <2>1 DEF AuthorStyles
  <2>3. st2 = [st EXCEPT ![r] = x]
    BY <1>2, <2>2
  <2>4. x \in AuthorStyles
    BY <1>1, <2>1 DEF AuthorStyles
  <2>. QED  BY <2>1, <2>3, <2>4
<1>3. ASSUME NEW st2, NEW a \in Address, st2 = [st EXCEPT ![r] = [stylesheets |-> d, data |-> a]]
      PROVE  /\ st2 \in [Root -> AuthorStyles] /\ st2[r].stylesheets = d /\ st2[r].data = a
             /\ \A q \in Root : q # r => st2[q] = st[q]
  <2>1. PICK x : x = [stylesheets |-> d, data |-> a]
    OBVIOUS
  <2>2. x \in AuthorStyles
    BY <2>1 DEF AuthorStyles
  <2>. QED  BY <1>3, <2>1, <2>2
<1>. QED  BY <1>2, <1>3

\* The entries in use or in the cache are kept.
LEMMA KeptEntries ==
  ASSUME NEW en \in [Address -> CascadeDataType], NEW st \in [Root -> AuthorStyles], NEW ca, CacheTyped(ca),
         NEW e2, e2 = KeepReferenced(en, st, ca)
  PROVE  /\ e2 \in [Address -> CascadeDataType]
         /\ \A r \in Root : st[r].data \in Address /\ e2[st[r].data] = en[st[r].data]
         /\ \A K \in DOMAIN ca : ca[K] \in Address /\ e2[ca[K]] = en[ca[K]]
<1>1. \A r \in Root : st[r].data \in Address
  BY DEF AuthorStyles
<1>2. \A K \in DOMAIN ca : ca[K] \in Address
  BY DEF CacheTyped
<1>3. EmptyData \in CascadeDataType
  BY DataFields
<1>. QED  BY <1>1, <1>2, <1>3 DEF KeepReferenced

\* A change of the list of one root.
ListStep(r, d) ==
  /\ phase = "idle" /\ phase' = "idle"
  /\ Changed("Root", styles[r].stylesheets, d)
  /\ styles' = [styles EXCEPT ![r].stylesheets = d]
  /\ Env' = Env /\ contents' = contents /\ entries' = entries /\ cache' = cache

\* The three operations are such changes.
LEMMA ListSteps ==
  ASSUME RootsInv, NEW r \in Root, NEW s \in Sheet
  PROVE  /\ AppendStylesheet(r, s) => \E d : ListStep(r, d)
         /\ RemoveStylesheet(r, s) => \E d : ListStep(r, d)
         /\ \A b \in Sheet : InsertStylesheetBefore(r, s, b) => \E d : ListStep(r, d)
<1>1. styles[r].stylesheets \in Collection /\ CollectionShape("Root", styles[r].stylesheets)
  BY DEF RootsInv, AuthorStyles, ShapesOK
<1>2. ASSUME AppendStylesheet(r, s)
      PROVE  \E d : ListStep(r, d)
  <2>1. Changed("Root", styles[r].stylesheets, AppendSheet(styles[r].stylesheets, s))
    BY <1>1, <1>2, AppendChanges DEF AppendStylesheet
  <2>2. ListStep(r, AppendSheet(styles[r].stylesheets, s))
    BY <1>2, <2>1 DEF AppendStylesheet, SetStylesheets, ListStep, Env
  <2>. QED  BY <2>2
<1>3. ASSUME RemoveStylesheet(r, s)
      PROVE  \E d : ListStep(r, d)
  <2>1. Changed("Root", styles[r].stylesheets, RemoveSheet(styles[r].stylesheets, s))
    BY <1>1, <1>3, RemoveChanges DEF RemoveStylesheet
  <2>2. ListStep(r, RemoveSheet(styles[r].stylesheets, s))
    BY <1>3, <2>1 DEF RemoveStylesheet, SetStylesheets, ListStep, Env
  <2>. QED  BY <2>2
<1>4. ASSUME NEW b \in Sheet, InsertStylesheetBefore(r, s, b)
      PROVE  \E d : ListStep(r, d)
  <2>1. Changed("Root", styles[r].stylesheets, InsertBefore(styles[r].stylesheets, s, b))
    BY <1>1, <1>4, InsertChanges DEF InsertStylesheetBefore
  <2>2. ListStep(r, InsertBefore(styles[r].stylesheets, s, b))
    BY <1>4, <2>1 DEF InsertStylesheetBefore, SetStylesheets, ListStep, Env
  <2>. QED  BY <2>2
<1>. QED  BY <1>2, <1>3, <1>4

ScriptedSheet(s) == Scripted \cap RulesOf(s) # {}

\* A script edits a sheet in place.
EditStep(s) ==
  /\ phase = "idle" /\ phase' = "idle"
  /\ ScriptedSheet(s)
  /\ \E env2 \in Environment : /\ Env' = env2 /\ Unrepeated(env2) /\ contents' = env2.contents
                               /\ \A t \in Sheet \ {s} : SameSheet(Env, env2, t)
  /\ styles' = [r \in Root |->
       IF HasSheet(styles[r].stylesheets, s)
         THEN [styles[r] EXCEPT !.stylesheets = SetValidityAtLeast(@, FullyInvalid)]
         ELSE styles[r]]
  /\ entries' = entries /\ cache' = cache

\* Other rules of one sheet.
LEMMA ContentsEdited ==
  ASSUME Env \in Environment, Unrepeated(Env), NEW s \in Sheet, NEW w \in Seq(Rule), ToSet(w) \subseteq RulesOf(s),
         IsInjective(w), contents' = [contents EXCEPT ![s] = w], wide' = wide
  PROVE  \E env2 \in Environment : /\ Env' = env2 /\ Unrepeated(env2) /\ contents' = env2.contents
                                   /\ \A t \in Sheet \ {s} : SameSheet(Env, env2, t)
<1>1. PICK env1 \in Environment : env1 = Env /\ Unrepeated(env1)
  OBVIOUS
<1>2. PICK env2 : env2 = [wide |-> env1.wide, contents |-> [env1.contents EXCEPT ![s] = w], condition |-> env1.condition]
  OBVIOUS
<1>3. env2 \in Environment /\ \A t \in Sheet \ {s} : SameSheet(env1, env2, t)
  BY <1>2, EditedSheet
<1>4. env1.wide = wide /\ env1.contents = contents /\ env1.condition = InitialCondition /\ contents \in [Sheet -> Seq(Rule)]
  BY <1>1, RootsEnvParts
<1>5. Env' = env2 /\ contents' = env2.contents
  BY <1>2, <1>4 DEF Env
<1>6. Unrepeated(env2)
  BY <1>1, <1>2, <1>4 DEF Unrepeated
<1>. QED  BY <1>1, <1>3, <1>5, <1>6

\* The two operations do.
LEMMA EditSteps ==
  ASSUME RootsInv, NEW s \in Sheet
  PROVE  /\ \A x \in Rule, i \in 1 .. Len(contents[s]) + 1 : InsertRule(s, x, i) => EditStep(s)
         /\ \A i \in DOMAIN contents[s] : RemoveRule(s, i) => EditStep(s)
<1>0. Env \in Environment /\ Unrepeated(Env)
  BY DEF RootsInv
<1>1. PICK v \in Seq(Rule) : v = contents[s] /\ ToSet(v) \subseteq RulesOf(s) /\ IsInjective(v)
  BY <1>0, RootsEnvParts DEF Unrepeated
<1>2. ASSUME NEW x \in Rule, NEW i \in 1 .. Len(v) + 1, InsertRule(s, x, i)
      PROVE  EditStep(s)
  <2>1. x \in Scripted /\ x \in RulesOf(s) /\ x \notin ToSet(v)
    BY <1>1, <1>2 DEF InsertRule
  <2>2. PICK w : w = InsertAt(v, i, x)
    OBVIOUS
  <2>3. w \in Seq(Rule) /\ ToSet(w) \subseteq RulesOf(s) /\ IsInjective(w)
    BY <1>1, <2>1, <2>2, EditedRules, InjectiveEdits
  <2>4. contents' = [contents EXCEPT ![s] = w] /\ wide' = wide
    BY <1>1, <1>2, <2>2 DEF InsertRule, RuleChanged
  <2>5. \E env2 \in Environment : /\ Env' = env2 /\ Unrepeated(env2) /\ contents' = env2.contents
                                  /\ \A t \in Sheet \ {s} : SameSheet(Env, env2, t)
    BY <1>0, <2>3, <2>4, ContentsEdited
  <2>6. ScriptedSheet(s)
    BY <2>1 DEF ScriptedSheet
  <2>. QED  BY <1>2, <2>5, <2>6 DEF InsertRule, RuleChanged, EditStep
<1>3. ASSUME NEW i \in 1 .. Len(v), RemoveRule(s, i)
      PROVE  EditStep(s)
  <2>1. v[i] \in Scripted /\ v[i] \in RulesOf(s)
    BY <1>1, <1>3 DEF RemoveRule, ToSet
  <2>2. PICK w : w = RemoveAt(v, i)
    OBVIOUS
  <2>3. w \in Seq(Rule) /\ ToSet(w) \subseteq RulesOf(s) /\ IsInjective(w)
    BY <1>1, <2>2, EditedRules, InjectiveEdits
  <2>4. contents' = [contents EXCEPT ![s] = w] /\ wide' = wide
    BY <1>1, <1>3, <2>2 DEF RemoveRule, RuleChanged
  <2>5. \E env2 \in Environment : /\ Env' = env2 /\ Unrepeated(env2) /\ contents' = env2.contents
                                  /\ \A t \in Sheet \ {s} : SameSheet(Env, env2, t)
    BY <1>0, <2>3, <2>4, ContentsEdited
  <2>6. ScriptedSheet(s)
    BY <2>1 DEF ScriptedSheet
  <2>. QED  BY <1>3, <2>5, <2>6 DEF RemoveRule, RuleChanged, EditStep
<1>4. DOMAIN contents[s] = 1 .. Len(v)
  BY <1>1
<1>. QED  BY <1>1, <1>2, <1>3, <1>4

\* A device change: a root is marked if its sheets are affected.
LEMMA DeviceStep ==
  ASSUME RootsInv, SetDevice
  PROVE  \E env2 \in Environment :
           /\ Env' = env2 /\ Unrepeated(env2) /\ env2.contents = Env.contents /\ env2.condition = Env.condition
           /\ contents' = contents
           /\ \A r \in Root :
                \/ styles'[r] = styles[r]
                   /\ \A s \in ToSet(SheetsOf(r)) : MediaFeatureAffectedMatches(env2, entries[styles[r].data], s)
                \/ styles'[r] = [styles[r] EXCEPT !.stylesheets = SetValidityAtLeast(@, FullyInvalid)]
<1>0. PICK env1 \in Environment : env1 = Env /\ Unrepeated(env1)
  BY DEF RootsInv
<1>1. env1.wide = wide /\ env1.contents = contents /\ env1.condition = InitialCondition /\ wide \in BOOLEAN
  BY <1>0, RootsEnvParts
<1>21. (~wide) \in BOOLEAN
  BY <1>1, Flips
<1>2. PICK device \in BOOLEAN : device = (~wide)
  BY <1>21, Zenon
<1>3. PICK env2 : env2 = [wide |-> device, contents |-> env1.contents, condition |-> env1.condition]
  OBVIOUS
<1>4. env2 \in Environment /\ env2.contents = env1.contents /\ env2.condition = env1.condition
  BY <1>3, OtherDevice
<1>5. Env' = env2
  BY <1>1, <1>2, <1>3 DEF SetDevice, Env
<1>6. [Env EXCEPT !.wide = ~wide] = env2
  <2>1. Env = [wide |-> wide, contents |-> contents, condition |-> InitialCondition]
    BY DEF Env
  <2>. QED  BY <1>1, <1>2, <1>3, <2>1
<1>7. Unrepeated(env2)
  BY <1>0, <1>4 DEF Unrepeated
<1>8. \A r \in Root :
        \/ styles'[r] = styles[r]
           /\ \A s \in ToSet(SheetsOf(r)) : MediaFeatureAffectedMatches(env2, entries[styles[r].data], s)
        \/ styles'[r] = [styles[r] EXCEPT !.stylesheets = SetValidityAtLeast(@, FullyInvalid)]
  BY <1>6 DEF SetDevice
<1>. QED  BY <1>0, <1>4, <1>5, <1>7, <1>8 DEF SetDevice

\* A marked collection, in a root.
LEMMA MarkedRoot ==
  ASSUME NEW x \in AuthorStyles, CollectionShape("Root", x.stylesheets),
         NEW y, y = [x EXCEPT !.stylesheets = SetValidityAtLeast(@, FullyInvalid)]
  PROVE  /\ y \in AuthorStyles /\ y.data = x.data /\ y.stylesheets = SetValidityAtLeast(x.stylesheets, FullyInvalid)
         /\ y.stylesheets.dirty = TRUE /\ CollectionShape("Root", y.stylesheets)
<1>1. PICK c \in Collection : c = x.stylesheets
  BY DEF AuthorStyles
<1>2. PICK d : d = SetValidityAtLeast(c, FullyInvalid)
  OBVIOUS
<1>3. d \in Collection /\ d.entries = c.entries /\ d.dirty = TRUE
  <2>1. PICK v \in {Valid, CascadeInvalid, FullyInvalid} : v = FullyInvalid
    OBVIOUS
  <2>. QED  BY <1>2, <2>1, Marked
<1>4. y = [stylesheets |-> d, data |-> x.data]
  BY <1>1, <1>2 DEF AuthorStyles
<1>5. y \in AuthorStyles
  BY <1>3, <1>4 DEF AuthorStyles
<1>6. CollectionShape("Root", d)
  BY <1>1, <1>3 DEF CollectionShape
<1>. QED  BY <1>1, <1>2, <1>3, <1>4, <1>5, <1>6

\* A collection after its flush.
FlushedFrom(c, d) ==
  /\ d \in Collection /\ d.validity = Valid /\ d.dirty = FALSE /\ CollectionShape("Root", d)
  /\ Sheets(d) = Sheets(c) /\ \A i \in DOMAIN d.entries : BuiltAt("Root", d, i)

\* The step of a flush, whichever way it goes: root r gets the data at address a.
FlushStep(r, d, a) ==
  /\ phase = "round" /\ Dirty(r) /\ FlushedFrom(styles[r].stylesheets, d) /\ a \in Address \ {0}
  /\ styles' = [styles EXCEPT ![r] = [stylesheets |-> d, data |-> a]]
  /\ CacheTyped(cache')
  /\ Env' = Env /\ contents' = contents /\ phase' = phase

\* A flushed collection is.
LEMMA FlushedShape ==
  ASSUME NEW c \in Collection, CollectionShape("Root", c), c.dirty, NEW d, d = CommitAll(Flushed(c))
  PROVE  FlushedFrom(c, d)
<1>1. PICK o, hit : o = "Root" /\ hit = TRUE
  OBVIOUS
<1>2. hit \in BOOLEAN /\ CollectionShape(o, c)
        /\ d = IF c.dirty /\ (o = "UserAgent" => hit) THEN CommitAll(Flushed(c)) ELSE Flushed(c)
  BY <1>1
<1>3. /\ d \in Collection /\ d.validity = Valid /\ d.dirty = FALSE /\ CollectionShape(o, d)
      /\ Sheets(d) = Sheets(c) /\ \A i \in DOMAIN d.entries : BuiltAt(o, d, i)
  BY <1>2, CollectionFlushed
<1>. QED  BY <1>1, <1>3 DEF FlushedFrom

\* A hit: the data are those under the key.
LEMMA HitStep ==
  ASSUME RootsInv, NEW r \in Root, FlushHit(r)
  PROVE  LET K == Key(Env, SheetsOf(r))
         IN  /\ K \in DOMAIN cache /\ cache[K] # styles[r].data /\ cache' = cache
             /\ FlushStep(r, HitCollection(r), cache[K])
             /\ entries' = KeepReferenced(entries, styles', cache')
<1>1. PICK K : K = Key(Env, SheetsOf(r))
  OBVIOUS
<1>2. K \in DOMAIN cache /\ cache[K] # styles[r].data /\ cache' = cache
  BY <1>1 DEF FlushHit, Reusable
<1>3. cache[K] \in Address \ {0}
  BY <1>2 DEF RootsInv, CacheTyped
<1>4. styles[r].stylesheets \in Collection /\ CollectionShape("Root", styles[r].stylesheets)
  BY DEF RootsInv, AuthorStyles, ShapesOK
<1>5. FlushedFrom(styles[r].stylesheets, HitCollection(r))
  BY <1>4, FlushedShape DEF HitCollection, FlushHit, Dirty
<1>6. CacheTyped(cache')
  BY <1>2 DEF RootsInv
<1>7. FlushStep(r, HitCollection(r), cache[K])
  BY <1>1, <1>3, <1>5, <1>6 DEF FlushHit, FlushStep, Env
<1>8. entries' = KeepReferenced(entries, styles', cache')
  BY <1>2 DEF FlushHit
<1>. QED  BY <1>1, <1>2, <1>7, <1>8

CacheHas(ca, K, a, c2) ==
  /\ CacheTyped(c2) /\ DOMAIN c2 = DOMAIN ca \cup {K} /\ c2[K] = a
  /\ \A L \in DOMAIN ca : L # K => c2[L] = ca[L]

\* An entry added to the cache.
LEMMA CacheAdded ==
  ASSUME CacheTyped(cache), NEW K, K.contents \in Seq(Sheet), NEW a \in Address \ {0}, NEW c2, c2 = Cache(K, a)
  PROVE  CacheHas(cache, K, a, c2)
BY DEF CacheTyped, Cache, CacheHas

\* A miss: the data are rebuilt, at an address that nothing refers to.
LEMMA MissStep ==
  ASSUME RootsInv, NEW r \in Root, FlushMiss(r)
  PROVE  LET K == Key(Env, SheetsOf(r))
             a == FreshAddress
         IN  /\ a \in Address \ {0} /\ ~InUse(a) /\ ~Cached(a)
             /\ K.contents \in Seq(Sheet) /\ cache' = Cache(K, a)
             /\ FlushStep(r, CommitAll(Flushed(styles[r].stylesheets)), a)
             /\ RebuiltEntry(r) \in CascadeDataType
             /\ entries' = KeepReferenced([entries EXCEPT ![a] = RebuiltEntry(r)], styles', cache')
<1>1. PICK K, a : K = Key(Env, SheetsOf(r)) /\ a = FreshAddress
  OBVIOUS
<1>2. a \in Address \ {0} /\ ~InUse(a) /\ ~Cached(a)
  BY <1>1 DEF FlushMiss, HasFreshAddress, FreshAddress
<1>3. styles[r].stylesheets \in Collection /\ CollectionShape("Root", styles[r].stylesheets) /\ styles[r].data \in Address
  BY DEF RootsInv, AuthorStyles, ShapesOK
<1>4. K.contents \in Seq(Sheet)
  <2>1. PICK env \in Environment, ss \in Seq(Sheet) : env = Env /\ ss = SheetsOf(r)
    BY <1>3, SheetsOfCollection DEF RootsInv, SheetsOf
  <2>2. K = [contents |-> FullKey(env, ss).contents, results |-> FullKey(env, ss).results] /\ FullKey(env, ss) \in KeyType
    BY <1>1, <2>1, KeyTyped
  <2>. QED  BY <2>2, KeyFields
<1>5. cache' = Cache(K, a) /\ CacheTyped(cache')
  <2>1. cache' = Cache(K, a)
    BY <1>1 DEF FlushMiss
  <2>2. CacheTyped(cache)
    BY DEF RootsInv
  <2>. QED  BY <1>2, <1>4, <2>1, <2>2, CacheAdded DEF CacheHas
<1>6. FlushedFrom(styles[r].stylesheets, CommitAll(Flushed(styles[r].stylesheets)))
  BY <1>3, FlushedShape DEF FlushMiss, Dirty
<1>7. FlushStep(r, CommitAll(Flushed(styles[r].stylesheets)), a)
  BY <1>1, <1>2, <1>5, <1>6 DEF FlushMiss, FlushStep, Env
<1>8. RebuiltEntry(r) \in CascadeDataType
  <2>1. PICK data \in CascadeDataType :
          data = IF styles[r].stylesheets.validity = FullyInvalid THEN EmptyData ELSE entries[styles[r].data]
    BY <1>3, DataFields DEF RootsInv
  <2>2. Env \in Environment
    BY DEF RootsInv
  <2>3. RebuiltEntry(r) = Rebuild(Env, data, styles[r].stylesheets)
    BY <2>1 DEF RebuiltEntry
  <2>4. PICK env \in Environment, c \in Collection : env = Env /\ c = styles[r].stylesheets
    BY <1>3, <2>2
  <2>. QED  BY <2>3, <2>4, FlushTyped
<1>9. entries' = KeepReferenced([entries EXCEPT ![a] = RebuiltEntry(r)], styles', cache')
  BY <1>1 DEF FlushMiss
<1>. QED  BY <1>1, <1>2, <1>4, <1>5, <1>7, <1>8, <1>9

\* The invariant holds at first.
LEMMA InitRoots ==
  ASSUME Init
  PROVE  RootsInv
<1>1. PICK c : c = NewCollection
  OBVIOUS
<1>2. c \in Collection /\ c.entries = << >> /\ c.validity = Valid /\ c.dirty = FALSE
  <2>1. << >> \in Seq(Entry) /\ FALSE \in BOOLEAN /\ Valid \in {Valid, CascadeInvalid, FullyInvalid}
    OBVIOUS
  <2>. QED  BY <1>1, <2>1, IsCollection DEF NewCollection
<1>3. CollectionShape("Root", c)
  BY <1>2 DEF CollectionShape
<1>4. 0 \in Address
  BY CascadeDataCacheAssumption DEF Address
<1>5. styles \in [Root -> AuthorStyles] /\ ShapesOK(styles)
  <2>1. PICK x : x = [stylesheets |-> c, data |-> 0]
    OBVIOUS
  <2>2. x \in AuthorStyles /\ CollectionShape("Root", x.stylesheets)
    BY <1>2, <1>3, <1>4, <2>1 DEF AuthorStyles
  <2>3. styles = [r \in Root |-> x]
    BY <1>1, <2>1 DEF Init
  <2>. QED  BY <2>2, <2>3 DEF ShapesOK
<1>6. entries \in [Address -> CascadeDataType]
  BY DataFields DEF Init
<1>7. CacheTyped(cache)
  <2>1. DOMAIN << >> = {}
    OBVIOUS
  <2>. QED  BY <2>1 DEF Init, CacheTyped
<1>. QED  BY <1>5, <1>6, <1>7, RootsInitEnvironment DEF Init, RootsInv

\* And after every step.
LEMMA RootsStep ==
  ASSUME RootsInv, [Next]_vars
  PROVE  RootsInv'
<1>0. /\ Env \in Environment /\ Unrepeated(Env)
      /\ styles \in [Root -> AuthorStyles] /\ ShapesOK(styles)
      /\ entries \in [Address -> CascadeDataType] /\ CacheTyped(cache) /\ phase \in {"idle", "round"}
  BY DEF RootsInv
<1>1. ASSUME NEW r \in Root, NEW d, ListStep(r, d)
      PROVE  RootsInv'
  <2>1. d \in Collection /\ CollectionShape("Root", d)
    BY <1>1 DEF ListStep, Changed
  <2>2. /\ styles' \in [Root -> AuthorStyles] /\ styles'[r].stylesheets = d
        /\ \A q \in Root : q # r => styles'[q] = styles[q]
    BY <1>0, <1>1, <2>1, SetRoot DEF ListStep
  <2>3. ShapesOK(styles')
    BY <1>0, <2>1, <2>2 DEF ShapesOK
  <2>. QED  BY <1>0, <1>1, <2>2, <2>3 DEF ListStep, RootsInv
<1>2. ASSUME NEW r \in Root, NEW d, NEW a, FlushStep(r, d, a), entries' \in [Address -> CascadeDataType]
      PROVE  RootsInv'
  <2>1. d \in Collection /\ CollectionShape("Root", d) /\ a \in Address
    BY <1>2 DEF FlushStep, FlushedFrom
  <2>2. /\ styles' \in [Root -> AuthorStyles] /\ styles'[r].stylesheets = d
        /\ \A q \in Root : q # r => styles'[q] = styles[q]
    BY <1>0, <1>2, <2>1, SetRoot DEF FlushStep
  <2>3. ShapesOK(styles')
    BY <1>0, <2>1, <2>2 DEF ShapesOK
  <2>. QED  BY <1>0, <1>2, <2>2, <2>3 DEF FlushStep, RootsInv
<1>3. ASSUME \A r \in Root : \/ styles'[r] = styles[r]
                             \/ styles'[r] = [styles[r] EXCEPT !.stylesheets = SetValidityAtLeast(@, FullyInvalid)],
             DOMAIN styles' = Root, styles' = [r \in Root |-> styles'[r]]
      PROVE  styles' \in [Root -> AuthorStyles] /\ ShapesOK(styles')
  <2>1. ASSUME NEW r \in Root
        PROVE  styles'[r] \in AuthorStyles /\ CollectionShape("Root", styles'[r].stylesheets)
    <3>1. styles[r] \in AuthorStyles /\ CollectionShape("Root", styles[r].stylesheets)
      BY <1>0 DEF ShapesOK
    <3>2. CASE styles'[r] = styles[r]
      BY <3>1, <3>2
    <3>3. CASE styles'[r] = [styles[r] EXCEPT !.stylesheets = SetValidityAtLeast(@, FullyInvalid)]
      <4>1. PICK y : y = styles'[r]
        OBVIOUS
      <4>2. y \in AuthorStyles /\ CollectionShape("Root", y.stylesheets)
        BY <3>1, <3>3, <4>1, MarkedRoot
      <4>. QED  BY <4>1, <4>2
    <3>. QED  BY <1>3, <3>2, <3>3
  <2>. QED  BY <1>3, <2>1 DEF ShapesOK
<1>4. ASSUME NEW s \in Sheet, EditStep(s)
      PROVE  RootsInv'
  <2>1. styles' \in [Root -> AuthorStyles] /\ ShapesOK(styles')
    BY <1>3, <1>4 DEF EditStep
  <2>. QED  BY <1>0, <1>4, <2>1 DEF EditStep, RootsInv
<1>5. CASE SetDevice
  <2>1. styles' \in [Root -> AuthorStyles] /\ ShapesOK(styles')
    BY <1>3, <1>5, DeviceStep DEF SetDevice
  <2>2. Env' \in Environment /\ Unrepeated(Env')
    BY <1>5, DeviceStep
  <2>. QED  BY <1>0, <1>5, <2>1, <2>2 DEF SetDevice, RootsInv
<1>6. CASE StartRound
  BY <1>0, <1>6 DEF StartRound, RootsInv, Env
<1>7. ASSUME NEW r \in Root, FlushHit(r)
      PROVE  RootsInv'
  <2>1. FlushStep(r, HitCollection(r), cache[Key(Env, SheetsOf(r))]) /\ entries' = KeepReferenced(entries, styles', cache')
    BY <1>7, HitStep
  <2>2. CacheTyped(cache')
    BY <2>1 DEF FlushStep
  <2>3. entries' \in [Address -> CascadeDataType]
    BY <1>0, <2>1, <2>2, DataFields DEF KeepReferenced
  <2>. QED  BY <1>2, <2>1, <2>3
<1>8. ASSUME NEW r \in Root, FlushMiss(r)
      PROVE  RootsInv'
  <2>1. /\ FlushStep(r, CommitAll(Flushed(styles[r].stylesheets)), FreshAddress) /\ FreshAddress \in Address
        /\ RebuiltEntry(r) \in CascadeDataType
        /\ entries' = KeepReferenced([entries EXCEPT ![FreshAddress] = RebuiltEntry(r)], styles', cache')
    BY <1>8, MissStep
  <2>2. [entries EXCEPT ![FreshAddress] = RebuiltEntry(r)] \in [Address -> CascadeDataType]
    BY <1>0, <2>1
  <2>3. entries' \in [Address -> CascadeDataType]
    BY <2>1, <2>2, DataFields DEF KeepReferenced
  <2>. QED  BY <1>2, <2>1, <2>3
<1>9. CASE EndRound
  <2>1. CacheTyped(cache')
    BY <1>0, <1>9 DEF EndRound, TakeUnused, CacheTyped
  <2>2. entries' \in [Address -> CascadeDataType]
    BY <1>0, <1>9, DataFields DEF EndRound, KeepReferenced
  <2>3. styles' = styles /\ Env' = Env /\ phase' \in {"idle", "round"}
    BY <1>9 DEF EndRound, Env
  <2>. QED  BY <1>0, <2>1, <2>2, <2>3 DEF RootsInv
<1>10. CASE UNCHANGED vars
  BY <1>0, <1>10 DEF vars, RootsInv, Env
<1>. QED  BY <1>1, <1>4, <1>5, <1>6, <1>7, <1>8, <1>9, <1>10, ListSteps, EditSteps DEF Next

\* It always holds.
LEMMA RootsInductive == Spec => []RootsInv
BY InitRoots, RootsStep, PTL DEF Spec

\* The state has its type, and the sheets of every root that is not dirty are
\* committed, whether its last flush found data in the cache or built them
\* (CascadeDataCache::lookup goes over the collection either way).
THEOREM CommittedRoots == Spec => []RootsCommitted
<1>1. ASSUME RootsInv
      PROVE  RootsCommitted
  <2>1. TypeOK
    <3>1. wide \in BOOLEAN /\ contents \in [Sheet -> Seq(Rule)]
      BY <1>1, RootsEnvParts DEF RootsInv
    <3>. QED  BY <1>1, <3>1 DEF RootsInv, TypeOK, AuthorStyles, CacheTyped
  <2>2. ASSUME NEW r \in Root, ~Dirty(r), NEW i \in DOMAIN styles[r].stylesheets.entries
        PROVE  styles[r].stylesheets.entries[i].committed
    BY <1>1, <2>2 DEF RootsInv, ShapesOK, CollectionShape, BuiltAt, Dirty
  <2>. QED  BY <2>1, <2>2 DEF RootsCommitted
<1>2. RootsInv => RootsCommitted
  BY <1>1
<1>. QED  BY <1>2, RootsInductive, PTL

-----------------------------------------------------------------------------
(* Data that are shared.                                                    *)
(*                                                                          *)
(* A key tells sheets apart, not what is in them, so an entry can be found  *)
(* that was built before a script edited one of its sheets. It is not used  *)
(* if each sheet that scripts edit belongs to one root: between rounds the  *)
(* cache has only entries in use, one of such a sheet is in use by its      *)
(* owner alone, and an owner that is dirty does not take its own data.      *)

\* A sheet that scripts edit is in the list of its owner and of no other root.
OwnedBy(Owner) ==
  \A s \in Sheet, r \in Root :
    ScriptedSheet(s) /\ HasSheet(styles[r].stylesheets, s) => r = Owner[s]

\* The data are those of some sheets under this key, with these contents.
RightFor(cont, K, data) ==
  \E env \in Environment, ss \in Seq(Sheet) :
    /\ Unrepeated(env) /\ env.condition = InitialCondition
    /\ \A s \in ToSet(K.contents) : env.contents[s] = cont[s]
    /\ Distinct(ss) /\ K = Key(env, ss) /\ FreshData(env, ss, data)

\* A sheet of the key was edited, maybe, and its owner will not take this entry.
EditedIn(Owner, st, ca, K) ==
  \E s \in ToSet(K.contents) :
    ScriptedSheet(s) /\ (ca[K] = st[Owner[s]].data \/ ~st[Owner[s]].stylesheets.dirty)

RootsRight(env, st, en) ==
  \A r \in Root : OriginOK(env, "Root", st[r].stylesheets, en[st[r].data])

EntriesRight(Owner, cont, st, en, ca) ==
  \A K \in DOMAIN ca : RightFor(cont, K, en[ca[K]]) \/ EditedIn(Owner, st, ca, K)

AllInUse(st, ca) == \A K \in DOMAIN ca : \E r \in Root : st[r].data = ca[K]

UsedByOwner(Owner, st, ca) ==
  \A K \in DOMAIN ca : \A s \in ToSet(K.contents), r \in Root :
    ScriptedSheet(s) /\ st[r].data = ca[K] => r = Owner[s]

OneKeyEach(ca) == \A K, L \in DOMAIN ca : ca[K] = ca[L] => K = L

CacheInv(Owner) ==
  /\ RootsRight(Env, styles, entries)
  /\ EntriesRight(Owner, contents, styles, entries, cache)
  /\ phase = "idle" => AllInUse(styles, cache)
  /\ UsedByOwner(Owner, styles, cache)
  /\ OneKeyEach(cache)

\* Between rounds the cache stays right whatever happens to the lists and to
\* the sheets that scripts edit.
LEMMA IdleKeeps ==
  ASSUME NEW Owner, NEW st, NEW st2, NEW en, NEW ca, NEW cont, NEW cont2, CacheTyped(ca),
         EntriesRight(Owner, cont, st, en, ca), AllInUse(st, ca), UsedByOwner(Owner, st, ca),
         \A r \in Root : st2[r].data = st[r].data,
         \A s \in Sheet : ScriptedSheet(s) \/ cont2[s] = cont[s]
  PROVE  EntriesRight(Owner, cont2, st2, en, ca) /\ AllInUse(st2, ca) /\ UsedByOwner(Owner, st2, ca)
<1>1. AllInUse(st2, ca) /\ UsedByOwner(Owner, st2, ca)
  BY DEF AllInUse, UsedByOwner
<1>2. ASSUME NEW K \in DOMAIN ca
      PROVE  RightFor(cont2, K, en[ca[K]]) \/ EditedIn(Owner, st2, ca, K)
  <2>1. ToSet(K.contents) \subseteq Sheet
    BY DEF CacheTyped, ToSet
  <2>2. PICK r \in Root : st[r].data = ca[K]
    BY DEF AllInUse
  <2>3. CASE \E s \in ToSet(K.contents) : ScriptedSheet(s)
    <3>1. PICK s \in ToSet(K.contents) : ScriptedSheet(s)
      BY <2>3
    <3>2. r = Owner[s] /\ st2[r].data = ca[K]
      BY <2>2, <3>1 DEF UsedByOwner
    <3>. QED  BY <3>1, <3>2 DEF EditedIn
  <2>4. CASE \A s \in ToSet(K.contents) : ~ScriptedSheet(s)
    <3>1. RightFor(cont, K, en[ca[K]])
      BY <2>4 DEF EntriesRight, EditedIn
    <3>2. \A s \in ToSet(K.contents) : cont2[s] = cont[s]
      BY <2>1, <2>4
    <3>. QED  BY <3>1, <3>2 DEF RightFor
  <2>. QED  BY <2>3, <2>4
<1>. QED  BY <1>1, <1>2 DEF EntriesRight

\* The invariant after such a change, if the roots are all right.
LEMMA IdleStep ==
  ASSUME RootsInv, NEW Owner, CacheInv(Owner), phase = "idle", phase' \in {"idle", "round"},
         \A r \in Root : styles'[r].data = styles[r].data,
         \A s \in Sheet : ScriptedSheet(s) \/ contents'[s] = contents[s],
         entries' = entries, cache' = cache, RootsRight(Env', styles', entries)
  PROVE  CacheInv(Owner)'
<1>1. CacheTyped(cache)
  BY DEF RootsInv
<1>2. /\ EntriesRight(Owner, contents, styles, entries, cache) /\ AllInUse(styles, cache)
      /\ UsedByOwner(Owner, styles, cache) /\ OneKeyEach(cache)
  BY DEF CacheInv
<1>3. PICK st2, cont2 : st2 = styles' /\ cont2 = contents'
  OBVIOUS
<1>4. EntriesRight(Owner, cont2, st2, entries, cache) /\ AllInUse(st2, cache) /\ UsedByOwner(Owner, st2, cache)
  BY <1>1, <1>2, <1>3, IdleKeeps
<1>. QED  BY <1>2, <1>3, <1>4 DEF CacheInv

\* The list of one root changes.
LEMMA ListKeeps ==
  ASSUME RootsInv, NEW Owner, CacheInv(Owner), NEW r \in Root, NEW d, ListStep(r, d)
  PROVE  CacheInv(Owner)'
<1>1. d \in Collection /\ styles \in [Root -> AuthorStyles]
  BY DEF ListStep, Changed, RootsInv
<1>2. PICK st2 : st2 = styles'
  OBVIOUS
<1>3. /\ st2[r].stylesheets = d /\ st2[r].data = styles[r].data
      /\ \A q \in Root : q # r => st2[q] = styles[q]
  BY <1>1, <1>2, SetRoot DEF ListStep
<1>4. \A q \in Root : OriginOK(Env, "Root", styles[q].stylesheets, entries[styles[q].data])
  BY DEF CacheInv, RootsRight
<1>5. PICK env, c, data : env = Env /\ c = styles[r].stylesheets /\ data = entries[styles[r].data]
  OBVIOUS
<1>6. OriginOK(env, "Root", d, data)
  <2>1. OriginOK(env, "Root", c, data) /\ Changed("Root", c, d)
    BY <1>4, <1>5 DEF ListStep
  <2>. QED  BY <2>1, ListChange
<1>7. RootsRight(Env', styles', entries)
  BY <1>2, <1>3, <1>4, <1>5, <1>6 DEF RootsRight, ListStep
<1>. QED  BY <1>2, <1>3, <1>7, IdleStep DEF ListStep

MarkedFrom(x, y) == y = [x EXCEPT !.stylesheets = SetValidityAtLeast(@, FullyInvalid)]

\* A root is marked.
LEMMA MarkedRight ==
  ASSUME NEW env1, NEW env2, NEW x \in AuthorStyles, NEW data, OriginOK(env1, "Root", x.stylesheets, data),
         NEW y, MarkedFrom(x, y)
  PROVE  OriginOK(env2, "Root", y.stylesheets, data) /\ y.data = x.data
<1>1. y.data = x.data /\ y.stylesheets = SetValidityAtLeast(x.stylesheets, FullyInvalid)
  BY MarkedRoot DEF OriginOK, MarkedFrom
<1>2. PICK c, d : c = x.stylesheets /\ d = y.stylesheets
  OBVIOUS
<1>3. OriginOK(env2, "Root", d, data)
  BY <1>1, <1>2, AllStale
<1>. QED  BY <1>1, <1>2, <1>3

\* A script edits a sheet.
LEMMA EditKeeps ==
  ASSUME NamesAreLocal, RootsInv, NEW Owner, CacheInv(Owner), NEW s \in Sheet, EditStep(s)
  PROVE  CacheInv(Owner)'
<1>1. PICK env1 \in Environment : env1 = Env
  BY DEF RootsInv
<1>2. PICK env2 \in Environment : /\ Env' = env2 /\ contents' = env2.contents
                                  /\ \A t \in Sheet \ {s} : SameSheet(env1, env2, t)
  BY <1>1 DEF EditStep
<1>3. \A t \in Sheet : ScriptedSheet(t) \/ contents'[t] = contents[t]
  <2>1. env1.contents = contents
    BY <1>1, RootsEnvParts
  <2>2. \A t \in Sheet \ {s} : env2.contents[t] = contents[t]
    BY <1>2, <2>1 DEF SameSheet
  <2>3. ScriptedSheet(s)
    BY DEF EditStep
  <2>. QED  BY <1>2, <2>2, <2>3
<1>4. ASSUME NEW r \in Root
      PROVE  /\ OriginOK(env2, "Root", styles'[r].stylesheets, entries[styles'[r].data])
             /\ styles'[r].data = styles[r].data
  <2>1. PICK x, data : x \in AuthorStyles /\ x = styles[r] /\ data = entries[styles[r].data]
    BY DEF RootsInv
  <2>1a. x \in AuthorStyles
    BY <2>1
  <2>2. OriginOK(env1, "Root", x.stylesheets, data)
    BY <1>1, <2>1 DEF CacheInv, RootsRight
  <2>3. CASE HasSheet(styles[r].stylesheets, s)
    <3>1. PICK y : y = styles'[r] /\ MarkedFrom(x, y)
      BY <2>1, <2>3 DEF EditStep, MarkedFrom
    <3>2. OriginOK(env2, "Root", y.stylesheets, data) /\ y.data = x.data
      BY <2>1a, <2>2, <3>1, MarkedRight
    <3>. QED  BY <2>1, <3>1, <3>2
  <2>4. CASE ~HasSheet(styles[r].stylesheets, s)
    <3>1. styles'[r] = x
      BY <2>1, <2>4 DEF EditStep
    <3>2. PICK c : c = x.stylesheets
      OBVIOUS
    <3>3. c \in Collection /\ CollectionShape("Root", c) /\ ~HasSheet(c, s)
      BY <2>1, <2>2, <2>4, <3>2 DEF OriginOK
    <3>4. \A t \in BuiltSheets("Root", c) : t \in Sheet /\ t # s
      BY <3>3, BuiltAreSheets
    <3>5. \A t \in BuiltSheets("Root", c) : SameSheet(env1, env2, t)
      BY <1>2, <3>4
    <3>6. OriginOK(env2, "Root", c, data)
      BY <2>2, <3>2, <3>5, ChangeElsewhere
    <3>. QED  BY <2>1, <3>1, <3>2, <3>6
  <2>. QED  BY <2>3, <2>4
<1>5. RootsRight(Env', styles', entries)
  BY <1>2, <1>4 DEF RootsRight
<1>. QED  BY <1>3, <1>4, <1>5, IdleStep DEF EditStep

\* The device changes.
LEMMA DeviceKeeps ==
  ASSUME NamesAreLocal, RootsInv, NEW Owner, CacheInv(Owner), SetDevice
  PROVE  CacheInv(Owner)'
<1>1. PICK env1 \in Environment : env1 = Env
  BY DEF RootsInv
<1>2. PICK env2 \in Environment :
           /\ Env' = env2 /\ env2.contents = env1.contents /\ env2.condition = env1.condition
           /\ contents' = contents
           /\ \A r \in Root :
                \/ styles'[r] = styles[r]
                   /\ \A s \in ToSet(SheetsOf(r)) : MediaFeatureAffectedMatches(env2, entries[styles[r].data], s)
                \/ styles'[r] = [styles[r] EXCEPT !.stylesheets = SetValidityAtLeast(@, FullyInvalid)]
  BY <1>1, DeviceStep
<1>3. ASSUME NEW r \in Root
      PROVE  /\ OriginOK(env2, "Root", styles'[r].stylesheets, entries[styles'[r].data])
             /\ styles'[r].data = styles[r].data
  <2>1. PICK x, data : x \in AuthorStyles /\ x = styles[r] /\ data = entries[styles[r].data]
    BY DEF RootsInv
  <2>1a. x \in AuthorStyles
    BY <2>1
  <2>2. OriginOK(env1, "Root", x.stylesheets, data)
    BY <1>1, <2>1 DEF CacheInv, RootsRight
  <2>3. CASE styles'[r] = [styles[r] EXCEPT !.stylesheets = SetValidityAtLeast(@, FullyInvalid)]
    <3>1. PICK y : y = styles'[r] /\ MarkedFrom(x, y)
      BY <2>1, <2>3 DEF MarkedFrom
    <3>2. OriginOK(env2, "Root", y.stylesheets, data) /\ y.data = x.data
      BY <2>1a, <2>2, <3>1, MarkedRight
    <3>. QED  BY <2>1, <3>1, <3>2
  <2>4. CASE styles'[r] = styles[r]
               /\ \A s \in ToSet(SheetsOf(r)) : MediaFeatureAffectedMatches(env2, entries[styles[r].data], s)
    <3>1. PICK c : c = x.stylesheets
      OBVIOUS
    <3>2. \A s \in ToSet(Sheets(c)) : MediaFeatureAffectedMatches(env2, data, s)
      BY <2>1, <2>4, <3>1 DEF SheetsOf
    <3>3. OriginOK(env2, "Root", c, data)
      BY <1>2, <2>2, <3>1, <3>2, UnaffectedOrigin
    <3>. QED  BY <2>1, <2>4, <3>1, <3>3
  <2>. QED  BY <1>2, <2>3, <2>4
<1>4. RootsRight(Env', styles', entries)
  BY <1>2, <1>3 DEF RootsRight
<1>. QED  BY <1>2, <1>3, <1>4, IdleStep DEF SetDevice

\* What a flush of root r does to the collection and the data of the roots.
LEMMA FlushedRoots ==
  ASSUME RootsInv, NEW r \in Root, NEW d, NEW a, FlushStep(r, d, a)
  PROVE  /\ styles'[r].stylesheets = d /\ styles'[r].data = a /\ d.dirty = FALSE
         /\ \A q \in Root : q # r => styles'[q] = styles[q]
         /\ styles' \in [Root -> AuthorStyles]
<1>1. d \in Collection /\ a \in Address /\ d.dirty = FALSE /\ styles \in [Root -> AuthorStyles]
  BY DEF FlushStep, FlushedFrom, RootsInv
<1>2. PICK st2 : st2 = styles' /\ st2 = [styles EXCEPT ![r] = [stylesheets |-> d, data |-> a]]
  BY DEF FlushStep
<1>3. /\ st2 \in [Root -> AuthorStyles] /\ st2[r].stylesheets = d /\ st2[r].data = a
      /\ \A q \in Root : q # r => st2[q] = styles[q]
  BY <1>1, <1>2, SetRoot
<1>. QED  BY <1>1, <1>2, <1>3

\* Root r is not dirty any more, and the others are as they were.
OnlyFlushed(r, st, st2) == st2[r].stylesheets.dirty = FALSE /\ \A q \in Root : q # r => st2[q] = st[q]

SameEntry(L, en, ca, e2, c2) == L \in DOMAIN ca /\ c2[L] = ca[L] /\ e2[ca[L]] = en[ca[L]]

\* The other entries of the cache stay right when root r is flushed.
LEMMA OthersKept ==
  ASSUME NEW Owner \in [Sheet -> Root], NEW ca, CacheTyped(ca), NEW cont, NEW st, NEW en,
         EntriesRight(Owner, cont, st, en, ca),
         NEW r \in Root, NEW st2, OnlyFlushed(r, st, st2),
         NEW e2, NEW c2, NEW L, SameEntry(L, en, ca, e2, c2)
  PROVE  RightFor(cont, L, e2[c2[L]]) \/ EditedIn(Owner, st2, c2, L)
<1>0. /\ L \in DOMAIN ca /\ c2[L] = ca[L] /\ e2[ca[L]] = en[ca[L]]
      /\ st2[r].stylesheets.dirty = FALSE /\ \A q \in Root : q # r => st2[q] = st[q]
  BY DEF OnlyFlushed, SameEntry
<1>1. CASE RightFor(cont, L, en[ca[L]])
  BY <1>0, <1>1
<1>2. CASE EditedIn(Owner, st, ca, L)
  <2>1. PICK s \in ToSet(L.contents) :
          ScriptedSheet(s) /\ (ca[L] = st[Owner[s]].data \/ ~st[Owner[s]].stylesheets.dirty)
    BY <1>2 DEF EditedIn
  <2>2. s \in Sheet
    BY <1>0 DEF CacheTyped, ToSet
  <2>3. Owner[s] \in Root
    BY <2>2
  <2>4. CASE Owner[s] = r
    BY <1>0, <2>1, <2>4 DEF EditedIn
  <2>5. CASE Owner[s] # r
    BY <1>0, <2>1, <2>3, <2>5 DEF EditedIn
  <2>. QED  BY <2>4, <2>5
<1>. QED  BY <1>0, <1>1, <1>2 DEF EntriesRight

\* The key of a root has sheets of its list.
LEMMA KeyOfRoot ==
  ASSUME RootsInv, NEW r \in Root
  PROVE  LET K == Key(Env, SheetsOf(r))
         IN  /\ SheetsOf(r) \in Seq(Sheet) /\ Distinct(SheetsOf(r))
             /\ \A s \in ToSet(K.contents) : s \in Sheet /\ HasSheet(styles[r].stylesheets, s)
<1>1. PICK c \in Collection : c = styles[r].stylesheets /\ CollectionShape("Root", c)
  BY DEF RootsInv, AuthorStyles, ShapesOK
<1>2. PICK ss \in Seq(Sheet) : ss = SheetsOf(r) /\ ss = Sheets(c)
  BY <1>1, SheetsOfCollection DEF SheetsOf
<1>3. Distinct(ss)
  BY <1>1, <1>2, SheetsDistinct
<1>4. PICK env \in Environment : env = Env
  BY DEF RootsInv
<1>50. PICK K : K = Key(env, ss)
  OBVIOUS
<1>5. PICK k \in KeyType : K.contents = k.contents /\ KeyFrom(ss, Len(ss), k)
  <2>1. Key(env, ss) = [contents |-> FullKey(env, ss).contents, results |-> FullKey(env, ss).results]
        /\ FullKey(env, ss) \in KeyType /\ KeyFrom(ss, Len(ss), FullKey(env, ss))
    BY KeyTyped
  <2>. QED  BY <1>50, <2>1
<1>6. ASSUME NEW s \in ToSet(K.contents)
      PROVE  s \in Sheet /\ HasSheet(c, s)
  <2>1. PICK b \in Seq(Sheet) : b = K.contents
    BY <1>5, KeyFields
  <2>2. PICK j \in 1 .. Len(b) : b[j] = s
    BY <1>6, <2>1 DEF ToSet
  <2>3. PICK l \in 1 .. Len(ss) : s = ss[l]
    BY <1>5, <2>1, <2>2 DEF KeyFrom
  <2>. QED  BY <1>2, <2>3 DEF HasSheet, ToSet
<1>. QED  BY <1>1, <1>2, <1>3, <1>4, <1>50, <1>6

\* Data that are right under the key of a root are those of its sheets.
LEMMA RightIsFresh ==
  ASSUME NamesAreLocal, RootsInv, NEW r \in Root, NEW K, K = Key(Env, SheetsOf(r)),
         NEW data, RightFor(contents, K, data)
  PROVE  FreshData(Env, SheetsOf(r), data)
<1>1. PICK env2 \in Environment : env2 = Env /\ Unrepeated(env2)
  BY DEF RootsInv
<1>2. env2.contents = contents /\ env2.condition = InitialCondition
  BY <1>1, RootsEnvParts
<1>3. PICK ss2 \in Seq(Sheet) : ss2 = SheetsOf(r) /\ Distinct(ss2)
  BY KeyOfRoot
<1>4. PICK env1 \in Environment, ss1 \in Seq(Sheet) :
        /\ Unrepeated(env1) /\ env1.condition = InitialCondition
        /\ \A s \in ToSet(K.contents) : env1.contents[s] = contents[s]
        /\ Distinct(ss1) /\ K = Key(env1, ss1) /\ FreshData(env1, ss1, data)
  BY DEF RightFor
<1>5. AgreeOn(env1, env2, K)
  BY <1>2, <1>4 DEF AgreeOn
<1>6. K = Key(env2, ss2) /\ env1.condition = env2.condition
  BY <1>1, <1>2, <1>3, <1>4
<1>7. FreshData(env2, ss2, data)
  BY <1>1, <1>3, <1>4, <1>5, <1>6, KeyDeterminesData
<1>. QED  BY <1>1, <1>3, <1>7

\* Data that are fresh make the flushed root right.
LEMMA FreshFlushed ==
  ASSUME NEW env, NEW c, NEW d, FlushedFrom(c, d), NEW data, FreshData(env, Sheets(c), data)
  PROVE  OriginOK(env, "Root", d, data)
<1>1. PICK o : o = "Root"
  OBVIOUS
<1>2. d \in Collection /\ CollectionShape(o, d) /\ \A i \in DOMAIN d.entries : BuiltAt(o, d, i)
  BY <1>1 DEF FlushedFrom
<1>3. FreshData(env, Sheets(d), data)
  BY DEF FlushedFrom
<1>4. DataSound(env, o, d, data)
  BY <1>2, <1>3, FreshIsSound
<1>5. data \in CascadeDataType
  BY DEF FreshData
<1>. QED  BY <1>1, <1>2, <1>4, <1>5 DEF OriginOK

\* A flush that finds data in the cache.
LEMMA HitKeeps ==
  ASSUME NamesAreLocal, RootsInv, NEW Owner \in [Sheet -> Root], OwnedBy(Owner), CacheInv(Owner),
         NEW r \in Root, FlushHit(r)
  PROVE  CacheInv(Owner)'
<1>1. PICK K : K = Key(Env, SheetsOf(r))
  OBVIOUS
<1>2. PICK d, a : d = HitCollection(r) /\ a = cache[K]
  OBVIOUS
<1>3. /\ K \in DOMAIN cache /\ a # styles[r].data /\ cache' = cache /\ FlushStep(r, d, a)
      /\ entries' = KeepReferenced(entries, styles', cache')
  BY <1>1, <1>2, HitStep
<1>4. PICK st2, e2 : st2 = styles' /\ e2 = entries'
  OBVIOUS
<1>5. /\ st2[r].stylesheets = d /\ st2[r].data = a /\ d.dirty = FALSE
      /\ \A q \in Root : q # r => st2[q] = styles[q]
      /\ st2 \in [Root -> AuthorStyles]
  BY <1>3, <1>4, FlushedRoots
<1>6. entries \in [Address -> CascadeDataType] /\ CacheTyped(cache) /\ styles \in [Root -> AuthorStyles]
  BY DEF RootsInv
<1>7. /\ \A q \in Root : e2[st2[q].data] = entries[st2[q].data]
      /\ \A L \in DOMAIN cache : e2[cache[L]] = entries[cache[L]]
  BY <1>3, <1>4, <1>5, <1>6, KeptEntries
<1>8. /\ EntriesRight(Owner, contents, styles, entries, cache) /\ UsedByOwner(Owner, styles, cache)
      /\ OneKeyEach(cache) /\ RootsRight(Env, styles, entries)
  BY DEF CacheInv
<1>9. \A s \in ToSet(K.contents) : s \in Sheet /\ (ScriptedSheet(s) => r = Owner[s])
  BY <1>1, KeyOfRoot DEF OwnedBy
<1>10. RightFor(contents, K, entries[a])
  <2>1. styles[r].stylesheets.dirty
    BY <1>3 DEF FlushStep, Dirty
  <2>2. ~EditedIn(Owner, styles, cache, K)
    BY <1>2, <1>3, <1>9, <2>1 DEF EditedIn
  <2>. QED  BY <1>2, <1>3, <1>8, <2>2 DEF EntriesRight
<1>11. OriginOK(Env, "Root", d, entries[a])
  <2>1. FreshData(Env, SheetsOf(r), entries[a])
    BY <1>1, <1>10, RightIsFresh
  <2>2. PICK env, data, c : env = Env /\ data = entries[a] /\ c = styles[r].stylesheets
    OBVIOUS
  <2>3. FlushedFrom(c, d) /\ FreshData(env, Sheets(c), data)
    BY <1>3, <2>1, <2>2 DEF FlushStep, SheetsOf
  <2>4. OriginOK(env, "Root", d, data)
    BY <2>3, FreshFlushed
  <2>. QED  BY <2>2, <2>4
<1>12. RootsRight(Env, st2, e2)
  BY <1>5, <1>7, <1>8, <1>11 DEF RootsRight
<1>13. EntriesRight(Owner, contents, st2, e2, cache)
  <2>1. ASSUME NEW L \in DOMAIN cache
        PROVE  RightFor(contents, L, e2[cache[L]]) \/ EditedIn(Owner, st2, cache, L)
    <3>1. PICK c2 : c2 = cache /\ c2[L] = cache[L]
      OBVIOUS
    <3>2. OnlyFlushed(r, styles, st2) /\ SameEntry(L, entries, cache, e2, c2)
      BY <1>5, <1>7, <3>1 DEF OnlyFlushed, SameEntry
    <3>3. RightFor(contents, L, e2[c2[L]]) \/ EditedIn(Owner, st2, c2, L)
      BY <1>6, <1>8, <3>2, OthersKept
    <3>. QED  BY <3>1, <3>3
  <2>. QED  BY <2>1 DEF EntriesRight
<1>14. UsedByOwner(Owner, st2, cache)
  <2>1. ASSUME NEW L \in DOMAIN cache, NEW s \in ToSet(L.contents), NEW q \in Root, ScriptedSheet(s), st2[q].data = cache[L]
        PROVE  q = Owner[s]
    <3>1. CASE q = r
      <4>1. L = K
        BY <1>2, <1>3, <1>5, <1>8, <2>1, <3>1 DEF OneKeyEach
      <4>. QED  BY <1>9, <2>1, <3>1, <4>1
    <3>2. CASE q # r
      BY <1>5, <1>8, <2>1, <3>2 DEF UsedByOwner
    <3>. QED  BY <3>1, <3>2
  <2>. QED  BY <2>1 DEF UsedByOwner
<1>15. Env' = Env /\ contents' = contents /\ phase' = "round" /\ cache' = cache
  BY <1>3 DEF FlushStep
<1>. QED  BY <1>4, <1>8, <1>12, <1>13, <1>14, <1>15 DEF CacheInv

\* A flush that builds, and puts the data in the cache.
LEMMA MissKeeps ==
  ASSUME NamesAreLocal, RootsInv, NEW Owner \in [Sheet -> Root], OwnedBy(Owner), CacheInv(Owner),
         NEW r \in Root, FlushMiss(r)
  PROVE  CacheInv(Owner)'
<1>1. PICK K, a, d : K = Key(Env, SheetsOf(r)) /\ a = FreshAddress /\ d = CommitAll(Flushed(styles[r].stylesheets))
  OBVIOUS
<1>2. PICK y, e1 : y = RebuiltEntry(r) /\ e1 = [entries EXCEPT ![a] = y]
  OBVIOUS
<1>3. PICK st2, e2, c2 : st2 = styles' /\ e2 = entries' /\ c2 = cache'
  OBVIOUS
<1>4. /\ a \in Address \ {0} /\ ~InUse(a) /\ ~Cached(a)
      /\ K.contents \in Seq(Sheet) /\ c2 = Cache(K, a) /\ FlushStep(r, d, a)
      /\ y \in CascadeDataType /\ e2 = KeepReferenced(e1, st2, c2)
  BY <1>1, <1>2, <1>3, MissStep
<1>5. /\ st2[r].stylesheets = d /\ st2[r].data = a /\ d.dirty = FALSE
      /\ \A q \in Root : q # r => st2[q] = styles[q]
      /\ st2 \in [Root -> AuthorStyles]
  BY <1>3, <1>4, FlushedRoots
<1>6. entries \in [Address -> CascadeDataType] /\ CacheTyped(cache) /\ styles \in [Root -> AuthorStyles]
  BY DEF RootsInv
<1>7. /\ CacheTyped(c2) /\ DOMAIN c2 = DOMAIN cache \cup {K} /\ c2[K] = a
      /\ \A L \in DOMAIN cache : L # K => c2[L] = cache[L]
  <2>1. CacheHas(cache, K, a, c2)
    BY <1>4, <1>6, CacheAdded
  <2>. QED  BY <2>1 DEF CacheHas
<1>8. e1 \in [Address -> CascadeDataType] /\ e1[a] = y /\ \A b \in Address : b # a => e1[b] = entries[b]
  BY <1>2, <1>4, <1>6
<1>9. /\ \A q \in Root : st2[q].data \in Address /\ e2[st2[q].data] = e1[st2[q].data]
      /\ \A L \in DOMAIN c2 : c2[L] \in Address /\ e2[c2[L]] = e1[c2[L]]
  BY <1>4, <1>5, <1>7, <1>8, KeptEntries
<1>10. /\ \A q \in Root : styles[q].data # a
       /\ \A L \in DOMAIN cache : cache[L] # a
  BY <1>4 DEF InUse, Cached
<1>11. /\ EntriesRight(Owner, contents, styles, entries, cache) /\ UsedByOwner(Owner, styles, cache)
       /\ OneKeyEach(cache) /\ RootsRight(Env, styles, entries)
  BY DEF CacheInv
<1>12. OriginOK(Env, "Root", d, y)
  <2>1. PICK env, c, data : env = Env /\ c = styles[r].stylesheets
                            /\ data = IF c.validity = FullyInvalid THEN EmptyData ELSE entries[styles[r].data]
    OBVIOUS
  <2>2. PICK o, hit : o = "Root" /\ hit = TRUE /\ hit \in BOOLEAN
    OBVIOUS
  <2>3. env \in Environment
    BY <2>1 DEF RootsInv
  <2>4. OriginOK(env, "Root", c, entries[styles[r].data])
    BY <1>11, <2>1 DEF RootsRight
  <2>5. OriginOK(env, o, c, data)
    <3>1. CASE c.validity = FullyInvalid
      <4>1. data \in CascadeDataType
        BY <2>1, <3>1, DataFields
      <4>. QED  BY <2>2, <2>4, <3>1, <4>1 DEF OriginOK, IsKept
    <3>2. CASE c.validity # FullyInvalid
      BY <2>1, <2>2, <2>4, <3>2
    <3>. QED  BY <3>1, <3>2
  <2>6. d = IF c.dirty /\ (o = "UserAgent" => hit) THEN CommitAll(Flushed(c)) ELSE Flushed(c)
    BY <1>1, <1>4, <2>1, <2>2 DEF FlushStep, Dirty
  <2>7. y = IF o = "UserAgent" /\ c.dirty THEN Build(env, Sheets(c)) ELSE Rebuild(env, data, c)
    BY <1>2, <2>1, <2>2 DEF RebuiltEntry
  <2>8. OriginOK(env, o, d, y)
    BY <2>3, <2>5, <2>6, <2>7, FlushedOrigin
  <2>. QED  BY <2>1, <2>2, <2>8
<1>13. RightFor(contents, K, y)
  <2>1. PICK env \in Environment, ss \in Seq(Sheet) :
          env = Env /\ ss = SheetsOf(r) /\ Unrepeated(env) /\ Distinct(ss)
    BY KeyOfRoot DEF RootsInv
  <2>2. env.condition = InitialCondition /\ env.contents = contents
    BY <2>1, RootsEnvParts
  <2>3. FreshData(env, Sheets(d), y)
    BY <1>5, <1>12, <2>1, CleanIsFresh
  <2>4. Sheets(d) = ss
    BY <1>4, <2>1 DEF FlushStep, FlushedFrom, SheetsOf
  <2>. QED  BY <1>1, <2>1, <2>2, <2>3, <2>4 DEF RightFor
<1>14. RootsRight(Env, st2, e2)
  <2>1. ASSUME NEW q \in Root
        PROVE  OriginOK(Env, "Root", st2[q].stylesheets, e2[st2[q].data])
    <3>1. CASE q = r
      BY <1>5, <1>8, <1>9, <1>12, <3>1
    <3>2. CASE q # r
      <4>1. st2[q] = styles[q] /\ styles[q].data # a /\ st2[q].data \in Address
        BY <1>5, <1>9, <1>10, <3>2
      <4>2. e2[st2[q].data] = entries[styles[q].data]
        BY <1>8, <1>9, <4>1
      <4>. QED  BY <1>11, <4>1, <4>2 DEF RootsRight
    <3>. QED  BY <3>1, <3>2
  <2>. QED  BY <2>1 DEF RootsRight
<1>15. EntriesRight(Owner, contents, st2, e2, c2)
  <2>1. ASSUME NEW L \in DOMAIN c2
        PROVE  RightFor(contents, L, e2[c2[L]]) \/ EditedIn(Owner, st2, c2, L)
    <3>1. CASE L = K
      BY <1>7, <1>8, <1>9, <1>13, <3>1
    <3>2. CASE L # K
      <4>1. L \in DOMAIN cache /\ c2[L] = cache[L] /\ cache[L] # a /\ c2[L] \in Address
        BY <1>7, <1>9, <1>10, <3>2
      <4>2. e2[cache[L]] = entries[cache[L]]
        BY <1>8, <1>9, <4>1
      <4>3. OnlyFlushed(r, styles, st2) /\ SameEntry(L, entries, cache, e2, c2)
        BY <1>5, <4>1, <4>2 DEF OnlyFlushed, SameEntry
      <4>. QED  BY <1>6, <1>11, <4>3, OthersKept
    <3>. QED  BY <3>1, <3>2
  <2>. QED  BY <2>1 DEF EntriesRight
<1>16. UsedByOwner(Owner, st2, c2)
  <2>1. ASSUME NEW L \in DOMAIN c2, NEW s \in ToSet(L.contents), NEW q \in Root, ScriptedSheet(s), st2[q].data = c2[L]
        PROVE  q = Owner[s]
    <3>1. CASE L = K
      <4>1. q = r
        BY <1>5, <1>7, <1>10, <2>1, <3>1
      <4>2. s \in Sheet /\ HasSheet(styles[r].stylesheets, s)
        BY <1>1, <2>1, <3>1, KeyOfRoot
      <4>. QED  BY <2>1, <4>1, <4>2 DEF OwnedBy
    <3>2. CASE L # K
      <4>1. L \in DOMAIN cache /\ c2[L] = cache[L] /\ cache[L] # a
        BY <1>7, <1>10, <3>2
      <4>2. st2[q] = styles[q]
        BY <1>5, <2>1, <4>1
      <4>. QED  BY <1>11, <2>1, <4>1, <4>2 DEF UsedByOwner
    <3>. QED  BY <3>1, <3>2
  <2>. QED  BY <2>1 DEF UsedByOwner
<1>17. OneKeyEach(c2)
  BY <1>7, <1>10, <1>11 DEF OneKeyEach
<1>18. Env' = Env /\ contents' = contents /\ phase' = "round"
  BY <1>4 DEF FlushStep
<1>. QED  BY <1>3, <1>14, <1>15, <1>16, <1>17, <1>18 DEF CacheInv

\* The round ends, and the cache keeps the entries in use.
LEMMA EndKeeps ==
  ASSUME RootsInv, NEW Owner, CacheInv(Owner), EndRound
  PROVE  CacheInv(Owner)'
<1>1. PICK e2, c2 : e2 = entries' /\ c2 = cache'
  OBVIOUS
<1>2. /\ entries \in [Address -> CascadeDataType] /\ CacheTyped(cache) /\ styles \in [Root -> AuthorStyles]
  BY DEF RootsInv
<1>3. /\ DOMAIN c2 \subseteq DOMAIN cache /\ \A K \in DOMAIN c2 : c2[K] = cache[K] /\ InUse(c2[K])
      /\ e2 = KeepReferenced(entries, styles, c2)
  BY <1>1 DEF EndRound, TakeUnused
<1>4. CacheTyped(c2)
  BY <1>2, <1>3 DEF CacheTyped
<1>5. /\ \A r \in Root : e2[styles[r].data] = entries[styles[r].data]
      /\ \A K \in DOMAIN c2 : e2[c2[K]] = entries[c2[K]]
  BY <1>2, <1>3, <1>4, KeptEntries
<1>6. /\ EntriesRight(Owner, contents, styles, entries, cache) /\ UsedByOwner(Owner, styles, cache)
      /\ OneKeyEach(cache) /\ RootsRight(Env, styles, entries)
  BY DEF CacheInv
<1>7. RootsRight(Env, styles, e2)
  BY <1>5, <1>6 DEF RootsRight
<1>8. EntriesRight(Owner, contents, styles, e2, c2)
  BY <1>3, <1>5, <1>6 DEF EntriesRight, EditedIn
<1>9. AllInUse(styles, c2)
  BY <1>3 DEF AllInUse, InUse
<1>10. UsedByOwner(Owner, styles, c2) /\ OneKeyEach(c2)
  BY <1>3, <1>6 DEF UsedByOwner, OneKeyEach
<1>11. Env' = Env /\ contents' = contents /\ styles' = styles
  BY DEF EndRound, Env
<1>. QED  BY <1>1, <1>7, <1>8, <1>9, <1>10, <1>11 DEF CacheInv

\* The invariant holds at first: the cache is empty.
LEMMA CacheInit ==
  ASSUME NamesAreLocal, NEW Owner, Init
  PROVE  CacheInv(Owner)
<1>1. PICK env \in Environment : env = Env
  BY RootsInitEnvironment
<1>2. OriginOK(env, "Root", NewCollection, EmptyData)
  BY NoSheets
<1>3. \A r \in Root : styles[r].stylesheets = NewCollection /\ entries[styles[r].data] = EmptyData
  BY CascadeDataCacheAssumption DEF Init, Address
<1>4. DOMAIN cache = {}
  BY DEF Init
<1>. QED  BY <1>1, <1>2, <1>3, <1>4 DEF CacheInv, RootsRight, EntriesRight, AllInUse, UsedByOwner, OneKeyEach

\* And after every step.
LEMMA CacheStep ==
  ASSUME NamesAreLocal, RootsInv, NEW Owner \in [Sheet -> Root], OwnedBy(Owner), CacheInv(Owner), [Next]_vars
  PROVE  CacheInv(Owner)'
<1>1. CASE \E r \in Root, s \in Sheet :
             \/ AppendStylesheet(r, s)
             \/ RemoveStylesheet(r, s)
             \/ \E before \in Sheet : InsertStylesheetBefore(r, s, before)
  <2>1. PICK r \in Root : \E d : ListStep(r, d)
    BY <1>1, ListSteps
  <2>2. PICK d : ListStep(r, d)
    BY <2>1
  <2>. QED  BY <2>2, ListKeeps
<1>2. CASE \E s \in Sheet :
             \/ \E i \in DOMAIN contents[s] : RemoveRule(s, i)
             \/ \E x \in Rule, i \in 1 .. Len(contents[s]) + 1 : InsertRule(s, x, i)
  BY <1>2, EditSteps, EditKeeps
<1>3. CASE SetDevice
  BY <1>3, DeviceKeeps
<1>4. CASE StartRound
  <2>1. RootsRight(Env', styles', entries)
    BY <1>4 DEF CacheInv, StartRound, Env
  <2>. QED  BY <1>4, <2>1, IdleStep DEF StartRound
<1>5. CASE \E r \in Root : FlushHit(r) \/ FlushMiss(r)
  BY <1>5, HitKeeps, MissKeeps
<1>6. CASE EndRound
  BY <1>6, EndKeeps
<1>7. CASE UNCHANGED vars
  BY <1>7 DEF vars, CacheInv, Env
<1>. QED  BY <1>1, <1>2, <1>3, <1>4, <1>5, <1>6, <1>7 DEF Next

\* It always holds while the sheets that scripts edit have one owner.
LEMMA CacheInductive ==
  ASSUME NamesAreLocal, NEW Owner \in [Sheet -> Root]
  PROVE  Spec /\ []OwnedBy(Owner) => []CacheInv(Owner)
<1>1. Init => CacheInv(Owner)
  BY CacheInit
<1>2. RootsInv /\ OwnedBy(Owner) /\ CacheInv(Owner) /\ [Next]_vars => CacheInv(Owner)'
  BY CacheStep
<1>3. Spec => []RootsInv
  BY RootsInductive
<1>. QED  BY <1>1, <1>2, <1>3, PTL DEF Spec

\* What that says of a root that is not dirty.
LEMMA CleanRoot ==
  ASSUME NamesAreLocal, RootsInv, NEW Owner, CacheInv(Owner), NEW r \in Root, ~Dirty(r)
  PROVE  LET data == entries[styles[r].data]
             ss   == SheetsOf(r)
         IN  /\ data.rules = Build(Env, ss).rules /\ data.effective = Build(Env, ss).effective
             /\ ToSet(data.rules) \subseteq data.selectors
<1>1. PICK env \in Environment : env = Env
  BY DEF RootsInv
<1>2. PICK ss, data : ss \in Seq(Sheet) /\ ss = SheetsOf(r) /\ Distinct(ss) /\ data = entries[styles[r].data]
  BY KeyOfRoot
<1>3. FreshData(env, ss, data)
  <2>1. PICK c : c = styles[r].stylesheets
    OBVIOUS
  <2>2. OriginOK(env, "Root", c, data) /\ ~c.dirty
    BY <1>1, <1>2, <2>1 DEF CacheInv, RootsRight, Dirty
  <2>3. FreshData(env, Sheets(c), data)
    BY <2>2, CleanIsFresh
  <2>. QED  BY <1>2, <2>1, <2>3 DEF SheetsOf
<1>4. /\ FreshData(env, ss, Build(env, ss))
      /\ ToSet(Build(env, ss).rules) \subseteq UNION {Cascading(env, ss[j]) : j \in 1 .. Len(ss)}
  BY <1>2, BuildIsFresh
<1>5. data.rules = Build(env, ss).rules /\ data.effective = Build(env, ss).effective
  BY <1>3, <1>4 DEF FreshData, SameCascade
<1>6. UNION {Cascading(env, ss[j]) : j \in 1 .. Len(ss)} \subseteq data.selectors
  BY <1>3 DEF FreshData
<1>. QED  BY <1>1, <1>2, <1>4, <1>5, <1>6

\* A root that is not dirty has the rules that a build from nothing gives,
\* whatever the cache shared (GenericAuthorStyles::flush), if names of custom
\* media queries are local to sheets and a sheet that scripts edit belongs to
\* one root.
THEOREM SharedDataUpToDate ==
  ASSUME NamesAreLocal, NEW Owner \in [Sheet -> Root]
  PROVE  Spec /\ []OwnedBy(Owner) => []RootsUpToDate
<1>1. RootsInv /\ CacheInv(Owner) => RootsUpToDate
  BY CleanRoot DEF RootsUpToDate
<1>2. Spec => []RootsInv
  BY RootsInductive
<1>3. Spec /\ []OwnedBy(Owner) => []CacheInv(Owner)
  BY CacheInductive
<1>. QED  BY <1>1, <1>2, <1>3, PTL

\* And the invalidation data it has, its own or another root's, cover those
\* rules and record what was effective.
THEOREM SharedInvalidationDataComplete ==
  ASSUME NamesAreLocal, NEW Owner \in [Sheet -> Root]
  PROVE  Spec /\ []OwnedBy(Owner) => []RootsInvalidationDataComplete
<1>1. RootsInv /\ CacheInv(Owner) => RootsInvalidationDataComplete
  BY CleanRoot DEF RootsInvalidationDataComplete
<1>2. Spec => []RootsInv
  BY RootsInductive
<1>3. Spec /\ []OwnedBy(Owner) => []CacheInv(Owner)
  BY CacheInductive
<1>. QED  BY <1>1, <1>2, <1>3, PTL

=============================================================================
