--------------------------- MODULE StylistProofs ---------------------------
(***************************************************************************)
(* That a flush brings the cascade data of a document up to date, however  *)
(* many sheets there are: the changes of Stylist, in terms of what they do *)
(* to an environment and to the collections (CascadeDataProofs).           *)
(***************************************************************************)
EXTENDS Stylist, CascadeDataProofs

-----------------------------------------------------------------------------
(* The invariant.                                                            *)

\* The sheets of the collection of an origin are of that origin.
OfOrigin(o, coll) == \A s : HasSheet(coll, s) => OriginOf[s] = o

StylistInv ==
  /\ Env \in Environment
  /\ collections \in [Origin -> Collection] /\ cascade \in [Origin -> CascadeDataType]
  /\ \A o \in Origin : OriginOK(Env, o, collections[o], cascade[o])

\* The environment, by its parts.
LEMMA EnvParts ==
  ASSUME Env \in Environment
  PROVE  /\ Env.wide = wide /\ Env.contents = contents /\ Env.condition = condition
         /\ wide \in BOOLEAN /\ contents \in [Sheet -> Seq(Rule)] /\ condition \in [Rule -> Condition]
         /\ \A s \in Sheet : ToSet(contents[s]) \subseteq RulesOf(s) /\ RulesOf(s) \subseteq Rule
<1>1. Env.wide = wide /\ Env.contents = contents /\ Env.condition = condition
  BY DEF Env
<1>2. /\ wide \in BOOLEAN /\ contents \in [Sheet -> Seq(Rule)] /\ condition \in [Rule -> Condition]
      /\ \A s \in Sheet : ToSet(contents[s]) \subseteq RulesOf(s)
  BY <1>1 DEF Environment
<1>3. \A s \in Sheet : RulesOf(s) \subseteq Rule
  BY CascadeDataAssumption DEF RulesOf, ToSet
<1>. QED  BY <1>1, <1>2, <1>3

\* A change of sheet s that is reported makes the data of its origin stale,
\* and leaves the other sheets as they are.
RuleEdited(s) ==
  /\ \E env2 \in Environment : Env' = env2 /\ \A t \in Sheet \ {s} : SameSheet(Env, env2, t)
  /\ collections' = [collections EXCEPT ![OriginOf[s]] = SetValidityAtLeast(collections[OriginOf[s]], FullyInvalid)]
  /\ cascade' = cascade /\ flushed' = flushed

\* The three changes do that.
LEMMA InsertRuleEdits ==
  ASSUME Env \in Environment, NEW s \in Sheet, NEW r \in Rule, NEW i \in 1 .. Len(contents[s]) + 1,
         InsertRule(s, r, i)
  PROVE  RuleEdited(s)
<1>1. PICK w : w = InsertAt(contents[s], i, r)
  OBVIOUS
<1>2. r \in RulesOf(s)
  BY DEF InsertRule
<1>3. w \in Seq(Rule) /\ ToSet(w) \subseteq RulesOf(s)
  BY <1>1, <1>2, EnvParts, EditedRules
<1>4. PICK env1 \in Environment : env1 = Env
  OBVIOUS
<1>5. PICK env2 : env2 = [wide |-> env1.wide, contents |-> [env1.contents EXCEPT ![s] = w], condition |-> env1.condition]
  OBVIOUS
<1>6. env2 \in Environment /\ \A t \in Sheet \ {s} : SameSheet(Env, env2, t)
  BY <1>3, <1>4, <1>5, EditedSheet
<1>7. /\ contents' = [contents EXCEPT ![s] = w] /\ condition' = condition /\ wide' = wide /\ cascade' = cascade
      /\ flushed' = flushed
      /\ collections' = [collections EXCEPT ![OriginOf[s]] = SetValidityAtLeast(collections[OriginOf[s]], FullyInvalid)]
  BY <1>1 DEF InsertRule, RuleChanged, SetCollection
<1>8. Env' = env2
  BY <1>4, <1>5, <1>7 DEF Env
<1>. QED  BY <1>6, <1>7, <1>8 DEF RuleEdited

LEMMA RemoveRuleEdits ==
  ASSUME Env \in Environment, NEW s \in Sheet, NEW i \in DOMAIN contents[s], RemoveRule(s, i)
  PROVE  RuleEdited(s)
<1>1. PICK w : w = RemoveAt(contents[s], i)
  OBVIOUS
<1>2. i \in 1 .. Len(contents[s])
  BY EnvParts
<1>3. w \in Seq(Rule) /\ ToSet(w) \subseteq RulesOf(s)
  BY <1>1, <1>2, EnvParts, EditedRules
<1>4. PICK env1 \in Environment : env1 = Env
  OBVIOUS
<1>5. PICK env2 : env2 = [wide |-> env1.wide, contents |-> [env1.contents EXCEPT ![s] = w], condition |-> env1.condition]
  OBVIOUS
<1>6. env2 \in Environment /\ \A t \in Sheet \ {s} : SameSheet(Env, env2, t)
  BY <1>3, <1>4, <1>5, EditedSheet
<1>7. /\ contents' = [contents EXCEPT ![s] = w] /\ condition' = condition /\ wide' = wide /\ cascade' = cascade
      /\ flushed' = flushed
      /\ collections' = [collections EXCEPT ![OriginOf[s]] = SetValidityAtLeast(collections[OriginOf[s]], FullyInvalid)]
  BY <1>1 DEF RemoveRule, RuleChanged, SetCollection
<1>8. Env' = env2
  BY <1>4, <1>5, <1>7 DEF Env
<1>. QED  BY <1>6, <1>7, <1>8 DEF RuleEdited

LEMMA ChangeMediaEdits ==
  ASSUME Env \in Environment, NEW s \in Sheet, NEW r \in Rule, NEW cond \in BaseCondition,
         ChangeMedia(s, r, cond)
  PROVE  RuleEdited(s)
<1>1. r \in RulesOf(s)
  BY EnvParts DEF ChangeMedia
<1>2. PICK env1 \in Environment : env1 = Env
  OBVIOUS
<1>3. PICK env2 : env2 = [wide |-> env1.wide, contents |-> env1.contents, condition |-> [env1.condition EXCEPT ![r] = cond]]
  OBVIOUS
<1>4. env2 \in Environment /\ \A t \in Sheet \ {s} : SameSheet(Env, env2, t)
  BY <1>1, <1>2, <1>3, EditedBlock
<1>5. /\ contents' = contents /\ condition' = [condition EXCEPT ![r] = cond] /\ wide' = wide /\ cascade' = cascade
      /\ flushed' = flushed
      /\ collections' = [collections EXCEPT ![OriginOf[s]] = SetValidityAtLeast(collections[OriginOf[s]], FullyInvalid)]
  BY DEF ChangeMedia, RuleChanged, SetCollection
<1>6. Env' = env2
  BY <1>2, <1>3, <1>5 DEF Env
<1>. QED  BY <1>4, <1>5, <1>6 DEF RuleEdited

\* What the check of the media features sees.
LEMMA DeviceSeen ==
  ASSUME Env \in Environment, NEW device \in BOOLEAN
  PROVE  /\ EnvOn(device) \in Environment
         /\ EnvOn(device) = [wide |-> device, contents |-> contents, condition |-> condition]
         /\ EnvOn(device).contents = Env.contents /\ EnvOn(device).condition = Env.condition
<1>1. PICK env1 \in Environment : env1 = Env
  OBVIOUS
<1>2. EnvOn(device) = [wide |-> device, contents |-> contents, condition |-> condition]
  BY DEF EnvOn, Env
<1>3. EnvOn(device) = [wide |-> device, contents |-> env1.contents, condition |-> env1.condition]
  BY <1>1, <1>2 DEF Env
<1>. QED  BY <1>1, <1>2, <1>3, OtherDevice

-----------------------------------------------------------------------------
(* Environments. *)

\* The first environment.
LEMMA InitEnvironment ==
  ASSUME Init
  PROVE  Env \in Environment
<1>1. /\ InitialContents \in [Sheet -> Seq(Rule)] /\ InitialCondition \in [Rule -> Condition]
      /\ \A s \in Sheet : ToSet(InitialContents[s]) \subseteq RulesOf(s)
      /\ \A r \in Rule : InitialCondition[r] \in BaseCondition \/ (~IsCustom(r) /\ InitialCondition[r] = InitialCondition[r])
  BY CascadeDataAssumption DEF RulesOf, IsCustom
<1>2. PICK env : env = Env
  OBVIOUS
<1>3. env = [wide |-> TRUE, contents |-> InitialContents, condition |-> InitialCondition]
  BY <1>2 DEF Init, Env
<1>4. /\ env \in [wide : BOOLEAN, contents : [Sheet -> Seq(Rule)], condition : [Rule -> Condition]]
      /\ env.contents = InitialContents /\ env.condition = InitialCondition
  BY <1>1, <1>3
<1>. QED  BY <1>1, <1>2, <1>4 DEF Environment

-----------------------------------------------------------------------------
(* Types, and what is committed. For these the names need not be local.     *)

\* Of an origin whose data are the document's own the sheets that were in a
\* flush, F, are committed, and no other.
CommittedAre(o, coll, F) ==
  /\ coll \in Collection /\ CollectionShape(o, coll) /\ OfOrigin(o, coll)
  /\ \A s \in F : OriginOf[s] = o => HasSheet(coll, s)
  /\ o # "UserAgent" =>
       \A i \in DOMAIN coll.entries : coll.entries[i].committed <=> coll.entries[i].sheet \in F

CommitInv ==
  /\ Env \in Environment
  /\ collections \in [Origin -> Collection] /\ cascade \in [Origin -> CascadeDataType]
  /\ invalidations \in InvalidationSet /\ returned \in InvalidationSet /\ flushed \subseteq Sheet
  /\ \A o \in Origin : CommittedAre(o, collections[o], flushed)

\* Appending a sheet.
LEMMA AppendCommits ==
  ASSUME NEW o, NEW c, NEW F, CommittedAre(o, c, F), NEW s \in Sheet, OriginOf[s] = o, ~HasSheet(c, s)
  PROVE  CommittedAre(o, AppendSheet(c, s), F)
<1>1. PICK d : d = AppendSheet(c, s)
  OBVIOUS
<1>2. c \in Collection /\ CollectionShape(o, c)
  BY DEF CommittedAre
<1>3. d \in Collection /\ CollectionShape(o, d)
  BY <1>1, <1>2, AppendChanges DEF Changed
<1>4. PICK n \in Nat : n = Len(c.entries) /\ DOMAIN c.entries = 1 .. n
  BY <1>2, SheetsOfCollection
<1>5. /\ Len(d.entries) = n + 1 /\ \A i \in 1 .. n : d.entries[i] = c.entries[i]
      /\ d.entries[n + 1].sheet = s /\ d.entries[n + 1].committed = FALSE
  <2>1. PICK e : e = NewEntry(s) /\ e.sheet = s /\ e.committed = FALSE
    BY NewEntryFields
  <2>2. /\ Len(d.entries) = Len(c.entries) + 1
        /\ \A i \in 1 .. Len(c.entries) : d.entries[i] = c.entries[i]
        /\ d.entries[Len(c.entries) + 1] = NewEntry(s)
    BY <1>1, <1>2, AppendRaw
  <2>. QED  BY <1>4, <2>1, <2>2
<1>6. DOMAIN d.entries = 1 .. n + 1
  BY <1>3, <1>5, SheetsOfCollection
<1>7. s \notin F
  BY DEF CommittedAre
<1>8. ASSUME NEW t \in F, OriginOf[t] = o
      PROVE  HasSheet(d, t)
  <2>1. HasSheet(c, t)
    BY <1>8 DEF CommittedAre
  <2>2. PICK i \in 1 .. n : c.entries[i].sheet = t
    BY <1>2, <1>4, <2>1, Located
  <2>3. i \in 1 .. Len(d.entries) /\ d.entries[i].sheet = t
    BY <1>5, <2>2
  <2>. QED  BY <1>3, <2>3, Located
<1>9. ASSUME o # "UserAgent", NEW i \in DOMAIN d.entries
      PROVE  d.entries[i].committed <=> d.entries[i].sheet \in F
  <2>1. CASE i \in 1 .. n
    BY <1>4, <1>5, <1>9, <2>1 DEF CommittedAre
  <2>2. CASE i = n + 1
    BY <1>5, <1>7, <2>2
  <2>. QED  BY <1>6, <2>1, <2>2
<1>10. OfOrigin(o, d)
  BY <1>1, <1>2, AppendedSheets DEF CommittedAre, OfOrigin
<1>. QED  BY <1>1, <1>3, <1>8, <1>9, <1>10 DEF CommittedAre

\* Inserting one.
LEMMA InsertCommits ==
  ASSUME NEW o, NEW c, NEW F, CommittedAre(o, c, F), NEW s \in Sheet, OriginOf[s] = o, ~HasSheet(c, s),
         NEW b, HasSheet(c, b)
  PROVE  CommittedAre(o, InsertBefore(c, s, b), F)
<1>1. PICK d : d = InsertBefore(c, s, b)
  OBVIOUS
<1>2. c \in Collection /\ CollectionShape(o, c)
  BY DEF CommittedAre
<1>3. d \in Collection /\ CollectionShape(o, d)
  BY <1>1, <1>2, InsertChanges DEF Changed
<1>4. PICK n \in Nat : n = Len(c.entries) /\ DOMAIN c.entries = 1 .. n
  BY <1>2, SheetsOfCollection
<1>5. PICK e \in Entry : e = NewEntry(s) /\ e.sheet = s /\ e.committed = FALSE
  BY NewEntryFields
<1>6. PICK k \in 1 .. n : IsLonger(c.entries, k, e, d.entries)
  BY <1>1, <1>2, <1>4, <1>5, InsertRaw
<1>7. /\ Len(d.entries) = n + 1
      /\ \A j \in 1 .. n + 1 : /\ j < k => d.entries[j] = c.entries[j]
                               /\ j = k => d.entries[j] = e
                               /\ j > k => d.entries[j] = c.entries[j - 1]
  BY <1>4, <1>6 DEF IsLonger
<1>8. DOMAIN d.entries = 1 .. n + 1
  BY <1>3, <1>7, SheetsOfCollection
<1>9. s \notin F
  BY DEF CommittedAre
<1>10. ASSUME NEW t \in F, OriginOf[t] = o
       PROVE  HasSheet(d, t)
  <2>1. HasSheet(c, t)
    BY <1>10 DEF CommittedAre
  <2>2. PICK i \in 1 .. n : c.entries[i].sheet = t
    BY <1>2, <1>4, <2>1, Located
  <2>3. PICK j \in 1 .. n + 1 : j = IF i < k THEN i ELSE i + 1
    OBVIOUS
  <2>4. d.entries[j].sheet = t
    <3>1. CASE i < k
      <4>1. j = i /\ d.entries[j] = c.entries[i]
        BY <1>7, <2>3, <3>1
      <4>. QED  BY <2>2, <4>1
    <3>2. CASE ~(i < k)
      <4>1. j = i + 1 /\ j > k /\ j - 1 = i
        BY <2>3, <3>2
      <4>2. d.entries[j] = c.entries[j - 1]
        BY <1>7, <4>1
      <4>. QED  BY <2>2, <4>1, <4>2
    <3>. QED  BY <3>1, <3>2
  <2>. QED  BY <1>3, <1>7, <2>3, <2>4, Located
<1>11. ASSUME o # "UserAgent", NEW i \in DOMAIN d.entries
       PROVE  d.entries[i].committed <=> d.entries[i].sheet \in F
  <2>1. \A j \in 1 .. n : c.entries[j].committed <=> c.entries[j].sheet \in F
    BY <1>4, <1>11 DEF CommittedAre
  <2>2. CASE i < k
    <3>1. i \in 1 .. n /\ d.entries[i] = c.entries[i]
      BY <1>7, <1>8, <1>11, <2>2
    <3>. QED  BY <2>1, <3>1
  <2>3. CASE i = k
    BY <1>5, <1>7, <1>8, <1>9, <2>3
  <2>4. CASE i > k
    <3>1. i - 1 \in 1 .. n /\ d.entries[i] = c.entries[i - 1]
      BY <1>7, <1>8, <1>11, <2>4
    <3>. QED  BY <2>1, <3>1
  <2>. QED  BY <1>8, <2>2, <2>3, <2>4
<1>12. OfOrigin(o, d)
  BY <1>1, <1>2, InsertedSheets DEF CommittedAre, OfOrigin
<1>. QED  BY <1>1, <1>3, <1>10, <1>11, <1>12 DEF CommittedAre

\* Removing one.
LEMMA RemoveCommits ==
  ASSUME NEW o, NEW c, NEW F, CommittedAre(o, c, F), NEW s, HasSheet(c, s)
  PROVE  CommittedAre(o, RemoveSheet(c, s), F \ {s})
<1>1. PICK d : d = RemoveSheet(c, s)
  OBVIOUS
<1>2. c \in Collection /\ CollectionShape(o, c)
  BY DEF CommittedAre
<1>3. d \in Collection /\ CollectionShape(o, d)
  BY <1>1, <1>2, RemoveChanges DEF Changed
<1>4. PICK n \in Nat : n = Len(c.entries) /\ DOMAIN c.entries = 1 .. n
  BY <1>2, SheetsOfCollection
<1>5. PICK k \in 1 .. n : c.entries[k].sheet = s /\ IsShorter(c.entries, k, d.entries)
  BY <1>1, <1>2, <1>4, RemoveRaw
<1>6. /\ Len(d.entries) = n - 1
      /\ \A j \in 1 .. (n - 1) : d.entries[j] = IF j < k THEN c.entries[j] ELSE c.entries[j + 1]
  BY <1>4, <1>5 DEF IsShorter
<1>7. DOMAIN d.entries = 1 .. (n - 1)
  BY <1>3, <1>6, SheetsOfCollection
<1>8. ASSUME NEW t \in F \ {s}, OriginOf[t] = o
      PROVE  HasSheet(d, t)
  <2>1. HasSheet(c, t)
    BY <1>8 DEF CommittedAre
  <2>2. PICK i \in 1 .. n : c.entries[i].sheet = t
    BY <1>2, <1>4, <2>1, Located
  <2>3. i # k
    BY <1>5, <1>8, <2>2
  <2>4. PICK j \in 1 .. (n - 1) : j = IF i < k THEN i ELSE i - 1
    BY <2>3
  <2>5. d.entries[j].sheet = t
    BY <1>6, <2>2, <2>3, <2>4
  <2>. QED  BY <1>3, <1>6, <2>4, <2>5, Located
<1>9. ASSUME o # "UserAgent", NEW i \in DOMAIN d.entries
      PROVE  d.entries[i].committed <=> d.entries[i].sheet \in F \ {s}
  <2>1. \A j \in 1 .. n : c.entries[j].committed <=> c.entries[j].sheet \in F
    BY <1>4, <1>9 DEF CommittedAre
  <2>2. PICK j \in 1 .. n : j # k /\ d.entries[i] = c.entries[j]
    <3>1. CASE i < k
      BY <1>6, <1>7, <3>1
    <3>2. CASE ~(i < k)
      <4>1. i + 1 \in 1 .. n /\ i + 1 # k /\ d.entries[i] = c.entries[i + 1]
        BY <1>6, <1>7, <1>9, <3>2
      <4>. QED  BY <4>1
    <3>. QED  BY <3>1, <3>2
  <2>3. c.entries[j].sheet # s
    BY <1>2, <1>4, <1>5, <2>2 DEF CollectionShape
  <2>. QED  BY <2>1, <2>2, <2>3
<1>10. OfOrigin(o, d)
  BY <1>1, <1>2, RemovedSheets DEF CommittedAre, OfOrigin
<1>. QED  BY <1>1, <1>3, <1>8, <1>9, <1>10 DEF CommittedAre

\* Removing one elsewhere.
LEMMA RemoveElsewhere ==
  ASSUME NEW o, NEW c, NEW F, CommittedAre(o, c, F), NEW s, OriginOf[s] # o
  PROVE  CommittedAre(o, c, F \ {s})
<1>1. ASSUME NEW i \in DOMAIN c.entries
      PROVE  c.entries[i].sheet # s
  <2>1. c \in Collection
    BY DEF CommittedAre
  <2>2. i \in 1 .. Len(c.entries)
    BY <2>1, SheetsOfCollection
  <2>3. HasSheet(c, c.entries[i].sheet)
    BY <2>1, <2>2, Located
  <2>. QED  BY <2>3 DEF CommittedAre, OfOrigin
<1>. QED  BY <1>1 DEF CommittedAre

\* Marking a collection.
LEMMA MarkCommits ==
  ASSUME NEW o, NEW c, NEW F, CommittedAre(o, c, F), NEW d, d = SetValidityAtLeast(c, FullyInvalid)
  PROVE  CommittedAre(o, d, F)
<1>1. c \in Collection /\ CollectionShape(o, c)
  BY DEF CommittedAre
<1>2. FullyInvalid \in {Valid, CascadeInvalid, FullyInvalid}
  OBVIOUS
<1>3. d \in Collection /\ d.entries = c.entries /\ d.dirty = TRUE
  BY <1>1, <1>2, Marked
<1>4. CollectionShape(o, d)
  BY <1>1, <1>3 DEF CollectionShape
<1>5. \A s : HasSheet(d, s) <=> HasSheet(c, s)
  BY <1>3 DEF HasSheet, Sheets
<1>. QED  BY <1>3, <1>4, <1>5 DEF CommittedAre, OfOrigin

\* Flushing it.
LEMMA FlushCommits ==
  ASSUME NEW o, NEW c, NEW F, CommittedAre(o, c, F), NEW hit \in BOOLEAN,
         NEW d, d = IF c.dirty /\ (o = "UserAgent" => hit) THEN CommitAll(Flushed(c)) ELSE Flushed(c),
         NEW G, \A s \in Sheet : OriginOf[s] = o => (s \in G <=> HasSheet(c, s)), G \subseteq Sheet
  PROVE  CommittedAre(o, d, G)
<1>1. c \in Collection /\ CollectionShape(o, c)
  BY DEF CommittedAre
<1>2. /\ d \in Collection /\ CollectionShape(o, d)
      /\ Sheets(d) = Sheets(c) /\ \A i \in DOMAIN d.entries : BuiltAt(o, d, i)
  BY <1>1, CollectionFlushed
<1>3. \A s : HasSheet(d, s) <=> HasSheet(c, s)
  BY <1>2 DEF HasSheet
<1>4. ASSUME o # "UserAgent", NEW i \in DOMAIN d.entries
      PROVE  d.entries[i].committed /\ d.entries[i].sheet \in G
  <2>1. d.entries[i].committed
    BY <1>2, <1>4 DEF BuiltAt
  <2>2. i \in 1 .. Len(d.entries) /\ d.entries[i].sheet \in Sheet
    BY <1>2, <1>4, SheetsOfCollection
  <2>3. HasSheet(d, d.entries[i].sheet) /\ OriginOf[d.entries[i].sheet] = o
    BY <1>2, <1>3, <2>2, Located DEF CommittedAre, OfOrigin
  <2>. QED  BY <1>3, <2>1, <2>2, <2>3
<1>. QED  BY <1>2, <1>3, <1>4 DEF CommittedAre, OfOrigin

-----------------------------------------------------------------------------
(* The types of what a flush returns.                                       *)

\* The sets of invalidations.
LEMMA InvalidationTypes ==
  /\ NoInvalidations \in InvalidationSet /\ InvalidateFully \in InvalidationSet
  /\ \A inv \in InvalidationSet, R \in SUBSET Rule : CollectRules(inv, R) \in InvalidationSet
<1>1. NoInvalidations \in InvalidationSet /\ InvalidateFully \in InvalidationSet
  BY DEF NoInvalidations, InvalidateFully, InvalidationSet
<1>2. ASSUME NEW inv \in InvalidationSet, NEW R \in SUBSET Rule
      PROVE  CollectRules(inv, R) \in InvalidationSet
  <2>1. PICK x \in SUBSET Rule : x = inv.rules \cup R
    BY DEF InvalidationSet
  <2>2. [inv EXCEPT !.rules = x] \in InvalidationSet
    BY DEF InvalidationSet
  <2>3. CollectRules(inv, R) = InvalidateFully \/ CollectRules(inv, R) = [inv EXCEPT !.rules = x]
    BY <2>1 DEF CollectRules
  <2>. QED  BY <1>1, <2>2, <2>3
<1>. QED  BY <1>1, <1>2

\* Those of a sheet.
LEMMA CollectedTypes ==
  ASSUME NEW env \in Environment, NEW custom, NEW inv \in InvalidationSet, NEW s \in Sheet
  PROVE  CollectInvalidationsFor(env, custom, inv, s) \in InvalidationSet
<1>1. EffectiveRules(env, custom, s) \in SUBSET Rule
  <2>1. \A r \in ToSet(env.contents[s]) : r \in Rule
    BY EnvironmentFacts DEF ToSet
  <2>. QED  BY <2>1 DEF EffectiveRules
<1>. QED  BY <1>1, InvalidationTypes DEF CollectInvalidationsFor

\* Those of a rule.
LEMMA RuleTypes ==
  ASSUME NEW env, NEW custom, NEW inv \in InvalidationSet, NEW s, NEW r \in Rule, NEW generic
  PROVE  RuleChangedInvalidations(env, custom, inv, s, r, generic) \in InvalidationSet
BY InvalidationTypes DEF RuleChangedInvalidations

\* Those of the sheets a collection has not committed.
EntryCollected(env, custom, inv, e) ==
  IF e.committed THEN inv ELSE CollectInvalidationsFor(env, custom, inv, e.sheet)

LEMMA PendingTyped ==
  ASSUME NEW env \in Environment, NEW custom, NEW inv \in InvalidationSet, NEW coll \in Collection
  PROVE  CollectPendingInvalidations(env, custom, inv, coll) \in InvalidationSet
<1>. DEFINE n == Len(coll.entries)
            f == [x \in (1 .. n) \X InvalidationSet |-> EntryCollected(env, custom, x[2], coll.entries[x[1]])]
            Eq(h) == h = [q \in SUBSET (1 .. n) |->
                            IF q = {} THEN inv ELSE EntryCollected(env, custom, h[q \ {Max(q)}], coll.entries[Max(q)])]
<1>1. n \in Nat /\ DOMAIN coll.entries = 1 .. n /\ \A i \in 1 .. n : coll.entries[i] \in Entry
  BY DEF Collection
<1>. HIDE DEF n
<1>2. ASSUME NEW i \in 1 .. n, NEW d \in InvalidationSet
      PROVE  EntryCollected(env, custom, d, coll.entries[i]) \in InvalidationSet
  BY <1>1, CollectedTypes DEF EntryCollected, Entry
<1>3. /\ f \in [(1 .. n) \X InvalidationSet -> InvalidationSet]
      /\ \A i \in 1 .. n, d \in InvalidationSet : f[<<i, d>>] = EntryCollected(env, custom, d, coll.entries[i])
  BY <1>2
<1>. HIDE DEF f
<1>4. PICK h \in [SUBSET (1 .. n) -> InvalidationSet] : IsFold(h, n, inv, f)
  <2>1. PICK f1, D1, b1 : f1 = f /\ D1 = InvalidationSet /\ b1 = inv
    OBVIOUS
  <2>2. f1 \in [(1 .. n) \X D1 -> D1] /\ b1 \in D1
    BY <1>3, <2>1
  <2>3. \E h \in [SUBSET (1 .. n) -> D1] : IsFold(h, n, b1, f1)
    BY ONLY <1>1, <2>2, FoldExists
  <2>. QED  BY <2>1, <2>3
<1>5. Eq(h)
  <2>1. ASSUME NEW q \in SUBSET (1 .. n), q # {}
        PROVE  h[q] = EntryCollected(env, custom, h[q \ {Max(q)}], coll.entries[Max(q)])
    <3>1. Max(q) \in 1 .. n
      BY <1>1, <2>1, LastPosition
    <3>2. h[q \ {Max(q)}] \in InvalidationSet
      BY <2>1
    <3>3. h[q] = f[<<Max(q), h[q \ {Max(q)}]>>]
      BY <1>4, <2>1 DEF IsFold
    <3>. QED  BY <1>3, <3>1, <3>2, <3>3
  <2>2. h[{}] = inv
    <3>1. {} \in SUBSET (1 .. n)
      OBVIOUS
    <3>. QED  BY <1>4, <3>1 DEF IsFold
  <2>. QED  BY <2>1, <2>2
<1>6. PICK c : Eq(c) /\ (coll.dirty => CollectPendingInvalidations(env, custom, inv, coll) = c[1 .. n])
  <2>1. coll.dirty => CollectPendingInvalidations(env, custom, inv, coll) = (CHOOSE c : Eq(c))[1 .. n]
    BY <1>1 DEF CollectPendingInvalidations, EntryCollected, FoldLeft, MapThenFoldSet
  <2>. HIDE DEF Eq
  <2>. QED  BY <1>5, <2>1
<1>7. c[1 .. n] \in InvalidationSet
  <2>. DEFINE T == {i \in 0 .. n : c[1 .. i] \in InvalidationSet}
  <2>1. 0 \in T
    <3>1. 1 .. 0 = {} /\ {} \in SUBSET (1 .. n)
      OBVIOUS
    <3>2. c[{}] = inv
      BY <1>6, <3>1
    <3>. QED  BY <1>1, <3>1, <3>2
  <2>2. ASSUME NEW i \in 1 .. n, i - 1 \in T PROVE i \in T
    <3>1. /\ (1 .. i) \in SUBSET (1 .. n) /\ 1 .. i # {}
          /\ Max(1 .. i) = i /\ (1 .. i) \ {Max(1 .. i)} = 1 .. (i - 1)
      BY <1>1, LastOfPrefix
    <3>2. c[1 .. i] = EntryCollected(env, custom, c[1 .. (i - 1)], coll.entries[i])
      BY <1>6, <3>1
    <3>3. PICK d \in InvalidationSet : d = c[1 .. (i - 1)]
      BY <2>2
    <3>. QED  BY <1>1, <1>2, <3>2, <3>3
  <2>. HIDE DEF T
  <2>3. 0 .. n \subseteq T
    <3>1. PICK T1 : T1 = T
      OBVIOUS
    <3>2. 0 \in T1 /\ \A i \in 1 .. n : i - 1 \in T1 => i \in T1
      BY <2>1, <2>2, <3>1
    <3>3. 0 .. n \subseteq T1
      BY ONLY <1>1, <3>2, PrefixInduction
    <3>. QED  BY <3>1, <3>3
  <2>4. n \in 0 .. n
    BY <1>1
  <2>. QED  BY <2>3, <2>4 DEF T
<1>8. ~coll.dirty => CollectPendingInvalidations(env, custom, inv, coll) = inv
  BY DEF CollectPendingInvalidations
<1>. QED  BY <1>6, <1>7, <1>8

\* Those of the origins in turn.
OriginCollected(env, casc, colls, inv, o) == CollectPendingInvalidations(env, casc[o].custom, inv, colls[o])

PendingOf(env, casc, colls, inv, os) == FoldLeft(LAMBDA acc, o : OriginCollected(env, casc, colls, acc, o), inv, os)

LEMMA PendingOfTyped ==
  ASSUME NEW env \in Environment, NEW casc, NEW colls \in [Origin -> Collection],
         NEW inv \in InvalidationSet, NEW os \in Seq(Origin)
  PROVE  PendingOf(env, casc, colls, inv, os) \in InvalidationSet
<1>. DEFINE n == Len(os)
            f == [x \in (1 .. n) \X InvalidationSet |-> OriginCollected(env, casc, colls, x[2], os[x[1]])]
            Eq(h) == h = [q \in SUBSET (1 .. n) |->
                            IF q = {} THEN inv ELSE OriginCollected(env, casc, colls, h[q \ {Max(q)}], os[Max(q)])]
<1>1. n \in Nat /\ DOMAIN os = 1 .. n /\ \A i \in 1 .. n : os[i] \in Origin
  OBVIOUS
<1>. HIDE DEF n
<1>2. ASSUME NEW i \in 1 .. n, NEW d \in InvalidationSet
      PROVE  OriginCollected(env, casc, colls, d, os[i]) \in InvalidationSet
  BY <1>1, PendingTyped DEF OriginCollected
<1>3. /\ f \in [(1 .. n) \X InvalidationSet -> InvalidationSet]
      /\ \A i \in 1 .. n, d \in InvalidationSet : f[<<i, d>>] = OriginCollected(env, casc, colls, d, os[i])
  BY <1>2
<1>. HIDE DEF f
<1>4. PICK h \in [SUBSET (1 .. n) -> InvalidationSet] : IsFold(h, n, inv, f)
  <2>1. PICK f1, D1, b1 : f1 = f /\ D1 = InvalidationSet /\ b1 = inv
    OBVIOUS
  <2>2. f1 \in [(1 .. n) \X D1 -> D1] /\ b1 \in D1
    BY <1>3, <2>1
  <2>3. \E h \in [SUBSET (1 .. n) -> D1] : IsFold(h, n, b1, f1)
    BY ONLY <1>1, <2>2, FoldExists
  <2>. QED  BY <2>1, <2>3
<1>5. Eq(h)
  <2>1. ASSUME NEW q \in SUBSET (1 .. n), q # {}
        PROVE  h[q] = OriginCollected(env, casc, colls, h[q \ {Max(q)}], os[Max(q)])
    <3>1. Max(q) \in 1 .. n
      BY <1>1, <2>1, LastPosition
    <3>2. h[q \ {Max(q)}] \in InvalidationSet
      BY <2>1
    <3>3. h[q] = f[<<Max(q), h[q \ {Max(q)}]>>]
      BY <1>4, <2>1 DEF IsFold
    <3>. QED  BY <1>3, <3>1, <3>2, <3>3
  <2>2. h[{}] = inv
    <3>1. {} \in SUBSET (1 .. n)
      OBVIOUS
    <3>. QED  BY <1>4, <3>1 DEF IsFold
  <2>. QED  BY <2>1, <2>2
<1>6. PICK c : Eq(c) /\ PendingOf(env, casc, colls, inv, os) = c[1 .. n]
  <2>1. PendingOf(env, casc, colls, inv, os) = (CHOOSE c : Eq(c))[1 .. n]
    BY <1>1 DEF PendingOf, OriginCollected, FoldLeft, MapThenFoldSet
  <2>. HIDE DEF Eq
  <2>. QED  BY <1>5, <2>1
<1>7. c[1 .. n] \in InvalidationSet
  <2>. DEFINE T == {i \in 0 .. n : c[1 .. i] \in InvalidationSet}
  <2>1. 0 \in T
    <3>1. 1 .. 0 = {} /\ {} \in SUBSET (1 .. n)
      OBVIOUS
    <3>2. c[{}] = inv
      BY <1>6, <3>1
    <3>. QED  BY <1>1, <3>1, <3>2
  <2>2. ASSUME NEW i \in 1 .. n, i - 1 \in T PROVE i \in T
    <3>1. /\ (1 .. i) \in SUBSET (1 .. n) /\ 1 .. i # {}
          /\ Max(1 .. i) = i /\ (1 .. i) \ {Max(1 .. i)} = 1 .. (i - 1)
      BY <1>1, LastOfPrefix
    <3>2. c[1 .. i] = OriginCollected(env, casc, colls, c[1 .. (i - 1)], os[i])
      BY <1>6, <3>1
    <3>3. PICK d \in InvalidationSet : d = c[1 .. (i - 1)]
      BY <2>2
    <3>. QED  BY <1>1, <1>2, <3>2, <3>3
  <2>. HIDE DEF T
  <2>3. 0 .. n \subseteq T
    <3>1. PICK T1 : T1 = T
      OBVIOUS
    <3>2. 0 \in T1 /\ \A i \in 1 .. n : i - 1 \in T1 => i \in T1
      BY <2>1, <2>2, <3>1
    <3>3. 0 .. n \subseteq T1
      BY ONLY <1>1, <3>2, PrefixInduction
    <3>. QED  BY <3>1, <3>3
  <2>4. n \in 0 .. n
    BY <1>1
  <2>. QED  BY <2>3, <2>4 DEF T
<1>. QED  BY <1>6, <1>7

\* What a flush returns.
LEMMA ReturnedTyped ==
  ASSUME Env \in Environment, collections \in [Origin -> Collection], invalidations \in InvalidationSet
  PROVE  PendingInvalidations \in InvalidationSet
<1>0. PICK os : os = <<"UserAgent", "User", "Author">>
  OBVIOUS
<1>1. os \in Seq(Origin)
  <2>1. "UserAgent" \in Origin /\ "User" \in Origin /\ "Author" \in Origin
    BY DEF Origin
  <2>. QED  BY <1>0, <2>1
<1>2. PendingInvalidations = PendingOf(Env, cascade, collections, invalidations, os)
  BY <1>0 DEF PendingInvalidations, PendingOf, OriginCollected, FoldLeft, MapThenFoldSet
<1>3. PendingOf(Env, cascade, collections, invalidations, os) \in InvalidationSet
  BY <1>1, PendingOfTyped
<1>. QED  BY <1>2, <1>3

\* A step that changes the collection of one origin.
LEMMA ListCommits ==
  ASSUME CommitInv, NEW o \in Origin, NEW d, CommittedAre(o, d, flushed'),
         collections' = [collections EXCEPT ![o] = d], cascade' = cascade, Env' = Env,
         \A p \in Origin : p # o => CommittedAre(p, collections[p], flushed'),
         invalidations' \in InvalidationSet, returned' = returned, flushed' \subseteq flushed
  PROVE  CommitInv'
<1>1. d \in Collection /\ collections \in [Origin -> Collection]
  BY DEF CommittedAre, CommitInv
<1>2. \A p \in Origin : collections'[p] = IF p = o THEN d ELSE collections[p]
  BY <1>1
<1>3. \A p \in Origin : CommittedAre(p, collections'[p], flushed')
  BY <1>2
<1>4. collections' \in [Origin -> Collection]
  BY <1>1
<1>. QED  BY <1>3, <1>4 DEF CommitInv

\* The changes of the list of sheets.
LEMMA SheetStepsCommit ==
  ASSUME CommitInv, NEW s \in Sheet
  PROVE  /\ AppendStylesheet(s) => CommitInv'
         /\ \A before \in Sheet : InsertStylesheetBefore(s, before) => CommitInv'
         /\ RemoveStylesheet(s) => CommitInv'
<1>1. PICK o \in Origin : o = OriginOf[s]
  BY StylistAssumption
<1>2. \A p \in Origin : CommittedAre(p, collections[p], flushed)
  BY DEF CommitInv
<1>3. ASSUME AppendStylesheet(s)
      PROVE  CommitInv'
  <2>1. ~HasSheet(collections[o], s)
    BY <1>1, <1>3 DEF AppendStylesheet, InSet
  <2>2. CommittedAre(o, AppendSheet(collections[o], s), flushed)
    BY <1>1, <1>2, <2>1, AppendCommits
  <2>3. /\ collections' = [collections EXCEPT ![o] = AppendSheet(collections[o], s)]
        /\ cascade' = cascade /\ Env' = Env /\ flushed' = flushed /\ returned' = returned /\ invalidations' = invalidations
    BY <1>1, <1>3 DEF AppendStylesheet, SetCollection, Env
  <2>4. invalidations' \in InvalidationSet
    BY <2>3 DEF CommitInv
  <2>. QED  BY <1>2, <2>2, <2>3, <2>4, ListCommits
<1>4. ASSUME NEW before \in Sheet, InsertStylesheetBefore(s, before)
      PROVE  CommitInv'
  <2>1. ~HasSheet(collections[o], s) /\ HasSheet(collections[o], before)
    BY <1>1, <1>4 DEF InsertStylesheetBefore, InSet
  <2>2. CommittedAre(o, InsertBefore(collections[o], s, before), flushed)
    BY <1>1, <1>2, <2>1, InsertCommits
  <2>3. /\ collections' = [collections EXCEPT ![o] = InsertBefore(collections[o], s, before)]
        /\ cascade' = cascade /\ Env' = Env /\ flushed' = flushed /\ returned' = returned /\ invalidations' = invalidations
    BY <1>1, <1>4 DEF InsertStylesheetBefore, SetCollection, Env
  <2>4. invalidations' \in InvalidationSet
    BY <2>3 DEF CommitInv
  <2>. QED  BY <1>2, <2>2, <2>3, <2>4, ListCommits
<1>5. ASSUME RemoveStylesheet(s)
      PROVE  CommitInv'
  <2>1. HasSheet(collections[o], s)
    BY <1>1, <1>5 DEF RemoveStylesheet, InSet
  <2>2. /\ collections' = [collections EXCEPT ![o] = RemoveSheet(collections[o], s)]
        /\ cascade' = cascade /\ Env' = Env /\ flushed' = flushed \ {s} /\ returned' = returned
    BY <1>1, <1>5 DEF RemoveStylesheet, SetCollection, Env
  <2>3. CommittedAre(o, RemoveSheet(collections[o], s), flushed')
    BY <1>2, <2>1, <2>2, RemoveCommits
  <2>4. \A p \in Origin : p # o => CommittedAre(p, collections[p], flushed')
    BY <1>1, <1>2, <2>2, RemoveElsewhere
  <2>5. invalidations' \in InvalidationSet
    <3>1. invalidations \in InvalidationSet /\ Env \in Environment
      BY DEF CommitInv
    <3>2. CollectInvalidationsFor(Env, CustomMediaFor(s), invalidations, s) \in InvalidationSet
      BY <3>1, CollectedTypes
    <3>. QED  BY <1>5, <3>1, <3>2 DEF RemoveStylesheet
  <2>. QED  BY <2>2, <2>3, <2>4, <2>5, ListCommits
<1>. QED  BY <1>3, <1>4, <1>5

\* The changes of a sheet.
LEMMA EditsCommit ==
  ASSUME CommitInv, NEW s \in Sheet, RuleEdited(s), invalidations' \in InvalidationSet, returned' = returned
  PROVE  CommitInv'
<1>1. PICK o \in Origin : o = OriginOf[s]
  BY StylistAssumption
<1>2. PICK d : d = SetValidityAtLeast(collections[o], FullyInvalid)
  OBVIOUS
<1>3. \A p \in Origin : CommittedAre(p, collections[p], flushed)
  BY DEF CommitInv
<1>4. CommittedAre(o, d, flushed)
  BY <1>2, <1>3, MarkCommits
<1>5. d \in Collection /\ collections \in [Origin -> Collection]
  BY <1>4 DEF CommittedAre, CommitInv
<1>6. collections' = [collections EXCEPT ![o] = d] /\ cascade' = cascade /\ flushed' = flushed /\ Env' \in Environment
  BY <1>1, <1>2 DEF RuleEdited
<1>7. \A p \in Origin : collections'[p] = IF p = o THEN d ELSE collections[p]
  BY <1>5, <1>6
<1>8. \A p \in Origin : CommittedAre(p, collections'[p], flushed')
  BY <1>3, <1>4, <1>6, <1>7
<1>9. collections' \in [Origin -> Collection]
  BY <1>5, <1>6
<1>. QED  BY <1>6, <1>8, <1>9 DEF CommitInv

LEMMA RuleStepsCommit ==
  ASSUME CommitInv, NEW s \in Sheet
  PROVE  /\ \A r \in Rule : \A i \in 1 .. Len(contents[s]) + 1 : InsertRule(s, r, i) => CommitInv'
         /\ \A i \in DOMAIN contents[s] : RemoveRule(s, i) => CommitInv'
         /\ \A r \in Rule, cond \in BaseCondition : ChangeMedia(s, r, cond) => CommitInv'
<1>1. Env \in Environment /\ invalidations \in InvalidationSet
  BY DEF CommitInv
<1>2. ASSUME NEW r \in Rule, NEW generic, RuleChanged(s, r, generic)
      PROVE  invalidations' \in InvalidationSet /\ returned' = returned
  BY <1>1, <1>2, RuleTypes DEF RuleChanged
<1>3. ASSUME NEW r \in Rule, NEW i \in 1 .. Len(contents[s]) + 1, InsertRule(s, r, i)
      PROVE  CommitInv'
  <2>1. RuleEdited(s)
    BY <1>1, <1>3, InsertRuleEdits
  <2>2. RuleChanged(s, r, FALSE)
    BY <1>3 DEF InsertRule
  <2>. QED  BY <1>2, <2>1, <2>2, EditsCommit
<1>4. ASSUME NEW i \in DOMAIN contents[s], RemoveRule(s, i)
      PROVE  CommitInv'
  <2>1. RuleEdited(s)
    BY <1>1, <1>4, RemoveRuleEdits
  <2>2. RuleChanged(s, contents[s][i], FALSE) /\ contents[s][i] \in Rule
    <3>1. RuleChanged(s, contents[s][i], FALSE)
      BY <1>4 DEF RemoveRule
    <3>2. contents[s] \in Seq(Rule)
      BY <1>1, EnvParts
    <3>3. PICK v \in Seq(Rule) : v = contents[s]
      BY <3>2
    <3>4. \A k \in DOMAIN v : v[k] \in Rule
      OBVIOUS
    <3>. QED  BY <1>4, <3>1, <3>3, <3>4
  <2>. QED  BY <1>2, <2>1, <2>2, EditsCommit
<1>5. ASSUME NEW r \in Rule, NEW cond \in BaseCondition, ChangeMedia(s, r, cond)
      PROVE  CommitInv'
  <2>1. RuleEdited(s)
    BY <1>1, <1>5, ChangeMediaEdits
  <2>2. RuleChanged(s, r, TRUE)
    BY <1>5 DEF ChangeMedia
  <2>. QED  BY <1>2, <2>1, <2>2, EditsCommit
<1>. QED  BY <1>3, <1>4, <1>5

\* A device change.
LEMMA DeviceCommits ==
  ASSUME CommitInv, SetDevice
  PROVE  CommitInv'
<1>1. /\ Env \in Environment /\ collections \in [Origin -> Collection] /\ cascade \in [Origin -> CascadeDataType]
      /\ invalidations \in InvalidationSet /\ returned \in InvalidationSet /\ flushed \subseteq Sheet
      /\ \A p \in Origin : CommittedAre(p, collections[p], flushed)
  BY DEF CommitInv
<1>2. PICK O : O = ChangedOrigins(~wide)
  OBVIOUS
<1>3. /\ cascade' = cascade /\ flushed' = flushed /\ returned' = returned
      /\ O = {} => collections' = collections /\ invalidations' = invalidations
      /\ O # {} => /\ invalidations' = InvalidateFully
                   /\ collections' = [o \in Origin |->
                        IF o \in O THEN SetValidityAtLeast(collections[o], FullyInvalid) ELSE collections[o]]
  BY <1>2 DEF SetDevice, ForceDirty
<1>4. ASSUME NEW o \in Origin
      PROVE  CommittedAre(o, collections'[o], flushed)
  <2>1. CASE O # {} /\ o \in O
    <3>1. collections'[o] = SetValidityAtLeast(collections[o], FullyInvalid)
      BY <1>3, <2>1
    <3>. QED  BY <1>1, <3>1, MarkCommits
  <2>2. CASE O = {} \/ o \notin O
    <3>1. collections'[o] = collections[o]
      BY <1>3, <2>2
    <3>. QED  BY <1>1, <3>1
  <2>. QED  BY <2>1, <2>2
<1>5. \A o \in Origin : collections'[o] \in Collection
  BY <1>4 DEF CommittedAre
<1>6. collections' \in [Origin -> Collection]
  BY <1>1, <1>3, <1>5
<1>7. invalidations' \in InvalidationSet
  BY <1>1, <1>3, InvalidationTypes
<1>8. Env' \in Environment
  <2>1. (~wide) \in BOOLEAN
    BY <1>1, EnvParts, Flips
  <2>2. EnvOn(~wide) \in Environment /\ EnvOn(~wide) = [wide |-> ~wide, contents |-> contents, condition |-> condition]
    BY <1>1, <2>1, DeviceSeen
  <2>3. Env' = [wide |-> ~wide, contents |-> contents, condition |-> condition]
    BY DEF SetDevice, Env
  <2>. QED  BY <2>2, <2>3
<1>. QED  BY <1>1, <1>3, <1>4, <1>6, <1>7, <1>8 DEF CommitInv

\* A flush.
LEMMA FlushStepCommits ==
  ASSUME CommitInv, NEW hit \in BOOLEAN, Flush(hit)
  PROVE  CommitInv'
<1>1. /\ Env \in Environment /\ collections \in [Origin -> Collection] /\ cascade \in [Origin -> CascadeDataType]
      /\ invalidations \in InvalidationSet /\ returned \in InvalidationSet /\ flushed \subseteq Sheet
      /\ \A p \in Origin : CommittedAre(p, collections[p], flushed)
  BY DEF CommitInv
<1>2. /\ Env' = Env /\ invalidations' = NoInvalidations /\ returned' = PendingInvalidations
      /\ cascade' = [o \in Origin |-> RebuiltData(o)] /\ collections' = [o \in Origin |-> FlushedCollection(o, hit)]
      /\ flushed' = {s \in Sheet : InSet(s)}
  BY DEF Flush, Env
<1>3. PICK G : G = {s \in Sheet : InSet(s)}
  OBVIOUS
<1>4. ASSUME NEW o \in Origin
      PROVE  CommittedAre(o, FlushedCollection(o, hit), G)
  <2>1. PICK c : c = collections[o]
    OBVIOUS
  <2>2. PICK d : d = FlushedCollection(o, hit)
    OBVIOUS
  <2>3. d = IF c.dirty /\ (o = "UserAgent" => hit) THEN CommitAll(Flushed(c)) ELSE Flushed(c)
    BY <2>1, <2>2 DEF FlushedCollection
  <2>4. G \subseteq Sheet /\ \A s \in Sheet : OriginOf[s] = o => (s \in G <=> HasSheet(c, s))
    BY <1>3, <2>1 DEF InSet
  <2>5. CommittedAre(o, c, flushed)
    BY <1>1, <2>1
  <2>6. CommittedAre(o, d, G)
    BY <2>3, <2>4, <2>5, FlushCommits
  <2>. QED  BY <2>2, <2>6
<1>5. \A o \in Origin : FlushedCollection(o, hit) \in Collection
  BY <1>4 DEF CommittedAre
<1>6. \A o \in Origin : RebuiltData(o) \in CascadeDataType
  BY <1>1, FlushTyped DEF RebuiltData
<1>7. collections' \in [Origin -> Collection] /\ cascade' \in [Origin -> CascadeDataType]
  BY <1>2, <1>5, <1>6
<1>8. \A o \in Origin : CommittedAre(o, collections'[o], flushed')
  BY <1>2, <1>3, <1>4
<1>9. invalidations' \in InvalidationSet /\ returned' \in InvalidationSet
  BY <1>1, <1>2, InvalidationTypes, ReturnedTyped
<1>10. flushed' \subseteq Sheet
  BY <1>2
<1>. QED  BY <1>1, <1>2, <1>7, <1>8, <1>9, <1>10 DEF CommitInv

\* And the initial states.
LEMMA InitCommits ==
  ASSUME Init
  PROVE  CommitInv
<1>1. Env \in Environment
  BY InitEnvironment
<1>2. PICK c : c = NewCollection
  OBVIOUS
<1>3. c \in Collection /\ c.entries = << >> /\ c.validity = Valid /\ c.dirty = FALSE
  <2>1. << >> \in Seq(Entry) /\ FALSE \in BOOLEAN /\ Valid \in {Valid, CascadeInvalid, FullyInvalid}
    OBVIOUS
  <2>. QED  BY <1>2, <2>1, IsCollection DEF NewCollection
<1>4. \A o \in Origin : CommittedAre(o, c, {})
  <2>1. \A s : ~HasSheet(c, s)
    BY <1>3, Located
  <2>. QED  BY <1>3, <2>1 DEF CommittedAre, CollectionShape, OfOrigin
<1>5. EmptyData \in CascadeDataType
  BY DataFields
<1>. QED  BY <1>1, <1>2, <1>3, <1>4, <1>5, InvalidationTypes DEF Init, CommitInv

\* What is committed is what was flushed, in every collection.
LEMMA CommitInductive == Spec => []CommitInv
<1>1. Init => CommitInv
  BY InitCommits
<1>2. CommitInv /\ [Next]_vars => CommitInv'
  <2>1. ASSUME CommitInv, Next
        PROVE  CommitInv'
    BY <2>1, SheetStepsCommit, RuleStepsCommit, DeviceCommits, FlushStepCommits DEF Next
  <2>2. ASSUME CommitInv, UNCHANGED vars
        PROVE  CommitInv'
    BY <2>2 DEF CommitInv, vars, Env
  <2>. QED  BY <2>1, <2>2
<1>. QED  BY <1>1, <1>2, PTL DEF Spec

\* The state has its type, and of the origins whose data are the document's own
\* a sheet is committed exactly if it has been part of a flush
\* (StylesheetSetEntry::committed).
THEOREM CommittedWhenFlushed == Spec => []OwnCommittedWhenFlushed
<1>1. CommitInv => OwnCommittedWhenFlushed
  <2>1. ASSUME CommitInv
        PROVE  TypeOK
    <3>1. /\ wide \in BOOLEAN /\ contents \in [Sheet -> Seq(Rule)] /\ condition \in [Rule -> Condition]
      BY <2>1, EnvParts DEF CommitInv
    <3>. QED  BY <2>1, <3>1 DEF CommitInv, TypeOK
  <2>2. ASSUME CommitInv, NEW o \in {"User", "Author"}, NEW i \in DOMAIN collections[o].entries
        PROVE  collections[o].entries[i].committed <=> collections[o].entries[i].sheet \in flushed
    <3>1. CommittedAre(o, collections[o], flushed) /\ o # "UserAgent"
      BY <2>2 DEF CommitInv, Origin
    <3>. QED  BY <2>2, <3>1 DEF CommittedAre
  <2>. QED  BY <2>1, <2>2 DEF OwnCommittedWhenFlushed
<1>. QED  BY <1>1, CommitInductive, PTL

-----------------------------------------------------------------------------
(* The invariant is inductive.                                              *)

\* It holds of the initial states.
LEMMA InitStylist ==
  ASSUME NamesAreLocal, Init
  PROVE  StylistInv
<1>1. Env \in Environment
  BY InitEnvironment
<1>2. \A o \in Origin : OriginOK(Env, o, NewCollection, EmptyData)
  BY <1>1, NoSheets
<1>3. NewCollection \in Collection /\ EmptyData \in CascadeDataType
  <2>1. "User" \in Origin
    BY DEF Origin
  <2>. QED  BY <1>2, <2>1 DEF OriginOK
<1>4. /\ collections \in [Origin -> Collection] /\ cascade \in [Origin -> CascadeDataType]
      /\ \A o \in Origin : collections[o] = NewCollection /\ cascade[o] = EmptyData
  BY <1>3 DEF Init
<1>. QED  BY <1>1, <1>2, <1>4 DEF StylistInv

\* A step that changes one collection, and neither the data nor the environment.
LEMMA ListChangeKeeps ==
  ASSUME StylistInv, NEW o \in Origin, NEW d, Changed(o, collections[o], d),
         collections' = [collections EXCEPT ![o] = d], cascade' = cascade, Env' = Env
  PROVE  StylistInv'
<1>1. /\ Env \in Environment /\ collections \in [Origin -> Collection] /\ cascade \in [Origin -> CascadeDataType]
      /\ \A p \in Origin : OriginOK(Env, p, collections[p], cascade[p])
  BY DEF StylistInv
<1>2. d \in Collection
  BY DEF Changed
<1>3. collections' \in [Origin -> Collection] /\ cascade' \in [Origin -> CascadeDataType]
  BY <1>1, <1>2
<1>4. OriginOK(Env, o, d, cascade[o])
  BY <1>1, ListChange
<1>5. ASSUME NEW p \in Origin
      PROVE  OriginOK(Env, p, collections'[p], cascade'[p])
  <2>1. CASE p = o
    <3>1. collections'[p] = d /\ cascade'[p] = cascade[o]
      BY <1>1, <2>1
    <3>. QED  BY <1>4, <2>1, <3>1
  <2>2. CASE p # o
    <3>1. collections'[p] = collections[p] /\ cascade'[p] = cascade[p]
      BY <1>1, <2>2
    <3>. QED  BY <1>1, <3>1
  <2>. QED  BY <2>1, <2>2
<1>6. \A p \in Origin : OriginOK(Env', p, collections'[p], cascade'[p])
  BY <1>5
<1>7. Env' \in Environment
  BY <1>1
<1>. QED  BY <1>3, <1>6, <1>7 DEF StylistInv

\* A change of one sheet that makes the data of its origin stale.
LEMMA SheetChangeKeeps ==
  ASSUME NamesAreLocal, StylistInv, CommitInv, NEW s \in Sheet, RuleEdited(s)
  PROVE  StylistInv'
<1>0. PICK env2 \in Environment : Env' = env2 /\ \A t \in Sheet \ {s} : SameSheet(Env, env2, t)
  BY DEF RuleEdited
<1>1. /\ Env \in Environment /\ collections \in [Origin -> Collection] /\ cascade \in [Origin -> CascadeDataType]
      /\ \A p \in Origin : OriginOK(Env, p, collections[p], cascade[p])
  BY DEF StylistInv
<1>2. PICK o \in Origin : o = OriginOf[s]
  BY StylistAssumption
<1>3. PICK d : d = SetValidityAtLeast(collections[o], FullyInvalid)
  OBVIOUS
<1>4. OriginOK(env2, o, d, cascade[o])
  BY <1>1, <1>3, AllStale
<1>5. d \in Collection
  BY <1>4 DEF OriginOK
<1>6. /\ collections' = [collections EXCEPT ![o] = d]
      /\ collections' \in [Origin -> Collection] /\ cascade' \in [Origin -> CascadeDataType]
  BY <1>1, <1>2, <1>3, <1>5 DEF RuleEdited
<1>7. ASSUME NEW p \in Origin
      PROVE  OriginOK(env2, p, collections'[p], cascade'[p])
  <2>1. CASE p = o
    <3>1. collections'[p] = d /\ cascade'[p] = cascade[o]
      BY <1>1, <1>6, <2>1 DEF RuleEdited
    <3>. QED  BY <1>4, <2>1, <3>1
  <2>2. CASE p # o
    <3>1. collections'[p] = collections[p] /\ cascade'[p] = cascade[p]
      BY <1>1, <1>6, <2>2 DEF RuleEdited
    <3>2. OriginOK(Env, p, collections[p], cascade[p])
      BY <1>1
    <3>3. collections[p] \in Collection /\ CollectionShape(p, collections[p])
      BY <3>2 DEF OriginOK
    <3>4. \A t \in BuiltSheets(p, collections[p]) : t \in Sheet \ {s}
      <4>1. OfOrigin(p, collections[p])
        BY DEF CommitInv, CommittedAre
      <4>. QED  BY <1>2, <2>2, <3>3, <4>1, BuiltAreSheets DEF OfOrigin
    <3>5. OriginOK(env2, p, collections[p], cascade[p])
      BY <1>0, <1>1, <3>2, <3>4, ChangeElsewhere
    <3>. QED  BY <3>1, <3>5
  <2>. QED  BY <2>1, <2>2
<1>8. Env' \in Environment /\ \A p \in Origin : OriginOK(Env', p, collections'[p], cascade'[p])
  BY <1>0, <1>7
<1>. QED  BY <1>6, <1>8 DEF StylistInv

\* The changes of the list of sheets.
LEMMA AppendKeeps ==
  ASSUME StylistInv, NEW s \in Sheet, AppendStylesheet(s)
  PROVE  StylistInv'
<1>1. PICK o \in Origin : o = OriginOf[s]
  BY StylistAssumption
<1>2. collections[o] \in Collection /\ CollectionShape(o, collections[o])
  BY DEF StylistInv, OriginOK
<1>3. ~HasSheet(collections[o], s)
  BY <1>1 DEF AppendStylesheet, InSet
<1>4. Changed(o, collections[o], AppendSheet(collections[o], s))
  BY <1>1, <1>2, <1>3, AppendChanges
<1>5. /\ collections' = [collections EXCEPT ![o] = AppendSheet(collections[o], s)]
      /\ cascade' = cascade /\ Env' = Env
  BY <1>1 DEF AppendStylesheet, SetCollection, Env
<1>. QED  BY <1>4, <1>5, ListChangeKeeps

LEMMA InsertKeeps ==
  ASSUME StylistInv, NEW s \in Sheet, NEW before \in Sheet, InsertStylesheetBefore(s, before)
  PROVE  StylistInv'
<1>1. PICK o \in Origin : o = OriginOf[s] /\ o = OriginOf[before]
  BY StylistAssumption DEF InsertStylesheetBefore
<1>2. collections[o] \in Collection /\ CollectionShape(o, collections[o])
  BY DEF StylistInv, OriginOK
<1>3. ~HasSheet(collections[o], s) /\ HasSheet(collections[o], before)
  BY <1>1 DEF InsertStylesheetBefore, InSet
<1>4. Changed(o, collections[o], InsertBefore(collections[o], s, before))
  BY <1>1, <1>2, <1>3, InsertChanges
<1>5. /\ collections' = [collections EXCEPT ![o] = InsertBefore(collections[o], s, before)]
      /\ cascade' = cascade /\ Env' = Env
  BY <1>1 DEF InsertStylesheetBefore, SetCollection, Env
<1>. QED  BY <1>4, <1>5, ListChangeKeeps

LEMMA RemoveKeeps ==
  ASSUME StylistInv, NEW s \in Sheet, RemoveStylesheet(s)
  PROVE  StylistInv'
<1>1. PICK o \in Origin : o = OriginOf[s]
  BY StylistAssumption
<1>2. collections[o] \in Collection /\ CollectionShape(o, collections[o])
  BY DEF StylistInv, OriginOK
<1>3. HasSheet(collections[o], s)
  BY <1>1 DEF RemoveStylesheet, InSet
<1>4. Changed(o, collections[o], RemoveSheet(collections[o], s))
  BY <1>1, <1>2, <1>3, RemoveChanges
<1>5. /\ collections' = [collections EXCEPT ![o] = RemoveSheet(collections[o], s)]
      /\ cascade' = cascade /\ Env' = Env
  BY <1>1 DEF RemoveStylesheet, SetCollection, Env
<1>. QED  BY <1>4, <1>5, ListChangeKeeps

\* A device change, with the origins it affects made stale.
LEMMA SetDeviceKeeps ==
  ASSUME NamesAreLocal, StylistInv, SetDevice
  PROVE  StylistInv'
<1>1. /\ Env \in Environment /\ collections \in [Origin -> Collection] /\ cascade \in [Origin -> CascadeDataType]
      /\ \A p \in Origin : OriginOK(Env, p, collections[p], cascade[p])
  BY DEF StylistInv
<1>2. (~wide) \in BOOLEAN
  BY <1>1, EnvParts, Flips
<1>3. PICK env2 \in Environment : env2 = EnvOn(~wide)
  BY <1>1, <1>2, DeviceSeen
<1>4. /\ env2 = [wide |-> ~wide, contents |-> contents, condition |-> condition]
      /\ env2.contents = Env.contents /\ env2.condition = Env.condition
  BY <1>1, <1>2, <1>3, DeviceSeen
<1>5. Env' = env2
  BY <1>4 DEF SetDevice, Env
<1>6. PICK O : O = ChangedOrigins(~wide)
  OBVIOUS
<1>7. cascade' = cascade /\ (O = {} => collections' = collections)
      /\ (O # {} => collections' = [o \in Origin |->
                       IF o \in O THEN SetValidityAtLeast(collections[o], FullyInvalid) ELSE collections[o]])
  BY <1>6 DEF SetDevice, ForceDirty
<1>8. ASSUME NEW o \in Origin
      PROVE  collections'[o] = IF o \in O THEN SetValidityAtLeast(collections[o], FullyInvalid) ELSE collections[o]
  BY <1>7
<1>9. ASSUME NEW o \in Origin
      PROVE  OriginOK(env2, o, collections'[o], cascade[o])
  <2>1. CASE o \in O
    <3>1. collections'[o] = SetValidityAtLeast(collections[o], FullyInvalid)
      BY <1>8, <2>1
    <3>. QED  BY <1>1, <3>1, AllStale
  <2>2. CASE o \notin O
    <3>1. collections'[o] = collections[o]
      BY <1>8, <2>2
    <3>2. \A s \in ToSet(Sheets(collections[o])) : MediaFeatureAffectedMatches(env2, cascade[o], s)
      BY <1>3, <1>6, <2>2 DEF ChangedOrigins
    <3>3. OriginOK(env2, o, collections[o], cascade[o])
      BY <1>1, <1>4, <3>2, UnaffectedOrigin
    <3>. QED  BY <3>1, <3>3
  <2>. QED  BY <2>1, <2>2
<1>10. \A o \in Origin : collections'[o] \in Collection
  BY <1>9 DEF OriginOK
<1>11. collections' \in [Origin -> Collection] /\ cascade' \in [Origin -> CascadeDataType]
  BY <1>1, <1>7, <1>10
<1>12. Env' \in Environment /\ \A o \in Origin : OriginOK(Env', o, collections'[o], cascade'[o])
  BY <1>5, <1>7, <1>9
<1>. QED  BY <1>11, <1>12 DEF StylistInv

\* A flush.
LEMMA FlushKeeps ==
  ASSUME NamesAreLocal, StylistInv, NEW hit \in BOOLEAN, Flush(hit)
  PROVE  StylistInv'
<1>1. /\ Env \in Environment /\ collections \in [Origin -> Collection] /\ cascade \in [Origin -> CascadeDataType]
      /\ \A p \in Origin : OriginOK(Env, p, collections[p], cascade[p])
  BY DEF StylistInv
<1>2. Env' = Env
  BY DEF Flush, Env
<1>3. /\ cascade' = [o \in Origin |-> RebuiltData(o)]
      /\ collections' = [o \in Origin |-> FlushedCollection(o, hit)]
  BY DEF Flush
<1>4. ASSUME NEW o \in Origin
      PROVE  OriginOK(Env, o, FlushedCollection(o, hit), RebuiltData(o))
  <2>1. PICK c, data : c = collections[o] /\ data = cascade[o]
    OBVIOUS
  <2>2. OriginOK(Env, o, c, data)
    BY <1>1, <2>1
  <2>3. PICK d : d = FlushedCollection(o, hit)
    OBVIOUS
  <2>4. d = IF c.dirty /\ (o = "UserAgent" => hit) THEN CommitAll(Flushed(c)) ELSE Flushed(c)
    BY <2>1, <2>3 DEF FlushedCollection
  <2>5. PICK y : y = RebuiltData(o)
    OBVIOUS
  <2>6. y = IF o = "UserAgent" /\ c.dirty THEN Build(Env, Sheets(c)) ELSE Rebuild(Env, data, c)
    BY <2>1, <2>5 DEF RebuiltData
  <2>7. OriginOK(Env, o, d, y)
    BY <1>1, <2>2, <2>4, <2>6, FlushedOrigin
  <2>. QED  BY <2>3, <2>5, <2>7
<1>5. \A o \in Origin : FlushedCollection(o, hit) \in Collection /\ RebuiltData(o) \in CascadeDataType
  BY <1>4 DEF OriginOK
<1>6. collections' \in [Origin -> Collection] /\ cascade' \in [Origin -> CascadeDataType]
  BY <1>3, <1>5
<1>7. \A o \in Origin : OriginOK(Env', o, collections'[o], cascade'[o])
  BY <1>2, <1>3, <1>4
<1>. QED  BY <1>1, <1>2, <1>6, <1>7 DEF StylistInv

\* Every step keeps it.
LEMMA StylistStep ==
  ASSUME NamesAreLocal, StylistInv, CommitInv, [Next]_vars
  PROVE  StylistInv'
<1>0. Env \in Environment
  BY DEF StylistInv
<1>1. ASSUME NEW s \in Sheet, AppendStylesheet(s)
      PROVE  StylistInv'
  BY <1>1, AppendKeeps
<1>2. ASSUME NEW s \in Sheet, RemoveStylesheet(s)
      PROVE  StylistInv'
  BY <1>2, RemoveKeeps
<1>3. ASSUME NEW s \in Sheet, NEW before \in Sheet, InsertStylesheetBefore(s, before)
      PROVE  StylistInv'
  BY <1>3, InsertKeeps
<1>4. ASSUME NEW s \in Sheet, NEW i \in DOMAIN contents[s], RemoveRule(s, i)
      PROVE  StylistInv'
  BY <1>0, <1>4, RemoveRuleEdits, SheetChangeKeeps
<1>5. ASSUME NEW s \in Sheet, NEW r \in Rule, NEW i \in 1 .. Len(contents[s]) + 1, InsertRule(s, r, i)
      PROVE  StylistInv'
  BY <1>0, <1>5, InsertRuleEdits, SheetChangeKeeps
<1>6. ASSUME NEW s \in Sheet, NEW r \in Rule, NEW cond \in BaseCondition, ChangeMedia(s, r, cond)
      PROVE  StylistInv'
  BY <1>0, <1>6, ChangeMediaEdits, SheetChangeKeeps
<1>7. CASE SetDevice
  BY <1>7, SetDeviceKeeps
<1>8. ASSUME NEW hit \in BOOLEAN, Flush(hit)
      PROVE  StylistInv'
  BY <1>8, FlushKeeps
<1>9. CASE UNCHANGED vars
  BY <1>9 DEF vars, StylistInv, Env
<1>. QED  BY <1>1, <1>2, <1>3, <1>4, <1>5, <1>6, <1>7, <1>8, <1>9 DEF Next

-----------------------------------------------------------------------------
(* The theorems.                                                            *)

\* Of every origin the data that a flush will keep stay right about the
\* sheets they were built from (the marks of SheetCollection and what
\* CascadeData::rebuild makes of them).
THEOREM StylistInductive ==
  ASSUME NamesAreLocal
  PROVE  Spec => []StylistInv
<1>1. Init => StylistInv
  BY InitStylist
<1>2. StylistInv /\ CommitInv /\ [Next]_vars => StylistInv'
  BY StylistStep
<1>. QED  BY <1>1, <1>2, CommitInductive, PTL DEF Spec

\* What the invariant says of the clean origins.
LEMMA CleanOrigin ==
  ASSUME StylistInv, NEW o \in Origin, ~collections[o].dirty
  PROVE  FreshData(Env, Sheets(collections[o]), cascade[o])
BY CleanIsFresh DEF StylistInv

\* With nothing to flush the data of every origin are those of a build from
\* nothing: the same rules in the same order, and the same custom media
\* (Stylist::flush).
THEOREM FlushedIsUpToDate ==
  ASSUME NamesAreLocal
  PROVE  Spec => []UpToDate
<1>1. ASSUME StylistInv
      PROVE  UpToDate
  <2>1. ASSUME ~HasChanged, NEW o \in Origin
        PROVE  /\ cascade[o].rules = Build(Env, Sheets(collections[o])).rules
               /\ cascade[o].custom = Build(Env, Sheets(collections[o])).custom
    <3>1. ~collections[o].dirty
      BY <2>1 DEF HasChanged
    <3>. QED  BY <1>1, <3>1, CleanOrigin DEF FreshData, SameCascade
  <2>. QED  BY <2>1 DEF UpToDate
<1>2. StylistInv => UpToDate
  BY <1>1
<1>3. Spec => []StylistInv
  BY StylistInductive
<1>. QED  BY <1>2, <1>3, PTL

\* The invalidation data of a clean origin cover the rules of its cascade, and
\* record the queries that were effective: a rebuild of the cascade data alone
\* may leave them as they are (DataValidity::CascadeInvalid).
THEOREM InvalidationDataKept ==
  ASSUME NamesAreLocal
  PROVE  Spec => []InvalidationDataComplete
<1>1. ASSUME StylistInv
      PROVE  InvalidationDataComplete
  <2>1. ASSUME NEW o \in Origin, ~collections[o].dirty
        PROVE  /\ ToSet(cascade[o].rules) \subseteq cascade[o].selectors
               /\ cascade[o].effective = Build(Env, Sheets(collections[o])).effective
    <3>1. PICK env \in Environment : env = Env
      BY <1>1 DEF StylistInv
    <3>1a. PICK ss, data : ss = Sheets(collections[o]) /\ data = cascade[o]
      OBVIOUS
    <3>2. FreshData(env, ss, data)
      BY <1>1, <2>1, <3>1, <3>1a, CleanOrigin
    <3>3. collections[o] \in Collection /\ CollectionShape(o, collections[o])
      BY <1>1 DEF StylistInv, OriginOK
    <3>4. ss \in Seq(Sheet) /\ Distinct(ss)
      BY <3>1a, <3>3, SheetsOfCollection, SheetsDistinct
    <3>5. /\ FreshData(env, ss, Build(env, ss))
          /\ ToSet(Build(env, ss).rules) \subseteq UNION {Cascading(env, ss[j]) : j \in 1 .. Len(ss)}
      BY <1>1, <3>4, BuildIsFresh
    <3>6. data.rules = Build(env, ss).rules /\ data.effective = Build(env, ss).effective
      BY <3>2, <3>5 DEF FreshData, SameCascade
    <3>7. UNION {Cascading(env, ss[j]) : j \in 1 .. Len(ss)} \subseteq data.selectors
      BY <3>2 DEF FreshData
    <3>. QED  BY <3>1, <3>1a, <3>5, <3>6, <3>7
  <2>. QED  BY <2>1 DEF InvalidationDataComplete
<1>2. StylistInv => InvalidationDataComplete
  BY <1>1
<1>3. Spec => []StylistInv
  BY StylistInductive
<1>. QED  BY <1>2, <1>3, PTL

\* A device change that would alter the rules of a clean origin is reported
\* (Stylist::media_features_change_changed_style).
THEOREM DeviceChangesReported ==
  ASSUME NamesAreLocal
  PROVE  Spec => []MediaChangesReported
<1>1. ASSUME StylistInv
      PROVE  MediaChangesReported
  <2>1. ASSUME NEW o \in Origin, ~collections[o].dirty, o \notin ChangedOrigins(~wide)
        PROVE  Build(EnvOn(~wide), Sheets(collections[o])).rules = cascade[o].rules
    <3>0. Env \in Environment
      BY <1>1 DEF StylistInv
    <3>1. (~wide) \in BOOLEAN
      BY <3>0, EnvParts, Flips
    <3>2. PICK env2 \in Environment : env2 = EnvOn(~wide)
      BY <3>0, <3>1, DeviceSeen
    <3>3. env2.contents = Env.contents /\ env2.condition = Env.condition /\ Env \in Environment
      BY <3>0, <3>1, <3>2, DeviceSeen
    <3>4. \A s \in ToSet(Sheets(collections[o])) : MediaFeatureAffectedMatches(env2, cascade[o], s)
      BY <2>1, <3>2 DEF ChangedOrigins
    <3>5. OriginOK(Env, o, collections[o], cascade[o])
      BY <1>1 DEF StylistInv
    <3>6. OriginOK(env2, o, collections[o], cascade[o])
      BY <1>1, <3>3, <3>4, <3>5, UnaffectedOrigin
    <3>7. FreshData(env2, Sheets(collections[o]), cascade[o])
      BY <2>1, <3>6, CleanIsFresh
    <3>. QED  BY <3>2, <3>7 DEF FreshData, SameCascade
  <2>. QED  BY <2>1 DEF MediaChangesReported
<1>2. StylistInv => MediaChangesReported
  BY <1>1
<1>3. Spec => []StylistInv
  BY StylistInductive
<1>. QED  BY <1>2, <1>3, PTL
=============================================================================
