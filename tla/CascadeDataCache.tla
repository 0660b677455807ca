-------------------------- MODULE CascadeDataCache --------------------------
(***************************************************************************)
(* The cache that lets shadow roots with the same sheets share their       *)
(* cascade data: CascadeDataCache in style/stylist.rs, with the author     *)
(* styles of the roots (style/author_styles.rs) that use it.               *)
(*                                                                         *)
(* Entries are reference counted and compared by address, so data have     *)
(* addresses here. The embedder flushes the roots one by one, in any       *)
(* order, in a round in which nothing else changes, and then drops the     *)
(* unused entries. A sheet can be in several roots, as adopted sheets are, *)
(* and is edited in place.                                                 *)
(***************************************************************************)
EXTENDS StylesheetSet, FiniteSets

CONSTANTS
  Root,        \* shadow roots
  MaxEntries   \* bound on the entries alive at a time

ASSUME CascadeDataCacheAssumption == MaxEntries \in Nat

\* Address 0 is EMPTY_CASCADE_DATA, the static data of a new root.
Address == 0 .. MaxEntries

VARIABLES
  wide,       \* the device
  contents,   \* the rules of each sheet
  styles,     \* the AuthorStyles of each root: its collection and its data
  entries,    \* the CascadeData at each address
  cache,      \* CascadeDataCache.entries: from keys to addresses
  phase       \* "idle" or "round"

vars == <<wide, contents, styles, entries, cache, phase>>

Env == [wide |-> wide, contents |-> contents, condition |-> InitialCondition]

\* The types; the static data are never in the cache ("it may not make sense
\* to put them in the cache in the first place", take_unused).
TypeOK ==
  /\ wide \in BOOLEAN
  /\ contents \in [Sheet -> Seq(Rule)]
  /\ styles \in [Root -> [stylesheets : Collection, data : Address]]
  /\ entries \in [Address -> CascadeDataType]
  /\ \A key \in DOMAIN cache : key.contents \in Seq(Sheet) /\ cache[key] \in Address \ {0}
  /\ phase \in {"idle", "round"}

Init ==
  /\ wide = TRUE
  /\ contents = InitialContents
  /\ styles = [r \in Root |-> [stylesheets |-> NewCollection, data |-> 0]]
  /\ entries = [a \in Address |-> EmptyData]
  /\ cache = << >>
  /\ phase = "idle"

SheetsOf(r) == Sheets(styles[r].stylesheets)

Dirty(r) == styles[r].stylesheets.dirty

SetStylesheets(r, coll) == styles' = [styles EXCEPT ![r].stylesheets = coll]

-----------------------------------------------------------------------------
(* Changes. *)

AppendStylesheet(r, s) ==
  /\ phase = "idle" /\ ~HasSheet(styles[r].stylesheets, s)
  /\ SetStylesheets(r, AppendSheet(styles[r].stylesheets, s))
  /\ UNCHANGED <<wide, contents, entries, cache, phase>>

InsertStylesheetBefore(r, s, before) ==
  /\ phase = "idle"
  /\ ~HasSheet(styles[r].stylesheets, s) /\ HasSheet(styles[r].stylesheets, before)
  /\ SetStylesheets(r, InsertBefore(styles[r].stylesheets, s, before))
  /\ UNCHANGED <<wide, contents, entries, cache, phase>>

RemoveStylesheet(r, s) ==
  /\ phase = "idle" /\ HasSheet(styles[r].stylesheets, s)
  /\ SetStylesheets(r, RemoveSheet(styles[r].stylesheets, s))
  /\ UNCHANGED <<wide, contents, entries, cache, phase>>

\* A script inserts or removes a rule: rule_changed for every root that has
\* the sheet.
RuleChanged(s) ==
  /\ styles' = [r \in Root |->
       IF HasSheet(styles[r].stylesheets, s)
         THEN [styles[r] EXCEPT !.stylesheets = SetValidityAtLeast(@, FullyInvalid)]
         ELSE styles[r]]
  /\ UNCHANGED <<wide, entries, cache, phase>>

InsertRule(s, x, i) ==
  /\ phase = "idle"
  /\ x \in Scripted \cap RulesOf(s) /\ x \notin ToSet(contents[s])
  /\ i \in 1 .. Len(contents[s]) + 1
  /\ contents' = [contents EXCEPT ![s] = InsertAt(@, i, x)]
  /\ RuleChanged(s)

RemoveRule(s, i) ==
  /\ phase = "idle"
  /\ i \in DOMAIN contents[s] /\ contents[s][i] \in Scripted
  /\ contents' = [contents EXCEPT ![s] = RemoveAt(@, i)]
  /\ RuleChanged(s)

\* A device change; the embedder forces the roots it affects dirty.
SetDevice ==
  /\ phase = "idle"
  /\ wide' = ~wide
  /\ styles' = [r \in Root |->
       IF \A s \in ToSet(SheetsOf(r)) :
            MediaFeatureAffectedMatches([Env EXCEPT !.wide = ~wide],
                                        entries[styles[r].data], s)
         THEN styles[r]
         ELSE [styles[r] EXCEPT !.stylesheets = SetValidityAtLeast(@, FullyInvalid)]]
  /\ UNCHANGED <<contents, entries, cache, phase>>

-----------------------------------------------------------------------------
(* The key of a collection: the contents and the @media rules in effect. *)

AddKeyRule(env, key, r) ==
  CASE Kind[r] = "style" -> key
    [] Kind[r] = "media" ->
         IF Holds(env.condition[r], key.custom, env.wide)
           THEN [key EXCEPT !.results = Append(@, r)] ELSE key
    [] Kind[r] = "custom_media" ->
         [key EXCEPT !.custom =
            [n \in DOMAIN @ \cup {Defines[r]} |->
               IF n = Defines[r] THEN env.condition[r] ELSE @[n]]]

AddKeySheet(env, key, s) ==
  IF Holds(SheetMedia[s], key.custom, env.wide)
    THEN FoldLeft(LAMBDA k, r : AddKeyRule(env, k, r),
                  [key EXCEPT !.contents = Append(@, s)], env.contents[s])
    ELSE key

Key(env, sheets) ==
  LET key == FoldLeft(LAMBDA k, s : AddKeySheet(env, k, s),
                      [contents |-> << >>, results |-> << >>, custom |-> << >>], sheets)
  IN  [contents |-> key.contents, results |-> key.results]

-----------------------------------------------------------------------------
(* The round of flushes. *)

InUse(a) == \E r \in Root : styles[r].data = a

Cached(a) == \E key \in DOMAIN cache : cache[key] = a

FreshAddress == CHOOSE a \in Address \ {0} : ~InUse(a) /\ ~Cached(a)

HasFreshAddress == \E a \in Address \ {0} : ~InUse(a) /\ ~Cached(a)

\* The entries, when nothing but these styles and this cache refers to them.
\* A dropped entry is taken for the empty data.
KeepReferenced(kept, newStyles, newCache) ==
  [a \in Address |->
     IF \/ \E r \in Root : newStyles[r].data = a
        \/ \E key \in DOMAIN newCache : newCache[key] = a
       THEN kept[a] ELSE EmptyData]

StartRound ==
  /\ phase = "idle" /\ \E r \in Root : Dirty(r)
  /\ phase' = "round"
  /\ UNCHANGED <<wide, contents, styles, entries, cache>>

\* A mutant: any entry under the key serves.
Reusable_OwnToo(r, key) == key \in DOMAIN cache

\* An entry of the cache serves if it is not the one the root has: a root
\* that is dirty knows its own data are stale.
Reusable(r, key) == key \in DOMAIN cache /\ cache[key] # styles[r].data

\* A mutant: a hit leaves the sheets uncommitted.
HitCollection_Uncommitted(r) == Flushed(styles[r].stylesheets)

\* The sheets count as committed after a hit too.
HitCollection(r) == CommitAll(Flushed(styles[r].stylesheets))

FlushHit(r) ==
  LET key == Key(Env, SheetsOf(r))
  IN  /\ phase = "round" /\ Dirty(r) /\ Reusable(r, key)
      /\ styles' = [styles EXCEPT ![r] =
           [stylesheets |-> HitCollection(r), data |-> cache[key]]]
      /\ entries' = KeepReferenced(entries, styles', cache)
      /\ UNCHANGED <<wide, contents, cache, phase>>

\* Built from nothing if the old data are of no use, else from a copy.
RebuiltEntry(r) ==
  Rebuild(Env,
          IF styles[r].stylesheets.validity = FullyInvalid THEN EmptyData
          ELSE entries[styles[r].data],
          styles[r].stylesheets)

\* The entry under the key is added, or replaced.
Cache(key, a) == [k \in DOMAIN cache \cup {key} |-> IF k = key THEN a ELSE cache[k]]

FlushMiss(r) ==
  LET key == Key(Env, SheetsOf(r))
      a   == FreshAddress
  IN  /\ phase = "round" /\ Dirty(r) /\ ~Reusable(r, key)
      /\ HasFreshAddress
      /\ cache' = Cache(key, a)
      /\ styles' = [styles EXCEPT ![r] =
           [stylesheets |-> CommitAll(Flushed(styles[r].stylesheets)), data |-> a]]
      /\ entries' = KeepReferenced([entries EXCEPT ![a] = RebuiltEntry(r)], styles', cache')
      /\ UNCHANGED <<wide, contents, phase>>

\* take_unused: the entries nothing but the cache refers to.
TakeUnused ==
  [key \in {k \in DOMAIN cache : InUse(cache[k])} |-> cache[key]]

EndRound ==
  /\ phase = "round" /\ \A r \in Root : ~Dirty(r)
  /\ cache' = TakeUnused
  /\ phase' = "idle"
  /\ entries' = KeepReferenced(entries, styles, cache')
  /\ UNCHANGED <<wide, contents, styles>>

Next ==
  \/ \E r \in Root, s \in Sheet :
       \/ AppendStylesheet(r, s)
       \/ RemoveStylesheet(r, s)
       \/ \E before \in Sheet : InsertStylesheetBefore(r, s, before)
  \/ \E s \in Sheet :
       \/ \E i \in DOMAIN contents[s] : RemoveRule(s, i)
       \/ \E x \in Rule, i \in 1 .. Len(contents[s]) + 1 : InsertRule(s, x, i)
  \/ SetDevice
  \/ StartRound
  \/ \E r \in Root : FlushHit(r) \/ FlushMiss(r)
  \/ EndRound

Spec == Init /\ [][Next]_vars

-----------------------------------------------------------------------------
(* Properties. *)

\* A root that is not dirty has the rules that a build from nothing gives,
\* whatever other roots put in the cache before ("Flush the pending sheet
\* changes, updating `data` as appropriate", GenericAuthorStyles::flush).
RootsUpToDate ==
  \A r \in Root : ~Dirty(r) =>
    entries[styles[r].data].rules = Build(Env, SheetsOf(r)).rules

\* Its invalidation data cover those rules and record what was effective.
RootsInvalidationDataComplete ==
  \A r \in Root : ~Dirty(r) =>
    LET data == entries[styles[r].data]
    IN  /\ ToSet(data.rules) \subseteq data.selectors
        /\ data.effective = Build(Env, SheetsOf(r)).effective

\* The state has its type, and the sheets of a root that is not dirty are
\* committed, whichever way the flush went.
RootsCommitted ==
  /\ TypeOK
  /\ \A r \in Root : ~Dirty(r) =>
       \A i \in DOMAIN styles[r].stylesheets.entries : styles[r].stylesheets.entries[i].committed
=============================================================================
