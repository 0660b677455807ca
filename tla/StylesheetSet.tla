---------------------------- MODULE StylesheetSet ----------------------------
(***************************************************************************)
(* The list of style sheets of an origin, what is known to be stale about  *)
(* the data built from it, and the invalidations a change of the list asks *)
(* for: SheetCollection in style/stylesheet_set.rs and the sheet part of   *)
(* StylesheetInvalidationSet in style/invalidation/stylesheets.rs.         *)
(***************************************************************************)
EXTENDS CascadeData

-----------------------------------------------------------------------------
(* Invalidations: everything, or the elements that match some rules. *)

InvalidationSet == [fully : BOOLEAN, rules : SUBSET Rule]

NoInvalidations == [fully |-> FALSE, rules |-> {}]

InvalidateFully == [fully |-> TRUE, rules |-> {}]

InvalidationsEmpty(inv) == ~inv.fully /\ inv.rules = {}

\* Invalidations for some effective rules.
CollectRules(inv, rules) ==
  IF inv.fully \/ \E r \in rules : Kind[r] = "custom_media"
    THEN InvalidateFully
    ELSE [inv EXCEPT !.rules = @ \cup rules]

CollectInvalidationsFor(env, custom, inv, s) ==
  IF inv.fully \/ ~Holds(SheetMedia[s], custom, env.wide)
    THEN inv
    ELSE CollectRules(inv, EffectiveRules(env, custom, s))

\* StylesheetInvalidationSet::rule_changed for a rule at the top of sheet s.
\* A generic change does not know the old condition of the rule: the rules
\* inside count as effective.
RuleChangedInvalidations(env, custom, inv, s, r, generic) ==
  IF \/ ~Holds(SheetMedia[s], custom, env.wide)
     \/ ~generic /\ Kind[r] = "media" /\ ~Holds(env.condition[r], custom, env.wide)
    THEN inv
    ELSE CollectRules(inv, {r})

-----------------------------------------------------------------------------
(* The collection of an origin. *)

\* DataValidity, in its order.
Valid == 0
CascadeInvalid == 1
FullyInvalid == 2

Entry == [sheet : Sheet, committed : BOOLEAN]

Collection == [entries : Seq(Entry), validity : Valid .. FullyInvalid, dirty : BOOLEAN]

NewCollection == [entries |-> << >>, validity |-> Valid, dirty |-> FALSE]

Sheets(coll) == [i \in DOMAIN coll.entries |-> coll.entries[i].sheet]

HasSheet(coll, s) == s \in ToSet(Sheets(coll))

NewEntry(s) == [sheet |-> s, committed |-> FALSE]

SetValidityAtLeast(coll, validity) ==
  [coll EXCEPT !.dirty = TRUE,
               !.validity = IF validity > @ THEN validity ELSE @]

AppendSheet(coll, s) ==
  [coll EXCEPT !.entries = Append(@, NewEntry(s)), !.dirty = TRUE]

\* find_sheet_index: a sheet is at most once in a collection.
IndexOf(coll, s) == CHOOSE i \in DOMAIN coll.entries : coll.entries[i].sheet = s

\* A mutant: an insertion is handled like an append.
InsertBefore_StaysValid(coll, s, before) ==
  [coll EXCEPT !.dirty = TRUE,
               !.entries = InsertAt(@, IndexOf(coll, before), NewEntry(s))]

InsertBefore(coll, s, before) ==
  [SetValidityAtLeast(coll, CascadeInvalid) EXCEPT
     !.entries = InsertAt(@, IndexOf(coll, before), NewEntry(s))]

Committed(coll, s) == coll.entries[IndexOf(coll, s)].committed

RemoveSheet(coll, s) ==
  LET shorter == [coll EXCEPT !.entries = RemoveAt(@, IndexOf(coll, s))]
  IN  IF Committed(coll, s) THEN SetValidityAtLeast(shorter, FullyInvalid)
                            ELSE [shorter EXCEPT !.dirty = TRUE]

\* A mutant: additions are taken to matter only when they are in the middle.
CollectPendingInvalidations_OnlyInserted(env, custom, inv, coll) ==
  IF coll.validity = Valid THEN inv
  ELSE FoldLeft(LAMBDA acc, e :
                  IF e.committed THEN acc
                  ELSE CollectInvalidationsFor(env, custom, acc, e.sheet),
                inv, coll.entries)

\* Invalidations for the sheets added since the last flush.
CollectPendingInvalidations(env, custom, inv, coll) ==
  IF ~coll.dirty THEN inv
  ELSE FoldLeft(LAMBDA acc, e :
                  IF e.committed THEN acc
                  ELSE CollectInvalidationsFor(env, custom, acc, e.sheet),
                inv, coll.entries)

\* The flush of a collection takes the two marks...
Flushed(coll) == [coll EXCEPT !.dirty = FALSE, !.validity = Valid]

\* A mutant: the sheets stay uncommitted.
CommitAll_Never(coll) == coll

\* ... and going over it with SheetCollectionFlusher::each commits its sheets.
CommitAll(coll) ==
  [coll EXCEPT !.entries = [i \in DOMAIN @ |-> [@[i] EXCEPT !.committed = TRUE]]]

-----------------------------------------------------------------------------
(* The rebuild of the data of an origin from the flushed collection. *)

\* A mutant: a sheet inserted in the middle is rebuilt like its neighbours.
RebuildKind_ByValidityOnly(coll, e) ==
  CASE coll.validity = Valid -> IF e.committed THEN "skip" ELSE "Full"
    [] coll.validity = CascadeInvalid -> "CascadeOnly"
    [] coll.validity = FullyInvalid -> "Full"

\* What each() passes for an entry, "skip" where it continues.
RebuildKind(coll, e) ==
  CASE ~e.committed -> "Full"
    [] e.committed /\ coll.validity = Valid -> "skip"
    [] e.committed /\ coll.validity = CascadeInvalid -> "CascadeOnly"
    [] e.committed /\ coll.validity = FullyInvalid -> "Full"

AddEntries(env, data, coll) ==
  FoldLeft(LAMBDA d, e :
             LET kind == RebuildKind(coll, e)
             IN  IF kind = "skip" THEN d
                 ELSE AddStylesheet(env, kind = "Full", d, e.sheet),
           data, coll.entries)

\* CascadeData::rebuild.
Rebuild(env, data, coll) ==
  IF ~coll.dirty THEN data
  ELSE LET kept == CASE coll.validity = Valid -> data
                     [] coll.validity = CascadeInvalid -> ClearCascadeData(data)
                     [] coll.validity = FullyInvalid ->
                          ClearInvalidationData(ClearCascadeData(data))
       IN  AddEntries(env, kept, coll)
=============================================================================
