------------------------------ MODULE Stylist ------------------------------
(***************************************************************************)
(* The stylist of one document: Stylist in style/stylist.rs with its       *)
(* DocumentStylesheetSet. Scripts and the loader change the sheets, the    *)
(* embedder changes the device, and a flush brings the cascade data of     *)
(* every origin up to date, as incrementally as the marks on the           *)
(* collections allow, and returns what has to be restyled.                 *)
(*                                                                         *)
(* The calls are sequential: each is one action. The user-agent data come  *)
(* from a cache shared with the other documents, of which this module      *)
(* only sees whether it answers (CascadeDataCache looks inside).           *)
(***************************************************************************)
EXTENDS StylesheetSet

CONSTANTS
  OriginOf   \* OriginOf[s]: the cascade origin of a sheet

Origin == {"UserAgent", "User", "Author"}

ASSUME StylistAssumption == OriginOf \in [Sheet -> Origin]

VARIABLES
  wide,         \* the device: whether the viewport is wide
  contents,     \* the rules of each sheet, in order
  condition,    \* the condition of each rule
  collections,  \* DocumentStylesheetSet.collections
  invalidations,\* DocumentStylesheetSet.invalidations
  cascade,      \* the CascadeData of each origin
  flushed,      \* sheets that were in their collection at a flush (history)
  returned      \* what the last flush returned (output)

vars == <<wide, contents, condition, collections, invalidations, cascade,
          flushed, returned>>

Env == [wide |-> wide, contents |-> contents, condition |-> condition]

EnvOn(device) == [Env EXCEPT !.wide = device]

TypeOK ==
  /\ wide \in BOOLEAN
  /\ contents \in [Sheet -> Seq(Rule)]
  /\ condition \in [Rule -> Condition]
  /\ collections \in [Origin -> Collection]
  /\ invalidations \in InvalidationSet
  /\ cascade \in [Origin -> CascadeDataType]
  /\ flushed \subseteq Sheet
  /\ returned \in InvalidationSet

Init ==
  /\ wide = TRUE
  /\ contents = InitialContents
  /\ condition = InitialCondition
  /\ collections = [o \in Origin |-> NewCollection]
  /\ invalidations = NoInvalidations
  /\ cascade = [o \in Origin |-> EmptyData]
  /\ flushed = {}
  /\ returned = NoInvalidations

InSet(s) == HasSheet(collections[OriginOf[s]], s)

CustomMediaFor(s) == cascade[OriginOf[s]].custom

SetCollection(s, coll) == collections' = [collections EXCEPT ![OriginOf[s]] = coll]

-----------------------------------------------------------------------------
(* Changes of the list of sheets. *)

AppendStylesheet(s) ==
  /\ ~InSet(s)
  /\ SetCollection(s, AppendSheet(collections[OriginOf[s]], s))
  /\ UNCHANGED <<wide, contents, condition, invalidations, cascade, flushed, returned>>

InsertStylesheetBefore(s, before) ==
  /\ ~InSet(s) /\ InSet(before) /\ OriginOf[before] = OriginOf[s]
  /\ SetCollection(s, InsertBefore(collections[OriginOf[s]], s, before))
  /\ UNCHANGED <<wide, contents, condition, invalidations, cascade, flushed, returned>>

RemoveStylesheet(s) ==
  /\ InSet(s)
  /\ invalidations' =
       IF Committed(collections[OriginOf[s]], s)
         THEN CollectInvalidationsFor(Env, CustomMediaFor(s), invalidations, s)
         ELSE invalidations
  /\ SetCollection(s, RemoveSheet(collections[OriginOf[s]], s))
  /\ flushed' = flushed \ {s}
  /\ UNCHANGED <<wide, contents, condition, cascade, returned>>

-----------------------------------------------------------------------------
(* Changes of a sheet by a script, each reported with rule_changed. *)

RuleChanged(s, r, generic) ==
  /\ invalidations' = RuleChangedInvalidations([Env EXCEPT !.condition = condition'],
                                               CustomMediaFor(s), invalidations, s, r, generic)
  /\ SetCollection(s, SetValidityAtLeast(collections[OriginOf[s]], FullyInvalid))
  /\ UNCHANGED <<wide, cascade, flushed, returned>>

\* RuleChangeKind::Insertion, at any position.
InsertRule(s, r, i) ==
  /\ InSet(s) /\ r \in Scripted \cap RulesOf(s) /\ r \notin ToSet(contents[s])
  /\ i \in 1 .. Len(contents[s]) + 1
  /\ contents' = [contents EXCEPT ![s] = InsertAt(@, i, r)]
  /\ condition' = condition
  /\ RuleChanged(s, r, FALSE)

\* RuleChangeKind::Removal.
RemoveRule(s, i) ==
  /\ InSet(s) /\ i \in DOMAIN contents[s] /\ contents[s][i] \in Scripted
  /\ contents' = [contents EXCEPT ![s] = RemoveAt(@, i)]
  /\ condition' = condition
  /\ RuleChanged(s, contents[s][i], FALSE)

\* RuleChangeKind::Generic: the media text of a block changes.
ChangeMedia(s, r, cond) ==
  /\ InSet(s) /\ r \in Scripted /\ r \in ToSet(contents[s]) /\ Kind[r] = "media"
  /\ cond # condition[r]
  /\ condition' = [condition EXCEPT ![r] = cond]
  /\ contents' = contents
  /\ RuleChanged(s, r, TRUE)

-----------------------------------------------------------------------------
(* Device changes. *)

\* force_stylesheet_origins_dirty.
ForceDirty(origins) ==
  /\ invalidations' = InvalidateFully
  /\ collections' = [o \in Origin |->
       IF o \in origins THEN SetValidityAtLeast(collections[o], FullyInvalid)
                        ELSE collections[o]]

\* media_features_change_changed_style: the origins whose style a device
\* change affects.
ChangedOrigins(device) ==
  {o \in Origin : \E s \in ToSet(Sheets(collections[o])) :
     ~MediaFeatureAffectedMatches(EnvOn(device), cascade[o], s)}

\* set_device, and the embedder marking the origins it returns.
SetDevice ==
  /\ wide' = ~wide
  /\ IF ChangedOrigins(~wide) = {}
       THEN UNCHANGED <<collections, invalidations>>
       ELSE ForceDirty(ChangedOrigins(~wide))
  /\ UNCHANGED <<contents, condition, cascade, flushed, returned>>

-----------------------------------------------------------------------------
(* The flush. *)

HasChanged ==
  \/ ~InvalidationsEmpty(invalidations)
  \/ \E o \in Origin : collections[o].dirty

PendingInvalidations ==
  FoldLeft(LAMBDA inv, o :
             CollectPendingInvalidations(Env, cascade[o].custom, inv, collections[o]),
           invalidations, <<"UserAgent", "User", "Author">>)

\* The data of an origin after the flush. The user-agent data are built
\* whole, or taken from the cache, where another document built them whole.
RebuiltData(o) ==
  IF o = "UserAgent" /\ collections[o].dirty
    THEN Build(Env, Sheets(collections[o]))
    ELSE Rebuild(Env, cascade[o], collections[o])

\* UserAgentCascadeData::rebuild goes over the sheets without committing
\* them; a cache hit, and the other origins, commit them.
FlushedCollection(o, cacheHit) ==
  IF collections[o].dirty /\ (o = "UserAgent" => cacheHit)
    THEN CommitAll(Flushed(collections[o]))
    ELSE Flushed(collections[o])

Flush(cacheHit) ==
  /\ HasChanged
  /\ returned' = PendingInvalidations
  /\ invalidations' = NoInvalidations
  /\ cascade' = [o \in Origin |-> RebuiltData(o)]
  /\ collections' = [o \in Origin |-> FlushedCollection(o, cacheHit)]
  /\ flushed' = {s \in Sheet : InSet(s)}
  /\ UNCHANGED <<wide, contents, condition>>

Next ==
  \/ \E s \in Sheet :
       \/ AppendStylesheet(s)
       \/ RemoveStylesheet(s)
       \/ \E before \in Sheet : InsertStylesheetBefore(s, before)
       \/ \E i \in DOMAIN contents[s] : RemoveRule(s, i)
       \/ \E r \in Rule :
            \/ \E i \in 1 .. Len(contents[s]) + 1 : InsertRule(s, r, i)
            \/ \E cond \in BaseCondition : ChangeMedia(s, r, cond)
  \/ SetDevice
  \/ \E cacheHit \in BOOLEAN : Flush(cacheHit)

Spec == Init /\ [][Next]_vars

-----------------------------------------------------------------------------
(* Properties. *)

\* Once there is nothing to flush, the cascade data of every origin are what
\* a build from nothing would give: same rules in the same order, same
\* custom media ("ensuring the stylist is up-to-date", Stylist::flush).
UpToDate ==
  ~HasChanged =>
    \A o \in Origin :
      LET fresh == Build(Env, Sheets(collections[o]))
      IN  /\ cascade[o].rules = fresh.rules
          /\ cascade[o].custom = fresh.custom

\* The invalidation data of a clean origin cover the rules of its cascade and
\* record exactly the queries that were effective: a partial rebuild leaves
\* them as they are, because they are "order-independent"
\* (DataValidity::CascadeInvalid).
InvalidationDataComplete ==
  \A o \in Origin :
    ~collections[o].dirty =>
      LET fresh == Build(Env, Sheets(collections[o]))
      IN  /\ ToSet(cascade[o].rules) \subseteq cascade[o].selectors
          /\ cascade[o].effective = fresh.effective

\* If a device change would alter the rules of a clean origin, the check of
\* the media features reports the origin
\* (Stylist::media_features_change_changed_style).
MediaChangesReported ==
  \A o \in Origin :
    ~collections[o].dirty =>
      \/ Build(EnvOn(~wide), Sheets(collections[o])).rules = cascade[o].rules
      \/ o \in ChangedOrigins(~wide)

\* The state has its type, and of the origins whose data are the document's
\* own a sheet is committed exactly if it has been part of a flush
\* (StylesheetSetEntry::committed): what was never flushed has nothing to
\* invalidate when it is removed, what was has. The user-agent origin is left
\* out: a cache miss builds its data without committing its sheets.
OwnCommittedWhenFlushed ==
  /\ TypeOK
  /\ \A o \in {"User", "Author"} : \A i \in DOMAIN collections[o].entries :
       LET e == collections[o].entries[i] IN e.committed <=> e.sheet \in flushed

Covered(inv, r) == inv.fully \/ r \in inv.rules

Precedes(seq, r, q) ==
  \E i, j \in DOMAIN seq : i < j /\ seq[i] = r /\ seq[j] = q

\* Whatever a flush changes about the cascade of an origin whose data are the
\* document's own, the invalidations it returns cover: a rule that enters or
\* leaves it, and one of any two rules that change places (Stylist::flush).
RestyleCovers ==
  [][\A o \in {"User", "Author"} :
       LET before == cascade[o].rules
           after  == cascade'[o].rules
       IN  /\ \A r \in Rule :
                (r \in ToSet(before)) # (r \in ToSet(after)) => Covered(returned', r)
           /\ \A r, q \in ToSet(after) :
                Precedes(before, r, q) /\ Precedes(after, q, r) =>
                  Covered(returned', r) \/ Covered(returned', q)]_vars
=============================================================================
