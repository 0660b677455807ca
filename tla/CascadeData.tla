----------------------------- MODULE CascadeData -----------------------------
(***************************************************************************)
(* What the stylist builds from a list of style sheets: CascadeData in     *)
(* style/stylist.rs, as a value and the operators that build it, whole or  *)
(* sheet by sheet.                                                         *)
(*                                                                         *)
(* A sheet is a sequence of rules. A "style" rule always applies; a        *)
(* "media" rule is an @media block with one style rule in it, and stands   *)
(* for that rule too; a "custom_media" rule defines a custom media query.  *)
(* A media condition is "all", "wide" (it depends on the device) or the    *)
(* name of a custom media query, whose own condition is one of the first   *)
(* two. Everything evaluates in an environment                             *)
(*   env.wide       the device,                                            *)
(*   env.contents   the rules of each sheet, in order,                     *)
(*   env.condition  the condition of each rule.                            *)
(***************************************************************************)
EXTENDS Naturals, Sequences, SequencesExt

CONSTANTS
  Sheet,        \* style sheets
  Rule,         \* their rules
  Kind,         \* Kind[r]: "style", "media" or "custom_media"
  Name,         \* names of custom media queries
  Defines,      \* Defines[r]: the name a "custom_media" rule defines
  SheetMedia,   \* SheetMedia[s]: the condition on the sheet as a whole
  InitialContents,  \* InitialContents[s]: the rules of a sheet, in order
  InitialCondition, \* InitialCondition[r]: the condition of a rule
  Scripted      \* rules that scripts insert, remove and edit

BaseCondition == {"all", "wide"}
Condition == BaseCondition \cup Name

RulesOf(s) == ToSet(InitialContents[s])

\* A rule is in one sheet, once.
ASSUME CascadeDataAssumption ==
  /\ Sheet \cap Rule = {}
  /\ Kind \in [Rule -> {"style", "media", "custom_media"}]
  /\ Defines \in [{r \in Rule : Kind[r] = "custom_media"} -> Name]
  /\ SheetMedia \in [Sheet -> Condition]
  /\ Name \cap BaseCondition = {}
  /\ InitialContents \in [Sheet -> Seq(Rule)]
  /\ \A s \in Sheet : IsInjective(InitialContents[s])
  /\ \A s, t \in Sheet : s # t => RulesOf(s) \cap RulesOf(t) = {}
  /\ InitialCondition \in [Rule -> Condition]
  /\ \A r \in Rule : Kind[r] = "custom_media" => InitialCondition[r] \in BaseCondition
  /\ Scripted \subseteq Rule

-----------------------------------------------------------------------------
(* Media queries. *)

\* A name that is not defined evaluates to Unknown, which a media list
\* takes for false.
Holds(cond, custom, wide) ==
  \/ cond = "all"
  \/ (cond = "wide" /\ wide)
  \/ /\ cond \in DOMAIN custom
     /\ \/ custom[cond] = "all"
        \/ (custom[cond] = "wide" /\ wide)

\* The style rules and custom media rules of s that apply when every
\* condition is evaluated with the custom media map `custom`.
EffectiveRules(env, custom, s) ==
  {r \in ToSet(env.contents[s]) :
     Kind[r] = "media" => Holds(env.condition[r], custom, env.wide)}

-----------------------------------------------------------------------------
(* The data of one origin.                                                 *)
(*   rules      the style rules in the cascade, in source order,           *)
(*   custom     the custom media map,                                      *)
(*   selectors  the style rules noted in the invalidation maps,            *)
(*   effective  the sheets and @media rules that were effective.           *)
(* The first two are cascade data, the others invalidation data.           *)

CascadeDataType ==
  [rules : Seq(Rule), custom : UNION {[N -> BaseCondition] : N \in SUBSET Name},
   selectors : SUBSET Rule, effective : SUBSET (Sheet \cup Rule)]

EmptyData ==
  [rules |-> << >>, custom |-> << >>, selectors |-> {}, effective |-> {}]

ClearCascadeData(data) == [data EXCEPT !.rules = << >>, !.custom = << >>]

\* A mutant: the effective results are not reset.
ClearInvalidationData_KeepsEffective(data) == [data EXCEPT !.selectors = {}]

ClearInvalidationData(data) == [data EXCEPT !.selectors = {}, !.effective = {}]

AddStyle(full, data, r) ==
  [data EXCEPT !.rules = Append(@, r),
               !.selectors = IF full THEN @ \cup {r} ELSE @]

SawEffective(full, data, x) ==
  [data EXCEPT !.effective = IF full THEN @ \cup {x} ELSE @]

\* One rule of a sheet. `full` is SheetRebuildKind::Full: the invalidation
\* data is noted too.
AddRule(env, full, data, r) ==
  CASE Kind[r] = "style" -> AddStyle(full, data, r)
    [] Kind[r] = "media" ->
         IF Holds(env.condition[r], data.custom, env.wide)
           THEN AddStyle(full, SawEffective(full, data, r), r)
           ELSE data
    [] Kind[r] = "custom_media" ->
         [data EXCEPT !.custom =
            [n \in DOMAIN @ \cup {Defines[r]} |->
               IF n = Defines[r] THEN env.condition[r] ELSE @[n]]]

AddStylesheet(env, full, data, s) ==
  IF Holds(SheetMedia[s], data.custom, env.wide)
    THEN FoldLeft(LAMBDA d, r : AddRule(env, full, d, r),
                  SawEffective(full, data, s), env.contents[s])
    ELSE data

\* The reference: the data of the sheets in this order, built from nothing.
Build(env, sheets) ==
  FoldLeft(LAMBDA d, s : AddStylesheet(env, TRUE, d, s), EmptyData, sheets)

-----------------------------------------------------------------------------
(* Whether a device change matters to a sheet: the conditions are         *)
(* evaluated with the final custom media map of the origin and compared    *)
(* with what was effective when the data was built.                        *)

MediaFeatureAffectedMatches(env, data, s) ==
  LET now == Holds(SheetMedia[s], data.custom, env.wide)
  IN  /\ (now <=> s \in data.effective)
      /\ now => \A r \in ToSet(env.contents[s]) :
           Kind[r] = "media" =>
             (Holds(env.condition[r], data.custom, env.wide)
                <=> r \in data.effective)
=============================================================================
