------------------------- MODULE MCCascadeDataCache -------------------------
(* Shadow roots and sheets for TLC: a plain one, one that depends on the   *)
(* device, and one that scripts edit.                                      *)
EXTENDS CascadeDataCache, TLC

RootSheet == {"plain", "device", "edited"}
RootRule == {"plain.style", "device.media", "edited.style", "edited.added"}
RootKind == [r \in RootRule |-> IF r = "device.media" THEN "media" ELSE "style"]
RootSheetMedia == [s \in RootSheet |-> "all"]
RootContents ==
  [plain |-> <<"plain.style">>, device |-> <<"device.media">>,
   edited |-> <<"edited.style", "edited.added">>]
RootCondition == [r \in RootRule |-> IF r = "device.media" THEN "wide" ELSE "all"]
NoDefines == << >>

RootsAlike == Permutations(Root)

\* The sheet that is edited belongs to one root: while a root has it, with the
\* device sheet at most, the others are flushed and have none, and it is in
\* its first state when no root has it. Without this bound two roots share
\* an edited sheet (CascadeDataCache_adopted.cfg).
EditedByOne ==
  /\ \A r \in Root : "edited" \in ToSet(SheetsOf(r)) =>
       /\ "plain" \notin ToSet(SheetsOf(r))
       /\ \A q \in Root \ {r} : SheetsOf(q) = << >> /\ ~Dirty(q)
  /\ (\A r \in Root : "edited" \notin ToSet(SheetsOf(r))) => contents = InitialContents
=============================================================================
