----------------------------- MODULE MCStylist -----------------------------
(***************************************************************************)
(* Documents for TLC. A rule is named after its sheet, "custom" rules      *)
(* define the custom media query "--n".                                    *)
(***************************************************************************)
EXTENDS Stylist, TLC

DocName == {"--n"}

KindOf(styles, medias, customs) ==
  [r \in styles \cup medias \cup customs |->
     CASE r \in styles -> "style" [] r \in medias -> "media" [] r \in customs -> "custom_media"]

DefinesN(customs) == [r \in customs |-> "--n"]

-----------------------------------------------------------------------------
(* Two origins: of the author a plain sheet, and one that defines a custom *)
(* media query and uses it; of the user agent one with a block for wide    *)
(* devices.                                                                *)

TwoOriginsSheet == {"plain", "own", "ua"}
TwoOriginsRule == {"plain.style", "own.custom", "own.media", "ua.media"}
TwoOriginsKind == KindOf({"plain.style"}, {"own.media", "ua.media"}, {"own.custom"})
TwoOriginsDefines == DefinesN({"own.custom"})
TwoOriginsSheetMedia == [s \in TwoOriginsSheet |-> "all"]
TwoOriginsOriginOf == [s \in TwoOriginsSheet |-> IF s = "ua" THEN "UserAgent" ELSE "Author"]
TwoOriginsContents ==
  [plain |-> <<"plain.style">>, own |-> <<"own.custom", "own.media">>, ua |-> <<"ua.media">>]
TwoOriginsCondition ==
  "own.custom" :> "wide" @@ "own.media" :> "--n" @@ "ua.media" :> "wide" @@ "plain.style" :> "all"
TwoOriginsScripted == {"own.custom", "own.media"}

\* States are told apart without what the last flush returned, which nothing
\* reads: the steps that return it are checked one by one.
WithoutReturned ==
  <<wide, contents, condition, collections, invalidations, cascade, flushed>>

-----------------------------------------------------------------------------
(* A custom media query defined in one author sheet and used in another.   *)

CustomSheet == {"defines", "uses"}
CustomRule == {"defines.custom", "uses.media"}
CustomKind == KindOf({}, {"uses.media"}, {"defines.custom"})
CustomDefines == DefinesN({"defines.custom"})
CustomSheetMedia == [s \in CustomSheet |-> "all"]
CustomOriginOf == [s \in CustomSheet |-> "Author"]
CustomContents == [defines |-> <<"defines.custom">>, uses |-> <<"uses.media">>]
CustomCondition == "defines.custom" :> "all" @@ "uses.media" :> "--n"
=============================================================================
