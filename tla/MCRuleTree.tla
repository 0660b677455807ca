----------------------------- MODULE MCRuleTree -----------------------------
(* RuleTree with its inductive invariant, for TLC. *)
EXTENDS RuleTreeInductive
=============================================================================
