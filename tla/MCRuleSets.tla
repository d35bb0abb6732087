------------------------------ MODULE MCRuleSets ------------------------------
(***************************************************************************)
(* The users of RuleScenarios.                                             *)
(***************************************************************************)
EXTENDS RuleSets, RuleScenarios
=============================================================================
