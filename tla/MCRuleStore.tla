---------------------------- MODULE MCRuleStore -----------------------------
(* RuleStore for concurrent requests on a store with one rule.             *)
EXTENDS RuleStore, TLC

RequestSymmetry == Permutations(Request)
=============================================================================
