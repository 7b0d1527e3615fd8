---------------------------- MODULE MCRuleEngine ----------------------------
(* Small instances of RuleEngine.                                          *)
EXTENDS RuleEngine, TLC

CONSTANTS w1, w2, t1, t2

Symmetry == Permutations(Window)
MCPatterns == {{t1}, {t1, t2}}
=============================================================================
