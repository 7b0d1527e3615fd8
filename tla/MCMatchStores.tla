--------------------------- MODULE MCMatchStores ---------------------------
(* Instances of MatchStores: a few windows, titles and slots, and as many   *)
(* ids as the properties need, up to MaxId.                                 *)
EXTENDS MatchStores, TLC

(* Windows, titles and slots have no order: the model takes any record that *)
(* fits where the code takes the first.                                     *)
Symmetry == Permutations(Window) \cup Permutations(Title) \cup Permutations(Slot)
=============================================================================
