------------------------------ MODULE MCTrade -------------------------------
(* Trade on a small instance, for TLC.                                       *)
EXTENDS Trade, TLC

Symmetry == Permutations(Players) \cup Permutations(Items)
=============================================================================
