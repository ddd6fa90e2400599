---------------------------- MODULE MCGroupTitles ----------------------------
(* A small instance of GroupTitles for TLC. *)
EXTENDS GroupTitles, TLC

Symmetry == Permutations(Calls)
=============================================================================
