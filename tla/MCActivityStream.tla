-------------------------- MODULE MCActivityStream --------------------------
(* A small instance of ActivityStream for TLC. *)
EXTENDS ActivityStream, TLC

Symmetry == Permutations(Conns)
=============================================================================
