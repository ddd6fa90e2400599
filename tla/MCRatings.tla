----------------------------- MODULE MCRatings -----------------------------
(* A small instance of Ratings for TLC. *)
EXTENDS Ratings, TLC

Symmetry == Permutations(Requests) \cup Permutations(Ids)
=============================================================================
