------------------------- MODULE MCGroupMembership -------------------------
(* A small instance of GroupMembership for TLC. *)
EXTENDS GroupMembership, TLC

Symmetry == Permutations(Requests) \cup Permutations(Users) \cup Permutations(Groups)
=============================================================================
