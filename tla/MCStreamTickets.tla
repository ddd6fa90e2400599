-------------------------- MODULE MCStreamTickets --------------------------
(* A small instance of StreamTickets for TLC. *)
EXTENDS StreamTickets, TLC

Symmetry == Permutations(Callers) \cup Permutations(Tickets) \cup Permutations(Users)
=============================================================================
