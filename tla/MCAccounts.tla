------------------------------ MODULE MCAccounts ------------------------------
(* A small instance of Accounts for TLC. *)
EXTENDS Accounts, TLC

Symmetry == Permutations(Ids) \cup Permutations(Words) \cup Permutations(Passwords)
            \cup Permutations(Requests)
=============================================================================
