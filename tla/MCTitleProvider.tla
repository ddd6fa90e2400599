--------------------------- MODULE MCTitleProvider ---------------------------
(* A small instance of TitleProvider for TLC. *)
EXTENDS TitleProvider
=============================================================================
