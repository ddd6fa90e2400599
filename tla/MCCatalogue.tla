---------------------------- MODULE MCCatalogue ----------------------------
(* A small instance of Catalogue, and of the paging of its listing, for TLC. *)
EXTENDS Catalogue
=============================================================================
