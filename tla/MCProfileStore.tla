--------------------------- MODULE MCProfileStore ---------------------------
(***************************************************************************)
(* ProfileStore with a few interchangeable commands and names.             *)
(***************************************************************************)
EXTENDS ProfileStore, TLC

Symmetry == Permutations(Client) \cup Permutations(Name)
=============================================================================
