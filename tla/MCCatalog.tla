----------------------------- MODULE MCCatalog -----------------------------
(***************************************************************************)
(* A small instance of Catalog for TLC.  Binary codes of two digits: 01,   *)
(* 10, 11, and 100, which sorts before 11 as GDN10000 does before GDN9999. *)
(***************************************************************************)
EXTENDS Catalog, TLC

CONSTANTS red, blue

OneColour == {{red}, {blue}}

Alike == Permutations(Workers) \cup Permutations(Skus) \cup Permutations({red, blue})
=============================================================================
