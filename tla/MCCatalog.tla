----------------------------- MODULE MCCatalog -----------------------------
(* TLC instances of the catalogs. *)
EXTENDS Catalog, TLC

Symmetry == Permutations(Names) \cup Permutations(Attrs)
=============================================================================
