------------------------------- MODULE MCPage -------------------------------
(* TLC instances of the data page. *)
EXTENDS Page, TLC

Symmetry == Permutations(Bytes)
=============================================================================
