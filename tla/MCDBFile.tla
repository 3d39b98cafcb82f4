------------------------------ MODULE MCDBFile ------------------------------
(* TLC instances of the database file. *)
EXTENDS DBFile, TLC

Symmetry == Permutations(Data)
=============================================================================
