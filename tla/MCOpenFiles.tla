---------------------------- MODULE MCOpenFiles ----------------------------
(* TLC instances of the table of open files. *)
EXTENDS OpenFiles, TLC

Symmetry == Permutations(Names) \cup Permutations(Addrs) \cup Permutations(Clients)
=============================================================================
