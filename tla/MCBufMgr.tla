------------------------------ MODULE MCBufMgr ------------------------------
(* TLC instances of the buffer manager. *)
EXTENDS BufMgr, TLC

Symmetry == Permutations(Files) \cup Permutations(Clients) \cup Permutations(Data)
=============================================================================
