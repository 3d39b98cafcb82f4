----------------------------- MODULE RecordPage -----------------------------
(***************************************************************************)
(* What a data page promises: records under slot numbers that stay theirs  *)
(* until they are deleted.                                                 *)
(***************************************************************************)
EXTENDS Integers

CONSTANTS SlotNos,   \* slot numbers
          Records    \* byte sequences

VARIABLE recs        \* a function from the slot numbers in use to their records

Init == recs = [k \in {} |-> <<>>]

Insert == \E k \in SlotNos \ DOMAIN recs, r \in Records :
             recs' = [j \in DOMAIN recs \cup {k} |-> IF j = k THEN r ELSE recs[j]]

Update == \E k \in DOMAIN recs, r \in Records :
             /\ DOMAIN r = DOMAIN recs[k]     \* of the same length
             /\ recs' = [j \in DOMAIN recs |-> IF j = k THEN r ELSE recs[j]]

Delete == \E k \in DOMAIN recs : recs' = [j \in DOMAIN recs \ {k} |-> recs[j]]

Spec == Init /\ [][Insert \/ Update \/ Delete]_recs
=============================================================================
