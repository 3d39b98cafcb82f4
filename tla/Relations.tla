----------------------------- MODULE Relations -----------------------------
(***************************************************************************)
(* What the catalogs promise the rest of the program: a relation is there  *)
(* with all of its attributes or it is not there, and it comes and goes in *)
(* one step, although it is a Unix file, a row of relcat and several rows  *)
(* of attrcat.  Only relations a crash caught with rows in memory are      *)
(* excepted, until they are dropped.                                       *)
(***************************************************************************)
CONSTANTS Names, Attrs

VARIABLES
    schema,     \* Names -> the attributes of the relation, {} if there is none
    damaged     \* names a crash has left in an unknown state

vars == <<schema, damaged>>

Others(S) == \A m \in Names \ S : schema'[m] = schema[m]

Create(n, A) ==
    /\ n \notin damaged /\ schema[n] = {}
    /\ schema' = [schema EXCEPT ![n] = A]
    /\ UNCHANGED damaged

Drop(n) ==
    /\ n \notin damaged
    /\ schema' = [schema EXCEPT ![n] = {}]
    /\ UNCHANGED damaged

(* anything may become of a damaged relation; dropped, it is as good as new *)
Damage(n) ==
    /\ n \in damaged
    /\ Others({n})
    /\ damaged' = damaged \/ (damaged' = damaged \ {n} /\ schema'[n] = {})

Crash ==
    /\ damaged \subseteq damaged' /\ damaged' \subseteq Names
    /\ Others(damaged')

Init == schema = [n \in Names |-> {}] /\ damaged = {}

Next ==
    \/ \E n \in Names : Drop(n) \/ Damage(n) \/ \E A \in (SUBSET Attrs) \ {{}} : Create(n, A)
    \/ Crash

Spec == Init /\ [][Next]_vars
=============================================================================
