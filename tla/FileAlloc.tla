----------------------------- MODULE FileAlloc -----------------------------
(***************************************************************************)
(* What a database file promises about its pages: a page allocated belongs *)
(* to whoever got it until it is disposed of, disposed pages are handed    *)
(* out again last in first out, and the first page is there for good.      *)
(* BufMgr takes its file operations from here.                             *)
(***************************************************************************)
EXTENDS Integers, Sequences

CONSTANT MaxPages

VARIABLES free,      \* pages disposed of, most recent first
          numPages,  \* header page included
          owned      \* pages handed out and not disposed of

Init == free = <<>> /\ numPages = 1 /\ owned = {}

Reuse ==
    /\ free # <<>>
    /\ owned' = owned \cup {Head(free)}
    /\ free' = Tail(free)
    /\ UNCHANGED numPages

Extend ==
    /\ free = <<>> /\ numPages <= MaxPages
    /\ owned' = owned \cup {numPages}
    /\ numPages' = numPages + 1
    /\ UNCHANGED free

Dispose(p) ==
    /\ p \in owned /\ p # 1
    /\ owned' = owned \ {p}
    /\ free' = <<p>> \o free
    /\ UNCHANGED numPages

Next == Reuse \/ Extend \/ \E p \in owned : Dispose(p)

Spec == Init /\ [][Next]_<<free, numPages, owned>>
=============================================================================
