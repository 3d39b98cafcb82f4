----------------------------- MODULE PageStore -----------------------------
(***************************************************************************)
(* What the buffer manager promises its clients: the pages of the open     *)
(* files behave as one shared store.  Whoever pins a page sees the last    *)
(* image any pin holder wrote there, wherever the page went in between     *)
(* (pool, file, another frame), and caching is invisible.                  *)
(*                                                                         *)
(* Every page has a second image, the one on file.  It is brought up to    *)
(* date at any time, and matters twice: at the next start, which finds the *)
(* files, and when a dispose that the file layer refuses has already       *)
(* forgotten the page.  No other step loses an update.                     *)
(***************************************************************************)
EXTENDS Integers, FiniteSets

CONSTANTS Keys,     \* <<file, page number>>
          Clients,
          Data,     \* images clients write
          Lossless  \* TRUE if Unix writes never fail

VARIABLES
    store,      \* Keys -> current image
    saved,      \* Keys -> image on file
    inUse,      \* keys allocated and not disposed of
    held,       \* Clients -> Keys -> "no" | "clean" | "wrote"
    status      \* what the last call returned; "started" when the program starts

vars == <<store, saved, inUse, held>>

(* the file may catch up with the store, and may do nothing else *)
Saving(S) == \A j \in S : saved'[j] \in {saved[j], store[j]}
CatchUp == Saving(Keys)

(* what befalls k alone *)
OthersKeep(k) ==
    /\ \A j \in Keys \ {k} : store'[j] = store[j]
    /\ Saving(Keys \ {k})

Holders(k) == {c \in Clients : held[c][k] # "no"}

Save ==
    /\ UNCHANGED <<held, inUse, store>>
    /\ CatchUp

Pin(c, k) ==
    /\ held[c][k] = "no" /\ held' = [held EXCEPT ![c][k] = "clean"]
    /\ k \in inUse
    /\ UNCHANGED <<inUse, store>>
    /\ CatchUp

Write(c, k, d) ==
    /\ c \in Holders(k) /\ held' = [held EXCEPT ![c][k] = "wrote"]
    /\ store' = [store EXCEPT ![k] = d]
    /\ UNCHANGED <<saved, inUse>>

Unpin(c, k) ==
    /\ c \in Holders(k)
    /\ held' = [held EXCEPT ![c][k] = "no"]
    /\ UNCHANGED <<store, saved, inUse>>

(* a new page has an unspecified image, which its holder must replace *)
Allocate(c, k) ==
    /\ Holders(k) = {} /\ held' = [held EXCEPT ![c][k] = "wrote"]
    /\ k \notin inUse /\ inUse' = inUse \cup {k}
    /\ OthersKeep(k)

(* no frame could be had: the page is allocated, and nobody's *)
AllocateInVain(k) ==
    /\ status' \notin {"OK", "started"}
    /\ k \notin inUse /\ inUse' = inUse \cup {k}
    /\ OthersKeep(k)
    /\ UNCHANGED held

(* only the image of the disposed page may change *)
Dispose(k) ==
    /\ status' = "OK"
    /\ Holders(k) = {} /\ UNCHANGED held
    /\ k \in inUse /\ inUse' = inUse \ {k}
    /\ OthersKeep(k)

(* the file layer refuses the page, or fails before it is on the free list: *)
(* the page shows what the file has, its own unsaved updates are taken back *)
DisposeRefused(k) ==
    /\ status' \in {"BADPAGENO", "DISPOSEFAILED"}
    /\ status' = "BADPAGENO" => saved'[k] = saved[k]
    /\ Holders(k) = {} /\ store'[k] = saved'[k]
    /\ OthersKeep(k)
    /\ UNCHANGED <<inUse, held>>

(* the next start finds every page as the last one left it, or, where the  *)
(* shutdown's own write failed, as it was on file before                   *)
Restart ==
    /\ status' = "started"
    /\ held' = [c \in Clients |-> [k \in Keys |-> "no"]]
    /\ CatchUp /\ store' = saved'
    /\ Lossless => UNCHANGED store
    /\ UNCHANGED inUse

Init == /\ inUse = {} /\ store = saved
        /\ held = [c \in Clients |-> [k \in Keys |-> "no"]]

Next ==
    \/ Save
    \/ \E c \in Clients, k \in Keys :
          Pin(c, k) \/ Unpin(c, k) \/ Allocate(c, k) \/ \E d \in Data : Write(c, k, d)
    \/ \E k \in Keys : AllocateInVain(k) \/ Dispose(k) \/ DisposeRefused(k)
    \/ Restart

Spec == Init /\ [][Next]_vars
=============================================================================
