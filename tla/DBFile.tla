------------------------------- MODULE DBFile -------------------------------
(***************************************************************************)
(* A database file of part5/part5 (db.C: File::create, allocatePage,       *)
(* disposePage, readPage, writePage): page 0 holds the header {nextFree,   *)
(* firstPage, numPages}; free pages are chained through their first word.  *)
(*                                                                         *)
(* Each Unix write is a step of its own: extending the file and disposing  *)
(* of a page take two, and the second may fail or the process die before   *)
(* it.  A completed write stays in the file; a failed one changes nothing. *)
(* op is what the call in progress keeps in local variables.               *)
(***************************************************************************)
EXTENDS Integers, Sequences, FiniteSets

CONSTANTS MaxPages,   \* bound: highest page number the file grows to
          Data        \* page images the owners of pages write

ASSUME MaxPagesAssumption == MaxPages \in Nat \ {0}
ASSUME DataAssumption == "none" \notin Data

Pages == 1 .. MaxPages
Nil   == -1
Word  == -2           \* the first word of a page in use: whatever its owner put there

VARIABLES
    header,   \* page 0
    image,    \* Pages -> [nextFree, data] as in the file
    length,   \* pages in the Unix file
    op,       \* the call between its two writes
    owned,    \* pages handed out by allocatePage and not disposed of
    wrote     \* history: what the owner of a page last wrote there

vars == <<header, image, length, op, owned, wrote>>

Zeros == [nextFree |-> 0, data |-> "zeros"]
Idle  == [call |-> "none", page |-> Nil, header |-> [nextFree |-> Nil, firstPage |-> Nil, numPages |-> 1]]

Init ==
    /\ header = [nextFree |-> Nil, firstPage |-> Nil, numPages |-> 1]
    /\ image = [p \in Pages |-> Zeros]
    /\ length = 1
    /\ op = Idle
    /\ owned = {}
    /\ wrote = [p \in Pages |-> "none"]

Readable(p) == p \in Pages /\ p < length

-----------------------------------------------------------------------------
(* allocatePage *)

(* mutant: the header is not written, the list still starts with the page *)
Reuse_KeepsHead ==
    /\ op = Idle /\ header.nextFree # Nil /\ Readable(header.nextFree)
    /\ owned' = owned \cup {header.nextFree}
    /\ wrote' = [wrote EXCEPT ![header.nextFree] = "none"]
    /\ UNCHANGED <<header, image, length, op>>

(* from the free list: the one write is the header's *)
Reuse ==
    LET p == header.nextFree IN
    /\ op = Idle /\ p # Nil /\ Readable(p)
    /\ header' = [header EXCEPT !.nextFree = image[p].nextFree]
    /\ owned' = owned \cup {p}
    /\ wrote' = [wrote EXCEPT ![p] = "none"]
    /\ UNCHANGED <<image, length, op>>

(* mutant: the header is written before the page *)
ExtendPage_HeaderFirst ==
    LET p == header.numPages IN
    /\ op = Idle /\ header.nextFree = Nil /\ p \in Pages
    /\ header' = [header EXCEPT !.numPages = p + 1,
                                !.firstPage = IF header.firstPage = Nil THEN p ELSE header.firstPage]
    /\ op' = [call |-> "extend", page |-> p, header |-> header']
    /\ UNCHANGED <<image, length, owned, wrote>>

(* mutant: the zeros go to the last page instead of past it *)
ExtendPage_LastPage ==
    LET p == header.numPages IN
    /\ op = Idle /\ header.nextFree = Nil /\ p \in Pages
    /\ image' = [q \in Pages |-> IF q = p - 1 THEN Zeros ELSE image[q]]
    /\ length' = IF p >= length THEN p + 1 ELSE length
    /\ op' = [call |-> "extend", page |-> p,
              header |-> [header EXCEPT !.numPages = p + 1,
                                        !.firstPage = IF header.firstPage = Nil THEN p
                                                      ELSE header.firstPage]]
    /\ UNCHANGED <<header, owned, wrote>>

(* no free list: a page of zeros is written past the end ... *)
ExtendPage ==
    LET p == header.numPages IN
    /\ op = Idle /\ header.nextFree = Nil /\ p \in Pages
    /\ image' = [image EXCEPT ![p] = Zeros]
    /\ length' = IF p >= length THEN p + 1 ELSE length
    /\ op' = [call |-> "extend", page |-> p,
              header |-> [header EXCEPT !.numPages = p + 1,
                                        !.firstPage = IF header.firstPage = Nil THEN p
                                                      ELSE header.firstPage]]
    /\ UNCHANGED <<header, owned, wrote>>

(* ... and the header after it *)
ExtendHeader ==
    /\ op.call = "extend"
    /\ header' = op.header
    /\ owned' = owned \cup {op.page}
    /\ wrote' = [wrote EXCEPT ![op.page] = "none"]
    /\ op' = Idle
    /\ UNCHANGED <<image, length>>

-----------------------------------------------------------------------------
(* disposePage.  Its callers dispose of pages they own; nothing in the     *)
(* code checks that the page is not on the free list already.              *)

DisposePage_HeaderFirst(p) ==   \* mutant: the header is written before the page
    /\ op = Idle /\ p \in owned /\ p # header.firstPage
    /\ p < header.numPages /\ Readable(p)
    /\ header' = [header EXCEPT !.nextFree = p]
    /\ op' = [call |-> "dispose", page |-> p, header |-> [header EXCEPT !.nextFree = p]]
    /\ UNCHANGED <<image, length, owned, wrote>>

DisposePage(p) ==
    /\ op = Idle /\ p \in owned
    /\ p # header.firstPage /\ p < header.numPages /\ Readable(p)
    /\ image' = [image EXCEPT ![p] = [Zeros EXCEPT !.nextFree = header.nextFree]]
    /\ op' = [call |-> "dispose", page |-> p, header |-> [header EXCEPT !.nextFree = p]]
    /\ UNCHANGED <<header, length, owned, wrote>>

DisposeHeader ==
    /\ op.call = "dispose"
    /\ header' = op.header
    /\ owned' = owned \ {op.page}
    /\ op' = Idle
    /\ UNCHANGED <<image, length, wrote>>

(* The second write fails (UNIXERR), or the process dies before it.  What  *)
(* a page being disposed of held is gone by then.                          *)
Fail ==
    /\ op # Idle
    /\ op' = Idle
    /\ wrote' = IF op.call = "dispose" THEN [wrote EXCEPT ![op.page] = "none"] ELSE wrote
    /\ UNCHANGED <<header, image, length, owned>>

-----------------------------------------------------------------------------
(* writePage, by the owner of the page *)
WritePage(p, d) ==
    /\ op = Idle /\ p \in owned
    /\ image' = [image EXCEPT ![p] = [nextFree |-> Word, data |-> d]]
    /\ wrote' = [wrote EXCEPT ![p] = d]
    /\ UNCHANGED <<header, length, op, owned>>

Next ==
    \/ Reuse \/ ExtendPage \/ ExtendHeader \/ DisposeHeader \/ Fail
    \/ \E p \in Pages : DisposePage(p) \/ \E d \in Data : WritePage(p, d)

Spec == Init /\ [][Next]_vars

-----------------------------------------------------------------------------
(* Properties.  All hold between the two writes of a call as well, and so
   for the program that starts again after a crash there. *)

Headers == [nextFree : Pages \cup {Nil}, firstPage : {Nil, 1}, numPages : 1 .. MaxPages + 1]

(* The variables keep their shapes: a free link or a header field read from
   the file is a page number, never a word of somebody's data. *)
TypeOK ==
    /\ header \in Headers
    /\ image \in [Pages -> [nextFree : Pages \cup {Nil, Word, 0}, data : Data \cup {"zeros"}]]
    /\ length \in 1 .. MaxPages + 1
    /\ op \in [call : {"none", "extend", "dispose"}, page : Pages \cup {Nil}, header : Headers]
    /\ owned \subseteq Pages
    /\ wrote \in [Pages -> Data \cup {"none"}]

(* the free list, followed from the header through the links in the pages *)
Walk[n \in 0 .. MaxPages] ==
    IF n = 0 THEN header.nextFree
    ELSE IF Walk[n - 1] \in Pages THEN image[Walk[n - 1]].nextFree ELSE Walk[n - 1]

FreePages == {Walk[n] : n \in 0 .. MaxPages} \ {Nil}

(* The links end, and every page of the file is either on the free list or
   somebody's, never both: no page is handed out twice and none is lost,
   wherever a call of allocatePage or disposePage is cut short. *)
EveryPageAccounted ==
    /\ Walk[MaxPages] = Nil
    /\ FreePages \cap owned = {}
    /\ FreePages \cup owned = 1 .. header.numPages - 1

(* Every page the header counts is in the Unix file: readPage of a page
   somebody owns does not fail for want of bytes. *)
PagesExist == header.numPages <= length

(* The page getFirstPage names is in use: it is never disposed of, whoever
   else's pages come and go ("The first user-allocated page in the file
   cannot be disposed of", db.C:302). *)
FirstPageInUse == header.firstPage # Nil => header.firstPage \in owned

(* The header never says more than the file has: its fields are page numbers,
   the pages it counts exist, the first one is not free. *)
HeaderSound == TypeOK /\ PagesExist /\ FirstPageInUse

(* A page keeps what its owner wrote until it is disposed of, whatever is
   allocated, disposed of or cut short meanwhile. *)
OwnersKeepImages ==
    \A p \in owned : wrote[p] \in Data /\ op.page # p => image[p].data = wrote[p]

FreeList == [n \in 1 .. Cardinality(FreePages) |-> Walk[n - 1]]

Alloc == INSTANCE FileAlloc WITH free <- FreeList, numPages <- header.numPages

(* Through links, header and interrupted writes the file is the last-in
   first-out allocator of FileAlloc. *)
ImplementsFileAlloc == Alloc!Spec
=============================================================================
