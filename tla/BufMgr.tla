------------------------------- MODULE BufMgr -------------------------------
(***************************************************************************)
(* The buffer manager of part5/part5 (buf.h, buf.C, bufHash.C): a pool of  *)
(* frames between the heap-file layer and the Unix files of db.C.          *)
(*                                                                         *)
(* A frame is free, caches an unpinned page, or caches a pinned page.      *)
(* Unpinned frames are threaded on the UPL, a doubly linked circular list  *)
(* through a sentinel; victims are taken from its rear.  The list is       *)
(* modelled pointer by pointer because the code edits it by hand in four   *)
(* places and guards it with ASSERTs that kill the process.                *)
(*                                                                         *)
(* The program is single threaded: one call is one step.  What interleaves *)
(* are the calls of the open heap files and scans (Clients) that share the *)
(* pool.  The file layer below is the abstract one of FileAlloc: the free  *)
(* list is a sequence, and its two-write updates are atomic here.          *)
(***************************************************************************)
EXTENDS UPL, Sequences, FiniteSets

CONSTANTS
    Files,     \* open File objects
    NoFile,    \* the NULL File pointer
    MaxPages,  \* bound: highest page number a file grows to
    Clients,   \* open HeapFile / HeapFileScan objects that pin pages
    Data,      \* page images clients write
    Zero,      \* the all-zero page image
    Linked,    \* image of a disposed page: zeros and a free-list link
    Faults     \* which Unix calls may fail: a subset of {"read", "write"}

ASSUME MaxPagesAssumption == MaxPages \in Nat \ {0}
ASSUME NoFileAssumption == NoFile \notin Files
ASSUME ClientsFinite == IsFiniteSet(Clients)

Pages    == 1 .. MaxPages
Keys     == Files \X Pages         \* what the hash table maps
Content  == Data \cup {Zero, Linked}

VARIABLES
    bufTable,   \* Frames -> descriptor (BufDesc without its links)
    bufPool,    \* Frames -> page image
    hashTable,  \* Keys -> frame or NULL
    upl,        \* the unpinned list: next, prior links and rearUPL
    disk,       \* Files -> file image
    held,       \* Clients -> Keys -> "no" | "clean" | "wrote"
    status,     \* what the last call returned: "DISPOSEFAILED" is the UNIXERR of
                \* disposePage, "started" a fresh pool
    alive,      \* FALSE once an ASSERT has called exit(1)
    stranded    \* history: frames allocBuf took off the UPL and gave up on

mem  == <<bufTable, bufPool, hashTable, upl, stranded>>
vars == <<bufTable, bufPool, hashTable, upl, disk, held, status, alive, stranded>>

-----------------------------------------------------------------------------
(* BufDesc::Clear and BufDesc::Set, less the list links *)
Clear == [file |-> NoFile, pageNo |-> -1, pinCnt |-> 0, dirty |-> FALSE, valid |-> FALSE]

Set(f, p) == [file |-> f, pageNo |-> p, pinCnt |-> 1, dirty |-> FALSE, valid |-> TRUE]

KeyOf(i) == <<bufTable[i].file, bufTable[i].pageNo>>

Dirty == {i \in Frames : bufTable[i].valid /\ bufTable[i].dirty}

-----------------------------------------------------------------------------
(* The file layer as the buffer manager sees it *)

EmptyFile == [numPages |-> 1, free |-> <<>>, page |-> [p \in Pages |-> Zero]]

OnDisk(d, k) == d[k[1]].page[k[2]]

(* File::readPage: a page past the end is a short read *)
Readable(f, p) == p < disk[f].numPages

(* File::writePage of the frames of S *)
WriteOut(d, S) ==
    LET Image(f, p) == IF \E i \in S : KeyOf(i) = <<f, p>>
                       THEN bufPool[CHOOSE i \in S : KeyOf(i) = <<f, p>>]
                       ELSE d[f].page[p]
    IN  [f \in Files |-> [numPages |-> d[f].numPages, free |-> d[f].free,
                          page |-> [p \in Pages |-> Image(f, p)]]]

(* File::allocatePage: reuse the head of the free list, or extend the file *)
HasFree(f) == disk[f].free # <<>>
CanAllocate(f) == HasFree(f) \/ disk[f].numPages <= MaxPages
NewPage_OffByOne(f) ==      \* mutant: the number of the page after the last
    IF HasFree(f) THEN Head(disk[f].free) ELSE disk[f].numPages + 1
NewPage(f) == IF HasFree(f) THEN Head(disk[f].free) ELSE disk[f].numPages
Allocated_KeepsHead(f) ==   \* mutant: the free list still starts with the page
    [disk EXCEPT ![f] =
       IF HasFree(f)
       THEN disk[f]
       ELSE [numPages |-> disk[f].numPages + 1, free |-> disk[f].free,
             page |-> [disk[f].page EXCEPT ![NewPage(f)] = Zero]]]
Allocated(f) ==
    [disk EXCEPT ![f] =
       IF HasFree(f)
       THEN [numPages |-> disk[f].numPages, free |-> Tail(disk[f].free), page |-> disk[f].page]
       ELSE [numPages |-> disk[f].numPages + 1, free |-> disk[f].free,
             page |-> [disk[f].page EXCEPT ![NewPage(f)] = Zero]]]

(* File::disposePage: the first page, always page 1, cannot be disposed of *)
Disposable(f, p) == p # 1
Disposed(f, p) ==
    [disk EXCEPT ![f] = [numPages |-> disk[f].numPages, free |-> <<p>> \o disk[f].free,
                         page |-> [disk[f].page EXCEPT ![p] = Linked]]]

(* when a Unix call of File::disposePage fails, nothing has been written, or *)
(* the page has and the header with the head of the free list has not        *)
Unlisted(f, p) ==
    [disk EXCEPT ![f] = [numPages |-> disk[f].numPages, free |-> disk[f].free,
                         page |-> [disk[f].page EXCEPT ![p] = Linked]]]
DisposeCutShort(f, p) ==
    {disk : x \in Faults \cap {"read"}}
    \cup {d \in {disk, Unlisted(f, p)} : "write" \in Faults /\ Disposable(f, p)}

InUse(f) == {p \in Pages : p < disk[f].numPages
                           /\ \A n \in 1 .. Len(disk[f].free) : disk[f].free[n] # p}

(* BufMgr::BufMgr threads the frames in order, frame 0 at the rear *)
FreshTable == [i \in Frames |-> Clear]
FreshPool  == [i \in Frames |-> Zero]
NoHash     == [k \in Keys |-> NULL]
NoHolder   == [c \in Clients |-> [k \in Keys |-> "no"]]

Init ==
    /\ bufTable = FreshTable /\ bufPool = FreshPool
    /\ hashTable = NoHash /\ upl = FreshUpl
    /\ disk = [f \in Files |-> EmptyFile]
    /\ held = NoHolder
    /\ status = "OK" /\ alive = TRUE /\ stranded = {}

-----------------------------------------------------------------------------
(* allocBuf.  Its outcomes are the guards and values below; readPage and   *)
(* allocPage go on from them.  hashTable->remove cannot fail (HashAgrees). *)

Victim   == upl.rear
AllPinned == upl.rear = frontUPL

(* the victim must be written, and the write fails: the frame is off the   *)
(* list, but neither cleared nor put back                                  *)
WriteBackFails == ~AllPinned /\ Victim \in Dirty /\ "write" \in Faults

StrandVictim_Clean ==       \* mutant: dirty is reset before the write is checked
    /\ upl' = Unlink(upl, Victim)
    /\ alive' = Asserts(upl')
    /\ stranded' = stranded \cup {Victim}
    /\ bufTable' = [bufTable EXCEPT ![Victim].dirty = FALSE]
    /\ UNCHANGED <<bufPool, hashTable, held>>

StrandVictim ==
    /\ upl' = Unlink(upl, Victim)
    /\ alive' = Asserts(upl')
    /\ stranded' = stranded \cup {Victim}
    /\ UNCHANGED <<bufTable, bufPool, hashTable, held>>

(* otherwise the victim's page leaves the pool, written first if dirty *)
HashLessVictim_Kept == hashTable   \* mutant: hashTable->remove is forgotten

HashLessVictim ==
    IF bufTable[Victim].valid THEN [hashTable EXCEPT ![KeyOf(Victim)] = NULL] ELSE hashTable

WrittenBack_Never(d) == d          \* mutant: the dirty victim is dropped

WrittenBack(d) == WriteOut(d, Dirty \cap {Victim})

(* Clear, Set and the UPL for a frame that leaves the list for good *)
Taken(l) == Detach(Unlink(l, Victim), Victim)

-----------------------------------------------------------------------------
(* readPage *)

ReadHit_StaysListed(c, k) ==   \* mutant: a pinned frame stays on the list
    LET i == hashTable[k] IN
    /\ i # NULL
    /\ held[c][k] = "no"
    /\ bufTable' = [bufTable EXCEPT ![i].pinCnt = bufTable[i].pinCnt + 1]
    /\ stranded' = stranded \ {i}
    /\ held' = [held EXCEPT ![c][k] = "clean"]
    /\ status' = "OK"
    /\ UNCHANGED <<bufPool, hashTable, upl, alive, disk>>

ReadHit(c, k) ==
    LET i == hashTable[k] IN
    /\ i # NULL
    /\ held[c][k] = "no"
    /\ bufTable' = [bufTable EXCEPT ![i].pinCnt = bufTable[i].pinCnt + 1]
    /\ IF bufTable[i].pinCnt = 0
       THEN /\ upl' = Detach(Unlink(upl, i), i)
            /\ alive' = Asserts(upl')
       ELSE UNCHANGED <<upl, alive>>
    /\ stranded' = stranded \ {i}
    /\ held' = [held EXCEPT ![c][k] = "clean"]
    /\ status' = "OK"
    /\ UNCHANGED <<bufPool, hashTable, disk>>

ReadMiss(c, k) ==
    /\ hashTable[k] = NULL /\ ~AllPinned
    /\ Readable(k[1], k[2])
    /\ disk' = WrittenBack(disk)
    /\ bufPool' = [bufPool EXCEPT ![Victim] = OnDisk(disk', k)]
    /\ hashTable' = [HashLessVictim EXCEPT ![k] = Victim]
    /\ bufTable' = [bufTable EXCEPT ![Victim] = Set(k[1], k[2])]
    /\ upl' = Taken(upl)
    /\ alive' = Asserts(upl')
    /\ held' = [held EXCEPT ![c][k] = "clean"]
    /\ status' = "OK"
    /\ UNCHANGED stranded

(* the victim is evicted, the file read fails, and releaseBuf puts the     *)
(* empty frame back at the rear                                            *)
ReadFails(k) ==
    /\ hashTable[k] = NULL /\ ~AllPinned
    /\ ~Readable(k[1], k[2]) \/ "read" \in Faults
    /\ disk' = WrittenBack(disk)
    /\ hashTable' = HashLessVictim
    /\ bufTable' = [bufTable EXCEPT ![Victim] = Clear]
    /\ upl' = LinkRear(Taken(upl), Victim)
    /\ alive' = Asserts(upl')
    /\ status' = "UNIXERR"
    /\ UNCHANGED <<bufPool, held, stranded>>

ReadNoVictim(k) ==
    /\ hashTable[k] = NULL
    /\ \/ /\ AllPinned
          /\ status' = "BUFFEREXCEEDED"
          /\ UNCHANGED <<mem, held, alive>>
       \/ /\ WriteBackFails
          /\ status' = "UNIXERR"
          /\ StrandVictim
    /\ UNCHANGED disk

(* clients read pages they were given, or past the end, beyond what a failed *)
(* allocation may have left there; never disposed ones                       *)
ReadPage(c, k) ==
    /\ k[2] \in InUse(k[1]) \/ k[2] > disk[k[1]].numPages
    /\ ReadHit(c, k) \/ ReadMiss(c, k) \/ ReadFails(k) \/ ReadNoVictim(k)

-----------------------------------------------------------------------------
(* unPinPage.  A client unpins what it holds, once, and says dirty if it   *)
(* wrote; it may say dirty without having written.                         *)

UnPinPage(c, k, dirty, loveIt) ==
    LET i == hashTable[k]
        last == bufTable[i].pinCnt = 1
    IN
    /\ held[c][k] # "no"
    /\ held[c][k] = "wrote" => dirty
    /\ i # NULL /\ bufTable[i].pinCnt > 0
    /\ bufTable' = [bufTable EXCEPT ![i].dirty = bufTable[i].dirty \/ dirty,
                                    ![i].pinCnt = bufTable[i].pinCnt - 1]
    /\ IF last
       THEN /\ upl' = IF loveIt THEN LinkFront(upl, i) ELSE LinkRear(upl, i)
            /\ alive' = Asserts(upl')
       ELSE UNCHANGED <<upl, alive>>
    /\ held' = [held EXCEPT ![c][k] = "no"]
    /\ status' = "OK"
    /\ UNCHANGED <<bufPool, hashTable, disk, stranded>>

(* a client whose page is not pinned any more is refused *)
UnPinRefused(k) ==
    /\ \/ hashTable[k] = NULL /\ status' = "HASHNOTFOUND"
       \/ /\ hashTable[k] # NULL
          /\ bufTable[hashTable[k]].pinCnt = 0
          /\ status' = "PAGENOTPINNED"
    /\ UNCHANGED <<mem, disk, held, alive>>

(* a client changes a page image in the pool, through the pointer it holds *)
WritePinned(c, k, d) ==
    /\ held[c][k] # "no"
    /\ bufPool' = [bufPool EXCEPT ![hashTable[k]] = d]
    /\ held' = [held EXCEPT ![c][k] = "wrote"]
    /\ UNCHANGED <<bufTable, hashTable, upl, disk, status, alive, stranded>>

-----------------------------------------------------------------------------
(* flushFile walks the frames in order and gives up at the first pinned    *)
(* page, or the first failed write; the frames before that are gone.       *)
(* They keep their place on the UPL.                                       *)

FlushFile_Pinned(f) ==    \* mutant: pinned pages are flushed as well
    LET Mine == {i \in Frames : bufTable[i].valid /\ bufTable[i].file = f} IN
    /\ status' = "OK"
    /\ disk' = WriteOut(disk, Mine \cap Dirty)
    /\ hashTable' = [k \in Keys |-> IF k[1] = f THEN NULL ELSE hashTable[k]]
    /\ bufTable' = [i \in Frames |-> IF i \in Mine THEN Clear ELSE bufTable[i]]
    /\ UNCHANGED <<bufPool, upl, held, alive, stranded>>

FlushFile(f) ==
    \E stop \in 0 .. NumBufs :
      LET Mine == {i \in Frames : bufTable[i].valid /\ bufTable[i].file = f}
          Flushed == {i \in Mine : i < stop}
          FlushedKeys == {KeyOf(i) : i \in Flushed}
      IN
      /\ \A i \in Flushed : bufTable[i].pinCnt = 0
      /\ \/ stop = NumBufs /\ status' = "OK"
         \/ stop \in Mine /\ bufTable[stop].pinCnt > 0 /\ status' = "PAGEPINNED"
         \/ /\ stop \in Mine \cap Dirty /\ bufTable[stop].pinCnt = 0
            /\ "write" \in Faults
            /\ status' = "UNIXERR"
      /\ disk' = WriteOut(disk, Flushed \cap Dirty)
      /\ hashTable' = [k \in Keys |-> IF k \in FlushedKeys THEN NULL ELSE hashTable[k]]
      /\ bufTable' = [i \in Frames |-> IF i \in Flushed THEN Clear ELSE bufTable[i]]
      /\ UNCHANGED <<bufPool, upl, held, alive, stranded>>

DisposePage_Pinned(k) ==  \* mutant: the pin count is not looked at
    LET i == hashTable[k] IN
    /\ i # NULL
    /\ hashTable' = [hashTable EXCEPT ![k] = NULL]
    /\ bufTable' = [bufTable EXCEPT ![i] = Clear]
    /\ IF Disposable(k[1], k[2])
       THEN disk' = Disposed(k[1], k[2]) /\ status' = "OK"
       ELSE disk' = disk /\ status' = "BADPAGENO"
    /\ UNCHANGED <<bufPool, upl, held, alive, stranded>>

(* disposePage forgets the cached page first and asks the file afterwards: *)
(* if the file refuses, or fails, what was dirty in the pool is lost       *)
DisposePage(k) ==
    LET i == hashTable[k] IN
    IF i = NULL \/ bufTable[i].pinCnt > 0
    THEN /\ status' = IF i = NULL THEN "HASHNOTFOUND" ELSE "PAGEPINNED"
         /\ UNCHANGED <<mem, disk, held, alive>>
    ELSE /\ hashTable' = [hashTable EXCEPT ![k] = NULL]
         /\ bufTable' = [bufTable EXCEPT ![i] = Clear]
         /\ \/ /\ Disposable(k[1], k[2])
               /\ disk' = Disposed(k[1], k[2]) /\ status' = "OK"
            \/ /\ ~Disposable(k[1], k[2])
               /\ disk' = disk /\ status' = "BADPAGENO"
            \/ disk' \in DisposeCutShort(k[1], k[2]) /\ status' = "DISPOSEFAILED"
         /\ UNCHANGED <<bufPool, upl, held, alive, stranded>>

(* allocPage: the file grows first, then a frame is sought.  Without one   *)
(* the page stays allocated in the file.  The frame is not cleared: the    *)
(* new page shows whatever the victim left there, and it is not dirty.     *)
(* When a Unix call of the file's allocatePage fails its page list is as   *)
(* before (at most there is a page past the end), and so is the pool.      *)
AllocFails ==
    /\ Faults # {}
    /\ status' = "UNIXERR"
    /\ UNCHANGED <<mem, disk, held, alive>>

AllocDone(c, f) ==
    LET k == <<f, NewPage(f)>> IN
    /\ CanAllocate(f)
    /\ \/ /\ ~AllPinned
          /\ disk' = WrittenBack(Allocated(f))
          /\ hashTable' = [HashLessVictim EXCEPT ![k] = Victim]
          /\ bufTable' = [bufTable EXCEPT ![Victim] = Set(f, k[2])]
          /\ upl' = Taken(upl)
          /\ alive' = Asserts(upl')
          /\ held' = [held EXCEPT ![c][k] = "wrote"]   \* it must initialise it
          /\ status' = "OK"
          /\ UNCHANGED <<bufPool, stranded>>
       \/ /\ AllPinned
          /\ disk' = Allocated(f)
          /\ status' = "BUFFEREXCEEDED"
          /\ UNCHANGED <<mem, held, alive>>
       \/ /\ WriteBackFails
          /\ disk' = Allocated(f)
          /\ status' = "UNIXERR"
          /\ StrandVictim

AllocPage(c, f) == AllocFails \/ AllocDone(c, f)

(* UT_Quit and the next start: ~BufMgr writes the dirty pages, ignoring    *)
(* failures; the heap files are closed, so no write is pending.            *)
Restart ==
    /\ \A c \in Clients, k \in Keys : held[c][k] # "wrote"
    /\ \E failed \in SUBSET Dirty :
         /\ "write" \in Faults \/ failed = {}
         /\ disk' = WriteOut(disk, Dirty \ failed)
    /\ bufTable' = FreshTable /\ bufPool' = FreshPool
    /\ hashTable' = NoHash /\ upl' = FreshUpl
    /\ held' = NoHolder
    /\ status' = "started" /\ stranded' = {}
    /\ UNCHANGED alive

Next ==
    /\ alive
    /\ \/ \E c \in Clients, k \in Keys : ReadPage(c, k)
       \/ \E c \in Clients, k \in Keys, d, l \in BOOLEAN : UnPinPage(c, k, d, l)
       \/ \E k \in Keys : UnPinRefused(k)
       \/ \E c \in Clients, k \in Keys, d \in Data : WritePinned(c, k, d)
       \/ \E f \in Files : FlushFile(f)
       \/ \E k \in Keys : DisposePage(k)
       \/ \E c \in Clients, f \in Files : AllocPage(c, f)
       \/ Restart

Spec == Init /\ [][Next]_vars

-----------------------------------------------------------------------------
(* Properties.  After an ASSERT has killed the process its memory says     *)
(* nothing any more, so the invariants speak of a living one.              *)

DiskType ==
    [Files -> [numPages : 1 .. MaxPages + 1, free : Seq(Pages), page : [Pages -> Content]]]

(* The variables keep their shapes: descriptors, links and the hash table
   range over frames, pages and files as the declarations of buf.h say. *)
TypeOK ==
    /\ bufTable \in [Frames -> [file : Files \cup {NoFile}, pageNo : Pages \cup {-1},
                                pinCnt : Nat, dirty : BOOLEAN, valid : BOOLEAN]]
    /\ bufPool \in [Frames -> Content]
    /\ hashTable \in [Keys -> Frames \cup {NULL}]
    /\ upl \in UplType
    /\ disk \in DiskType
    /\ held \in [Clients -> [Keys -> {"no", "clean", "wrote"}]]
    /\ status \in {"OK", "UNIXERR", "BADPAGENO", "BUFFEREXCEEDED", "HASHNOTFOUND",
                   "PAGENOTPINNED", "PAGEPINNED", "DISPOSEFAILED", "started"}
    /\ alive \in BOOLEAN
    /\ stranded \subseteq Frames

(* The hash table maps exactly the valid frames, each under its own page:
   no page is cached twice, none is cached and not found. *)
HashAgrees ==
    alive => /\ \A k \in Keys, i \in Frames :
                   hashTable[k] = i <=> bufTable[i].valid /\ KeyOf(i) = k
             /\ \A i \in Frames : bufTable[i].valid => KeyOf(i) \in Keys

Holders(k) == {c \in Clients : held[c][k] # "no"}

(* A page somebody holds is in the pool, and a frame's pin count is the
   number of its holders: no pinned page is evicted, flushed away or
   disposed of, and no pin is ever lost or left over. *)
PinsAccounted ==
    alive => /\ \A k \in Keys : Holders(k) # {} => hashTable[k] # NULL
             /\ \A i \in Frames : bufTable[i].pinCnt =
                   IF bufTable[i].valid THEN Cardinality(Holders(KeyOf(i))) ELSE 0

OnList == {i \in Frames : bufTable[i].pinCnt = 0} \ stranded

(* The hand-edited links stay one circle through the sentinel, in both
   directions, of exactly the unpinned frames (what BufDump prints for a
   human to compare: pinned, forward and backward counts). *)
UplIsUnpinned == alive => Ring(upl, OnList)

(* That circle, and the links a stranded frame keeps, those it had as victim:
   the next hit on its page edits the list through them. *)
UplLinked ==
    /\ UplIsUnpinned
    /\ alive => \A i \in stranded : /\ bufTable[i].pinCnt = 0
                                     /\ upl.prior[i] = frontUPL
                                     /\ upl.next[i] \in Nodes

(* A free list names allocated pages, each once, and no page on it is cached:
   the page allocatePage hands out is nobody's, and hashTable->insert of
   allocPage cannot find it there already. *)
FreeListSound ==
    /\ \A f \in Files : \A m, n \in 1 .. Len(disk[f].free) :
          /\ disk[f].free[n] < disk[f].numPages
          /\ disk[f].free[m] = disk[f].free[n] => m = n
    /\ alive => \A k \in Keys : hashTable[k] # NULL => k[2] \in InUse(k[1])

(* A frame that is not marked dirty, and that no holder has written and not
   yet unpinned, holds what the file holds: evicting it loses nothing. *)
CleanIsOnDisk ==
    alive => \A k \in Keys :
        /\ hashTable[k] # NULL /\ ~bufTable[hashTable[k]].dirty
        /\ \A c \in Clients : held[c][k] # "wrote"
        => bufPool[hashTable[k]] = OnDisk(disk, k)

(* None of the ASSERTs on the unpinned list ever fails (buf.C:143-145,
   183-185, 227-229, 273-275, 287-289). *)
AssertsHold == alive

(* "all pages are pinned" (buf.C:133): a call is refused for want of a frame
   only when every frame of the pool is pinned. *)
ExceededMeansAllPinned ==
    status = "BUFFEREXCEEDED" => \A i \in Frames : bufTable[i].pinCnt > 0

(* No frame gets lost from the pool: the list has all that are unpinned, and
   a call that is refused was right to give up. *)
NoFrameLost == UplIsUnpinned /\ ExceededMeansAllPinned

(* While somebody holds a page its frame does not move: the Page pointer
   readPage gave out stays good until the last unpin. *)
PinnedPageStays ==
    [][alive' => \A k \in Keys, c \in Clients :
          held[c][k] # "no" /\ held'[c][k] # "no" => hashTable'[k] = hashTable[k]]_vars

(* The store the clients see through the pool: the cached image of a page,
   the file's where there is none. *)
Store == [k \in Keys |-> IF hashTable[k] # NULL THEN bufPool[hashTable[k]]
                         ELSE OnDisk(disk, k)]
Saved == [k \in Keys |-> OnDisk(disk, k)]
InUseKeys == {k \in Keys : k[2] \in InUse(k[1])}

Abstract == INSTANCE PageStore WITH store <- Store, saved <- Saved, inUse <- InUseKeys,
                                    Lossless <- "write" \notin Faults

(* The pool with its evictions, write-backs, flushes and restarts, any Unix
   call of which may fail, is the one shared page store of PageStore: nothing
   but the current image of a page is ever written to its file, and an update
   is lost only at a shutdown whose own write of the page failed, or when a
   refused disposePage has thrown away a page that was not yet saved. *)
ImplementsPageStore == Abstract!Spec

=============================================================================
