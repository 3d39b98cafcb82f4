------------------------------ MODULE ClockBuf ------------------------------
(***************************************************************************)
(* The buffer manager of part1 (buf.h, buf.C, bufHash.C), which chooses    *)
(* its victims with a clock instead of the unpinned list of part5.         *)
(*                                                                         *)
(* allocBuf has no count of the frames it has looked at: it sweeps until   *)
(* it finds a victim.  All that keeps it from sweeping for ever is the     *)
(* test of pinnedFrame before the loop, a counter that readPage, allocPage *)
(* and unPinPage maintain.  So the sweep is taken frame by frame: a call   *)
(* that needs a frame stays pending in `call' until the sweep ends.  The   *)
(* program is single threaded, and nothing else runs meanwhile.            *)
(*                                                                         *)
(* disposePage, which no caller of part1 uses, is not among the actions.   *)
(***************************************************************************)
EXTENDS Integers, Sequences, FiniteSets

CONSTANTS
    NumBufs, NULL,
    Files,     \* open File objects
    NoFile,    \* the NULL File pointer
    MaxPages,  \* bound: highest page number a file grows to
    Clients,   \* those who pin pages, each page at most once
    Data,      \* page images clients write
    Zero,      \* the all-zero page image
    Faults     \* which Unix calls may fail: a subset of {"read", "write"}

ASSUME ClockAssumption == /\ NumBufs \in Nat \ {0} /\ MaxPages \in Nat
                          /\ NoFile \notin Files /\ NULL \notin 0 .. NumBufs - 1
ASSUME ClientsAssumption == IsFiniteSet(Clients)

Frames == 0 .. NumBufs - 1
Keys   == Files \X (1 .. MaxPages)

VARIABLES
    bufTable,     \* Frames -> descriptor (BufDesc)
    bufPool,      \* Frames -> page image
    hashTable,    \* Keys -> frame or NULL
    clockHand,    \* the frame the sweep looks at next
    pinnedFrame,  \* bufStats.pinnedFrame
    disk,         \* Files -> the images of its pages, from page 1 on
    held,         \* Clients -> Keys -> "no" | "clean" | "wrote"
    call,         \* the call whose allocBuf is sweeping
    status        \* what the last call returned, its errors not told apart;
                  \* "OK" while a call goes on, "started" for a fresh pool

pool == <<bufTable, bufPool, hashTable, clockHand, pinnedFrame>>
vars == <<bufTable, bufPool, hashTable, clockHand, pinnedFrame, disk, held, call, status>>

-----------------------------------------------------------------------------
(* BufDesc::Clear and BufDesc::Set *)
Clear == [file |-> NoFile, pageNo |-> -1, pinCnt |-> 0,
          dirty |-> FALSE, valid |-> FALSE, refbit |-> FALSE]

Set(k) == [file |-> k[1], pageNo |-> k[2], pinCnt |-> 1,
           dirty |-> FALSE, valid |-> TRUE, refbit |-> TRUE]

KeyOf(i) == <<bufTable[i].file, bufTable[i].pageNo>>

Dirty == {i \in Frames : bufTable[i].dirty}

OnDisk(d, k) == IF k[2] \in DOMAIN d[k[1]] THEN d[k[1]][k[2]] ELSE Zero

(* File::writePage of the frames of S *)
WriteOut(d, S) ==
    [f \in Files |-> [p \in DOMAIN d[f] |->
        IF \E i \in S : KeyOf(i) = <<f, p>>
        THEN bufPool[CHOOSE i \in S : KeyOf(i) = <<f, p>>]
        ELSE d[f][p]]]

(* The call that waits for a frame: how far its sweep has come, counted up *)
(* to one past the bound that SweepBounded states                          *)
SweepLimit == 2 * NumBufs
NoCall == [op |-> "none"]
Calling(op, c, k) == [op |-> op, client |-> c, key |-> k, advances |-> 0]
Sweeping == call # NoCall

Init ==
    /\ bufTable = [i \in Frames |-> Clear] /\ bufPool = [i \in Frames |-> Zero]
    /\ hashTable = [k \in Keys |-> NULL]
    /\ clockHand = 0 /\ pinnedFrame = 0
    /\ disk = [f \in Files |-> <<>>]
    /\ held = [c \in Clients |-> [k \in Keys |-> "no"]]
    /\ call = NoCall /\ status = "OK"

-----------------------------------------------------------------------------
(* allocBuf, one look at the frame under the hand at a time *)

Advanced == (clockHand + 1) % NumBufs

GoOn ==
    /\ clockHand' = Advanced
    /\ call' = [call EXCEPT !.advances = IF @ < SweepLimit THEN @ + 1 ELSE @]
    /\ UNCHANGED <<bufPool, hashTable, pinnedFrame, disk, held, status>>

SecondChance_Kept ==      \* mutant: the reference bit is not cleared
    /\ Sweeping
    /\ bufTable[clockHand].valid /\ bufTable[clockHand].refbit
    /\ bufTable' = bufTable
    /\ GoOn

SecondChance ==
    /\ Sweeping
    /\ bufTable[clockHand].valid /\ bufTable[clockHand].refbit
    /\ bufTable' = [bufTable EXCEPT ![clockHand].refbit = FALSE]
    /\ GoOn

SkipPinned ==
    /\ Sweeping
    /\ bufTable[clockHand].valid /\ ~bufTable[clockHand].refbit
    /\ bufTable[clockHand].pinCnt > 0
    /\ UNCHANGED bufTable
    /\ GoOn

(* a frame that is valid, not lately used and not pinned *)
FoundVictim_Pinned ==     \* mutant: pinned frames are victims too
    /\ Sweeping
    /\ bufTable[clockHand].valid /\ ~bufTable[clockHand].refbit

FoundVictim ==
    /\ Sweeping
    /\ bufTable[clockHand].valid /\ ~bufTable[clockHand].refbit
    /\ bufTable[clockHand].pinCnt = 0

Evict_Dropped ==          \* mutant: the dirty victim is not written
    /\ FoundVictim
    /\ hashTable' = [hashTable EXCEPT ![KeyOf(clockHand)] = NULL]
    /\ bufTable' = [bufTable EXCEPT ![clockHand] = Clear]
    /\ UNCHANGED <<bufPool, clockHand, pinnedFrame, disk, held, call, status>>

(* it is cleared, and the loop ends with it: it is Free the next step *)
Evict ==
    /\ FoundVictim
    /\ disk' = WriteOut(disk, Dirty \cap {clockHand})
    /\ hashTable' = [hashTable EXCEPT ![KeyOf(clockHand)] = NULL]
    /\ bufTable' = [bufTable EXCEPT ![clockHand] = Clear]
    /\ UNCHANGED <<bufPool, clockHand, pinnedFrame, held, call, status>>

(* the victim cannot be written: the call fails and the frame stays as it is *)
EvictFails ==
    /\ FoundVictim
    /\ clockHand \in Dirty /\ "write" \in Faults
    /\ status' = "error"
    /\ call' = NoCall
    /\ UNCHANGED <<pool, disk, held>>

Free == Sweeping /\ ~bufTable[clockHand].valid

(* how readPage and allocPage end when they have their frame *)
Install(k) ==
    /\ hashTable' = [hashTable EXCEPT ![k] = clockHand]
    /\ bufTable' = [bufTable EXCEPT ![clockHand] = Set(k)]
    /\ pinnedFrame' = pinnedFrame + 1
    /\ call' = NoCall
    /\ status' = "OK"

-----------------------------------------------------------------------------
(* readPage *)

ReadHit_NotCounted(c, k) ==   \* mutant: a first pin of a cached page is not counted
    LET i == hashTable[k] IN
    /\ i # NULL /\ held[c][k] = "no"
    /\ bufTable' = [bufTable EXCEPT ![i].refbit = TRUE, ![i].pinCnt = @ + 1]
    /\ held' = [held EXCEPT ![c][k] = "clean"]
    /\ status' = "OK"
    /\ UNCHANGED <<bufPool, hashTable, clockHand, pinnedFrame, disk, call>>

ReadHit(c, k) ==
    LET i == hashTable[k] IN
    /\ i # NULL /\ held[c][k] = "no"
    /\ bufTable' = [bufTable EXCEPT ![i].refbit = TRUE, ![i].pinCnt = @ + 1]
    /\ pinnedFrame' = IF bufTable[i].pinCnt = 0 THEN pinnedFrame + 1 ELSE pinnedFrame
    /\ held' = [held EXCEPT ![c][k] = "clean"]
    /\ status' = "OK"
    /\ UNCHANGED <<bufPool, hashTable, clockHand, disk, call>>

(* clients read pages they were given, or past the end of the file, beyond *)
(* what a failed allocation may have left there                            *)
ReadMiss(c, k) ==
    /\ hashTable[k] = NULL /\ k[2] # Len(disk[k[1]]) + 1
    /\ IF pinnedFrame = NumBufs
       THEN status' = "error" /\ UNCHANGED call
       ELSE call' = Calling("read", c, k) /\ status' = "OK"
    /\ UNCHANGED <<pool, disk, held>>

(* the page is read over what the frame held last *)
ReadDone ==
    /\ Free /\ call.op = "read"
    /\ call.key[2] \in DOMAIN disk[call.key[1]]
    /\ bufPool' = [bufPool EXCEPT ![clockHand] = OnDisk(disk, call.key)]
    /\ Install(call.key)
    /\ held' = [held EXCEPT ![call.client][call.key] = "clean"]
    /\ UNCHANGED <<clockHand, disk>>

ReadFails ==
    /\ Free /\ call.op = "read"
    /\ call.key[2] \notin DOMAIN disk[call.key[1]] \/ "read" \in Faults
    /\ status' = "error"
    /\ call' = NoCall
    /\ UNCHANGED <<pool, disk, held>>    \* releaseBuf clears a cleared frame

-----------------------------------------------------------------------------
(* allocPage: the file grows before a frame is sought; nothing takes the   *)
(* page back when none is found.  The frame is not zeroed, and not dirty.  *)

NewKey(f) == <<f, Len(disk[f]) + 1>>

AllocFails ==          \* a Unix call of File::allocatePage: no page, no sweep
    /\ Faults # {}
    /\ status' = "error"
    /\ UNCHANGED <<pool, disk, held, call>>

AllocBegin(c, f) ==
    /\ Len(disk[f]) < MaxPages
    /\ disk' = [disk EXCEPT ![f] = Append(disk[f], Zero)]
    /\ IF pinnedFrame = NumBufs
       THEN status' = "error" /\ UNCHANGED call
       ELSE call' = Calling("alloc", c, NewKey(f)) /\ status' = "OK"
    /\ UNCHANGED <<pool, held>>

AllocPage(c, f) == AllocFails \/ AllocBegin(c, f)

AllocDone ==
    /\ Free /\ call.op = "alloc"
    /\ Install(call.key)
    /\ held' = [held EXCEPT ![call.client][call.key] = "wrote"]  \* it must initialise it
    /\ UNCHANGED <<bufPool, clockHand, disk>>

-----------------------------------------------------------------------------
(* unPinPage: a client unpins what it holds, once, and says dirty if it wrote *)

UnPinPage(c, k, dirty) ==
    LET i == hashTable[k] IN
    /\ held[c][k] # "no" /\ (held[c][k] = "wrote" => dirty)
    /\ i # NULL /\ bufTable[i].pinCnt > 0
    /\ bufTable' = [bufTable EXCEPT ![i].dirty = @ \/ dirty, ![i].pinCnt = @ - 1]
    /\ pinnedFrame' = IF bufTable[i].pinCnt = 1 THEN pinnedFrame - 1 ELSE pinnedFrame
    /\ held' = [held EXCEPT ![c][k] = "no"]
    /\ status' = "OK"
    /\ UNCHANGED <<bufPool, hashTable, clockHand, disk, call>>

(* HASHNOTFOUND or PAGENOTPINNED *)
UnPinRefused(k) ==
    /\ hashTable[k] # NULL => bufTable[hashTable[k]].pinCnt = 0
    /\ status' = "error"
    /\ UNCHANGED <<pool, disk, held, call>>

(* a client changes a page through the pointer it was given *)
WritePinned(c, k, d) ==
    /\ held[c][k] # "no"
    /\ bufPool' = [bufPool EXCEPT ![hashTable[k]] = d]
    /\ held' = [held EXCEPT ![c][k] = "wrote"]
    /\ UNCHANGED <<bufTable, hashTable, clockHand, pinnedFrame, disk, call, status>>

(* flushFile walks the frames in order.  It gives up at a pinned page, at a *)
(* failed write, and perhaps at the file's first frame if that is clean:    *)
(* the status it tests (buf.C:194) is assigned by no statement before.      *)
FlushFile(f) ==
    \E stop \in 0 .. NumBufs :
      LET Mine == {i \in Frames : bufTable[i].file = f}
          Flushed == {i \in Mine : i < stop}
          FlushedKeys == {KeyOf(i) : i \in Flushed}
      IN
      /\ \A i \in Flushed : bufTable[i].pinCnt = 0
      /\ \/ stop = NumBufs /\ status' = "OK"
         \/ stop \in Mine /\ bufTable[stop].pinCnt > 0 /\ status' = "error"
         \/ /\ stop \in Mine \cap Dirty /\ bufTable[stop].pinCnt = 0
            /\ "write" \in Faults
            /\ status' = "error"
         \/ /\ stop \in Mine \ Dirty /\ bufTable[stop].pinCnt = 0
            /\ Flushed = {}
            /\ status' = "error"
      /\ disk' = WriteOut(disk, Flushed \cap Dirty)
      /\ hashTable' = [k \in Keys |-> IF k \in FlushedKeys THEN NULL ELSE hashTable[k]]
      /\ bufTable' = [i \in Frames |-> IF i \in Flushed THEN Clear ELSE bufTable[i]]
      /\ UNCHANGED <<bufPool, clockHand, pinnedFrame, held, call>>

(* ~BufMgr writes the dirty frames, whatever comes of it, and the next run *)
(* of the program starts with an empty pool; nobody is in mid-update       *)
Restart ==
    /\ \A c \in Clients, k \in Keys : held[c][k] # "wrote"
    /\ \E failed \in SUBSET Dirty :
         /\ "write" \in Faults \/ failed = {}
         /\ disk' = WriteOut(disk, Dirty \ failed)
    /\ bufTable' = [i \in Frames |-> Clear] /\ bufPool' = [i \in Frames |-> Zero]
    /\ hashTable' = [k \in Keys |-> NULL]
    /\ clockHand' = 0 /\ pinnedFrame' = 0
    /\ held' = [c \in Clients |-> [k \in Keys |-> "no"]]
    /\ status' = "started" /\ UNCHANGED call

Sweep == SecondChance \/ SkipPinned \/ Evict \/ EvictFails \/ ReadDone \/ ReadFails \/ AllocDone

Next ==
    \/ /\ ~Sweeping
       /\ \/ \E c \in Clients, k \in Keys : ReadHit(c, k) \/ ReadMiss(c, k)
          \/ \E c \in Clients, f \in Files : AllocPage(c, f)
          \/ \E c \in Clients, k \in Keys, d \in BOOLEAN : UnPinPage(c, k, d)
          \/ \E k \in Keys : UnPinRefused(k)
          \/ \E c \in Clients, k \in Keys, d \in Data : WritePinned(c, k, d)
          \/ \E f \in Files : FlushFile(f)
          \/ Restart
    \/ Sweep

(* The one process runs its own loop: only that is fair, not the callers. *)
Spec == Init /\ [][Next]_vars /\ WF_vars(Sweep)

-----------------------------------------------------------------------------
(* The variables keep their shapes; in particular the hand stays on a frame. *)
TypeOK ==
    /\ bufTable \in [Frames -> [file : Files \cup {NoFile}, pageNo : {-1} \cup 1 .. MaxPages,
                                pinCnt : 0 .. Cardinality(Clients), dirty : BOOLEAN,
                                valid : BOOLEAN, refbit : BOOLEAN]]
    /\ bufPool \in [Frames -> Data \cup {Zero}]
    /\ hashTable \in [Keys -> Frames \cup {NULL}]
    /\ clockHand \in Frames /\ pinnedFrame \in 0 .. NumBufs
    /\ \A f \in Files : disk[f] \in Seq(Data \cup {Zero}) /\ Len(disk[f]) <= MaxPages
    /\ held \in [Clients -> [Keys -> {"no", "clean", "wrote"}]]
    /\ call \in {NoCall} \cup [op : {"read", "alloc"}, client : Clients, key : Keys,
                               advances : 0 .. SweepLimit]
    /\ status \in {"OK", "error", "started"}

(* The hash table maps exactly the valid frames, each under its own page, also
   in the middle of a sweep: hashTable->remove and insert cannot fail. *)
HashAgrees ==
    \A k \in Keys, i \in Frames : hashTable[k] = i <=> bufTable[i].valid /\ KeyOf(i) = k

Holders(k) == {c \in Clients : held[c][k] # "no"}

(* pinnedFrame, kept by increments in three functions and a decrement in a
   fourth, is the number of frames somebody holds, and a frame's pin count the
   number of its holders: no pinned page is evicted, no pin lost. *)
PinsCounted ==
    /\ pinnedFrame = Cardinality({i \in Frames : bufTable[i].pinCnt > 0})
    /\ \A i \in Frames : bufTable[i].pinCnt =
          IF bufTable[i].valid THEN Cardinality(Holders(KeyOf(i))) ELSE 0
    /\ \A k \in Keys : Holders(k) # {} => hashTable[k] # NULL

(* The pool's three accounts of its frames agree: descriptors, hash table and
   the counter that guards the sweep. *)
PoolSound == TypeOK /\ HashAgrees /\ PinsCounted

(* The sweep passes each frame at most twice, and the one it takes at most
   once: one round to clear the reference bits, one to get past the pinned. *)
SweepBounded == Sweeping => call.advances < SweepLimit

(* Every call that starts looking for a frame returns (buf.C:83 loops while
   true): it finds a victim, or fails.  No sweep goes on for ever. *)
SweepEnds == []<>~Sweeping

Store == [k \in Keys |-> IF hashTable[k] # NULL THEN bufPool[hashTable[k]] ELSE OnDisk(disk, k)]

(* a page being allocated is in use once its caller has got it, or failed *)
InUseKeys == {k \in Keys : k[2] \in DOMAIN disk[k[1]]}
             \ (IF Sweeping /\ call.op = "alloc" THEN {call.key} ELSE {})

Saved == [k \in Keys |-> OnDisk(disk, k)]

Abstract == INSTANCE PageStore WITH store <- Store, saved <- Saved, inUse <- InUseKeys,
                                    Lossless <- "write" \notin Faults

(* Under the clock, too, the pool is the one shared page store of PageStore:
   no eviction, flush or failed call loses an update or shows a stale page;
   only a shutdown whose own write of a page failed loses its updates. *)
ImplementsPageStore == Abstract!Spec
=============================================================================
