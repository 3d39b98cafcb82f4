------------------------------ MODULE HeapFile ------------------------------
(***************************************************************************)
(* A heap file of part5/part5 (heapfile.h, heapfile.C) and the objects     *)
(* that have it open at the same time: insert scans, filtered scans and    *)
(* plain HeapFiles.  Each pins the directory page and one data page; all   *)
(* see the same images, because the pool gives them the same frames        *)
(* (PageStore).  A data page is the slotted store of RecordPage with the   *)
(* slot rule of Page: slot k here is slot k-1 there.                       *)
(*                                                                         *)
(* Records of a relation have one length.  One call is one step, with      *)
(* every page it passes through.  The directory page can always be read:   *)
(* the constructor would go on with an unset pointer.                      *)
(***************************************************************************)
EXTENDS Integers, Sequences, FiniteSets

CONSTANTS
    Scans, Inserters, Readers,   \* HeapFileScan, InsertFileScan, HeapFile objects
    Vals,        \* records
    Filters,     \* what startScan may ask for: sets of records that match
    Area,        \* bytes of a data page for records and slots
    RecLen,      \* length of a record
    SlotSize,    \* sizeof(slot_t)
    MaxPages,    \* bound: data pages of the file, below DIRCNT
    MaxRecCnt,   \* bound: what recCnt counts up to
    Faults       \* {"read"} if readPage and allocPage may fail, else {}

ASSUME SizesAssumption ==
    /\ Area \in Nat /\ RecLen \in Nat \ {0} /\ SlotSize \in Nat \ {0}
    /\ RecLen + SlotSize <= Area
ASSUME BoundsAssumption == MaxPages \in Nat \ {0} /\ MaxRecCnt \in Nat

Objects   == Scans \cup Inserters \cup Readers
ASSUME ObjectsAssumption ==
    /\ IsFiniteSet(Objects)
    /\ Scans \cap Inserters = {} /\ Readers \cap (Scans \cup Inserters) = {}

Hdr       == 1                          \* headerPageNo
DataPages == 2 .. MaxPages + 1
PageNos   == {Hdr} \cup DataPages
Hole      == "hole"
ASSUME ValsAssumption == Hole \notin Vals
NULLRID   == <<-1, 0>>
MaxSlots  == Area \div SlotSize

VARIABLES
    dir,       \* pages[0 .. pageCnt-1] of the directory: [pageNo, freeSpace]
    recCnt,    \* of the directory
    page,      \* data pages: sequences of records and holes
    numPages,  \* of the file: the next page it grows by
    pins,      \* pin counts
    unsaved,   \* pages changed since somebody unpinned them dirty
    obj,       \* the objects: cur and hdrDirtyFlag of each, curRec only of scans
    scan       \* of each scan: filter and mark; and as history, the records its
               \* caller has seen (seen, twice) and still has to see (due)

vars == <<dir, recCnt, page, numPages, pins, unsaved, obj, scan>>

-----------------------------------------------------------------------------
(* Data pages, as in Page *)

UsedIn(pg)  == {k \in DOMAIN pg : pg[k] # Hole}
FreeIn(pg)  == Area - SlotSize * Len(pg) - RecLen * Cardinality(UsedIn(pg))
Holes(pg)   == DOMAIN pg \ UsedIn(pg)
SlotFor(pg) == IF Holes(pg) = {} THEN Len(pg) + 1
               ELSE CHOOSE k \in Holes(pg) : \A j \in Holes(pg) : k <= j

WithRecord(pg, v) == [k \in 1 .. Len(pg) \cup {SlotFor(pg)} |-> IF k = SlotFor(pg) THEN v ELSE pg[k]]

WithoutRecord(pg, k) ==
    LET rest == UsedIn(pg) \ {k}
        last == IF rest = {} THEN 0 ELSE CHOOSE j \in rest : \A i \in rest : i <= j
    IN  [j \in 1 .. last |-> IF j = k THEN Hole ELSE pg[j]]

Records == {r \in DataPages \X (1 .. MaxSlots) : r[2] \in UsedIn(page[r[1]])}

At(i) == dir[i].pageNo

-----------------------------------------------------------------------------
(* Pins.  A page that is pinned is in the pool and read without fail.      *)

ReadFails(p) == "read" \in Faults /\ pins[p] = 0

Moved(p, q) == [pins EXCEPT ![p] = pins[p] - 1, ![q] = pins[q] + 1]

(* pages of S were unpinned with the given dirty flag *)
Reported(S, dirty) == [p \in PageNos |-> unsaved[p] /\ ~(dirty /\ p \in S)]

Closed == [st |-> "closed", pageNo |-> 0, idx |-> 0, dirty |-> FALSE,
           hdrDirty |-> FALSE, rec |-> NULLRID]

(* After a failed read or allocation an object has its directory page      *)
(* pinned and no other.  Callers return the error and never delete it: if  *)
(* it has changed the directory, it never says so.                         *)
Fail(o) == obj' = [obj EXCEPT ![o] = [Closed EXCEPT !.st = "failed",
                                                    !.hdrDirty = obj[o].hdrDirty]]

NoScan == [filter |-> {}, fresh |-> FALSE, seen |-> {}, twice |-> FALSE, due |-> {},
           out |-> "none", mark |-> [pageNo |-> 0, idx |-> 0, rec |-> NULLRID,
                                     seen |-> {}, fresh |-> FALSE]]

(* createHeapFile: the directory and one empty page *)
Init ==
    /\ dir = <<[pageNo |-> 2, freeSpace |-> Area]>> /\ recCnt = 0
    /\ page = [p \in DataPages |-> <<>>] /\ numPages = 3
    /\ pins = [p \in PageNos |-> 0] /\ unsaved = [p \in PageNos |-> FALSE]
    /\ obj = [o \in Objects |-> Closed] /\ scan = [s \in Scans |-> NoScan]

-----------------------------------------------------------------------------
(* The constructors and destructors *)

Open(o) ==
    /\ obj[o].st = "closed"
    /\ \/ /\ obj' = [obj EXCEPT ![o] = [Closed EXCEPT !.st = "open", !.pageNo = At(1), !.idx = 1]]
          /\ pins' = [pins EXCEPT ![Hdr] = pins[Hdr] + 1, ![At(1)] = pins[At(1)] + 1]
       \/ /\ ReadFails(At(1))
          /\ Fail(o)
          /\ pins' = [pins EXCEPT ![Hdr] = pins[Hdr] + 1]
    /\ UNCHANGED <<dir, recCnt, page, numPages, unsaved, scan>>

(* o unpins its data page *)
Released(o) == [pins EXCEPT ![obj[o].pageNo] = pins[obj[o].pageNo] - 1]

(* mutant: curPage is not reset, and the base destructor unpins it again *)
Close_Twice(o) ==
    LET cur == obj[o] IN
    /\ cur.st = "open"
    /\ pins' = [pins EXCEPT ![Hdr] = pins[Hdr] - 1,
                            ![cur.pageNo] = IF pins[cur.pageNo] > 1 THEN pins[cur.pageNo] - 2 ELSE 0]
    /\ unsaved' = [p \in PageNos |-> Reported({cur.pageNo}, cur.dirty)[p]
                                     /\ Reported({Hdr}, cur.hdrDirty)[p]]
    /\ obj' = [obj EXCEPT ![o] = Closed]
    /\ scan' = [s \in Scans |-> IF s = o THEN NoScan ELSE scan[s]]
    /\ UNCHANGED <<dir, recCnt, page, numPages>>

Close(o) ==
    LET cur == obj[o] IN
    /\ cur.st = "open"
    /\ pins' = [Released(o) EXCEPT ![Hdr] = pins[Hdr] - 1]
    /\ unsaved' = [p \in PageNos |-> Reported({cur.pageNo}, cur.dirty)[p]
                                     /\ Reported({Hdr}, cur.hdrDirty)[p]]
    /\ obj' = [obj EXCEPT ![o] = Closed]
    /\ scan' = [s \in Scans |-> IF s = o THEN NoScan ELSE scan[s]]
    /\ UNCHANGED <<dir, recCnt, page, numPages>>

-----------------------------------------------------------------------------
(* InsertFileScan::insertRecord walks on from the current page to the      *)
(* first one whose directory entry shows room for the record and a slot.   *)

Room(i) == dir[i].freeSpace >= RecLen + SlotSize

Roomy(o) == {i \in obj[o].idx .. Len(dir) : Room(i)}

Target(o) == CHOOSE i \in Roomy(o) : \A j \in Roomy(o) : i <= j

(* pages left behind on the way from directory entry i to entry j *)
Passed(i, j) == {At(n) : n \in i .. j - 1}

(* mutant: the directory keeps the old free space *)
DirAfter_Stale(d, i, pg) == d

DirAfter(d, i, pg) == [d EXCEPT ![i].freeSpace = FreeIn(pg)]

(* the record goes to page p, entry i of directory d *)
Put(o, v, d, i, p) ==
    LET pg == WithRecord(page[p], v) IN
    /\ recCnt < MaxRecCnt
    /\ recCnt' = recCnt + 1
    /\ page' = [page EXCEPT ![p] = pg]
    /\ dir' = DirAfter(d, i, pg)
    /\ obj' = [obj EXCEPT ![o] = [obj[o] EXCEPT !.pageNo = p, !.idx = i, !.dirty = TRUE,
                                                !.hdrDirty = TRUE]]
    /\ unsaved' = [q \in PageNos |-> q \in {Hdr, p}
                                     \/ Reported(Passed(obj[o].idx, i), obj[o].dirty)[q]]
    /\ UNCHANGED scan

InsertRecord(o, v) ==
    /\ obj[o].st = "open" /\ Roomy(o) # {}
    /\ Put(o, v, dir, Target(o), At(Target(o)))
    /\ pins' = IF Target(o) = obj[o].idx THEN pins ELSE Moved(obj[o].pageNo, At(Target(o)))
    /\ UNCHANGED numPages

InsertInNewPage(o, v) ==
    LET p == numPages
        new == Append(dir, [pageNo |-> p, freeSpace |-> Area])
    IN
    /\ obj[o].st = "open" /\ Roomy(o) = {}
    /\ p \in DataPages
    /\ Put(o, v, new, Len(new), p)
    /\ pins' = Moved(obj[o].pageNo, p)
    /\ numPages' = p + 1

(* a page on the way cannot be read, the file cannot grow, or it does but  *)
(* no frame is left for its new page                                       *)
InsertFails(o) ==
    LET i == obj[o].idx
        last == IF Roomy(o) # {} THEN Target(o) ELSE Len(dir)
    IN
    /\ obj[o].st = "open"
    /\ \/ \E j \in i + 1 .. last :
             /\ ReadFails(At(j))
             /\ unsaved' = Reported(Passed(i, j), obj[o].dirty)
             /\ UNCHANGED numPages
       \/ /\ Roomy(o) = {} /\ "read" \in Faults /\ numPages \in DataPages
          /\ unsaved' = Reported(Passed(i, Len(dir) + 1), obj[o].dirty)
          /\ numPages' \in {numPages, numPages + 1}
    /\ Fail(o)
    /\ pins' = Released(o)
    /\ UNCHANGED <<dir, recCnt, page, scan>>

-----------------------------------------------------------------------------
(* HeapFileScan::startScan goes back to the first page.  If it is there    *)
(* already it stays where it is on that page.                              *)

Matching(F) == {r \in Records : page[r[1]][r[2]] \in F}

StartScan(s, F) ==
    LET cur   == obj[s]
        back  == cur.pageNo # At(1)
        fresh == back \/ cur.rec = NULLRID
    IN
    /\ cur.st = "open"
    /\ scan' = [scan EXCEPT ![s] = [NoScan EXCEPT !.filter = F, !.out = "going", !.fresh = fresh,
                                       !.due = IF fresh THEN Matching(F) ELSE {},
                                       !.mark = [scan[s].mark EXCEPT !.seen = {}, !.fresh = FALSE]]]
    /\ IF back
       THEN /\ pins' = Moved(cur.pageNo, At(1))
            /\ unsaved' = Reported({cur.pageNo}, cur.dirty)
            /\ obj' = [obj EXCEPT ![s] = [cur EXCEPT !.pageNo = At(1), !.idx = 1,
                                                     !.dirty = FALSE, !.rec = NULLRID]]
       ELSE UNCHANGED <<pins, unsaved, obj>>
    /\ UNCHANGED <<dir, recCnt, page, numPages>>

(* Where scanNext goes: records behind the current one, page by page in    *)
(* directory order and slot by slot.                                       *)
Ahead_Same(s) ==        \* mutant: nextRecord starts at the current slot
    {x \in (obj[s].idx .. Len(dir)) \X (1 .. MaxSlots) :
        x[2] \in UsedIn(page[At(x[1])]) /\ (x[1] = obj[s].idx => x[2] >= obj[s].rec[2])}

Ahead_KeepsSlot(s) ==   \* mutant: curRec is not reset on the next page
    {x \in (obj[s].idx .. Len(dir)) \X (1 .. MaxSlots) :
        x[2] \in UsedIn(page[At(x[1])]) /\ x[2] > obj[s].rec[2]}

Ahead(s) ==
    {x \in (obj[s].idx .. Len(dir)) \X (1 .. MaxSlots) :
        x[2] \in UsedIn(page[At(x[1])]) /\ (x[1] = obj[s].idx => x[2] > obj[s].rec[2])}

Before(x, y) == x[1] < y[1] \/ (x[1] = y[1] /\ x[2] <= y[2])

First(X) == CHOOSE x \in X : \A y \in X : Before(x, y)
Last(X)  == CHOOSE x \in X : \A y \in X : Before(y, x)

Hits(s) == {x \in Ahead(s) : page[At(x[1])][x[2]] \in scan[s].filter}

(* the directory entry scanNext ends up at *)
Goal(s) == IF Hits(s) = {} THEN Len(dir) ELSE First(Hits(s))[1]

(* the scan moves to entry i and makes r its current record *)
Goto(s, i, r) ==
    LET cur == obj[s] IN
    /\ obj' = [obj EXCEPT ![s] = [cur EXCEPT !.pageNo = At(i), !.idx = i, !.rec = r]]
    /\ pins' = IF i = cur.idx THEN pins ELSE Moved(cur.pageNo, At(i))
    /\ unsaved' = Reported(Passed(cur.idx, i), cur.dirty)
    /\ UNCHANGED <<dir, recCnt, page, numPages>>

ScanNext(s) ==
    LET x == First(Hits(s))
        r == <<At(x[1]), x[2]>>
    IN
    /\ obj[s].st = "open" /\ scan[s].out # "none"
    /\ Hits(s) # {}
    /\ Goto(s, x[1], r)
    /\ scan' = [scan EXCEPT ![s] = [scan[s] EXCEPT !.out = "going", !.seen = scan[s].seen \cup {r},
                                                   !.twice = scan[s].twice \/ r \in scan[s].seen]]

(* FILEEOF: the scan stands on the last record of the last page, or, if    *)
(* that page has none, before it                                           *)
ScanEof(s) ==
    LET i == Len(dir)
        there == {x \in Ahead(s) : x[1] = i}
    IN
    /\ obj[s].st = "open" /\ scan[s].out # "none"
    /\ Hits(s) = {}
    /\ Goto(s, i, IF there # {} THEN <<At(i), Last(there)[2]>>
                  ELSE IF i = obj[s].idx THEN obj[s].rec ELSE NULLRID)
    /\ scan' = [scan EXCEPT ![s].out = "eof"]

(* a page that startScan, scanNext or resetScan goes to cannot be read *)
ScanFails(s) ==
    LET cur == obj[s]
        back == {At(1), scan[s].mark.pageNo} \ {0, cur.pageNo}
    IN
    /\ cur.st = "open"
    /\ \/ /\ \E p \in back : ReadFails(p)
          /\ unsaved' = Reported({cur.pageNo}, cur.dirty)
       \/ /\ scan[s].out # "none"
          /\ \E i \in cur.idx + 1 .. Goal(s) :
                ReadFails(At(i)) /\ unsaved' = Reported(Passed(cur.idx, i), cur.dirty)
    /\ Fail(s)
    /\ pins' = Released(s)
    /\ scan' = [scan EXCEPT ![s] = NoScan]
    /\ UNCHANGED <<dir, recCnt, page, numPages>>

-----------------------------------------------------------------------------
(* markScan, resetScan *)

MarkScan(s) ==
    LET cur == obj[s] IN
    /\ cur.st = "open" /\ scan[s].out # "none"
    /\ scan' = [scan EXCEPT ![s].mark = [pageNo |-> cur.pageNo, idx |-> cur.idx,
                                         rec |-> cur.rec, seen |-> scan[s].seen,
                                         fresh |-> scan[s].fresh]]
    /\ UNCHANGED <<dir, recCnt, page, numPages, pins, unsaved, obj>>

ResetScan(s) ==
    LET cur == obj[s]
        mark == scan[s].mark
    IN
    /\ cur.st = "open" /\ scan[s].out # "none" /\ mark.pageNo # 0
    /\ IF mark.pageNo = cur.pageNo
       THEN /\ scan' = [scan EXCEPT ![s].out = "going"]
            /\ UNCHANGED <<pins, unsaved, obj>>
       ELSE /\ scan' = [scan EXCEPT ![s] = [scan[s] EXCEPT !.out = "going", !.seen = mark.seen, !.fresh = mark.fresh,
                                               !.due = IF mark.fresh THEN scan[s].due ELSE {}]]
            /\ pins' = Moved(cur.pageNo, mark.pageNo)
            /\ unsaved' = Reported({cur.pageNo}, cur.dirty)
            /\ obj' = [obj EXCEPT ![s] = [cur EXCEPT !.pageNo = mark.pageNo, !.idx = mark.idx,
                                                     !.dirty = FALSE, !.rec = mark.rec]]
    /\ UNCHANGED <<dir, recCnt, page, numPages>>

-----------------------------------------------------------------------------
(* HeapFileScan::deleteRecord and updateRecord, on the current record if   *)
(* it is still there                                                       *)

Current(s) == obj[s].st = "open" /\ obj[s].rec \in Records /\ obj[s].rec[1] = obj[s].pageNo

NotDue(r) == [s \in Scans |-> [scan[s] EXCEPT !.due = scan[s].due \ {r}]]

DeleteRecord_Unmarked(s) ==   \* mutant: markDirty is not called
    LET r == obj[s].rec IN
    /\ Current(s) /\ recCnt < MaxRecCnt
    /\ page' = [page EXCEPT ![r[1]] = WithoutRecord(page[r[1]], r[2])]
    /\ recCnt' = recCnt + 1
    /\ obj' = [obj EXCEPT ![s] = [obj[s] EXCEPT !.hdrDirty = TRUE]]
    /\ unsaved' = [unsaved EXCEPT ![r[1]] = TRUE, ![Hdr] = TRUE]
    /\ scan' = NotDue(r)
    /\ UNCHANGED <<dir, numPages, pins>>

DeleteRecord(s) ==
    LET r == obj[s].rec IN
    /\ Current(s) /\ recCnt < MaxRecCnt
    /\ page' = [page EXCEPT ![r[1]] = WithoutRecord(page[r[1]], r[2])]
    /\ recCnt' = recCnt + 1             \* sic
    /\ obj' = [obj EXCEPT ![s] = [obj[s] EXCEPT !.dirty = TRUE, !.hdrDirty = TRUE]]
    /\ unsaved' = [unsaved EXCEPT ![r[1]] = TRUE, ![Hdr] = TRUE]
    /\ scan' = NotDue(r)
    /\ UNCHANGED <<dir, numPages, pins>>

UpdateRecord(s, v) ==
    LET r == obj[s].rec IN
    /\ Current(s)
    /\ page' = [page EXCEPT ![r[1]] = [page[r[1]] EXCEPT ![r[2]] = v]]
    /\ obj' = [obj EXCEPT ![s] = [obj[s] EXCEPT !.dirty = TRUE]]
    /\ unsaved' = [unsaved EXCEPT ![r[1]] = TRUE]
    /\ scan' = NotDue(r)
    /\ UNCHANGED <<dir, recCnt, numPages, pins>>

(* HeapFile::getRecord of a record on another page *)
GetRecord(o, r) ==
    LET cur == obj[o] IN
    /\ cur.st = "open" /\ r[1] # cur.pageNo
    /\ unsaved' = Reported({cur.pageNo}, cur.dirty)
    /\ \/ /\ pins' = Moved(cur.pageNo, r[1])
          /\ obj' = [obj EXCEPT ![o] = [cur EXCEPT !.pageNo = r[1], !.dirty = FALSE]]
       \/ /\ ReadFails(r[1])
          /\ pins' = Released(o)
          /\ Fail(o)
    /\ UNCHANGED <<dir, recCnt, page, numPages, scan>>

Next ==
    \/ \E o \in Objects : Open(o) \/ Close(o)
    \/ \E o \in Inserters :
          InsertFails(o) \/ \E v \in Vals : InsertRecord(o, v) \/ InsertInNewPage(o, v)
    \/ \E s \in Scans :
          \/ ScanNext(s) \/ ScanEof(s) \/ ScanFails(s) \/ MarkScan(s) \/ ResetScan(s)
          \/ DeleteRecord(s)
          \/ \E F \in Filters : StartScan(s, F)
          \/ \E v \in Vals : UpdateRecord(s, v)
    \/ \E o \in Readers, r \in Records : GetRecord(o, r)

Spec == Init /\ [][Next]_vars

-----------------------------------------------------------------------------
(* Properties *)

Rids == DataPages \X (1 .. MaxSlots)

(* The variables keep their shapes: in particular an object never stands on
   a directory entry there is not, and a page does not outgrow its bytes. *)
TypeOK ==
    /\ \A i \in DOMAIN dir : dir[i] \in [pageNo : DataPages, freeSpace : 0 .. Area]
    /\ recCnt \in 0 .. MaxRecCnt
    /\ \A p \in DataPages : Len(page[p]) <= MaxSlots /\ FreeIn(page[p]) >= 0
    /\ numPages \in 3 .. MaxPages + 2
    /\ pins \in [PageNos -> Nat]
    /\ unsaved \in [PageNos -> BOOLEAN]
    /\ \A o \in Objects :
          /\ obj[o].st \in {"closed", "open", "failed"}
          /\ obj[o].st = "open" => obj[o].idx \in DOMAIN dir /\ obj[o].pageNo \in DataPages
          /\ obj[o].rec \in Rids \cup {NULLRID}
    /\ \A s \in Scans : scan[s].seen \cup scan[s].due \subseteq Rids

(* Every data page the file grew by is in the directory once, unless its
   insert failed, and the directory never promises more room on a page than
   there is: whoever inserts, deletes or reuses slots there, insertRecord
   does not run into NOSPACE on the page it chose. *)
DirectoryAgrees ==
    /\ \A i, j \in DOMAIN dir : At(i) = At(j) => i = j
    /\ \A i \in DOMAIN dir : dir[i].freeSpace <= FreeIn(page[At(i)])
    /\ \A r \in Records : \E i \in DOMAIN dir : At(i) = r[1]

(* What the directory says fits the pages, and every object a place in it. *)
FileSound == TypeOK /\ DirectoryAgrees

(* Pins are what the objects that are open, or were dropped after an error,
   hold: no page stays pinned for nobody, none is unpinned under its user. *)
PinsBalanced ==
    \A p \in PageNos :
        pins[p] = Cardinality({o \in Objects : IF p = Hdr THEN obj[o].st # "closed"
                                               ELSE obj[o].st = "open" /\ obj[o].pageNo = p})

WillSay(o, p) == /\ obj[o].st = "open"
                 /\ IF p = Hdr THEN obj[o].hdrDirty ELSE obj[o].pageNo = p /\ obj[o].dirty

(* A page with a change the pool has not been told of stays pinned, so no
   eviction drops the change.  An open object will tell the pool, and if none
   will, the page is the directory's, and an error has stopped the object that
   changed it: only then can the change be lost, when the program ends.  A
   change to a data page is never lost, the assumption BufMgr makes of its
   clients. *)
ChangesKept ==
    \A p \in PageNos : unsaved[p] =>
        /\ pins[p] > 0
        /\ \/ \E o \in Objects : WillSay(o, p)
           \/ p = Hdr /\ \E o \in Objects : obj[o].st = "failed" /\ obj[o].hdrDirty

(* A scan that began at the first page has, at FILEEOF, returned every
   matching record that was there when it began and was neither deleted nor
   updated since, whatever was inserted, deleted and moved meanwhile. *)
ScanComplete ==
    \A s \in Scans : scan[s].out = "eof" /\ scan[s].fresh => scan[s].due \subseteq scan[s].seen

(* A scan returns no record twice, unless it was reset to before it. *)
ScanOnce == \A s \in Scans : ~scan[s].twice
=============================================================================
