# Ubase: a verification of the database, layer by layer

Ubase is a small single-user relational database, built in five stages
(`src/part1` .. `src/part5`). The last stage, `src/part5/part5`, is the complete
program and the reference of this project; paths below are relative to it unless
they begin with `src/`. Of the earlier stages only the clock buffer manager of
part 1 is code the last stage does not replace, and it has a module of its own.

## The system

```
ubase.C, quit.C, dbcreate.C            session, start and stop
parser/*                               lexer, grammar, parse tree, interp
insert delete update select join .C    query operators   create destroy load print help .C
sort.C partition.C                     (helpers of joins that are not written yet)
catalog.C                              relcat and attrcat, themselves heap files
heapfile.C                             directory page, insert scans, filtered scans
buf.C bufHash.C      page.C            buffer pool        records on a page
db.C                                   Unix files: header, free list; table of open files
```

Each layer calls the one below; the layers share three globals (`bufMgr`, `db`,
the two catalogs) and nothing calls back. There is one thread. What interleaves
are the *calls* of objects that are alive at the same time: an update has an
insert scan and a filtered scan on one file, a join two scans and an insert, the
catalogs keep two files open for the whole session, and every catalog lookup
opens another scan on one of them. All of them pin pages of the one pool.

| component | state | operations | what makes it correct | status |
|---|---|---|---|---|
| Buffer manager | frames (file, page, pin count, dirty, valid), hash table, unpinned list (UPL) | readPage, unPinPage, allocPage, disposePage, flushFile, destructor | the pool is invisible: one shared store of pages; pins count holders; the UPL is exactly the unpinned frames | modelled, proved |
| Database file | page 0: nextFree, firstPage, numPages; links in free pages | create, allocatePage, disposePage, readPage, writePage | no page lost or handed out twice, even if a call stops between its two writes | modelled, proved |
| Open files | table name -> File, openCnt, Unix descriptor | createFile, destroyFile, openFile, closeFile, static destructor | one File per open file, deleted at the last close, after its pages left the pool | modelled, proved |
| Data page | slot array, freePtr, freeSpace, data | insert, update, delete, firstRecord, nextRecord, getRecord | a record keeps its slot and bytes until deleted; space adds up; a page scan visits each record once | modelled, proved |
| Heap file | directory page (page list with free space, recCnt), current page and record, scan mark, filter | open/close, insert, scanNext, delete, update, mark/reset | every record visited once; pins balanced; directory agrees with pages | partly, proved |
| Catalogs, create and destroy | rows of relcat and attrcat, Unix files | getInfo, addInfo, removeInfo, getRelInfo, createRel, destroyRel | a relation has its row, its attribute rows and its file, or none of them | modelled, proved |
| Query operators, load, print | scans open during a statement | insert, delete, update, select, join, load, print | what a scan left open costs; results are what the relations say; every statement ends | modelled or partly |
| Session, interp | the statement under way, the temporary result relation, the join method | one statement at a time, quit | the result relation is gone after each query | modelled but for parse trees, proved |
| Part 1 buffer manager | clock hand, reference bits, pinned-frame counter | as the buffer manager | as above, and the sweep ends | partly, proved |
| Sort, partition | runs, current record and mark of each | next, setMark, gotoMark | | not modelled (no caller) |

Hard behaviours: pins of several objects on one page; frames moving between
three places (pinned, on the list, on no list); calls that fail in the middle
(no frame, failed Unix read or write) and leave a half-done state; two-write
updates of a file cut short; File objects deleted while something still refers
to them; slot reuse and compaction under a scan; relations made of a file and
rows that come and go one by one; loops that test for one kind of end only; the
order of destruction at exit. The full list, with lines, is `hazards` in
`PROJECT.json`.

## Modules

| module | models | role |
|---|---|---|
| `UPL` | the links of the unpinned list and its four edits | used by BufMgr |
| `BufMgr` | `buf.h`, `buf.C`, `bufHash.C` | detailed specification |
| `ClockBuf` | the same files of `src/part1` | detailed specification |
| `PageStore` | what a buffer manager promises | abstract; `BufMgr` and `ClockBuf` implement it |
| `DBFile` | `File` of `db.C`, write by write | detailed specification |
| `FileAlloc` | what a file promises about its pages | abstract; `DBFile` implements it |
| `OpenFiles` | `DB` and `OpenFileHashTbl` of `db.C`, with the pool's view of files | specification |
| `Page` | `page.h`, `page.C` | detailed specification |
| `RecordPage` | what a data page promises | abstract; `Page` implements it |
| `HeapFile` | `heapfile.h`, `heapfile.C` and the objects that share a file | specification |
| `Catalog` | `catalog.C`, `create.C`, `destroy.C`, `dbcreate.C` | detailed specification |
| `Relations` | what the catalogs promise: relations that come and go in one step | abstract; `Catalog` implements it |
| `Session` | `parser/interp.C`, the query operators, `load.C`, `print.C`, `quit.C` | specification, over `Relations` and scans |
| `MCBufMgr`, `MCDBFile`, `MCOpenFiles`, `MCPage`, `MCCatalog` | symmetry sets for TLC | |
| `BufMgr_proofs` (with the edits of `UPL`), `ClockBuf_proofs`, `DBFile_proofs`, `OpenFiles_proofs`, `Page_proofs`, `HeapFile_proofs`, `Catalog_proofs`, `Session_proofs` | theorems about the module they are named after | |

The layers meet in the abstract specifications. `DBFile` implements the
allocation rule `BufMgr` assumes of a file; `BufMgr` implements the shared page
store `HeapFile` works on; `Page` implements the record store a data page of
`HeapFile` is; `Catalog` implements the relations `Session` creates and drops.
TLC checks each on an instance, and each is a theorem.

### BufMgr

`bufTable`, `bufPool`, `hashTable` are the code's; the links of the descriptors
and `rearUPL` are the record `upl`, node by node, so that a wrong edit shows as
a wrong link. Frames are `0..NumBufs-1`, the sentinel is `frontUPL`. `hashTable`
is a function from (file, page) to frame: the chains of `bufHash.C` implement
nothing else. `disk` is what the file layer keeps, with the allocation rule of
`FileAlloc`; `held` is what each client (a HeapFile or a scan) has pinned and
whether it wrote there since; `alive` turns false when an `ASSERT` calls
`exit(1)`; `stranded` is a history variable, the frames `allocBuf` took off the
list and gave up on.

| code | definition |
|---|---|
| `allocBuf` | no action of its own: `AllPinned`, `WriteBackFails`/`StrandVictim`, `WrittenBack`, `HashLessVictim`, `Taken` |
| `readPage` | `ReadPage`: `ReadHit`, `ReadMiss`, `ReadFails` (with `releaseBuf`), `ReadNoVictim` |
| `unPinPage` | `UnPinPage`, `UnPinRefused` |
| `flushFile` | `FlushFile`: the frames below `stop` are done, the one at `stop` made it give up |
| `disposePage`, `allocPage` | `DisposePage`; `AllocPage`: `AllocFails`, `AllocDone`. A failed `disposePage` of the file may have written the page and not the header (`DisposeCutShort`) |
| `~BufMgr`, then the constructor | `Restart` |
| a client writing through its `Page*` | `WritePinned` |

Clients are assumed to do what the code above does: pin a page they were given,
unpin what they hold once, report dirty what they wrote, initialise a new page.
Clients may also read past the end, unpin what nobody holds, dispose of any page,
and flush at any time. Faults are a constant: which Unix calls may fail. Files
stay open here, so that a write which fails at the last close (`db.C:224`) is not
among them.

`PageStore`, which both pools implement, keeps two images of each page: the one
its clients see (`store`) and the one on file (`saved`). The latter may catch up
at any step and changes in no other way. The two part for good in two places
only: at a restart, for a page whose write by the destructor failed, and in a
`disposePage` the file layer refuses or cannot finish, which has forgotten the
page first (`buf.C:357`). `Lossless` says that writes do not fail, and then a
restart changes nothing.

Branches the models leave out because an invariant shows them dead: BADBUFFER
in readPage, unPinPage, flushFile and disposePage, and the errors of
`hashTable->insert` and `remove` (all by `HashAgrees` and `FreeListSound`).

### ClockBuf

The same pool with another victim: `allocBuf` of `src/part1/buf.C` sweeps while
true. A call that needs a frame becomes `call`, and the sweep takes one frame a
step: `SecondChance` clears a reference bit, `SkipPinned` passes, `Evict` writes
and clears a victim, which is then `Free` and installed by `ReadDone` or
`AllocDone`; `EvictFails` and `ReadFails` are its error exits. Nothing else runs
while a sweep is on. `call.advances` counts the moves of the hand, up to
`SweepLimit`. `flushFile` tests a status nothing has assigned
(`src/part1/buf.C:194`): whether it gives up at a clean first frame is open.
`disposePage` has no caller in part 1 and is not modelled.

### DBFile

One action per Unix write. `op` is the call between its two writes; `Fail` is
the second write failing or the process dying before it. A crash *during* a
write of one page is not modelled, nor is the Unix cache: a completed write stays.
`owned` and `wrote` are history variables.

### OpenFiles

Abstracts the pool to one cached page per address of a File object, because what
matters there is that frames are keyed by that address, which `new File` may use
again. In its run and theorem writes succeed (see `db.C:224` under Findings). `Leak` is a client that is never deleted (`catalog.C:29`, `catalog.C:57`,
`insert.C:60` and others; the first also in a successful `CREATE TABLE`). `Quit` is `UT_Quit`, `exit`, the static destructors
and, if all went well, the next start. `phase = "undefined"` is the use of a
deleted object; nothing is said of what follows.

### Page

Byte by byte on a small area, so that compaction is what it is in the code. Slot
indices count up instead of down. `updateRecord` is used with records of the
length the slot has.

### HeapFile

One file and the objects that have it open. `dir`, `recCnt` and `page` are the
images that `PageStore` promises everybody sees the same of; a data page is
`RecordPage` with the slot rule of `Page`, slot numbers one higher than in the
code. `obj` holds what each object has in `curPageNo`, `curIdx`, `curDirtyFlag`,
`hdrDirtyFlag` and `curRec`; `pins` are the pool's counts; `unsaved` says that a
page was changed after the pool was last told so.

| code | definition |
|---|---|
| `createHeapFile` | `Init` |
| constructors, destructors | `Open`, `Close` (`~HeapFileScan` unpins and clears `curPage`, so that `~HeapFile` does not) |
| `insertRecord` | `InsertRecord` (`Roomy`, `Target`: the walk along the directory), `InsertInNewPage`, `InsertFails` |
| `startScan`, `markScan`, `resetScan` | `StartScan`, `MarkScan`, `ResetScan` |
| `scanNext` | `ScanNext`, `ScanEof` (`Ahead`, `Hits`, `Goto`: the walk over slots and pages), `ScanFails` |
| `deleteRecord`, `updateRecord`, `getRecord(rid)` | `DeleteRecord`, `UpdateRecord`, `GetRecord` |

`seen`, `due`, `twice` and `fresh` are history variables of what the caller of a
scan got. `fresh` is false after a `startScan` on the first page with a current
record: the code then goes on from that record (`heapfile.C:197`), which is why
`ScanComplete` speaks of scans that began at the first record only.

After a failed read an object has pinned nothing but the directory, while
`curPageNo` names the page it wanted, and `failed` has no way out here; what the
query operators that go on with such a scan do is in `Session`. Such an object
never unpins, so that a change it made to the directory page may stay unsaid
(`ChangesKept`); what becomes of it at a restart is `risk` in `Session`. Two more exits
are left out: BADSCANPARM of `startScan`, and NOSPACE of the page, which
`DirectoryAgrees` shows never happens.

### Catalog

Rows in memory (`relcat`, `attrcat`) and on disk (`relDisk`, `attrDisk`), the
Unix files, and the command under way. A command is one step per row or file, so
that it may fail or the process die between any two of them.

| code | definition |
|---|---|
| `RelCatalog::createRel`: the RELEXISTS check and the row, a row for each attribute, the file | `CreateRel`, `CreateAttr`, `CreateFile`, `CreateHalfFile` (`createHeapFile` without a frame) |
| `RelCatalog::destroyRel`: the file, `getRelInfo`, a `removeInfo` for each attribute, the row | `DropRel`, `DropLookup`, `DropAttr`, `DropRow` |
| an error of any call in them | `Fail` |
| the pool writing a page of a catalog; the end of a session; the process dying | `WriteBack`, `Quit`, `Crash` |

`past` is a history variable: how the last command on a name ended. `DropRow`
removes *a* row that begins with the name, as `removeInfo` compares that many
bytes; `Short` and `Longer` say which names begin with which. `getRelInfo` has
room for `AttrArray` attributes (ten in the code) and writes past it without
looking; `phase` is then "undefined".

### Session

What `interp` dispatches, one loop iteration a step. A relation is a bag of
records; a scan is the bag of records it has yet to pass, and a record inserted
in a relation under a scan may come before it or behind. Records are integers:
what a where clause selects is a set of them, and a join compares two.

| code | definition |
|---|---|
| `interp`, CREATE and DROP | `Create`, `Drop`, `HalfDone` (the failures of `Catalog`); `NotFound` for a relation LOAD or PRINT does not find |
| `QU_Insert` | `Insert`, `Refused` (the scan it opened is not deleted) |
| `QU_Delete`, `QU_Update` | `DeleteBegin`, `UpdateBegin` (`UpdateNothing`: OK with both scans open, `update.C:81`), `DeleteNext`, `DeleteEnd`, `DeleteFails` |
| `QU_Select` / `ScanSelect` | `SelectBegin`, `SelectNext`, `SelectEnd` |
| `QU_Join` / `QU_NL_Join` | `JoinBegin` (`NestedLoops`: which methods have code), `JoinOuter`, `JoinInner`, `JoinInnerEnd`, `JoinEnd` |
| a loop that goes on after a failed read | `ReadFails`, `Again`; `LoadAgain` for `read` in `load.C` |
| `UT_Load`, `UT_Print` | `LoadBegin` .. `LoadFails`, `PrintBegin`, `PrintEnd` |
| the check, printing and destruction of the result relation | `QueryBegin`, `ShowPrint`, `ShowDrop` |
| `UT_Quit` and the next start | `Quit`: `NextSession`, where what only a lost scan knew of may be gone (`risk`), or "undefined" |

QU_Update deletes what it finds and inserts nothing in its place
(`update.C:94-130`), so that it is `DeleteNext` here, too. `leftOpen` has the
files that a scan nobody deletes has open, the catalogs' (`Cat`) included: a
lookup that finds no row loses its scan of relcat (`catalog.C:29`), in a
statement that fails or in one that succeeds, as every `CREATE TABLE` and every
query into a new relation does. With any of them open, the end of the session
flushes through the deleted buffer manager (`db.C:33`). That is undefined; but as
the memory is mostly as it was, `Quit` may also go on, as the program does in
practice, and `RestartKeeps` says what is there then. A statement on a
relation whose file is missing uses an unset pointer (`OpensNothing`).

## Runs

| run | instance | shows |
|---|---|---|
| `BufMgr_pool` | 3 frames, 2 files, 2 clients, 2 pages each, no data | sharing: pin counts, frames that stay, files that do not mix; the list edited at its rear, middle and front |
| `BufMgr_faults` | 2 frames, 1 file, 1 client, 3 pages, 1 image, reads and writes may fail | the pool implements `PageStore` with more pages than frames: eviction, write-back, flush, dispose, reuse, restart, and whatever fails |
| `BufMgr_asserts` | write faults; **violated** | a stranded frame ends the process |
| `DBFile` | 4 pages, 2 images | no page lost or doubled wherever a call stops; implements `FileAlloc` |
| `OpenFiles` | 2 names, 2 addresses, 3 clients, lost clients | the table, the counts and the pool agree, whatever references are lost |
| `HeapFile` | an insert scan, a filtered scan and a plain HeapFile, 2 pages of 2 records, reads may fail | directory, pins, changes the pool has to be told of; scans are complete and repeat nothing |
| `Page` | 12 bytes, slots of 2, records of 1 and 3 | space, compaction, scans; implements `RecordPage` |
| `Catalog` | 2 relations, 2 attributes, an array of 2, calls may fail, the process may die | a relation is all there or not at all; implements `Relations` |
| `Catalog_prefix` | a relation whose name begins another's; **violated** | dropping it removes the other's row |
| `Session` | 2 relations and the temporary one, values 1 and 2, joins on EQ and NE, calls may fail, restarts | what statements return, what scans left open cost at a restart, which end |
| `Session_join` | a join on LT, nothing fails; **violated** | the join finds the pairs of the opposite order |
| `ClockBuf` | 2 frames, 1 file, 2 clients, 3 pages, 1 image, reads and writes may fail | the sweep ends within two rounds; implements `PageStore` |

Properties that are conjunctions of named parts: `NoFrameLost` (the list holds
exactly the unpinned frames that are not stranded, in one circle, so that "all
pages are pinned" is answered only when it is true), and `HeaderSound`,
`RegistrySound`, `FileSound`, `PageSound`, `CatalogSound` and
`PoolSound`, which begin with their module's type invariant.

Bounds. `MaxPages` bounds what a file grows to, in the guard `CanAllocate` and in
`ExtendPage`; `MaxOpen` bounds open and pin counts of `OpenFiles`. Two frames
with three pages give eviction of clean and dirty pages, hits on both, and a full
pool; three frames give list removals in the middle, which two cannot. One image
beside the zeros tells an old from a new value of a page; in `BufMgr_pool` images
play no part and there are none. A file of four pages has a free list of up to
three and the protected first page. Twelve bytes hold up to four records, of two
lengths, and all orders of slots and offsets of three. A heap file of two pages
with room for two records each, and four insertions and deletions in all
(`MaxRecCnt`, because `recCnt` counts both), reaches a second page, reuses a slot
before, at and behind a scan, and empties a page under it; two values and a
filter for one of them make records that are passed over. `MaxRows` bounds the
rows of `attrcat`, leftovers of crashes included; an array of two attributes is
as easily overrun with leftovers as one of ten. In `Session` a relation holds one
record by insertion or load (`MaxRecs`) and two by a select or join (`Cap`), a
scan has at most two records ahead (`MaxScan`: more only repeat a step), or one
at the start of a query into a relation it reads, which adds more itself, and one
scan or half-made relation of a user may be lost between two starts (`MaxBad`),
besides any scans of the catalogs.

Symmetry is used over files, clients, images, names and addresses, in runs
without liveness properties only.

Deadlock is checked except where the program may really stop: `alive = FALSE`
in `BufMgr`, `phase = "undefined"` in `OpenFiles`, `Catalog` and `Session`, a
session that has ended, and in `HeapFile` every object may have failed.

Fairness. `Session!FairSpec` has weak fairness of `Step`, the next iteration of
the statement under way, and `ClockBuf` of the next frame of a sweep: the one
thread of the process runs its own loop and waits for nobody in it. Users are not
assumed to give another statement, and no call is assumed to succeed. Under it,
`StatementEnds` says that every statement ends, but for those the code lets run
for ever and the property names: a loop that goes on after a failed read, of a
scan or of the file to load (`st = "again"`), and a select or join into a
relation it reads (`FeedsItself`). `SweepEnds` has no exception.

## Findings

Runs that end in a violation:

* `BufMgr_asserts`: after a failed write-back (`buf.C:166`) the victim is valid,
  hashed and unpinned, but on no list. A later hit unlinks it again and can break
  `ASSERT (frontUPL->next == rearUPL)`, which exits. Short of that the frame is
  lost to the pool, and "all pages are pinned" (`buf.C:133`) becomes untrue.
* `Catalog_prefix`: `removeInfo` (`catalog.C:75`) compares only as many bytes as
  the name it is given has, so that dropping a relation may remove the catalog
  row of another (`destroy.C:8` says "removes the catalog entry for the
  relation").
* `Session_join`: the inner scan of `QU_NL_Join` (`join.C:91`) compares the inner
  record with the outer value, in this order, by the operator of the query:
  `r.a < s.b` (`parser/interp.C:333`) returns the pairs with `s.b < r.a`.

Met while modelling, visible in the models but without a run:

* `db.C:224` ignores that `flushFile` failed: pages of a File that is deleted next
  stay in the pool under its address. `FramesCorrect` is therefore proved for
  writes that succeed.
* `db.C:33`: the static destructor closes what "someone forgot to close" after
  `quit.C` deleted the buffer manager; a catalog lookup that finds nothing
  (`catalog.C:29`), as in every CREATE TABLE, is enough to leave `relcat` open.
* `update.C:81` returns OK when its scan was refused, with two scans open.
* `heapfile.C:262`: `resetScan` returns at once if the mark is on the current
  page; `heapfile.h:115` promises to roll the scan back. The sort relies on it.
* `heapfile.C:364`: `deleteRecord` increments `recCnt`, so that "number of records
  in heap file" is two too high after each deletion.
* `buf.h:109` promises "a new, empty page"; `AllocPage` leaves the frame as the
  victim left it, so `PageStore!Allocate` promises nothing about its image.
* `select.C:103`, `join.C:78` and `join.C:106` test for FILEEOF only, and
  `load.C:56` for a `read` of 0 only: after an error they go on for ever. So does a
  select into the relation it reads. `delete.C:51` and `update.C:94` have the same
  test, but end with BADPAGENO: `deleteRecord` finds the scan's current record on
  another page (`DeleteFails`).
* `update.C:94-130` deletes the records it finds and inserts nothing instead.
* `join.C:114-117` fills both halves of a projection from the inner record if a
  relation is joined with itself; `join.C:100` copies a string attribute into a
  single `char` (the model has integers only).
* Sort-merge and hash join are empty and answer OK with an empty result.
* `AttrCatalog::getInfo` (`catalog.C:121`) answers OK with its result unset if the
  attribute does not exist, which delete and update then use.
* `getRelInfo` (`catalog.C:223`) has room for ten attributes, the parser allows
  forty; `mk_attrnames` with `*` may pass that bound as well.
* A create or drop that failed half-way leaves a name that can be neither created
  nor dropped again (`broken` in `Catalog`, `stuck` in `Session`).
* `sort.C:238-241` destroys the run file it opens next.

## Proofs

TLAPS proves, for all values of the constants that satisfy the named ASSUMEs:

| module | assumptions |
|---|---|
| `UPL`, `BufMgr` | `NumBufs` and `MaxPages` positive, `NoFile` no file, `Clients` finite |
| `ClockBuf` | at least one frame, `Clients` finite, `NoFile` no file, `NULL` no frame |
| `DBFile` | `MaxPages` positive; the image "none" is none of the data |
| `OpenFiles` | `Clients` finite, `MaxOpen` positive, `NoFile` no address and "none" no name |
| `Page` | a slot takes room, and so does a record |
| `HeapFile` | a page holds a record, three disjoint finite sets of objects, `Hole` no value |
| `Catalog` | the two catalogs are no relations of the user, `Attrs` finite, `MaxRows` positive |
| `Session` | finitely many values, all positive (0 is "no record"), `Cap` positive, `Tmp` and `Cat` no names of the user |

| module | theorem | statement |
|---|---|---|
| `BufMgr_proofs` | `Invariance` | `Spec => []IInv` |
| | `TypeCorrect`, `HashTableCorrect`, `PinsCorrect`, `ListCorrect`, `FreeListsCorrect` | the parts of `IInv` the runs check |
| | `CleanCorrect` | `Spec => []CleanIsOnDisk` |
| | `AssertsNeverFail`, `FramesKept` | `AssertsHold` and `NoFrameLost`, if writes do not fail |
| | `PinnedStays` | `Spec => PinnedPageStays` |
| | `PageStoreImplemented` | `Spec => ImplementsPageStore` |
| `ClockBuf_proofs` | `Invariance`, `PoolCorrect` | the accounts of the pool, whatever fails |
| | `SweepsEnd` | `Spec => []SweepBounded`: a sweep looks at most twice at each frame |
| | `PageStoreImplemented` | `Spec => ImplementsPageStore` |
| `DBFile_proofs` | `Invariance` | `Spec => []IInv` |
| | `HeaderCorrect`, `ReuseIsFree`, `ImagesKept` | the header, the page `allocatePage` reuses, the images of owners |
| | `PagesAccounted` | `Spec => []EveryPageAccounted` |
| | `FileAllocImplemented` | `Spec => ImplementsFileAlloc` |
| `OpenFiles_proofs` | `Invariance` | `Spec => []IInv` |
| | `RegistryCorrect`, `HandlesCorrect` | the table and the handles |
| | `FramesCorrect` | `[]FramesOfOpenFiles`, if writes succeed |
| `Page_proofs` | `Invariance`, `PageCorrect` | the bytes of a page |
| | `ScanCorrect` | `Spec => []ScanVisitsAll` |
| | `RecordPageImplemented` | `Spec => ImplementsRecordPage` |
| `HeapFile_proofs` | `InvariantCorrect` | `Spec => []IInv` |
| | `FileCorrect`, `PinsCorrect`, `UpdatesCorrect` | the directory, the pins, the dirty flags |
| | `ScansInvariant`, `ScansOnce`, `ScansComplete` | `Spec => []SInv`; `ScanOnce` and `ScanComplete` |
| `Catalog_proofs` | `Invariance` | `Spec => []IInv`; this and the following if no relation's name begins with another's |
| | `IsolationCorrect`, `CatalogCorrect`, `OverflowCorrect` | relations are whole or absent; files have rows; the array of `getRelInfo` overflows on leftovers of a crash or on too many attributes, and on the former only if there cannot be too many |
| | `RelationsImplemented` | `Spec => ImplementsRelations` |
| `Session_proofs` | `Invariance`, `SessionCorrect`, `TmpCorrect` | what statements leave behind |
| | `RestartCorrect` | `Spec => RestartKeeps` |
| | `SelectCorrect`, `DeleteCorrect`, `JoinCorrect` | `SelectExact`, `DeleteExact` and `JoinExact` |

Each theorem is split by action, then by conjunct.

**BufMgr.** `IInv` is `TypeOK`, `HashAgrees`, `PinsAccounted`, `UplLinked` and
`FreeListSound`. None of the last four is inductive alone: a pin count can be
related to its holders only if a page is in one frame (`HashAgrees`); a frame may
be put back on the list only if it was off it, which is its pin count
(`PinsAccounted`) and its not being stranded; and `insert` in `AllocPage`
overwrites nothing only if a free page is never cached (`FreeListSound`).
`UplLinked` says that next and prior undo each other on the frames listed, and
that next leads from the sentinel through all of them. The latter (`OneCircle`)
is stated without a walk: no smaller set of frames is closed under next. So each
edit of the list keeps it by an argument about sets, where a walk would ask for
an induction: a set closed under the links after the edit, with the frame that
came or went taken out or put in, was closed before. A stranded frame keeps
`prior = frontUPL`, which makes the edits of a later hit harmless enough for the
list to survive as long as the process does. `AssertsNeverFail` and `FramesKept`
strengthen `IInv` with "no frame is stranded and the ASSERTs hold", which is why
they need writes that do not fail; `CleanCorrect` with `CleanIsOnDisk` itself,
the file's images and the frames' identity; `PinnedStays` is an action property
from `IInv`.

**The page stores.** `PageStoreImplemented` needs of both pools that a clean
frame nobody is writing shows what its file has (`CInv`): then a frame that
leaves the pool, written back if it is dirty, changes no image that a client
could see, which is what evictions, flushes and restarts have in common
(`EvictShown` and `LeaveShown`; in `ClockBuf`, `Leaving`). Each operation is then
one step of `PageStore` or none: a miss is `Pin`, whatever it evicted before. In
`ClockBuf` a miss is many steps, all but the last of which change nothing; an
allocation becomes visible at its end, although the file grew at its start
(`Claimed`), and a failed one is `AllocateInVain` there.

**ClockBuf.** The accounts of `BufMgr`, and what the sweep left behind (`Swept`): a
frame the hand was on `Ago` moves before has no reference bit, and one it was on
a round earlier, too, is pinned. After two rounds all frames would be pinned,
which the test of `pinnedFrame` excludes at the start.

**DBFile.** `HeaderSound` is made inductive without following the chain of free
pages: each page that nobody owns links to another such page or to none, no two link to
the same, and the first of the list is linked to by none (`Links`); `InMid` says
what the call between its two writes has done to file and header. That every page
is accounted for follows the chain: `Chain` says that header and links spell a
sequence of distinct pages, all those that nobody owns; an allocation takes its
head, a disposal puts a new one there. The set the model's walk finds is that of
the sequence: at the least step at which walk and sequence differed, they would
agree one step before.

**OpenFiles.** `TableSound` alone does not survive a close: `Counts` says that
`openCnt` is at least the number of handles, a pin count at least the number of
clients that pinned, and the surplus of pins (lost with their clients) no more
than the surplus of opens; `PinsOpen` that
whoever has a page pinned has its file open. Together they make the last close
the one at which no page is pinned, so that `flushFile` can fail by a write only.

**Page.** What the runs check of a page adds up lengths; the proof takes the
records as intervals (`Tiled`): they are apart, and cover the area up to
`freePtr`. Compaction shifts those behind the deleted record by its length, and
keeps this. `NoEmptyEnd` (the last slot is in use) is what dropping trailing
slots is for, and what makes `firstRecord` find a record whenever there is a
slot. `ScanVisitsAll` says that the slots in use are reached one from the other,
each further on: no smaller set has the first record and is closed under
`nextRecord`. For the refinement a record's image is read at its offset;
the shift moves bytes and offset alike.

**HeapFile.** `IInv` is `Shape`, `Directory`, `Placed`, `PinsBalanced` and
`Told` (each unreported change is known to an object that has the page pinned,
failed or not, from which `ChangesKept` follows). `Becomes(o, x)` states what every call does to them: one object
changes, the pins stay the number of users of each page, and what the object no
longer holds it has reported; each call is then one case. `SInv` adds
for each scan and its mark that everything seen lies behind its position and
everything due and not seen is a matching record beyond it. An insertion,
deletion or update by others moves nothing across a position; a walk over slots
and pages passes only what does not match (`Walk` states this of a position,
`Steady` of a scan and its mark).

**Catalog.** `State(n)` says of each relation no crash caught what its rows are:
at rest all there, or none, or those of a failed command; within a create those
written and those to come, together the number the relation's row gives; within a
drop those still there. `Command` says, of crashed relations too, that a drop
removes exactly the rows it found. All of this fails if `removeInfo` takes a row
of another relation, so that the theorems have the hypothesis `NamesApart`, that
no relation's name begins with another's. It holds in the instance of the run
`Catalog`, and `Catalog_prefix` shows that it is needed. `OverflowCorrect` adds
`Fit`, that no relation's row counts more attributes than there are.

**Session.** `IInv` relates a statement to the loop iterations it has behind it: in
a delete the matching records left are those the scan has yet to pass
(`Deleting`); in a select the result has grown by what matched of those passed
(`Selecting`), up to `Cap`, which is why it is stated with `Capped`. A relation
of a statement stays until the statement ends (`Present`), as nothing runs
between its iterations. For joins, `Joining` counts the pairs that match among
those the two loops have passed (`Passed`): all pairs of the outer records behind
the outer scan, and of the current one those whose inner record is behind the
inner scan. Records are numbered among their equals, so that each inner iteration
adds one element to this set, and the two ends of the inner scan none.
`LeftKnown` is what a restart may cost: what is at risk is of a relation that is
still open, therefore still there, and that a failed statement named.

Model-checked only: `StatementEnds` and `SweepEnds`, as liveness is out of the
prover's reach (`SweepBounded` is the safety half of the latter).

The proofs have no induction over data. Properties that suggest one say instead
what the induction would show: `OneCircle` that no smaller set is closed under
next, `ScanVisitsAll` the same of `nextRecord`, `RowCount` and `Asked` the
cardinality of a set. Where one is needed all the same (the walk along the free
chain of `DBFile`, the list a pool starts with, the slots of `Page` and the walks
of `HeapFile`) the proof takes the least counterexample, which the
library's `WFMin` gives (`LeastOne`, `NatMin`).

## Plan

1. `Session` over `Catalog`: that the creates and drops of the one are the
   relations of the other, as a theorem on the two modules' steps.
2. Two filtered scans with marks on one file, as a self-join has them, with three
   pages.

## Not modelled

* `sort.C`: nothing calls it (sort-merge join is empty), and `sort.C:238-241`
  destroys the run file before it opens it, so that no state beyond the
  constructor is ever reached. `partition.C`: nothing calls it (hash join is
  empty).
* `parser/lex.yy.c` and `parse.tab.c` are generated; the parse tree and the
  conversion of attribute lists in `interp.C` compute values and keep no state
  from one statement to the next. Formatting in `print.C` and `help.C`, the
  strings of `error.C`, and memory layout are left out.
* The earlier stages are earlier versions of the files of the last. Of part 1,
  `disposePage` has no caller.
* A page directory with `DIRCNT` entries: nothing checks the bound
  (`heapfile.C:475`), and what lies behind is memory of another page. A header
  page that cannot be read: the constructor prints the error and goes on with
  unset pointers (`heapfile.C:80`).

The tree holds a generated parser and four earlier copies of many files; the share
of its lines that is modelled is small for that reason, and larger for `part5`.
