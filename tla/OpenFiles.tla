----------------------------- MODULE OpenFiles -----------------------------
(***************************************************************************)
(* The table of open files (db.C: OpenFileHashTbl, File::open and close,   *)
(* DB::createFile, destroyFile, openFile, closeFile), its users, and what  *)
(* the buffer pool knows of them: frames are keyed by the address of the   *)
(* File object, so closing a file must take its pages out of the pool      *)
(* before the object is deleted and its address can be used again.         *)
(*                                                                         *)
(* One page stands for the cached pages of a file: frame[a] is what the    *)
(* pool holds under address a (BufMgr models the pool itself).             *)
(***************************************************************************)
EXTENDS Integers, FiniteSets

CONSTANTS
    Names,     \* file names
    Addrs,     \* addresses a File object can have
    NoFile,    \* the NULL File pointer
    Clients,   \* HeapFile objects, the catalogs among them
    MaxOpen,   \* bound: open count of a file
    Faults     \* "write": Unix writes may fail; "leak": clients may be lost
               \* without being deleted (insert.C, catalog.C)

ASSUME NoFileAssumption == NoFile \notin Addrs
ASSUME MaxOpenAssumption == MaxOpen \in Nat \ {0}
ASSUME NamesAssumption == "none" \notin Names
ASSUME ClientsAssumption == IsFiniteSet(Clients)

VARIABLES
    exists,    \* names of the Unix files there are
    table,     \* Names -> File object in the table of open files, or NoFile
    obj,       \* Addrs -> the File object there, or NoObj
    handle,    \* Clients -> the File object it opened, or NoFile
    pins,      \* Clients -> has it pinned the page
    frame,     \* Addrs -> what the pool holds under that address
    phase      \* "running", or "undefined" once a deleted object is used

vars == <<exists, table, obj, handle, pins, frame, phase>>

NoObj   == [name |-> "none", openCnt |-> 0]
NoFrame == [of |-> "none", pinCnt |-> 0, dirty |-> FALSE]

NoTable  == [n \in Names |-> NoFile]
NoObjs   == [a \in Addrs |-> NoObj]
NoHandle == [c \in Clients |-> NoFile]
NoPins   == [c \in Clients |-> FALSE]
NoFrames == [a \in Addrs |-> NoFrame]

Init ==
    /\ exists = {}
    /\ table = NoTable /\ obj = NoObjs /\ frame = NoFrames
    /\ handle = NoHandle /\ pins = NoPins
    /\ phase = "running"

-----------------------------------------------------------------------------
(* OpenFileHashTbl: find, insert, erase, and what its destructor meets *)

IsOpen(n)      == table[n] # NoFile
Inserted(n, a) == [table EXCEPT ![n] = a]
Erased(n)      == [table EXCEPT ![n] = NoFile]
LeftOpen       == {n \in Names : IsOpen(n)}

-----------------------------------------------------------------------------
(* DB::createFile, DB::destroyFile *)

CreateFile(n) ==
    /\ ~IsOpen(n) /\ n \notin exists
    /\ exists' = exists \cup {n}
    /\ UNCHANGED <<table, obj, handle, pins, frame, phase>>

DestroyFile_Open(n) ==      \* mutant: the table is not asked first
    /\ n \in exists
    /\ exists' = exists \ {n}
    /\ UNCHANGED <<table, obj, handle, pins, frame, phase>>

DestroyFile(n) ==
    /\ ~IsOpen(n) /\ n \in exists
    /\ exists' = exists \ {n}
    /\ UNCHANGED <<table, obj, handle, pins, frame, phase>>

-----------------------------------------------------------------------------
(* DB::openFile: another reference to an open file, or a new File object.  *)
(* If the Unix open fails the new object is deleted: nothing has changed.  *)

OpenAgain_Uncounted(c, n) ==     \* mutant: File::open is not called again
    /\ handle[c] = NoFile /\ IsOpen(n)
    /\ handle' = [handle EXCEPT ![c] = table[n]]
    /\ UNCHANGED <<exists, table, obj, pins, frame, phase>>

OpenAgain(c, n) ==
    LET a == table[n] IN
    /\ handle[c] = NoFile /\ IsOpen(n)
    /\ obj[a].openCnt < MaxOpen
    /\ obj' = [obj EXCEPT ![a].openCnt = obj[a].openCnt + 1]
    /\ handle' = [handle EXCEPT ![c] = a]
    /\ UNCHANGED <<exists, table, pins, frame, phase>>

OpenNew(c, n) ==
    /\ handle[c] = NoFile /\ ~IsOpen(n)
    /\ n \in exists
    /\ \E a \in Addrs :
          /\ obj[a] = NoObj
          /\ obj' = [obj EXCEPT ![a] = [name |-> n, openCnt |-> 1]]
          /\ table' = Inserted(n, a)
          /\ handle' = [handle EXCEPT ![c] = a]
    /\ UNCHANGED <<exists, pins, frame, phase>>

-----------------------------------------------------------------------------
(* the pages of open files in the pool *)

Pin(c) ==
    LET a == handle[c] IN
    /\ a # NoFile /\ ~pins[c]
    /\ frame[a].pinCnt < MaxOpen
    /\ frame' = [frame EXCEPT ![a] =
                   IF frame[a] = NoFrame
                   THEN [of |-> obj[a].name, pinCnt |-> 1, dirty |-> FALSE]
                   ELSE [frame[a] EXCEPT !.pinCnt = frame[a].pinCnt + 1]]
    /\ pins' = [pins EXCEPT ![c] = TRUE]
    /\ UNCHANGED <<exists, table, obj, handle, phase>>

Unpin(c, dirty) ==
    LET a == handle[c] IN
    /\ pins[c]
    /\ frame' = [frame EXCEPT ![a] = [of |-> frame[a].of, pinCnt |-> frame[a].pinCnt - 1,
                                      dirty |-> frame[a].dirty \/ dirty]]
    /\ pins' = [pins EXCEPT ![c] = FALSE]
    /\ UNCHANGED <<exists, table, obj, handle, phase>>

(* allocBuf takes the frame: a dirty page is written through its File      *)
(* object, a deleted one included                                          *)
Evict(a) ==
    /\ frame[a] # NoFrame /\ frame[a].pinCnt = 0
    /\ phase' = IF frame[a].dirty /\ obj[a] = NoObj THEN "undefined" ELSE phase
    /\ frame' = [frame EXCEPT ![a] = NoFrame]
    /\ UNCHANGED <<exists, table, obj, handle, pins>>

-----------------------------------------------------------------------------
(* DB::closeFile: the last close flushes the pool and deletes the object,  *)
(* whatever flushFile answered.  ~HeapFile unpins its pages before it.     *)

CloseShared(c) ==
    LET a == handle[c] IN
    /\ a # NoFile /\ ~pins[c] /\ obj[a].openCnt > 1
    /\ obj' = [obj EXCEPT ![a].openCnt = obj[a].openCnt - 1]
    /\ handle' = [handle EXCEPT ![c] = NoFile]
    /\ UNCHANGED <<exists, table, pins, frame, phase>>

CloseLast_Unflushed(c) ==      \* mutant: flushFile is not called
    LET a == handle[c] IN
    /\ a # NoFile /\ ~pins[c] /\ obj[a].openCnt = 1
    /\ table' = Erased(obj[a].name)
    /\ obj' = [obj EXCEPT ![a] = NoObj]
    /\ handle' = [handle EXCEPT ![c] = NoFile]
    /\ UNCHANGED <<exists, pins, frame, phase>>

CloseLast(c) ==
    LET a == handle[c]
        stays == frame[a].pinCnt > 0 \/ (frame[a].dirty /\ "write" \in Faults)
    IN
    /\ a # NoFile /\ ~pins[c] /\ obj[a].openCnt = 1
    /\ \/ ~(frame[a].pinCnt > 0) /\ frame' = [frame EXCEPT ![a] = NoFrame]
       \/ stays /\ frame' = frame
    /\ table' = Erased(obj[a].name)
    /\ obj' = [obj EXCEPT ![a] = NoObj]
    /\ handle' = [handle EXCEPT ![c] = NoFile]
    /\ UNCHANGED <<exists, pins, phase>>

(* a client that is lost with its file open and its page pinned *)
Leak(c) ==
    /\ "leak" \in Faults /\ handle[c] # NoFile
    /\ handle' = [handle EXCEPT ![c] = NoFile]
    /\ pins' = [pins EXCEPT ![c] = FALSE]
    /\ UNCHANGED <<exists, table, obj, frame, phase>>

(* UT_Quit deletes the catalogs and then the buffer manager, which writes  *)
(* the dirty pages; exit destroys the table of open files, and a file that *)
(* is still there flushes itself through the deleted buffer manager.       *)
Quit ==
    /\ handle = NoHandle
    /\ IF \/ \E a \in Addrs : frame[a].dirty /\ obj[a] = NoObj
          \/ LeftOpen # {}
       THEN /\ phase' = "undefined"
            /\ UNCHANGED <<table, obj, frame>>
       ELSE \* and the program is started again
            /\ table' = NoTable /\ obj' = NoObjs /\ frame' = NoFrames
            /\ UNCHANGED phase
    /\ UNCHANGED <<exists, handle, pins>>

Next ==
    /\ phase = "running"
    /\ \/ \E n \in Names : CreateFile(n) \/ DestroyFile(n)
       \/ \E c \in Clients, n \in Names : OpenAgain(c, n) \/ OpenNew(c, n)
       \/ \E c \in Clients : Pin(c) \/ CloseShared(c) \/ CloseLast(c) \/ Leak(c)
       \/ \E c \in Clients, d \in BOOLEAN : Unpin(c, d)
       \/ \E a \in Addrs : Evict(a)
       \/ Quit

Spec == Init /\ [][Next]_vars

-----------------------------------------------------------------------------
(* Properties *)

(* The variables keep their shapes: pin and open counts stay within what
   the clients opened and pinned, so that no close or unpin goes below zero. *)
TypeOK ==
    /\ exists \subseteq Names
    /\ table \in [Names -> Addrs \cup {NoFile}]
    /\ obj \in [Addrs -> {NoObj} \cup [name : Names, openCnt : 1 .. MaxOpen]]
    /\ handle \in [Clients -> Addrs \cup {NoFile}]
    /\ pins \in [Clients -> BOOLEAN]
    /\ frame \in [Addrs -> {NoFrame} \cup [of : Names, pinCnt : 0 .. MaxOpen, dirty : BOOLEAN]]
    /\ phase \in {"running", "undefined"}

(* A file is open in one File object at a time, the table's, and only while
   the Unix file is there: two users of a file share its cached pages. *)
TableSound ==
    phase = "running" =>
        \A n \in Names, a \in Addrs :
            /\ table[n] = a <=> obj[a] # NoObj /\ obj[a].name = n
            /\ table[n] = a => n \in exists

(* The table of open files is all there is to know of them: no object is
   lost from it, doubled in it, or counted below zero. *)
RegistrySound == TypeOK /\ TableSound

(* Nobody is left with a deleted File object: the open count of a file is at
   least the number of clients that have it open. *)
HandlesLive ==
    \A c \in Clients : handle[c] # NoFile =>
        LET a == handle[c] IN
        obj[a] # NoObj /\ obj[a].openCnt >= Cardinality({b \in Clients : handle[b] = a})

(* What the pool holds under the address of a File object are pages of that
   file, which is open: a lookup never hits a page left by a file that had
   the same address before. *)
FramesOfOpenFiles ==
    phase = "running" => \A a \in Addrs : frame[a] # NoFrame => frame[a].of = obj[a].name
=============================================================================
