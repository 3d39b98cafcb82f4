-------------------------------- MODULE Page --------------------------------
(***************************************************************************)
(* A data page of part5/part5 (page.h, page.C).  Records grow from the     *)
(* start of the data area, the slot array from its end; records are kept   *)
(* compact, slots are not.  The code counts slots with negative indices;   *)
(* here slot k is slot[-k] and slotCnt is -slotCnt, as in a RID.           *)
(***************************************************************************)
EXTENDS Integers, Sequences, FiniteSets

CONSTANTS
    Area,      \* bytes of data[] and the slots (PAGESIZE - DPFIXED + sizeof(slot_t))
    SlotSize,  \* sizeof(slot_t)
    Bytes,     \* what a record is filled with
    Lengths    \* lengths of records

ASSUME AreaAssumption == Area \in Nat /\ SlotSize \in Nat \ {0} /\ Lengths \subseteq Nat \ {0}

Offsets == 0 .. Area - 1
SlotNos == 0 .. Area \div SlotSize
Unused  == [offset |-> -1, length |-> -1]
Junk    == "junk"        \* a byte no record owns

VARIABLES data, slot, slotCnt, freePtr, freeSpace

vars == <<data, slot, slotCnt, freePtr, freeSpace>>

(* Page::init; the slots past slotCnt hold anything until they are used *)
Init ==
    /\ data = [j \in Offsets |-> Junk]
    /\ slot = [k \in SlotNos |-> Unused]
    /\ slotCnt = 0 /\ freePtr = 0 /\ freeSpace = Area

InUse == {k \in 0 .. slotCnt - 1 : slot[k].length # -1}

Image(k) == [j \in 1 .. slot[k].length |-> data[slot[k].offset + j - 1]]

-----------------------------------------------------------------------------
(* insertRecord takes the first empty slot, or a new one at the end; with  *)
(* too little space it changes nothing (NOSPACE)                           *)

EmptySlots == {k \in 0 .. slotCnt - 1 : slot[k].length = -1}

FreeSlot == IF EmptySlots = {} THEN slotCnt
            ELSE CHOOSE k \in EmptySlots : \A j \in EmptySlots : k <= j

SpaceFor(len) == IF FreeSlot = slotCnt THEN len + SlotSize ELSE len

InsertRecord(b, len) ==
    LET k == FreeSlot IN
    /\ SpaceFor(len) <= freeSpace
    /\ freeSpace' = freeSpace - SpaceFor(len)
    /\ slotCnt' = IF k = slotCnt THEN slotCnt + 1 ELSE slotCnt
    /\ slot' = [slot EXCEPT ![k] = [offset |-> freePtr, length |-> len]]
    /\ data' = [j \in Offsets |-> IF j \in freePtr .. freePtr + len - 1 THEN b ELSE data[j]]
    /\ freePtr' = freePtr + len

(* updateRecord copies the new image over the old one.  It does not look   *)
(* at the length; its callers pass the length the record has.              *)
UpdateRecord(k, b) ==
    /\ k \in InUse
    /\ data' = [j \in Offsets |->
                  IF j \in slot[k].offset .. slot[k].offset + slot[k].length - 1 THEN b ELSE data[j]]
    /\ UNCHANGED <<slot, slotCnt, freePtr, freeSpace>>

-----------------------------------------------------------------------------
(* deleteRecord closes the gap in the data area, and drops the empty slots *)
(* at the end of the slot array                                            *)

Shifted_Short(k) ==       \* mutant: the last byte behind the gap stays where it was
    LET end == slot[k].offset + slot[k].length
    IN  [j \in Offsets |-> IF j \in slot[k].offset .. slot[k].offset + (freePtr - end) - 2
                           THEN data[j + slot[k].length] ELSE data[j]]

Shifted(k) ==
    LET end == slot[k].offset + slot[k].length
    IN  [j \in Offsets |-> IF j \in slot[k].offset .. slot[k].offset + (freePtr - end) - 1
                           THEN data[j + slot[k].length] ELSE data[j]]

SlotsAfter_Later(k) ==    \* mutant: the records of later slots move, not those behind
    [i \in SlotNos |->
        CASE i = k -> Unused
          [] i < slotCnt /\ slot[i].length >= 0 /\ i > k
             -> [slot[i] EXCEPT !.offset = slot[i].offset - slot[k].length]
          [] OTHER -> slot[i]]

SlotsAfter(k) ==
    [i \in SlotNos |->
        CASE i = k -> Unused
          [] i # k /\ i < slotCnt /\ slot[i].length >= 0 /\ slot[i].offset > slot[k].offset
             -> [slot[i] EXCEPT !.offset = slot[i].offset - slot[k].length]
          [] OTHER -> slot[i]]

(* how many slots are left when slot k goes *)
SlotCntAfter_One(k) == IF k = slotCnt - 1 THEN slotCnt - 1 ELSE slotCnt   \* mutant: only one

SlotCntAfter(k) ==
    IF k # slotCnt - 1 THEN slotCnt
    ELSE CHOOSE n \in 0 .. slotCnt - 1 :
            /\ \A i \in n .. slotCnt - 2 : slot[i].length = -1
            /\ n > 0 => slot[n - 1].length # -1

DeleteRecord(k) ==
    /\ k \in InUse
    /\ data' = Shifted(k)
    /\ slot' = SlotsAfter(k)
    /\ slotCnt' = SlotCntAfter(k)
    /\ freePtr' = freePtr - slot[k].length
    /\ freeSpace' = freeSpace + slot[k].length + SlotSize * (slotCnt - slotCnt')

Next ==
    \/ \E b \in Bytes, len \in Lengths : InsertRecord(b, len)
    \/ \E k \in SlotNos : DeleteRecord(k) \/ \E b \in Bytes : UpdateRecord(k, b)

Spec == Init /\ [][Next]_vars

-----------------------------------------------------------------------------
(* firstRecord and nextRecord: the slot found, or End (NORECORDS,          *)
(* ENDOFPAGE).  firstRecord answers OK without setting its result if slots *)
(* remain but none is used.                                                *)

End   == -1
Unset == -2

FirstFrom(i) == LET S == {k \in InUse : k >= i}
                IN  CHOOSE k \in S : \A j \in S : k <= j

FirstRecord == IF slotCnt = 0 THEN End
               ELSE IF InUse = {} THEN Unset ELSE FirstFrom(0)

NextRecord(k) == IF \E j \in InUse : j > k THEN FirstFrom(k + 1) ELSE End

-----------------------------------------------------------------------------
(* Properties *)

(* The fields keep their ranges: freeSpace never wraps below zero, and the
   slot array does not outgrow the page. *)
TypeOK ==
    /\ data \in [Offsets -> Bytes \cup {Junk}]
    /\ slot \in [SlotNos -> [offset : Offsets \cup {-1}, length : Lengths \cup {-1}]]
    /\ slotCnt \in SlotNos
    /\ freePtr \in 0 .. Area
    /\ freeSpace \in 0 .. Area

(* What is free is the gap between the records and the slot array: no
   record grows into a slot, and no byte is lost to inserts and deletes. *)
SpaceAccounted == freeSpace = (Area - SlotSize * slotCnt) - freePtr

(* The records tile the data area below freePtr: none overlaps another and
   no gap stays behind, however slots were reused and records moved. *)
RecordsCompact ==
    LET At(k) == slot[k].offset .. slot[k].offset + slot[k].length - 1
    IN  /\ UNION {At(k) : k \in InUse} = 0 .. freePtr - 1
        /\ \A j, k \in InUse : j # k => At(j) \cap At(k) = {}

(* The bytes of a page add up: free ones, records and slots. *)
PageSound == TypeOK /\ SpaceAccounted /\ RecordsCompact

(* firstRecord and nextRecord visit every record once: firstRecord never
   answers OK with its result unset, nextRecord goes to a later slot that is
   used, and slots that hold the first record, and with each the next, hold
   all of them. *)
ScanVisitsAll ==
    /\ FirstRecord \in InUse \/ (FirstRecord = End /\ InUse = {})
    /\ \A k \in InUse : NextRecord(k) = End \/ (NextRecord(k) \in InUse /\ NextRecord(k) > k)
    /\ \A T \in SUBSET InUse :
          FirstRecord \in T /\ (\A k \in T : NextRecord(k) \in T \cup {End}) => T = InUse

Recs == [k \in InUse |-> Image(k)]

Slots == INSTANCE RecordPage WITH
            recs <- Recs, Records <- {[j \in 1 .. n |-> b] : n \in Lengths, b \in Bytes}

(* A record keeps its slot number and its bytes while others come, go and
   move: the page is the slotted store of RecordPage. *)
ImplementsRecordPage == Slots!Spec
=============================================================================
