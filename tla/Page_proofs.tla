---------------------------- MODULE Page_proofs ----------------------------
(***************************************************************************)
(* Theorems about a data page, for pages, slots and records of any size:   *)
(* the bytes of a page add up, a scan visits every record, and the page is *)
(* the slotted store of RecordPage.                                        *)
(***************************************************************************)
EXTENDS Page, WellFoundedInduction, TLAPS

-----------------------------------------------------------------------------
(* The inductive invariant *)

ends(k) == slot[k].offset + slot[k].length
Apart(i, k) == ends(i) <= slot[k].offset \/ ends(k) <= slot[i].offset

(* the records as intervals *)
Tiled ==
    /\ \A k \in InUse : ends(k) <= freePtr
    /\ \A i, k \in InUse : i # k => Apart(i, k)
    /\ \A p \in 0 .. freePtr - 1 : \E k \in InUse : slot[k].offset <= p /\ p < ends(k)

(* a slot that is not used has a used one behind it *)
NoEmptyEnd == slotCnt > 0 => slot[slotCnt - 1].length # -1

(* a used slot has a record in it *)
SlotsFilled == \A k \in InUse : slot[k].offset # -1

IInv == TypeOK /\ SpaceAccounted /\ SlotsFilled /\ Tiled /\ NoEmptyEnd

-----------------------------------------------------------------------------
(* Numbers *)

LEMMA NatMin ==
  ASSUME NEW T, T \subseteq Nat, T # {} PROVE \E x \in T : \A y \in T : x <= y
<1> DEFINE R == {ss \in Nat \X Nat : ss[1] < ss[2]}
<1>1. IsWellFoundedOn(R, Nat)
  BY NatLessThanWellFounded DEF OpToRel
<1>2. PICK x \in T : \A y \in T : <<y, x>> \notin R
  BY <1>1, WFMin
<1>3. ASSUME NEW y \in T PROVE x <= y
  <2>1. x \in Nat /\ y \in Nat
    OBVIOUS
  <2>2. y < x => <<y, x>> \in R
    BY <2>1
  <2> QED BY <1>2, <2>1, <2>2
<1> QED BY <1>3

LEMMA NatMax ==
  ASSUME NEW n \in Nat, NEW T, T \subseteq 0 .. n, T # {} PROVE \E x \in T : \A y \in T : y <= x
<1> DEFINE U == {i \in 0 .. n : n - i \in T}
<1>1. U \subseteq Nat
  OBVIOUS
<1>2. U # {}
  <2>1. PICK y : y \in T
    OBVIOUS
  <2>2. n - y \in 0 .. n /\ n - (n - y) = y
    BY <2>1
  <2> QED BY <2>1, <2>2
<1>3. PICK i \in U : \A j \in U : i <= j
  BY <1>1, <1>2, NatMin
<1>4. ASSUME NEW y \in T PROVE y <= n - i
  <2>1. y \in 0 .. n /\ n - y \in 0 .. n /\ n - (n - y) = y
    OBVIOUS
  <2>2. n - y \in U
    BY <2>1
  <2>3. i <= n - y /\ i \in 0 .. n
    BY <1>3, <2>2
  <2> QED BY <2>1, <2>3
<1> QED BY <1>4

LEMMA Multiples ==
  ASSUME NEW m \in Nat, NEW n \in Nat, m <= n
  PROVE  SlotSize * m \in Nat /\ SlotSize * m <= SlotSize * n
         /\ SlotSize * (n - m) = SlotSize * n - SlotSize * m /\ SlotSize * (m + 1) = SlotSize * m + SlotSize
<1>1. SlotSize \in Nat /\ n - m \in Nat
  BY AreaAssumption
<1>2. SlotSize * (n - m) \in Nat /\ SlotSize * m \in Nat /\ SlotSize * n \in Nat
  BY <1>1
<1>3. SlotSize * (n - m) = SlotSize * n - SlotSize * m /\ SlotSize * (m + 1) = SlotSize * m + SlotSize
  BY <1>1
<1> QED BY <1>2, <1>3

(* The slots that fit the page have numbers. *)
LEMMA SlotFits ==
  ASSUME NEW n \in Nat, SlotSize * n <= Area
  PROVE  n \in SlotNos
<1> DEFINE q == Area \div SlotSize
<1>1. q \in Nat /\ Area < SlotSize * (q + 1)
  BY AreaAssumption
<1>2. n <= q
  <2> SUFFICES ASSUME q + 1 <= n PROVE FALSE
    BY <1>1
  <2>1. SlotSize * (q + 1) <= SlotSize * n
    BY <1>1, Multiples
  <2>2. SlotSize * (q + 1) \in Nat /\ SlotSize * n \in Nat
    BY <1>1, AreaAssumption
  <2> QED BY <1>1, <2>1, <2>2, AreaAssumption
<1> QED BY <1>1, <1>2 DEF SlotNos

(* the numbers of slots without the division *)
LEMMA SlotNosAre == \E N \in Nat : SlotNos = 0 .. N
<1>1. Area \div SlotSize \in Nat
  BY AreaAssumption
<1> QED BY <1>1 DEF SlotNos

LEMMA Ranges ==
  ASSUME TypeOK
  PROVE  /\ Area \in Nat /\ freePtr \in Nat /\ freePtr <= Area /\ freeSpace \in Nat /\ slotCnt \in Nat
         /\ slotCnt \in SlotNos /\ SlotSize * slotCnt \in Nat
         /\ \A k \in SlotNos : k \in Nat /\ slot[k].offset \in Int /\ slot[k].length \in Int
         /\ InUse \subseteq SlotNos /\ InUse \subseteq Nat
<1>0. PICK N \in Nat : SlotNos = 0 .. N
  BY SlotNosAre
<1>1. Area \in Nat /\ SlotSize \in Nat /\ Lengths \subseteq Nat /\ Offsets \subseteq Nat /\ -1 \in Int
  BY AreaAssumption DEF Offsets
<1>2. \A k \in SlotNos : k \in Nat /\ slot[k].offset \in Int /\ slot[k].length \in Int
  <2> SUFFICES ASSUME NEW k \in SlotNos PROVE k \in Nat /\ slot[k].offset \in Int /\ slot[k].length \in Int
    OBVIOUS
  <2>1. slot[k].offset \in Offsets \cup {-1} /\ slot[k].length \in Lengths \cup {-1}
    BY DEF TypeOK
  <2>2. k \in Nat
    BY <1>0
  <2>3. \A j \in Offsets \cup {-1} : j \in Int
    BY <1>1
  <2>4. \A j \in Lengths \cup {-1} : j \in Int
    BY <1>1
  <2> QED BY <2>1, <2>2, <2>3, <2>4
<1>4. slotCnt \in Nat /\ slotCnt <= N
  BY <1>0 DEF TypeOK
<1>3. InUse \subseteq SlotNos /\ InUse \subseteq Nat
  BY <1>0, <1>4 DEF InUse
<1>5. SlotSize * slotCnt \in Nat
  BY <1>1, <1>4
<1> QED BY <1>1, <1>2, <1>3, <1>4, <1>5 DEF TypeOK

(* the slots up to one that has a number have numbers *)
LEMMA SlotsBelow == \A n \in SlotNos : n \in Nat /\ \A i \in 0 .. n : i \in SlotNos
BY SlotNosAre

(* what IInv says of a used slot *)
LEMMA Used ==
  ASSUME IInv, NEW k \in InUse
  PROVE  /\ k \in SlotNos /\ k \in Nat /\ k < slotCnt
         /\ slot[k].length \in Lengths /\ slot[k].length \in Nat /\ slot[k].length > 0
         /\ slot[k].offset \in Nat /\ slot[k].offset \in Offsets /\ ends(k) <= freePtr
         /\ slot[k] = [offset |-> slot[k].offset, length |-> slot[k].length]
<1>1. k \in SlotNos /\ k \in Nat /\ slotCnt \in Nat /\ k \in 0 .. slotCnt - 1 /\ slot[k].length # -1
  BY Ranges DEF IInv, InUse
<1>2. slot[k] \in [offset : Offsets \cup {-1}, length : Lengths \cup {-1}] /\ slot[k].offset # -1
  BY <1>1 DEF IInv, TypeOK, SlotsFilled
<1>3. /\ slot[k].length \in Lengths /\ slot[k].offset \in Offsets
      /\ slot[k] = [offset |-> slot[k].offset, length |-> slot[k].length]
  BY <1>1, <1>2
<1>4. Lengths \subseteq Nat \ {0} /\ Offsets \subseteq Nat
  BY AreaAssumption DEF Offsets
<1>5. ends(k) <= freePtr
  BY DEF IInv, Tiled
<1>6. slot[k].length \in Nat /\ slot[k].length > 0 /\ slot[k].offset \in Nat
  <2>1. \A n \in Lengths : n \in Nat /\ n > 0
    BY <1>4
  <2> QED BY <1>3, <1>4, <2>1
<1>7. k < slotCnt
  BY <1>1
<1> QED BY <1>1, <1>3, <1>5, <1>6, <1>7

-----------------------------------------------------------------------------
(* insertRecord *)

LEMMA FreeSlotIs ==
  ASSUME TypeOK
  PROVE  /\ FreeSlot \in 0 .. slotCnt /\ FreeSlot \notin InUse
         /\ FreeSlot # slotCnt => slot[FreeSlot].length = -1
<1>1. slotCnt \in Nat
  BY Ranges
<1>2. CASE EmptySlots = {}
  BY <1>1, <1>2 DEF FreeSlot, InUse
<1>3. CASE EmptySlots # {}
  <2>1. EmptySlots \subseteq Nat
    BY DEF EmptySlots
  <2>2. \E k \in EmptySlots : \A j \in EmptySlots : k <= j
    BY <1>3, <2>1, NatMin
  <2>3. FreeSlot \in EmptySlots
    BY <1>3, <2>2 DEF FreeSlot
  <2> QED BY <1>1, <2>3 DEF EmptySlots, InUse
<1> QED BY <1>2, <1>3

(* where the record goes, and that there is room for its slot *)
LEMMA InsertFacts ==
  ASSUME IInv, NEW b \in Bytes, NEW len \in Lengths, InsertRecord(b, len)
  PROVE  \E k \in SlotNos \ InUse :
            /\ k = FreeSlot /\ InUse' = InUse \cup {k}
            /\ slot' = [slot EXCEPT ![k] = [offset |-> freePtr, length |-> len]]
            /\ slotCnt' = (IF k = slotCnt THEN slotCnt + 1 ELSE slotCnt) /\ k \in 0 .. slotCnt
            /\ slotCnt' \in SlotNos
            /\ freeSpace' \in 0 .. Area /\ SpaceAccounted'
            /\ freePtr' = freePtr + len /\ freePtr' <= Area /\ freePtr \in Offsets
<1> DEFINE k == FreeSlot
<1>0. /\ len \in Nat /\ len > 0 /\ SpaceFor(len) <= freeSpace
      /\ freeSpace' = freeSpace - SpaceFor(len) /\ freePtr' = freePtr + len
      /\ slotCnt' = IF k = slotCnt THEN slotCnt + 1 ELSE slotCnt
      /\ slot' = [slot EXCEPT ![k] = [offset |-> freePtr, length |-> len]]
  BY AreaAssumption DEF InsertRecord
<1>1. /\ k \in 0 .. slotCnt /\ k \notin InUse
      /\ Area \in Nat /\ freePtr \in Nat /\ freeSpace \in Nat /\ slotCnt \in Nat
      /\ slotCnt \in SlotNos /\ SlotSize * slotCnt \in Nat /\ SlotSize \in Nat
      /\ freeSpace = (Area - SlotSize * slotCnt) - freePtr
  BY FreeSlotIs, Ranges, AreaAssumption DEF IInv, SpaceAccounted
<1>2. /\ slotCnt' \in SlotNos /\ SpaceAccounted' /\ freeSpace' \in 0 .. Area
      /\ freePtr' <= Area /\ freePtr \in Offsets /\ k \in SlotNos
  <2>1. CASE k = slotCnt
    <3>1. SpaceFor(len) = len + SlotSize /\ SlotSize * (slotCnt + 1) = SlotSize * slotCnt + SlotSize
      BY <1>1, <2>1, Multiples DEF SpaceFor
    <3>2. SlotSize * (slotCnt + 1) <= Area
      BY <1>0, <1>1, <3>1
    <3>3. slotCnt + 1 \in SlotNos
      BY <1>1, <3>2, SlotFits
    <3>4. SpaceAccounted'
      BY <1>0, <1>1, <2>1, <3>1 DEF SpaceAccounted
    <3> QED BY <1>0, <1>1, <2>1, <3>1, <3>3, <3>4 DEF Offsets
  <2>2. CASE k # slotCnt
    <3>1. SpaceFor(len) = len
      BY <2>2 DEF SpaceFor
    <3>2. k \in SlotNos
      BY <1>1, SlotsBelow
    <3>3. SpaceAccounted'
      BY <1>0, <1>1, <2>2, <3>1 DEF SpaceAccounted
    <3> QED BY <1>0, <1>1, <2>2, <3>1, <3>2, <3>3 DEF Offsets
  <2> QED BY <2>1, <2>2
<1>3. InUse' = InUse \cup {k}
  <2>1. slot \in [SlotNos -> [offset : Offsets \cup {-1}, length : Lengths \cup {-1}]] /\ SlotNos \subseteq Nat
    BY Ranges DEF IInv, TypeOK
  <2>2. slot'[k].length = len /\ \A i \in SlotNos : i # k => slot'[i] = slot[i]
    BY <1>0, <1>2, <2>1
  <2>3. slotCnt' >= slotCnt /\ slotCnt' \in Nat /\ k < slotCnt' /\ k \in Nat
        /\ 0 .. slotCnt' - 1 = (0 .. slotCnt - 1) \cup {k}
    BY <1>0, <1>1
  <2>4. 0 .. slotCnt' - 1 \subseteq SlotNos
    <3>1. \A i \in 0 .. slotCnt' - 1 : i \in 0 .. slotCnt'
      <4>1. \A n \in Nat : \A i \in 0 .. n - 1 : i \in 0 .. n
        OBVIOUS
      <4>2. slotCnt' \in Nat
        BY <2>3
      <4> QED BY <4>1, <4>2
    <3>2. slotCnt' \in SlotNos
      BY <1>2
    <3>3. \A i \in 0 .. slotCnt' : i \in SlotNos
      BY <3>2, SlotsBelow
    <3> QED BY <3>1, <3>3
  <2>5. len # -1
    BY <1>0
  <2> QED BY <2>2, <2>3, <2>4, <2>5 DEF InUse
<1> QED BY <1>0, <1>1, <1>2, <1>3

LEMMA InsertInv ==
  ASSUME IInv, NEW b \in Bytes, NEW len \in Lengths, InsertRecord(b, len)
  PROVE  IInv'
<1>1. PICK k \in SlotNos \ InUse :
            /\ k = FreeSlot /\ InUse' = InUse \cup {k}
            /\ slot' = [slot EXCEPT ![k] = [offset |-> freePtr, length |-> len]]
            /\ slotCnt' = (IF k = slotCnt THEN slotCnt + 1 ELSE slotCnt) /\ k \in 0 .. slotCnt
            /\ slotCnt' \in SlotNos
            /\ freeSpace' \in 0 .. Area /\ SpaceAccounted'
            /\ freePtr' = freePtr + len /\ freePtr' <= Area /\ freePtr \in Offsets
  BY InsertFacts
<1>2. /\ len \in Nat /\ len > 0 /\ freePtr \in Nat /\ Area \in Nat /\ slotCnt \in Nat
      /\ InUse \subseteq SlotNos /\ \A i \in InUse : slot[i].offset \in Nat /\ slot[i].length \in Nat
                                                   /\ ends(i) <= freePtr
  <2>1. TypeOK
    BY DEF IInv
  <2>2. len \in Nat /\ len > 0
    BY AreaAssumption
  <2> QED BY <2>1, <2>2, Ranges, Used
<1>3. /\ slot \in [SlotNos -> [offset : Offsets \cup {-1}, length : Lengths \cup {-1}]]
      /\ slot'[k] = [offset |-> freePtr, length |-> len] /\ \A i \in SlotNos : i # k => slot'[i] = slot[i]
  BY <1>1 DEF IInv, TypeOK
<1>4. TypeOK'
  <2>1. data' \in [Offsets -> Bytes \cup {Junk}]
    BY DEF InsertRecord, IInv, TypeOK
  <2>2. slot' \in [SlotNos -> [offset : Offsets \cup {-1}, length : Lengths \cup {-1}]]
    BY <1>1, <1>3
  <2> QED BY <1>1, <1>2, <2>1, <2>2 DEF TypeOK
<1>5. SlotsFilled'
  <2> SUFFICES ASSUME NEW i \in InUse' PROVE slot'[i].offset # -1
    BY DEF SlotsFilled
  <2>1. CASE i = k
    BY <1>2, <1>3, <2>1
  <2>2. CASE i # k
    BY <1>1, <1>2, <1>3, <2>2
  <2> QED BY <2>1, <2>2
<1>6. /\ ends(k)' = freePtr + len /\ slot'[k].offset = freePtr
      /\ \A i \in InUse : ends(i)' = ends(i) /\ slot'[i].offset = slot[i].offset
                          /\ ends(i) \in Nat /\ ends(i) <= freePtr
  <2>1. ends(k)' = freePtr + len /\ slot'[k].offset = freePtr
    BY <1>3 DEF ends
  <2>2. \A i \in InUse : i \in SlotNos /\ i # k
    BY <1>1, <1>2
  <2>3. \A i \in InUse : ends(i)' = ends(i) /\ slot'[i].offset = slot[i].offset
    BY <1>3, <2>2 DEF ends
  <2>4. \A i \in InUse : ends(i) \in Nat
    BY <1>2 DEF ends
  <2> QED BY <1>2, <2>1, <2>3, <2>4
<1>7. Tiled'
  <2>1. \A i \in InUse' : ends(i)' <= freePtr'
    BY <1>1, <1>2, <1>6
  <2>2. \A i, j \in InUse' : i # j => Apart(i, j)'
    BY <1>1, <1>2, <1>6 DEF IInv, Tiled, Apart
  <2>3. ASSUME NEW p \in 0 .. freePtr' - 1
        PROVE  \E i \in InUse' : slot'[i].offset <= p /\ p < ends(i)'
    <3>1. CASE p < freePtr
      BY <1>1, <1>2, <1>6, <3>1 DEF IInv, Tiled
    <3>2. CASE p >= freePtr
      BY <1>1, <1>2, <1>6, <3>2
    <3> QED BY <1>2, <3>1, <3>2
  <2> QED BY <2>1, <2>2, <2>3 DEF Tiled
<1>8. NoEmptyEnd'
  <2>1. CASE k = slotCnt
    BY <1>1, <1>2, <1>3, <2>1 DEF NoEmptyEnd
  <2>2. CASE k # slotCnt
    <3>1. slot[k].length = -1
      BY <1>1, <2>2, FreeSlotIs DEF IInv
    <3>2. slotCnt > 0 /\ slot[slotCnt - 1].length # -1 /\ slotCnt - 1 # k /\ slotCnt' = slotCnt
      BY <1>1, <1>2, <2>2, <3>1 DEF IInv, NoEmptyEnd
    <3>3. slotCnt - 1 \in SlotNos
      <4>1. slotCnt \in SlotNos
        BY DEF IInv, TypeOK
      <4> QED BY <1>2, <3>2, <4>1, SlotsBelow
    <3> QED BY <1>3, <3>2, <3>3 DEF NoEmptyEnd
  <2> QED BY <2>1, <2>2
<1> QED BY <1>1, <1>4, <1>5, <1>7, <1>8 DEF IInv

LEMMA UpdateInv ==
  ASSUME IInv, NEW k \in SlotNos, NEW b \in Bytes, UpdateRecord(k, b)
  PROVE  IInv'
<1>1. data' \in [Offsets -> Bytes \cup {Junk}] /\ UNCHANGED <<slot, slotCnt, freePtr, freeSpace>>
  BY DEF UpdateRecord, IInv, TypeOK
<1>2. TypeOK' /\ SpaceAccounted' /\ NoEmptyEnd' /\ InUse' = InUse
  BY <1>1 DEF IInv, TypeOK, SpaceAccounted, NoEmptyEnd, InUse
<1>3. SlotsFilled' /\ Tiled'
  BY <1>1, <1>2 DEF IInv, SlotsFilled, Tiled, Apart, ends
<1> QED BY <1>2, <1>3 DEF IInv

-----------------------------------------------------------------------------
(* deleteRecord: records behind the gap move, the others stay *)

Behind(i, k) == slot[i].offset > slot[k].offset

LEMMA SlotCntAfterIs ==
  ASSUME IInv, NEW k \in InUse
  PROVE  /\ SlotCntAfter(k) \in 0 .. slotCnt
         /\ \A i \in 0 .. slotCnt - 1 : i \in InUse \ {k} => i < SlotCntAfter(k)
         /\ SlotCntAfter(k) > 0 => SlotCntAfter(k) - 1 \in InUse \ {k}
<1>0. slotCnt \in Nat /\ k \in 0 .. slotCnt - 1
  <2>1. slotCnt \in Nat
    BY Ranges DEF IInv
  <2> QED BY <2>1 DEF InUse
<1>1. CASE k # slotCnt - 1
  <2>1. SlotCntAfter(k) = slotCnt
    BY <1>1 DEF SlotCntAfter
  <2>2. slotCnt - 1 \in InUse
    BY <1>0 DEF InUse, IInv, NoEmptyEnd
  <2> QED BY <1>0, <1>1, <2>1, <2>2
<1>2. CASE k = slotCnt - 1
  <2> DEFINE Good(n) == /\ \A i \in n .. slotCnt - 2 : slot[i].length = -1
                        /\ n > 0 => slot[n - 1].length # -1
             T == {i \in 0 .. slotCnt - 2 : slot[i].length # -1}
  <2>1. SlotCntAfter(k) = CHOOSE n \in 0 .. slotCnt - 1 : Good(n)
    BY <1>2 DEF SlotCntAfter
  <2>2. \E n \in 0 .. slotCnt - 1 : Good(n)
    <3>1. CASE T = {}
      <4>1. Good(0) /\ 0 \in 0 .. slotCnt - 1
        BY <1>0, <3>1
      <4> QED BY <4>1
    <3>2. CASE T # {}
      <4>1. T \subseteq 0 .. slotCnt
        BY <1>0
      <4>2. PICK m \in T : \A i \in T : i <= m
        BY <1>0, <3>2, <4>1, NatMax
      <4>3. m \in 0 .. slotCnt - 2 /\ slot[m].length # -1
        OBVIOUS
      <4>4. \A i \in m + 1 .. slotCnt - 2 : slot[i].length = -1
        <5> SUFFICES ASSUME NEW i \in m + 1 .. slotCnt - 2 PROVE i \notin T /\ i \in 0 .. slotCnt - 2
          OBVIOUS
        <5> QED BY <1>0, <4>2, <4>3
      <4>5. m + 1 \in 0 .. slotCnt - 1 /\ (m + 1) - 1 = m
        BY <1>0, <4>3
      <4>6. Good(m + 1)
        BY <4>3, <4>4, <4>5
      <4> QED BY <4>5, <4>6
    <3> QED BY <3>1, <3>2
  <2> HIDE DEF Good
  <2>3. SlotCntAfter(k) \in 0 .. slotCnt - 1 /\ Good(SlotCntAfter(k))
    BY <2>1, <2>2
  <2> USE DEF Good
  <2>4. ASSUME NEW i \in InUse \ {k} PROVE i < SlotCntAfter(k)
    <3>1. i \in 0 .. slotCnt - 2 /\ slot[i].length # -1
      BY <1>0, <1>2 DEF InUse
    <3> QED BY <1>0, <2>3, <3>1
  <2>5. SlotCntAfter(k) > 0 => SlotCntAfter(k) - 1 \in InUse \ {k}
    BY <1>0, <1>2, <2>3 DEF InUse
  <2> QED BY <1>0, <2>3, <2>4, <2>5
<1> QED BY <1>1, <1>2

(* the other records before and behind the gap *)
LEMMA Places ==
  ASSUME IInv, NEW k \in InUse, NEW i \in InUse, i # k
  PROVE  /\ Behind(i, k) => ends(k) <= slot[i].offset
         /\ ~Behind(i, k) => ends(i) <= slot[k].offset
<1>1. Apart(i, k)
  BY DEF IInv, Tiled
<1>2. /\ slot[i].offset \in Nat /\ slot[k].offset \in Nat /\ slot[i].length \in Nat /\ slot[k].length \in Nat
      /\ slot[i].length > 0 /\ slot[k].length > 0
  BY Used
<1> QED BY <1>1, <1>2 DEF Apart, ends, Behind

LEMMA DeleteFacts ==
  ASSUME IInv, NEW k \in SlotNos, DeleteRecord(k)
  PROVE  /\ k \in InUse /\ InUse' = InUse \ {k} /\ freePtr' = freePtr - slot[k].length
         /\ \A i \in InUse \ {k} :
               /\ slot'[i].length = slot[i].length /\ slot'[i].offset \in Offsets
               /\ slot'[i].offset = IF Behind(i, k) THEN slot[i].offset - slot[k].length
                                    ELSE slot[i].offset
         /\ slot' \in [SlotNos -> [offset : Offsets \cup {-1}, length : Lengths \cup {-1}]]
         /\ slotCnt' \in SlotNos /\ NoEmptyEnd'
<1>0. k \in InUse /\ slot' = SlotsAfter(k) /\ slotCnt' = SlotCntAfter(k) /\ freePtr' = freePtr - slot[k].length
  BY DEF DeleteRecord
<1>1. /\ slotCnt \in Nat /\ slotCnt \in SlotNos /\ SlotNos \subseteq Nat
      /\ slot \in [SlotNos -> [offset : Offsets \cup {-1}, length : Lengths \cup {-1}]]
      /\ \A i \in SlotNos : slot[i].length \in Int /\ slot[i].offset \in Int
      /\ \A i \in Lengths \cup {-1} : i \in Int /\ (i >= 0 <=> i # -1)
  BY Ranges, AreaAssumption DEF IInv, TypeOK
<1>2. ASSUME NEW i \in InUse \ {k}
      PROVE  /\ slot'[i] = IF Behind(i, k) THEN [slot[i] EXCEPT !.offset = slot[i].offset - slot[k].length]
                           ELSE slot[i]
             /\ Behind(i, k) => slot[i].offset - slot[k].length \in Offsets
  <2>1. i \in SlotNos /\ i < slotCnt /\ slot[i].length >= 0 /\ i # k
    <3>1. i \in InUse /\ i # k
      OBVIOUS
    <3>2. i \in SlotNos /\ i < slotCnt /\ slot[i].length \in Nat
      BY <3>1, Used
    <3> QED BY <3>1, <3>2
  <2>2. Behind(i, k) => slot[i].offset - slot[k].length \in Offsets
    <3>1. /\ slot[i].offset \in Offsets /\ slot[i].offset \in Nat /\ slot[k].length \in Nat
          /\ slot[k].offset \in Nat /\ Area \in Nat
      BY <1>0, Used, AreaAssumption
    <3>2. Behind(i, k) => slot[k].offset + slot[k].length <= slot[i].offset
      BY <1>0, Places DEF ends
    <3> QED BY <3>1, <3>2 DEF Offsets
  <2> QED BY <1>0, <2>1, <2>2 DEF SlotsAfter, Behind
<1>3. slot'[k] = Unused
  BY <1>0 DEF SlotsAfter
<1>4. ASSUME NEW i \in SlotNos, i \notin InUse PROVE slot'[i] = slot[i]
  <2>1. i # k /\ (i < slotCnt => slot[i].length = -1)
    BY <1>0, <1>1, <1>4 DEF InUse
  <2> QED BY <1>0, <1>1, <2>1 DEF SlotsAfter
<1>5. slot' \in [SlotNos -> [offset : Offsets \cup {-1}, length : Lengths \cup {-1}]]
  <2>1. ASSUME NEW i \in SlotNos PROVE slot'[i] \in [offset : Offsets \cup {-1}, length : Lengths \cup {-1}]
    <3>1. CASE i = k
      BY <1>3, <3>1 DEF Unused
    <3>2. CASE i \in InUse \ {k}
      BY <1>1, <1>2, <3>2
    <3>3. CASE i \notin InUse
      BY <1>1, <1>4, <3>3
    <3> QED BY <3>1, <3>2, <3>3
  <2> QED BY <1>0, <2>1 DEF SlotsAfter
<1>6. ASSUME NEW i \in InUse \ {k}
      PROVE  /\ slot'[i].length = slot[i].length /\ slot'[i].offset \in Offsets
             /\ slot'[i].offset = IF Behind(i, k) THEN slot[i].offset - slot[k].length ELSE slot[i].offset
  BY <1>2, Used
<1>7. /\ slotCnt' \in 0 .. slotCnt
      /\ \A i \in InUse \ {k} : i < slotCnt'
      /\ slotCnt' > 0 => slotCnt' - 1 \in InUse \ {k}
  <2>1. InUse \subseteq 0 .. slotCnt - 1
    BY DEF InUse
  <2> QED BY <1>0, <2>1, SlotCntAfterIs
<1>8. slotCnt' \in SlotNos
  BY <1>1, <1>7, SlotsBelow
<1>9. InUse' = InUse \ {k}
  <2>1. ASSUME NEW i \in InUse' PROVE i \in InUse \ {k}
    <3>1. i \in 0 .. slotCnt' - 1 /\ slot'[i].length # -1
      BY <2>1 DEF InUse
    <3>2. i \in 0 .. slotCnt - 1 /\ i \in SlotNos
      <4>1. PICK m \in Nat : m = slotCnt' /\ m <= slotCnt
        BY <1>1, <1>7
      <4>2. i \in 0 .. m - 1
        BY <3>1, <4>1
      <4>4. slotCnt \in SlotNos /\ slotCnt \in Nat
        BY <1>1
      <4>3. i \in 0 .. slotCnt - 1 /\ i \in 0 .. slotCnt
        <5>1. \A c \in Nat : m <= c => i \in 0 .. c - 1 /\ i \in 0 .. c
          BY <4>2
        <5> QED BY <4>1, <4>4, <5>1
      <4> QED BY <4>3, <4>4, SlotsBelow
    <3>3. i # k
      BY <1>3, <3>1 DEF Unused
    <3>4. i \in InUse
      BY <1>4, <3>1, <3>2 DEF InUse
    <3> QED BY <3>3, <3>4
  <2>2. ASSUME NEW i \in InUse \ {k} PROVE i \in InUse'
    <3>1. slot'[i].length # -1 /\ i \in Nat /\ i < slotCnt'
      <4>1. i \in InUse /\ i # k
        BY <2>2
      <4>2. i \in Nat /\ slot[i].length # -1
        BY <1>1, <4>1 DEF InUse
      <4> QED BY <1>6, <1>7, <4>1, <4>2
    <3>2. PICK m \in Nat : m = slotCnt'
      BY <1>1, <1>7
    <3>3. i \in 0 .. m - 1
      BY <3>1, <3>2
    <3>4. i \in 0 .. slotCnt' - 1
      BY <3>2, <3>3
    <3> QED BY <3>1, <3>4 DEF InUse
  <2> QED BY <2>1, <2>2
<1>10. NoEmptyEnd'
  BY <1>7, <1>9 DEF NoEmptyEnd, InUse
<1> QED BY <1>0, <1>5, <1>6, <1>8, <1>9, <1>10

LEMMA DeleteInv ==
  ASSUME IInv, NEW k \in SlotNos, DeleteRecord(k)
  PROVE  IInv'
<1> DEFINE L == slot[k].length
           o == slot[k].offset
<1>1. /\ k \in InUse /\ InUse' = InUse \ {k} /\ freePtr' = freePtr - L
      /\ \A i \in InUse \ {k} :
            /\ slot'[i].length = slot[i].length /\ slot'[i].offset \in Offsets
            /\ slot'[i].offset = IF Behind(i, k) THEN slot[i].offset - L ELSE slot[i].offset
      /\ slot' \in [SlotNos -> [offset : Offsets \cup {-1}, length : Lengths \cup {-1}]]
      /\ slotCnt' \in SlotNos /\ NoEmptyEnd'
  BY DeleteFacts
<1>2. /\ L \in Nat /\ L > 0 /\ o \in Nat /\ o + L <= freePtr /\ freePtr \in Nat /\ freePtr <= Area /\ Area \in Nat
      /\ freeSpace \in Nat /\ slotCnt \in Nat
  BY <1>1, Used, Ranges DEF ends, IInv
<1>i. \A i \in InUse : slot[i].offset \in Nat /\ slot[i].length \in Nat /\ slot[i].length > 0
                       /\ slot[i].offset + slot[i].length <= freePtr
  BY Used DEF ends
<1>p. \A i \in InUse \ {k} : /\ Behind(i, k) => o + L <= slot[i].offset
                             /\ ~Behind(i, k) => slot[i].offset + slot[i].length <= o
  BY <1>1, Places DEF ends
<1>3. /\ freeSpace' = freeSpace + L + SlotSize * (slotCnt - slotCnt')
      /\ slotCnt' \in 0 .. slotCnt
  BY <1>1, SlotCntAfterIs DEF DeleteRecord
<1>4. SpaceAccounted' /\ freeSpace' \in 0 .. Area
  <2>1. /\ SlotSize * (slotCnt - slotCnt') = SlotSize * slotCnt - SlotSize * slotCnt'
        /\ SlotSize * slotCnt' \in Nat /\ SlotSize * slotCnt \in Nat
        /\ SlotSize * slotCnt' <= SlotSize * slotCnt
    <3>1. PICK m \in Nat : m = slotCnt' /\ m <= slotCnt
      BY <1>2, <1>3
    <3>2. SlotSize * slotCnt \in Nat
      BY Ranges DEF IInv
    <3> QED BY <1>2, <3>1, <3>2, Multiples
  <2>2. freeSpace = (Area - SlotSize * slotCnt) - freePtr
    BY DEF IInv, SpaceAccounted
  <2>3. SpaceAccounted'
    BY <1>1, <1>2, <1>3, <2>1, <2>2 DEF SpaceAccounted
  <2> QED BY <1>1, <1>2, <1>3, <2>1, <2>2, <2>3
<1>5. TypeOK'
  <2>1. data' \in [Offsets -> Bytes \cup {Junk}]
    <3>1. data \in [Offsets -> Bytes \cup {Junk}] /\ data' = Shifted(k)
      BY DEF DeleteRecord, IInv, TypeOK
    <3>2. ASSUME NEW j \in Offsets, j \in o .. o + (freePtr - (o + L)) - 1 PROVE j + L \in Offsets
      BY <1>2, <3>2 DEF Offsets
    <3> QED BY <3>1, <3>2 DEF Shifted
  <2> QED BY <1>1, <1>2, <1>4, <2>1 DEF TypeOK
<1>6. SlotsFilled'
  BY <1>1, AreaAssumption DEF SlotsFilled, Offsets
<1>7. \A i \in InUse' : /\ i \in InUse \ {k}
                        /\ slot'[i].offset = IF Behind(i, k) THEN slot[i].offset - L ELSE slot[i].offset
                        /\ ends(i)' = IF Behind(i, k) THEN slot[i].offset - L + slot[i].length
                                      ELSE slot[i].offset + slot[i].length
  BY <1>1 DEF ends
<1>8. Tiled'
  <2>1. \A i \in InUse' : ends(i)' <= freePtr'
    BY <1>1, <1>2, <1>i, <1>p, <1>7
  <2>2. ASSUME NEW i \in InUse', NEW j \in InUse', i # j PROVE Apart(i, j)'
    <3>1. Apart(i, j)
      BY <1>7, <2>2 DEF IInv, Tiled
    <3> QED BY <1>2, <1>i, <1>p, <1>7, <3>1 DEF Apart, ends
  <2>3. ASSUME NEW p \in 0 .. freePtr' - 1
        PROVE  \E i \in InUse' : slot'[i].offset <= p /\ p < ends(i)'
    <3>1. CASE p < o
      <4>1. PICK i \in InUse : slot[i].offset <= p /\ p < ends(i)
        BY <1>1, <1>2 DEF IInv, Tiled
      <4>2. i # k /\ ~Behind(i, k)
        BY <1>2, <1>i, <3>1, <4>1 DEF Behind
      <4> QED BY <1>1, <1>7, <4>1, <4>2 DEF ends
    <3>2. CASE p >= o
      <4>1. p + L \in 0 .. freePtr - 1
        BY <1>1, <1>2
      <4>2. PICK i \in InUse : slot[i].offset <= p + L /\ p + L < ends(i)
        BY <4>1 DEF IInv, Tiled
      <4>3. i # k /\ Behind(i, k)
        <5>1. ~(p + L < o + L)
          BY <1>2, <3>2
        <5>2. i # k
          BY <4>2, <5>1 DEF ends
        <5> QED BY <1>2, <1>i, <1>p, <3>2, <4>2, <5>2 DEF ends
      <4> QED BY <1>1, <1>2, <1>i, <1>7, <4>2, <4>3 DEF ends
    <3> QED BY <1>2, <3>1, <3>2
  <2> QED BY <2>1, <2>2, <2>3 DEF Tiled
<1> QED BY <1>1, <1>4, <1>5, <1>6, <1>8 DEF IInv

-----------------------------------------------------------------------------
(* The bytes of a page *)

LEMMA InitInv == Init => IInv
<1> SUFFICES ASSUME Init PROVE IInv
  OBVIOUS
<1>1. Area \in Nat /\ SlotSize * 0 = 0 /\ 0 \in SlotNos
  BY SlotNosAre, AreaAssumption
<1>2. TypeOK /\ SpaceAccounted
  BY <1>1 DEF Init, TypeOK, SpaceAccounted, Unused
<1>3. InUse = {}
  BY DEF Init, InUse
<1>4. NoEmptyEnd /\ SlotsFilled /\ Tiled
  BY <1>3 DEF Init, NoEmptyEnd, SlotsFilled, Tiled
<1> QED BY <1>2, <1>4 DEF IInv

LEMMA NextInv == IInv /\ [Next]_vars => IInv'
<1> SUFFICES ASSUME IInv, [Next]_vars PROVE IInv'
  OBVIOUS
<1>1. CASE UNCHANGED vars
  BY <1>1 DEF vars, IInv, TypeOK, SpaceAccounted, SlotsFilled, Tiled, NoEmptyEnd, InUse, Apart, ends
<1>2. CASE Next
  BY <1>2, InsertInv, DeleteInv, UpdateInv DEF Next
<1> QED BY <1>1, <1>2

THEOREM Invariance == Spec => []IInv
BY InitInv, NextInv, PTL DEF Spec

(* No record grows into a slot or over another record, and no byte is lost,
   however records come, go and move. *)
THEOREM PageCorrect == Spec => []PageSound
<1>1. IInv => PageSound
  <2> SUFFICES ASSUME IInv PROVE RecordsCompact
    BY DEF IInv, PageSound
  <2> DEFINE At(k) == slot[k].offset .. slot[k].offset + slot[k].length - 1
  <2>1. \A k \in InUse : /\ slot[k].offset \in Nat /\ slot[k].length \in Nat
                         /\ slot[k].offset + slot[k].length <= freePtr
    BY Used DEF ends
  <2>2. freePtr \in Nat
    BY Ranges DEF IInv
  <2>3. \A j, k \in InUse : j # k => At(j) \cap At(k) = {}
    <3> SUFFICES ASSUME NEW j \in InUse, NEW k \in InUse, j # k, NEW p \in At(j), p \in At(k) PROVE FALSE
      OBVIOUS
    <3>1. Apart(j, k)
      BY DEF IInv, Tiled
    <3> QED BY <2>1, <3>1 DEF Apart, ends
  <2>4. ASSUME NEW p \in 0 .. freePtr - 1 PROVE \E k \in InUse : p \in At(k)
    <3>1. PICK k \in InUse : slot[k].offset <= p /\ p < ends(k)
      BY DEF IInv, Tiled
    <3> QED BY <2>1, <2>2, <3>1 DEF ends
  <2>5. ASSUME NEW k \in InUse, NEW p \in At(k) PROVE p \in 0 .. freePtr - 1
    BY <2>1, <2>2
  <2>6. UNION {At(k) : k \in InUse} = 0 .. freePtr - 1
    BY <2>4, <2>5
  <2> QED BY <2>3, <2>6 DEF RecordsCompact
<1> QED BY <1>1, Invariance, PTL

-----------------------------------------------------------------------------
(* firstRecord and nextRecord *)

LEMMA FirstFromIs ==
  ASSUME IInv, NEW i \in Nat, \E k \in InUse : k >= i
  PROVE  FirstFrom(i) \in InUse /\ FirstFrom(i) >= i /\ \A j \in InUse : j >= i => FirstFrom(i) <= j
<1> DEFINE S == {k \in InUse : k >= i}
<1>1. S \subseteq Nat /\ S # {}
  BY Ranges DEF IInv
<1>2. \E k \in S : \A j \in S : k <= j
  BY <1>1, NatMin
<1>3. FirstFrom(i) \in S /\ \A j \in S : FirstFrom(i) <= j
  BY <1>2 DEF FirstFrom
<1> QED BY <1>3

(* firstRecord never answers OK with its result unset, and firstRecord and
   nextRecord come to every record once. *)
THEOREM ScanCorrect == Spec => []ScanVisitsAll
<1>1. IInv => ScanVisitsAll
  <2> SUFFICES ASSUME IInv PROVE ScanVisitsAll
    OBVIOUS
  <2>0. slotCnt \in Nat /\ InUse \subseteq Nat /\ InUse \subseteq 0 .. slotCnt
    <3>1. slotCnt \in Nat /\ InUse \subseteq Nat
      BY Ranges DEF IInv
    <3>2. 0 .. slotCnt - 1 \subseteq 0 .. slotCnt
      BY <3>1
    <3>3. InUse \subseteq 0 .. slotCnt - 1
      BY DEF InUse
    <3> QED BY <3>1, <3>2, <3>3
  <2>1. InUse = {} => slotCnt = 0
    <3> SUFFICES ASSUME slotCnt # 0 PROVE slotCnt - 1 \in InUse
      BY <2>0
    <3> QED BY <2>0 DEF InUse, IInv, NoEmptyEnd
  <2>2. InUse # {} => FirstRecord \in InUse /\ \A j \in InUse : FirstRecord <= j
    <3> SUFFICES ASSUME InUse # {} PROVE FirstRecord \in InUse /\ \A j \in InUse : FirstRecord <= j
      OBVIOUS
    <3>1. slotCnt # 0
      BY <2>0 DEF InUse
    <3>2. FirstRecord = FirstFrom(0)
      BY <3>1 DEF FirstRecord
    <3>3. \A k \in InUse : k >= 0
      BY <2>0
    <3>4. \E k \in InUse : k >= 0
      BY <3>3
    <3> QED BY <3>2, <3>3, <3>4, FirstFromIs
  <2>3. InUse = {} => FirstRecord = End
    BY <2>1 DEF FirstRecord
  <2>4. ASSUME NEW k \in InUse, NEW j \in InUse, j > k
        PROVE  /\ NextRecord(k) \in InUse /\ NextRecord(k) > k /\ NextRecord(k) # End
               /\ \A i \in InUse : i > k => NextRecord(k) <= i
    <3>1. NextRecord(k) = FirstFrom(k + 1) /\ k + 1 \in Nat /\ j >= k + 1
      BY <2>0, <2>4 DEF NextRecord
    <3>2. /\ FirstFrom(k + 1) \in InUse /\ FirstFrom(k + 1) >= k + 1
          /\ \A i \in InUse : i >= k + 1 => FirstFrom(k + 1) <= i
      BY <3>1, FirstFromIs
    <3>3. NextRecord(k) \in InUse /\ NextRecord(k) \in Nat /\ k \in Nat /\ NextRecord(k) >= k + 1
      BY <2>0, <3>1, <3>2
    <3>4. NextRecord(k) > k /\ NextRecord(k) # End
      BY <3>3 DEF End
    <3>5. \A i \in InUse : i > k => i >= k + 1
      BY <2>0, <3>3
    <3> QED BY <3>1, <3>2, <3>3, <3>4, <3>5
  <2>5. \A k \in InUse : NextRecord(k) = End \/ (NextRecord(k) \in InUse /\ NextRecord(k) > k)
    BY <2>4 DEF NextRecord
  <2>6. ASSUME NEW T \in SUBSET InUse, FirstRecord \in T, \A k \in T : NextRecord(k) \in T \cup {End},
               T # InUse
        PROVE  FALSE
    <3>1. PICK m \in InUse \ T : \A j \in InUse \ T : m <= j
      <4>1. InUse \ T # {} /\ InUse \ T \subseteq Nat
        BY <2>0, <2>6
      <4> QED BY <4>1, NatMin
    <3>2. FirstRecord \in {k \in InUse : k < m}
      BY <2>0, <2>2, <2>6, <3>1
    <3>3. PICK j \in {k \in InUse : k < m} : \A i \in {k \in InUse : k < m} : i <= j
      <4>1. {k \in InUse : k < m} \subseteq 0 .. slotCnt /\ {k \in InUse : k < m} # {}
        BY <2>0, <3>2
      <4> QED BY <2>0, <4>1, NatMax
    <3>4. j \in T
      BY <2>0, <3>1, <3>3
    <3>5. NextRecord(j) \in InUse /\ NextRecord(j) > j /\ NextRecord(j) # End /\ NextRecord(j) <= m
      BY <2>4, <3>1, <3>3
    <3>6. NextRecord(j) = m
      <4>1. NextRecord(j) \in Nat /\ j \in Nat /\ m \in Nat
        BY <2>0, <3>1, <3>3, <3>5
      <4>2. ~(NextRecord(j) < m)
        BY <3>3, <3>5, <4>1
      <4> QED BY <3>5, <4>1, <4>2
    <3> QED BY <2>6, <3>1, <3>4, <3>5, <3>6
  <2> QED BY <2>2, <2>3, <2>5, <2>6 DEF ScanVisitsAll
<1> QED BY <1>1, Invariance, PTL

-----------------------------------------------------------------------------
(* The refinement: what is in a slot *)

RecordsOf == {[j \in 1 .. n |-> b] : n \in Lengths, b \in Bytes}

LEMMA RecsAre == DOMAIN Recs = InUse /\ \A k \in InUse : Recs[k] = Image(k)
BY DEF Recs

LEMMA InitMapped == Init => Slots!Init
<1> SUFFICES ASSUME Init PROVE Recs = [k \in {} |-> <<>>]
  BY DEF Slots!Init
<1>1. InUse = {}
  BY DEF Init, InUse
<1> QED BY <1>1 DEF Recs

LEMMA InsertMapped ==
  ASSUME IInv, NEW b \in Bytes, NEW len \in Lengths, InsertRecord(b, len)
  PROVE  Slots!Insert
<1>1. PICK k \in SlotNos \ InUse :
            /\ InUse' = InUse \cup {k}
            /\ slot' = [slot EXCEPT ![k] = [offset |-> freePtr, length |-> len]]
            /\ freePtr' = freePtr + len /\ freePtr' <= Area /\ freePtr \in Offsets
  BY InsertFacts
<1>2. data' = [j \in Offsets |-> IF j \in freePtr .. freePtr + len - 1 THEN b ELSE data[j]]
  BY DEF InsertRecord
<1>3. /\ len \in Nat /\ freePtr \in Nat /\ Area \in Nat /\ freePtr + len <= Area
      /\ data = [j \in Offsets |-> data[j]]
  <2>1. len \in Nat /\ Area \in Nat
    BY AreaAssumption
  <2>2. freePtr \in Nat
    BY Ranges DEF IInv
  <2> QED BY <1>1, <2>1, <2>2 DEF IInv, TypeOK
<1>4. slot'[k] = [offset |-> freePtr, length |-> len] /\ \A i \in InUse : slot'[i] = slot[i]
  BY <1>1, Used DEF IInv, TypeOK
<1> DEFINE r == [j \in 1 .. len |-> b]
<1>5. Image(k)' = r
  <2>1. \A j \in 1 .. len : data'[freePtr + j - 1] = b
    BY <1>2, <1>3 DEF Offsets
  <2> QED BY <1>4, <2>1 DEF Image
<1>6. ASSUME NEW i \in InUse PROVE Image(i)' = Image(i)
  <2>1. slot[i].offset \in Nat /\ slot[i].length \in Nat /\ slot[i].offset + slot[i].length <= freePtr
    BY Used DEF ends
  <2>2. ASSUME NEW j \in 1 .. slot[i].length
        PROVE  data'[slot[i].offset + j - 1] = data[slot[i].offset + j - 1]
    <3> DEFINE p == slot[i].offset + j - 1
    <3>1. p \in Offsets /\ p \notin freePtr .. freePtr + len - 1
      <4>1. j \in Nat /\ j >= 1 /\ j <= slot[i].length
        BY <2>1
      <4>2. p \in Nat /\ p < freePtr
        BY <2>1, <4>1, <1>3
      <4> HIDE DEF p
      <4> QED BY <1>3, <4>2 DEF Offsets
    <3> HIDE DEF p
    <3>2. data'[p] = data[p]
      BY <1>2, <3>1
    <3> QED BY <3>2 DEF p
  <2> QED BY <1>4, <2>2 DEF Image
<1>7. Recs' = [j \in DOMAIN Recs \cup {k} |-> IF j = k THEN r ELSE Recs[j]]
  <2>1. Recs' = [j \in InUse \cup {k} |-> Image(j)'] /\ DOMAIN Recs = InUse
    BY <1>1 DEF Recs
  <2>2. \A j \in InUse \cup {k} : Image(j)' = IF j = k THEN r ELSE Recs[j]
    BY <1>1, <1>5, <1>6, RecsAre
  <2> QED BY <2>1, <2>2
<1>8. r \in RecordsOf
  BY DEF RecordsOf
<1>9. k \in SlotNos \ DOMAIN Recs
  BY <1>1, RecsAre
<1> QED BY <1>7, <1>8, <1>9 DEF Slots!Insert, RecordsOf

LEMMA UpdateMapped ==
  ASSUME IInv, NEW k \in SlotNos, NEW b \in Bytes, UpdateRecord(k, b)
  PROVE  Slots!Update
<1>1. /\ k \in InUse /\ UNCHANGED <<slot, slotCnt>> /\ InUse' = InUse
      /\ data' = [j \in Offsets |->
                    IF j \in slot[k].offset .. slot[k].offset + slot[k].length - 1 THEN b ELSE data[j]]
  BY DEF UpdateRecord, InUse
<1>2. \A i \in InUse : /\ slot[i].offset \in Nat /\ slot[i].length \in Lengths /\ slot[i].length \in Nat
                       /\ slot[i].offset + slot[i].length <= Area
  <2> SUFFICES ASSUME NEW i \in InUse
               PROVE  /\ slot[i].offset \in Nat /\ slot[i].length \in Lengths /\ slot[i].length \in Nat
                      /\ slot[i].offset + slot[i].length <= Area
    OBVIOUS
  <2>1. /\ slot[i].offset \in Nat /\ slot[i].length \in Lengths /\ slot[i].length \in Nat
        /\ slot[i].offset + slot[i].length <= freePtr
    BY Used DEF ends
  <2>2. freePtr \in Nat /\ freePtr <= Area /\ Area \in Nat
    BY Ranges DEF IInv
  <2> QED BY <2>1, <2>2
<1>a. Area \in Nat
  BY AreaAssumption
<1> DEFINE r == [j \in 1 .. slot[k].length |-> b]
<1>3. Image(k)' = r
  <2>1. ASSUME NEW j \in 1 .. slot[k].length PROVE data'[slot[k].offset + j - 1] = b
    <3>1. PICK x \in Nat, n \in Nat : x = slot[k].offset /\ n = slot[k].length /\ x + n <= Area
      BY <1>1, <1>2
    <3>2. x + j - 1 \in 0 .. Area - 1 /\ x + j - 1 \in x .. x + n - 1
      BY <1>a, <3>1
    <3> QED BY <1>1, <3>1, <3>2 DEF Offsets
  <2> QED BY <1>1, <2>1 DEF Image
<1>4. ASSUME NEW i \in InUse, i # k PROVE Image(i)' = Image(i)
  <2>1. Apart(i, k)
    BY <1>1, <1>4 DEF IInv, Tiled
  <2>2. ASSUME NEW j \in 1 .. slot[i].length
        PROVE  data'[slot[i].offset + j - 1] = data[slot[i].offset + j - 1]
    <3> DEFINE p == slot[i].offset + j - 1
    <3>1. p \in Offsets /\ p \notin slot[k].offset .. slot[k].offset + slot[k].length - 1
      <4>1. PICK x \in Nat, n \in Nat : x = slot[i].offset /\ n = slot[i].length /\ x + n <= Area
        BY <1>2
      <4>2. PICK y \in Nat, m \in Nat : y = slot[k].offset /\ m = slot[k].length
        BY <1>1, <1>2
      <4>3. x + n <= y \/ y + m <= x
        BY <2>1, <4>1, <4>2 DEF Apart, ends
      <4>4. j \in Nat /\ j >= 1 /\ j <= n
        BY <4>1
      <4>5. x + j - 1 \in 0 .. Area - 1 /\ x + j - 1 \notin y .. y + m - 1
        BY <1>a, <4>1, <4>2, <4>3, <4>4
      <4> QED BY <4>1, <4>2, <4>5 DEF Offsets
    <3> HIDE DEF p
    <3>2. data'[p] = data[p]
      BY <1>1, <3>1
    <3> QED BY <3>2 DEF p
  <2> QED BY <1>1, <2>2 DEF Image
<1>5. Recs' = [j \in DOMAIN Recs |-> IF j = k THEN r ELSE Recs[j]]
  <2>1. Recs' = [j \in InUse |-> Image(j)']
    BY <1>1 DEF Recs
  <2>2. \A j \in InUse : Image(j)' = IF j = k THEN r ELSE Recs[j]
    BY <1>3, <1>4, RecsAre
  <2> QED BY <2>1, <2>2, RecsAre
<1>6. r \in RecordsOf
  BY <1>1, <1>2 DEF RecordsOf
<1>7. DOMAIN r = DOMAIN Recs[k]
  BY <1>1, RecsAre DEF Image
<1>8. k \in DOMAIN Recs
  BY <1>1, RecsAre
<1> HIDE DEF r
<1> QED BY <1>5, <1>6, <1>7, <1>8 DEF Slots!Update, RecordsOf

LEMMA DeleteMapped ==
  ASSUME IInv, NEW k \in SlotNos, DeleteRecord(k)
  PROVE  Slots!Delete
<1> DEFINE L == slot[k].length
           o == slot[k].offset
<1>1. /\ k \in InUse /\ InUse' = InUse \ {k}
      /\ \A i \in InUse \ {k} :
            /\ slot'[i].length = slot[i].length
            /\ slot'[i].offset = IF Behind(i, k) THEN slot[i].offset - L ELSE slot[i].offset
      /\ data' = [j \in Offsets |-> IF j \in o .. o + (freePtr - (o + L)) - 1 THEN data[j + L] ELSE data[j]]
  BY DeleteFacts DEF DeleteRecord, Shifted
<1>2. /\ L \in Nat /\ o \in Nat /\ freePtr \in Nat /\ freePtr <= Area /\ Area \in Nat
      /\ \A i \in InUse : slot[i].offset \in Nat /\ slot[i].length \in Nat
                          /\ slot[i].offset + slot[i].length <= freePtr
  BY <1>1, Used, Ranges DEF ends, IInv
<1>3. ASSUME NEW i \in InUse \ {k} PROVE Image(i)' = Image(i)
  <2>1. CASE Behind(i, k)
    <3>1. o + L <= slot[i].offset /\ slot'[i].offset = slot[i].offset - L
      BY <1>1, <2>1, Places DEF ends
    <3>2. \A j \in 1 .. slot[i].length : data'[slot'[i].offset + j - 1] = data[slot[i].offset + j - 1]
      <4> SUFFICES ASSUME NEW j \in 1 .. slot[i].length
                   PROVE  data'[slot'[i].offset + j - 1] = data[slot[i].offset + j - 1]
        OBVIOUS
      <4> DEFINE p == slot[i].offset - L + j - 1
      <4>1. p \in Offsets /\ p \in o .. o + (freePtr - (o + L)) - 1 /\ p + L = slot[i].offset + j - 1
        BY <1>2, <3>1 DEF Offsets
      <4>2. data'[p] = data[p + L]
        BY <1>1, <4>1
      <4> QED BY <3>1, <4>1, <4>2
    <3> QED BY <1>1, <3>2 DEF Image
  <2>2. CASE ~Behind(i, k)
    <3>1. slot[i].offset + slot[i].length <= o /\ slot'[i].offset = slot[i].offset
      BY <1>1, <2>2, Places DEF ends
    <3>2. ASSUME NEW j \in 1 .. slot[i].length
          PROVE  data'[slot'[i].offset + j - 1] = data[slot[i].offset + j - 1]
      <4> DEFINE p == slot[i].offset + j - 1
      <4>1. p \in Offsets /\ p \notin o .. o + (freePtr - (o + L)) - 1
        BY <1>2, <3>1 DEF Offsets
      <4> HIDE DEF p
      <4>2. data'[p] = data[p]
        BY <1>1, <4>1
      <4> QED BY <3>1, <4>2 DEF p
    <3> QED BY <1>1, <3>2 DEF Image
  <2> QED BY <2>1, <2>2
<1>4. Recs' = [j \in DOMAIN Recs \ {k} |-> Recs[j]]
  <2>1. Recs' = [j \in InUse \ {k} |-> Image(j)'] /\ DOMAIN Recs = InUse
    BY <1>1 DEF Recs
  <2> QED BY <1>3, <2>1, RecsAre
<1> QED BY <1>1, <1>4, RecsAre DEF Slots!Delete

(* The page keeps each record under its slot number, byte for byte, until it
   is deleted: it is the slotted store of RecordPage. *)
THEOREM RecordPageImplemented == Spec => ImplementsRecordPage
<1>1. IInv /\ [Next]_vars => [Slots!Insert \/ Slots!Update \/ Slots!Delete]_Recs
  <2>1. ASSUME UNCHANGED vars PROVE UNCHANGED Recs
    BY <2>1 DEF vars, Recs, InUse, Image
  <2> QED BY <2>1, InsertMapped, UpdateMapped, DeleteMapped DEF Next
<1> QED BY <1>1, Invariance, InitMapped, PTL DEF Spec, ImplementsRecordPage, Slots!Spec
=============================================================================
