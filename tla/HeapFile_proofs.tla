-------------------------- MODULE HeapFile_proofs --------------------------
(***************************************************************************)
(* Theorems about a heap file and the objects that have it open, for any   *)
(* number of scans, pages and records, and any sizes: the directory agrees *)
(* with the pages, pins are balanced and no change is kept from the pool;  *)
(* no filtered scan returns a record twice, and at FILEEOF one that began  *)
(* at the first page has returned all it had to, although others insert,   *)
(* delete and update records meanwhile.                                    *)
(***************************************************************************)
EXTENDS HeapFile, FiniteSetTheorems, SequenceTheorems, WellFoundedInduction, TLAPS

Content  == Vals \cup {Hole}
DirEntry == [pageNo : DataPages, freeSpace : 0 .. Area]
RecType  == Rids \cup {NULLRID}
ObjType  == [st : {"closed", "open", "failed"}, pageNo : {0} \cup DataPages, idx : Nat,
             dirty : BOOLEAN, hdrDirty : BOOLEAN, rec : RecType]
MarkType == [pageNo : {0} \cup DataPages, idx : Nat, rec : RecType, seen : SUBSET Rids,
             fresh : BOOLEAN]
ScanType == [filter : Filters \cup {{}}, fresh : BOOLEAN, seen : SUBSET Rids,
             twice : BOOLEAN, due : SUBSET Rids,
             out : {"none", "going", "eof"}, mark : MarkType]

-----------------------------------------------------------------------------
(* Operators: choices, and the slots of a page *)

LEMMA NatMin ==
  ASSUME NEW T, T \subseteq Nat, T # {} PROVE \E x \in T : \A y \in T : x <= y
<1> DEFINE R == {ss \in Nat \X Nat : ss[1] < ss[2]}
<1>1. IsWellFoundedOn(R, Nat)
  BY NatLessThanWellFounded DEF OpToRel
<1>2. PICK x \in T : \A y \in T : <<y, x>> \notin R
  BY <1>1, WFMin
<1>3. ASSUME NEW y \in T PROVE x <= y
  <2>1. x \in Nat /\ y \in Nat
    OBVIOUS
  <2>2. y < x => <<y, x>> \in R
    BY <2>1
  <2> QED BY <1>2, <2>1, <2>2
<1> QED BY <1>3

LEMMA NatMax ==
  ASSUME NEW n \in Nat, NEW T, T \subseteq 0 .. n, T # {} PROVE \E x \in T : \A y \in T : y <= x
<1> DEFINE U == {i \in 0 .. n : n - i \in T}
<1>1. U \subseteq Nat
  OBVIOUS
<1>2. U # {}
  <2>1. PICK y : y \in T
    OBVIOUS
  <2>2. n - y \in 0 .. n /\ n - (n - y) = y
    BY <2>1
  <2> QED BY <2>1, <2>2
<1>3. PICK i \in U : \A j \in U : i <= j
  BY <1>1, <1>2, NatMin
<1>4. ASSUME NEW y \in T PROVE y <= n - i
  <2>1. y \in 0 .. n /\ n - y \in 0 .. n /\ n - (n - y) = y
    OBVIOUS
  <2>2. n - y \in U
    BY <2>1
  <2>3. i <= n - y /\ i \in 0 .. n
    BY <1>3, <2>2
  <2> QED BY <2>1, <2>3
<1>5. n - i \in T
  OBVIOUS
<1> QED BY <1>4, <1>5

LEMMA FirstFacts ==
  ASSUME NEW X, X \subseteq Nat \X Nat, X # {}
  PROVE  First(X) \in X /\ \A y \in X : Before(First(X), y)
<1> DEFINE A == {x[1] : x \in X}
<1>1. A \subseteq Nat /\ A # {}
  OBVIOUS
<1>2. PICK a \in A : \A b \in A : a <= b
  BY <1>1, NatMin
<1> DEFINE B == {k \in Nat : <<a, k>> \in X}
<1>3. B \subseteq Nat /\ B # {}
  <2>1. PICK x \in X : x[1] = a
    BY <1>2
  <2>2. x = <<x[1], x[2]>> /\ x[2] \in Nat
    BY <2>1
  <2> QED BY <2>1, <2>2
<1>4. PICK b \in B : \A k \in B : b <= k
  BY <1>3, NatMin
<1>5. ASSUME NEW y \in X PROVE Before(<<a, b>>, y)
  <2>1. y = <<y[1], y[2]>> /\ y[1] \in Nat /\ y[2] \in Nat /\ a \in Nat /\ b \in Nat
    BY <1>1, <1>2
  <2>2. a <= y[1] /\ (y[1] = a => b <= y[2])
    BY <1>2, <1>4, <2>1
  <2> QED BY <2>1, <2>2 DEF Before
<1>6. <<a, b>> \in X
  BY <1>4
<1> QED BY <1>5, <1>6 DEF First

LEMMA LastFacts ==
  ASSUME NEW n \in Nat, NEW i \in Nat, NEW X, X \subseteq {i} \X (0 .. n), X # {}
  PROVE  Last(X) \in X /\ \A y \in X : Before(y, Last(X))
<1> DEFINE B == {k \in 0 .. n : <<i, k>> \in X}
<1>1. ASSUME NEW x \in X PROVE x = <<i, x[2]>> /\ x[2] \in B
  <2>1. x \in {i} \X (0 .. n)
    OBVIOUS
  <2>2. x = <<x[1], x[2]>> /\ x[1] = i /\ x[2] \in 0 .. n
    BY <2>1
  <2> QED BY <2>2
<1>2. B # {}
  BY <1>1
<1>3. PICK b \in B : \A k \in B : k <= b
  BY <1>2, NatMax
<1>4. <<i, b>> \in X
  BY <1>3
<1>5. \A y \in X : Before(y, <<i, b>>)
  BY <1>1, <1>3 DEF Before
<1> QED BY <1>4, <1>5 DEF Last

LEMMA TargetFacts ==
  ASSUME NEW o \in Objects, obj[o].idx \in Nat, Roomy(o) # {}
  PROVE  Target(o) \in Roomy(o) /\ \A j \in Roomy(o) : Target(o) <= j
<1>1. Roomy(o) \subseteq Nat
  BY DEF Roomy
<1>2. \E i \in Roomy(o) : \A j \in Roomy(o) : i <= j
  BY <1>1, NatMin
<1> QED BY <1>2 DEF Target

LEMMA Sizes ==
  /\ Area \in Nat /\ RecLen \in Nat \ {0} /\ SlotSize \in Nat \ {0} /\ RecLen + SlotSize <= Area
  /\ MaxPages \in Nat \ {0} /\ MaxRecCnt \in Nat /\ MaxSlots \in Nat
  /\ Hdr \in PageNos /\ Hdr \notin DataPages /\ DataPages \subseteq PageNos
  /\ PageNos = {Hdr} \cup DataPages /\ 2 \in DataPages /\ 0 \notin DataPages /\ DataPages \subseteq Nat
<1>1. MaxSlots \in Nat
  <2>1. Area \in Nat /\ SlotSize \in Nat /\ SlotSize > 0
    BY SizesAssumption
  <2> QED BY <2>1 DEF MaxSlots
<1> QED BY <1>1, SizesAssumption, BoundsAssumption DEF Hdr, DataPages, PageNos

LEMMA Times ==
  ASSUME NEW a \in Nat, NEW b \in Nat, NEW c \in Nat
  PROVE  /\ a * b \in Nat /\ a * (b + 1) = a * b + a /\ (b <= c => a * b <= a * c)
OBVIOUS

LEMMA SlotBound ==
  ASSUME NEW n \in Nat, SlotSize * n <= Area PROVE n <= MaxSlots
<1> DEFINE q == Area \div SlotSize
<1>1. SlotSize \in Nat /\ SlotSize > 0 /\ Area \in Nat
  BY Sizes
<1>2. q \in Nat /\ Area < SlotSize * (q + 1)
  <2>1. q \in Nat
    BY <1>1
  <2>2. Area = SlotSize * q + (Area % SlotSize) /\ (Area % SlotSize) < SlotSize /\ (Area % SlotSize) \in Nat
    BY <1>1
  <2>3. SlotSize * (q + 1) = SlotSize * q + SlotSize
    BY <1>1, <2>1
  <2>4. SlotSize * q \in Nat
    BY <1>1, <2>1
  <2> HIDE DEF q
  <2> QED BY <1>1, <2>1, <2>2, <2>3, <2>4
<1> HIDE DEF q
<1>3. CASE n <= q
  BY <1>3 DEF MaxSlots, q
<1>4. CASE n > q
  <2>1. q + 1 <= n /\ q + 1 \in Nat
    BY <1>2, <1>4
  <2>2. SlotSize * (q + 1) <= SlotSize * n
    BY <1>1, <2>1, Times
  <2>3. SlotSize * (q + 1) \in Nat /\ SlotSize * n \in Nat
    BY <1>1, <2>1, Times
  <2> QED BY <1>1, <1>2, <2>2, <2>3
<1> QED BY <1>2, <1>3, <1>4

(* the used slots of a page *)
LEMMA PageFacts ==
  ASSUME NEW pg \in Seq(Content)
  PROVE  /\ DOMAIN pg = 1 .. Len(pg) /\ Len(pg) \in Nat /\ UsedIn(pg) \subseteq 1 .. Len(pg)
         /\ IsFiniteSet(UsedIn(pg)) /\ Cardinality(UsedIn(pg)) \in Nat
         /\ FreeIn(pg) \in Int /\ FreeIn(pg) <= Area
         /\ FreeIn(pg) >= 0 => Len(pg) <= MaxSlots
<1>1. DOMAIN pg = 1 .. Len(pg) /\ Len(pg) \in Nat /\ UsedIn(pg) \subseteq 1 .. Len(pg)
  BY DEF UsedIn
<1>2. IsFiniteSet(1 .. Len(pg))
  BY <1>1, FS_Interval
<1>3. IsFiniteSet(UsedIn(pg)) /\ Cardinality(UsedIn(pg)) \in Nat
  BY <1>1, <1>2, FS_Subset, FS_CardinalityType
<1>4. SlotSize * Len(pg) \in Nat /\ RecLen * Cardinality(UsedIn(pg)) \in Nat
  BY <1>1, <1>3, Sizes, Times
<1>5. FreeIn(pg) \in Int /\ FreeIn(pg) <= Area /\ (FreeIn(pg) >= 0 => SlotSize * Len(pg) <= Area)
  BY <1>4, Sizes DEF FreeIn
<1> QED BY <1>1, <1>3, <1>5, SlotBound

LEMMA SlotFacts ==
  ASSUME NEW pg \in Seq(Content)
  PROVE  /\ SlotFor(pg) \in 1 .. Len(pg) + 1 /\ SlotFor(pg) \notin UsedIn(pg)
<1>1. DOMAIN pg = 1 .. Len(pg) /\ Len(pg) \in Nat /\ UsedIn(pg) \subseteq 1 .. Len(pg)
  BY PageFacts
<1>2. CASE Holes(pg) = {}
  BY <1>1, <1>2 DEF SlotFor
<1>3. CASE Holes(pg) # {}
  <2>1. Holes(pg) \subseteq Nat
    BY <1>1 DEF Holes
  <2>2. \E k \in Holes(pg) : \A j \in Holes(pg) : k <= j
    BY <1>3, <2>1, NatMin
  <2>3. SlotFor(pg) \in Holes(pg)
    BY <1>3, <2>2 DEF SlotFor
  <2> QED BY <1>1, <2>3 DEF Holes
<1> QED BY <1>2, <1>3

(* a page with one record more *)
LEMMA WithFacts ==
  ASSUME NEW pg \in Seq(Content), NEW v \in Vals
  PROVE  /\ WithRecord(pg, v) \in Seq(Content)
         /\ UsedIn(pg) \subseteq UsedIn(WithRecord(pg, v))
         /\ \A k \in UsedIn(pg) : WithRecord(pg, v)[k] = pg[k]
         /\ FreeIn(WithRecord(pg, v)) >= FreeIn(pg) - RecLen - SlotSize
<1> DEFINE new == WithRecord(pg, v)
           k == SlotFor(pg)
           n == IF k = Len(pg) + 1 THEN Len(pg) + 1 ELSE Len(pg)
<1>1. /\ DOMAIN pg = 1 .. Len(pg) /\ Len(pg) \in Nat /\ UsedIn(pg) \subseteq 1 .. Len(pg)
      /\ k \in 1 .. Len(pg) + 1 /\ k \notin UsedIn(pg)
  BY PageFacts, SlotFacts
<1>2. n \in Nat /\ 1 .. Len(pg) \cup {k} = 1 .. n
  BY <1>1
<1>3. new = [j \in 1 .. n |-> IF j = k THEN v ELSE pg[j]]
  BY <1>2 DEF WithRecord
<1>4. new \in [1 .. n -> Content]
  <2>1. ASSUME NEW j \in 1 .. n, j # k PROVE pg[j] \in Content
    <3>1. j \in 1 .. Len(pg)
      BY <1>1, <2>1
    <3> QED BY <3>1, ElementOfSeq
  <2> QED BY <1>3, <2>1 DEF Content
<1> HIDE DEF new, k
<1>5. new \in Seq(Content)
  BY <1>2, <1>4, SeqDef
<1>6. Len(new) = n /\ DOMAIN new = 1 .. n
  BY <1>2, <1>4, <1>5
<1>7. UsedIn(new) = UsedIn(pg) \cup {k} /\ \A j \in UsedIn(pg) : new[j] = pg[j]
  <2>1. k \in UsedIn(new)
    BY <1>1, <1>2, <1>3, <1>6, ValsAssumption DEF UsedIn
  <2>2. ASSUME NEW j \in 1 .. n, j # k PROVE new[j] = pg[j] /\ j \in 1 .. Len(pg)
    BY <1>1, <1>3, <2>2
  <2>3. ASSUME NEW j \in UsedIn(pg) PROVE j \in 1 .. n /\ j # k /\ pg[j] # Hole
    BY <1>1, <1>2 DEF UsedIn
  <2> QED BY <1>1, <1>6, <2>1, <2>2, <2>3 DEF UsedIn
<1>8. Cardinality(UsedIn(new)) = Cardinality(UsedIn(pg)) + 1
  BY <1>1, <1>7, PageFacts, FS_AddElement
<1>9. FreeIn(new) >= FreeIn(pg) - RecLen - SlotSize
  <2> DEFINE c == Cardinality(UsedIn(pg))
             L == Len(pg)
  <2>1. c \in Nat /\ L \in Nat /\ RecLen \in Nat /\ SlotSize \in Nat /\ Area \in Nat
    BY PageFacts, Sizes
  <2>2. FreeIn(new) = Area - SlotSize * n - RecLen * (c + 1)
    BY <1>6, <1>8 DEF FreeIn
  <2>3. FreeIn(pg) = Area - SlotSize * L - RecLen * c
    BY DEF FreeIn
  <2>4. RecLen * (c + 1) = RecLen * c + RecLen /\ RecLen * c \in Nat
    BY <2>1, Times
  <2>5. SlotSize * n <= SlotSize * L + SlotSize /\ SlotSize * n \in Nat /\ SlotSize * L \in Nat
    <3>1. SlotSize * (L + 1) = SlotSize * L + SlotSize /\ SlotSize * L \in Nat
      BY <2>1, Times
    <3> QED BY <2>1, <3>1
  <2> HIDE DEF n, c, L
  <2> QED BY <2>1, <2>2, <2>3, <2>4, <2>5
<1> QED BY <1>5, <1>7, <1>9 DEF new

(* a page with one record less *)
LEMMA WithoutFacts ==
  ASSUME NEW pg \in Seq(Content), NEW k \in UsedIn(pg)
  PROVE  /\ WithoutRecord(pg, k) \in Seq(Content)
         /\ UsedIn(WithoutRecord(pg, k)) = UsedIn(pg) \ {k}
         /\ \A j \in UsedIn(pg) \ {k} : WithoutRecord(pg, k)[j] = pg[j]
         /\ FreeIn(WithoutRecord(pg, k)) >= FreeIn(pg)
<1> DEFINE rest == UsedIn(pg) \ {k}
           last == IF rest = {} THEN 0 ELSE CHOOSE j \in rest : \A i \in rest : i <= j
           new == WithoutRecord(pg, k)
<1>1. DOMAIN pg = 1 .. Len(pg) /\ Len(pg) \in Nat /\ UsedIn(pg) \subseteq 1 .. Len(pg)
  BY PageFacts
<1>2. last \in 0 .. Len(pg) /\ \A j \in rest : j <= last
  <2>1. CASE rest = {}
    BY <1>1, <2>1
  <2>2. CASE rest # {}
    <3>1. rest \subseteq 0 .. Len(pg)
      BY <1>1
    <3>2. \E j \in rest : \A i \in rest : i <= j
      BY <1>1, <2>2, <3>1, NatMax
    <3> QED BY <1>1, <2>2, <3>1, <3>2
  <2> QED BY <2>1, <2>2
<1>3. new = [j \in 1 .. last |-> IF j = k THEN Hole ELSE pg[j]]
  BY DEF WithoutRecord
<1> HIDE DEF last, new
<1>4. new \in [1 .. last -> Content]
  <2>1. ASSUME NEW j \in 1 .. last PROVE pg[j] \in Content
    <3>1. j \in 1 .. Len(pg)
      BY <1>1, <1>2
    <3> QED BY <3>1, ElementOfSeq
  <2> QED BY <1>3, <2>1 DEF Content
<1>5. last \in Nat /\ new \in Seq(Content)
  <2>1. last \in Nat
    BY <1>1, <1>2
  <2> QED BY <1>4, <2>1, SeqDef
<1>6. Len(new) = last /\ DOMAIN new = 1 .. last
  BY <1>4, <1>5
<1>7. UsedIn(new) = rest /\ \A j \in rest : new[j] = pg[j]
  <2>1. ASSUME NEW j \in rest PROVE j \in 1 .. last /\ new[j] = pg[j] /\ pg[j] # Hole
    <3>1. j \in 1 .. Len(pg) /\ j <= last /\ j # k /\ pg[j] # Hole
      BY <1>1, <1>2 DEF UsedIn
    <3> QED BY <1>1, <1>2, <1>3, <3>1
  <2>2. ASSUME NEW j \in 1 .. last, new[j] # Hole PROVE j \in rest
    <3>1. j # k /\ new[j] = pg[j] /\ j \in 1 .. Len(pg)
      BY <1>1, <1>2, <1>3, <2>2
    <3> QED BY <1>1, <2>2, <3>1 DEF UsedIn
  <2> QED BY <1>6, <2>1, <2>2 DEF UsedIn
<1>8. Cardinality(UsedIn(pg)) = Cardinality(UsedIn(new)) + 1 /\ Cardinality(UsedIn(new)) \in Nat
  <2>1. IsFiniteSet(UsedIn(pg)) /\ Cardinality(UsedIn(pg)) \in Nat
    BY PageFacts
  <2>2. Cardinality(UsedIn(pg) \ {k}) = Cardinality(UsedIn(pg)) - 1
    BY <2>1, FS_RemoveElement
  <2>3. Cardinality(UsedIn(new)) \in Nat
    BY <1>5, PageFacts
  <2> QED BY <1>7, <2>1, <2>2, <2>3
<1>9. FreeIn(new) >= FreeIn(pg)
  <2> DEFINE c == Cardinality(UsedIn(new))
             L == Len(pg)
  <2>1. c \in Nat /\ L \in Nat /\ RecLen \in Nat /\ SlotSize \in Nat /\ Area \in Nat /\ last <= L
    BY <1>1, <1>2, <1>8, Sizes
  <2>2. FreeIn(new) = Area - SlotSize * last - RecLen * c
    BY <1>6 DEF FreeIn
  <2>3. FreeIn(pg) = Area - SlotSize * L - RecLen * (c + 1)
    BY <1>8 DEF FreeIn
  <2>4. RecLen * (c + 1) = RecLen * c + RecLen /\ RecLen * c \in Nat
    BY <2>1, Times
  <2>5. SlotSize * last <= SlotSize * L /\ SlotSize * last \in Nat /\ SlotSize * L \in Nat
    BY <1>5, <2>1, Times
  <2> HIDE DEF c, L
  <2> QED BY <2>1, <2>2, <2>3, <2>4, <2>5
<1> QED BY <1>5, <1>7, <1>9 DEF new

(* a page with a record in the place of another *)
LEMMA UpdateFacts ==
  ASSUME NEW pg \in Seq(Content), NEW k \in UsedIn(pg), NEW v \in Vals
  PROVE  LET new == [pg EXCEPT ![k] = v] IN
         /\ new \in Seq(Content) /\ UsedIn(new) = UsedIn(pg) /\ FreeIn(new) = FreeIn(pg)
         /\ \A j \in UsedIn(pg) \ {k} : new[j] = pg[j]
<1> DEFINE new == [pg EXCEPT ![k] = v]
<1>1. DOMAIN pg = 1 .. Len(pg) /\ Len(pg) \in Nat /\ UsedIn(pg) \subseteq 1 .. Len(pg) /\ v # Hole /\ v \in Content
  BY PageFacts, ValsAssumption DEF Content
<1>2. new \in [1 .. Len(pg) -> Content] /\ new[k] = v /\ \A j \in 1 .. Len(pg) : j # k => new[j] = pg[j]
  <2>1. \A j \in 1 .. Len(pg) : pg[j] \in Content
    BY ElementOfSeq
  <2> QED BY <1>1, <2>1
<1>3. new \in Seq(Content)
  BY <1>1, <1>2, SeqDef
<1>4. DOMAIN new = 1 .. Len(pg) /\ Len(new) = Len(pg)
  BY <1>2, <1>3, <1>1
<1> HIDE DEF new
<1>5. UsedIn(new) = UsedIn(pg)
  BY <1>1, <1>2, <1>4 DEF UsedIn
<1>6. FreeIn(new) = FreeIn(pg)
  BY <1>4, <1>5 DEF FreeIn
<1>7. \A j \in UsedIn(pg) \ {k} : new[j] = pg[j]
  BY <1>1, <1>2
<1> QED BY <1>3, <1>5, <1>6, <1>7 DEF new

-----------------------------------------------------------------------------
(* The inductive invariant *)

Shape ==
    /\ dir \in Seq(DirEntry) /\ Len(dir) > 0
    /\ recCnt \in 0 .. MaxRecCnt
    /\ page \in [DataPages -> Seq(Content)]
    /\ numPages \in 3 .. MaxPages + 2
    /\ pins \in [PageNos -> Nat]
    /\ unsaved \in [PageNos -> BOOLEAN]
    /\ obj \in [Objects -> ObjType]
    /\ scan \in [Scans -> ScanType]

(* a page that is not in the directory is empty; those in it are there once,
   with no more room than they have *)
Directory ==
    /\ \A p \in DataPages : FreeIn(page[p]) >= 0
    /\ \A i, j \in DOMAIN dir : At(i) = At(j) => i = j
    /\ \A i \in DOMAIN dir : At(i) < numPages /\ dir[i].freeSpace <= FreeIn(page[At(i)])
    /\ \A p \in DataPages : (\A i \in DOMAIN dir : At(i) # p) => page[p] = <<>>

(* an object that walks along the directory stands on the entry of its page *)
Standing(o) ==
    obj[o].st = "open" => /\ obj[o].pageNo \in DataPages /\ obj[o].idx \in DOMAIN dir
                          /\ o \notin Readers => At(obj[o].idx) = obj[o].pageNo

Marked(s) ==
    /\ obj[s].st # "open" => scan[s] = NoScan
    /\ scan[s].mark.pageNo # 0 => /\ scan[s].mark.idx \in DOMAIN dir
                                  /\ At(scan[s].mark.idx) = scan[s].mark.pageNo

ScansPlaced == scan \in [Scans -> ScanType] /\ \A s \in Scans : Marked(s)

Placed ==
    /\ \A o \in Objects : Standing(o) /\ (obj[o].st = "closed" => obj[o] = Closed)
    /\ ScansPlaced

(* what an object has pinned, and the changes it is to report *)
Holds(x)   == CASE x.st = "closed" -> {} [] x.st = "failed" -> {Hdr} [] OTHER -> {Hdr, x.pageNo}
Says(x, p) == IF p = Hdr THEN x.hdrDirty ELSE x.st = "open" /\ x.pageNo = p /\ x.dirty

(* every change the pool does not know of is known to an object *)
Told == \A p \in PageNos : unsaved[p] => \E o \in Objects : Says(obj[o], p)

IInv == Shape /\ Directory /\ Placed /\ PinsBalanced /\ Told

One(b) == IF b THEN 1 ELSE 0

(* object o becomes x: it pins and reports what it has to *)
Becomes(o, x) ==
    /\ x \in ObjType /\ obj' = [obj EXCEPT ![o] = x]
    /\ \A p \in PageNos : pins'[p] = pins[p] - One(p \in Holds(obj[o])) + One(p \in Holds(x))
    /\ unsaved' \in [PageNos -> BOOLEAN]
    /\ \A p \in PageNos : unsaved'[p] => Says(x, p) \/ (unsaved[p] /\ ~Says(obj[o], p))

LEMMA ObjFacts ==
  ASSUME NEW x \in ObjType
  PROVE  /\ x.st \in {"closed", "open", "failed"} /\ x.pageNo \in {0} \cup DataPages /\ x.idx \in Nat
         /\ x.dirty \in BOOLEAN /\ x.hdrDirty \in BOOLEAN /\ x.rec \in RecType
         /\ Hdr \notin DataPages /\ Holds(x) \subseteq {Hdr, x.pageNo}
         /\ Hdr \in Holds(x) <=> x.st # "closed"
         /\ \A p \in DataPages : p \in Holds(x) <=> x.st = "open" /\ x.pageNo = p
BY Sizes DEF ObjType, Holds

Users(p) == {o \in Objects : p \in Holds(obj[o])}

LEMMA PinsByUsers ==
  ASSUME Shape
  PROVE  PinsBalanced <=> \A p \in PageNos : pins[p] = Cardinality(Users(p))
<1>1. ASSUME NEW p \in PageNos
      PROVE  Users(p) = {o \in Objects : IF p = Hdr THEN obj[o].st # "closed"
                                         ELSE obj[o].st = "open" /\ obj[o].pageNo = p}
  <2>1. \A o \in Objects : obj[o] \in ObjType
    BY DEF Shape
  <2> QED BY <2>1, ObjFacts, Sizes DEF Users
<1> QED BY <1>1 DEF PinsBalanced

LEMMA UsersFinite == ASSUME NEW p PROVE IsFiniteSet(Users(p)) /\ Cardinality(Users(p)) \in Nat
<1>1. Users(p) \in SUBSET Objects
  BY DEF Users
<1> QED BY <1>1, ObjectsAssumption, FS_Subset, FS_CardinalityType

LEMMA PinsStep ==
  ASSUME Shape, PinsBalanced, NEW o \in Objects, NEW x, Becomes(o, x)
  PROVE  PinsBalanced'
<1>1. ASSUME NEW p \in PageNos PROVE pins'[p] = Cardinality(Users(p)')
  <2>1. pins[p] = Cardinality(Users(p))
    BY PinsByUsers
  <2>2. pins'[p] = pins[p] - One(p \in Holds(obj[o])) + One(p \in Holds(x))
    BY DEF Becomes
  <2>3. \A b \in Objects : obj'[b] = IF b = o THEN x ELSE obj[b]
    BY DEF Becomes, Shape
  <2>4. Users(p)' = IF p \in Holds(x) THEN (Users(p) \ {o}) \cup {o} ELSE Users(p) \ {o}
    BY <2>3 DEF Users
  <2>5. o \in Users(p) <=> p \in Holds(obj[o])
    BY DEF Users
  <2>6. /\ IsFiniteSet(Users(p)) /\ Cardinality(Users(p)) \in Nat
        /\ Cardinality(Users(p) \ {o}) = Cardinality(Users(p)) - One(p \in Holds(obj[o]))
        /\ IsFiniteSet(Users(p) \ {o})
    BY <2>5, UsersFinite, FS_RemoveElement DEF One
  <2>7. Cardinality((Users(p) \ {o}) \cup {o}) = Cardinality(Users(p) \ {o}) + 1
    BY <2>6, FS_AddElement
  <2> QED BY <2>1, <2>2, <2>4, <2>6, <2>7 DEF One
<1>2. ASSUME NEW p \in PageNos
      PROVE  Users(p)' = {b \in Objects : IF p = Hdr THEN obj'[b].st # "closed"
                                          ELSE obj'[b].st = "open" /\ obj'[b].pageNo = p}
  <2>1. \A b \in Objects : obj'[b] \in ObjType
    BY DEF Shape, Becomes
  <2> QED BY <2>1, ObjFacts, Sizes DEF Users
<1> QED BY <1>1, <1>2 DEF PinsBalanced

LEMMA UpdatesStep ==
  ASSUME Shape, Told, NEW o \in Objects, NEW x, Becomes(o, x)
  PROVE  Told'
<1>1. \A b \in Objects : obj'[b] = IF b = o THEN x ELSE obj[b]
  BY DEF Becomes, Shape
<1>2. ASSUME NEW p \in PageNos, unsaved'[p] PROVE \E b \in Objects : Says(obj'[b], p)
  <2>1. CASE Says(x, p)
    BY <1>1, <2>1
  <2>2. CASE unsaved[p] /\ ~Says(obj[o], p)
    <3>1. PICK b \in Objects : Says(obj[b], p)
      BY <2>2 DEF Told, Says
    <3> QED BY <1>1, <2>2, <3>1
  <2> QED BY <1>2, <2>1, <2>2 DEF Becomes
<1> QED BY <1>2 DEF Told, Says

LEMMA PinNat ==
  ASSUME Shape, PinsBalanced, NEW o \in Objects, NEW x, Becomes(o, x), DOMAIN pins' = PageNos,
         pins' = [p \in PageNos |-> pins'[p]]
  PROVE  pins' \in [PageNos -> Nat]
<1>1. ASSUME NEW p \in PageNos PROVE pins'[p] \in Nat
  <2>1. pins[p] = Cardinality(Users(p)) /\ pins[p] \in Nat
    BY PinsByUsers DEF Shape
  <2>2. p \in Holds(obj[o]) => pins[p] # 0
    <3>1. p \in Holds(obj[o]) => Users(p) # {}
      BY DEF Users
    <3> QED BY <2>1, <3>1, UsersFinite, FS_EmptySet
  <2>3. pins'[p] = pins[p] - One(p \in Holds(obj[o])) + One(p \in Holds(x))
    BY DEF Becomes
  <2> QED BY <2>1, <2>2, <2>3 DEF One
<1> QED BY <1>1

LEMMA DirFacts ==
  ASSUME Shape
  PROVE  /\ Len(dir) \in Nat /\ DOMAIN dir = 1 .. Len(dir) /\ 1 \in DOMAIN dir
         /\ \A i \in DOMAIN dir : /\ dir[i] \in DirEntry /\ At(i) \in DataPages /\ At(i) # Hdr /\ At(i) \in PageNos
                                  /\ dir[i].freeSpace \in 0 .. Area
<1>1. Len(dir) \in Nat /\ DOMAIN dir = 1 .. Len(dir) /\ 1 \in DOMAIN dir
  BY DEF Shape
<1>2. \A i \in DOMAIN dir : dir[i] \in DirEntry
  BY <1>1, ElementOfSeq DEF Shape
<1>3. \A d \in DirEntry : d.pageNo \in DataPages /\ d.freeSpace \in 0 .. Area
  BY DEF DirEntry
<1> QED BY <1>1, <1>2, <1>3, Sizes DEF At

LEMMA ClosedFacts ==
  /\ Closed \in ObjType /\ Closed.st = "closed" /\ ~Closed.hdrDirty /\ ~Closed.dirty /\ Closed.rec = NULLRID
  /\ NoScan \in ScanType /\ NoScan.mark.pageNo = 0
BY DEF Closed, ObjType, RecType, NoScan, ScanType, MarkType

(* o closes its page after a failure and keeps the directory *)
LEMMA FailedFacts ==
  ASSUME NEW b \in BOOLEAN
  PROVE  LET x == [Closed EXCEPT !.st = "failed", !.hdrDirty = b] IN
         x \in ObjType /\ x.st = "failed" /\ x.hdrDirty = b /\ Holds(x) = {Hdr}
BY DEF Closed, ObjType, RecType, Holds

LEMMA OpenFacts ==
  ASSUME NEW p \in DataPages
  PROVE  LET x == [Closed EXCEPT !.st = "open", !.pageNo = p, !.idx = 1] IN
         x \in ObjType /\ x.st = "open" /\ x.pageNo = p /\ x.idx = 1
BY DEF Closed, ObjType, RecType

LEMMA MovedFacts ==
  ASSUME Shape, NEW p \in DataPages, NEW q \in DataPages, p # q
  PROVE  /\ Moved(p, q) \in [PageNos -> Int]
         /\ \A r \in PageNos : Moved(p, q)[r] = pins[r] - One(r = p) + One(r = q)
<1>1. pins \in [PageNos -> Nat] /\ p \in PageNos /\ q \in PageNos
  BY Sizes DEF Shape
<1>2. ASSUME NEW r \in PageNos
      PROVE  /\ Moved(p, q)[r] \in Int
             /\ Moved(p, q)[r] = pins[r] - One(r = p) + One(r = q)
  <2>1. pins[r] \in Nat
    BY <1>1
  <2>2. CASE r = p
    BY <1>1, <2>1, <2>2 DEF Moved, One
  <2>3. CASE r = q
    BY <1>1, <2>1, <2>3 DEF Moved, One
  <2>4. CASE r # p /\ r # q
    BY <1>1, <2>1, <2>4 DEF Moved, One
  <2> QED BY <2>2, <2>3, <2>4
<1>3. DOMAIN Moved(p, q) = PageNos /\ Moved(p, q) = [r \in PageNos |-> Moved(p, q)[r]]
  BY <1>1 DEF Moved
<1> QED BY <1>2, <1>3

LEMMA ReleasedFacts ==
  ASSUME Shape, NEW o \in Objects, obj[o].pageNo \in DataPages
  PROVE  /\ Released(o) \in [PageNos -> Int]
         /\ \A r \in PageNos : Released(o)[r] = pins[r] - One(r = obj[o].pageNo)
<1> DEFINE p == obj[o].pageNo
<1>1. pins \in [PageNos -> Nat] /\ p \in PageNos
  BY Sizes DEF Shape
<1>2. ASSUME NEW r \in PageNos
      PROVE  /\ Released(o)[r] \in Int
             /\ Released(o)[r] = pins[r] - One(r = p)
  <2>1. pins[r] \in Nat
    BY <1>1
  <2>2. CASE r = p
    BY <1>1, <2>1, <2>2 DEF Released, One
  <2>3. CASE r # p
    BY <1>1, <2>1, <2>3 DEF Released, One
  <2> QED BY <2>2, <2>3
<1>3. Released(o) = [r \in PageNos |-> Released(o)[r]]
  BY <1>1 DEF Released
<1> QED BY <1>2, <1>3

LEMMA ReportedFacts ==
  ASSUME Shape, NEW S, NEW d \in BOOLEAN
  PROVE  /\ Reported(S, d) \in [PageNos -> BOOLEAN]
         /\ \A p \in PageNos : Reported(S, d)[p] <=> unsaved[p] /\ ~(d /\ p \in S)
BY DEF Shape, Reported

(* calls that leave the pages and the directory as they are *)
LEMMA QuietStep ==
  ASSUME IInv, NEW o \in Objects, NEW x, Becomes(o, x), UNCHANGED <<dir, recCnt, page>>,
         numPages' \in numPages .. MaxPages + 2, pins' \in [PageNos -> Int],
         x.st = "closed" => x = Closed,
         x.st = "open" => /\ x.pageNo \in DataPages /\ x.idx \in DOMAIN dir
                          /\ o \notin Readers => At(x.idx) = x.pageNo,
         ScansPlaced'
  PROVE  IInv'
<1>1. \A b \in Objects : obj'[b] = IF b = o THEN x ELSE obj[b]
  BY DEF Becomes, IInv, Shape
<1>2. numPages' \in 3 .. MaxPages + 2 /\ numPages <= numPages' /\ numPages \in Nat /\ numPages' \in Nat
  BY Sizes DEF IInv, Shape
<1>3. pins' \in [PageNos -> Nat]
  BY PinNat DEF IInv
<1>4. Shape'
  BY <1>2, <1>3 DEF IInv, Shape, Becomes, ScansPlaced
<1>5. Directory'
  <2>1. \A i \in DOMAIN dir : At(i) < numPages /\ At(i) \in Nat
    BY DirFacts, Sizes DEF IInv, Directory
  <2> QED BY <1>2, <2>1 DEF IInv, Directory, At
<1>6. Placed'
  BY <1>1 DEF IInv, Placed, Standing, At
<1> QED BY <1>4, <1>5, <1>6, PinsStep, UpdatesStep DEF IInv

(* Where scans stand if the call is none on a scan *)
LEMMA OtherScans ==
  ASSUME IInv, NEW o \in Objects, NEW x, Becomes(o, x), UNCHANGED dir,
         scan' = [s \in Scans |-> IF s = o THEN NoScan ELSE scan[s]] \/ (scan' = scan /\ o \notin Scans)
                 \/ (scan' = scan /\ x.st = "open") \/ (scan' = scan /\ obj[o].st # "open")
  PROVE  ScansPlaced'
<1>1. \A b \in Objects : obj'[b] = IF b = o THEN x ELSE obj[b]
  BY DEF Becomes, IInv, Shape
<1>2. Scans \subseteq Objects
  BY DEF Objects
<1>3. scan' \in [Scans -> ScanType]
  BY ClosedFacts DEF IInv, Shape
<1>4. ASSUME NEW s \in Scans
      PROVE  Marked(s)'
  <2>1. obj'[s] = (IF s = o THEN x ELSE obj[s]) /\ Marked(s)
    BY <1>1, <1>2 DEF IInv, Placed, ScansPlaced
  <2>2. scan'[s] = scan[s] \/ (s = o /\ scan'[s] = NoScan)
    BY DEF IInv, Shape
  <2>3. CASE scan'[s] = NoScan
    BY <2>3, ClosedFacts DEF Marked
  <2>4. CASE scan'[s] = scan[s] /\ scan'[s] # NoScan
    BY <2>1, <2>4 DEF Marked, At
  <2> QED BY <2>2, <2>3, <2>4
<1> QED BY <1>3, <1>4 DEF ScansPlaced

-----------------------------------------------------------------------------
(* How the calls that leave the pages alone change an object *)

LEMMA Kinds ==
  /\ Scans \subseteq Objects /\ Inserters \subseteq Objects /\ Readers \subseteq Objects
  /\ Scans \cap Readers = {} /\ Inserters \cap Readers = {} /\ Inserters \cap Scans = {}
BY ObjectsAssumption DEF Objects

(* an object that has a page open stays on it, goes to another, or is dropped *)
LEMMA PinsMove ==
  ASSUME Shape, NEW o \in Objects, obj[o].st = "open", obj[o].pageNo \in DataPages,
         NEW x \in ObjType,
         \/ x.st = "failed" /\ pins' = Released(o)
         \/ /\ x.st = "open" /\ x.pageNo \in DataPages
            /\ pins' = IF x.pageNo = obj[o].pageNo THEN pins ELSE Moved(obj[o].pageNo, x.pageNo)
  PROVE  /\ pins' \in [PageNos -> Int]
         /\ \A p \in PageNos : pins'[p] = pins[p] - One(p \in Holds(obj[o])) + One(p \in Holds(x))
<1> DEFINE c == obj[o]
<1>0. c \in ObjType /\ pins \in [PageNos -> Nat]
  BY ObjFacts DEF Shape
<1>1. /\ Hdr \in Holds(c)
      /\ \A p \in DataPages : p \in Holds(c) <=> p = c.pageNo
  BY <1>0, ObjFacts
<1>2. CASE x.st = "failed" /\ pins' = Released(o)
  <2>1. Hdr \in Holds(x) /\ \A p \in DataPages : p \notin Holds(x)
    BY <1>2, ObjFacts
  <2>2. ASSUME NEW p \in PageNos
        PROVE  pins'[p] = pins[p] - One(p \in Holds(c)) + One(p \in Holds(x))
    <3>1. pins[p] \in Nat /\ pins'[p] = pins[p] - One(p = c.pageNo)
      BY <1>0, <1>2, ReleasedFacts
    <3>2. CASE p = Hdr
      <4>1. p # c.pageNo
        BY <3>2, Sizes
      <4> QED BY <1>1, <2>1, <3>1, <3>2, <4>1 DEF One
    <3>3. CASE p \in DataPages
      BY <1>1, <2>1, <3>1, <3>3 DEF One
    <3> QED BY <3>2, <3>3, Sizes
  <2> QED BY <1>2, <2>2, ReleasedFacts
<1>3. CASE x.st = "open" /\ x.pageNo \in DataPages /\ x.pageNo = c.pageNo /\ pins' = pins
  <2>1. Hdr \in Holds(x) /\ \A p \in DataPages : p \in Holds(x) <=> p = c.pageNo
    BY <1>3, ObjFacts
  <2>2. ASSUME NEW p \in PageNos
        PROVE  pins'[p] = pins[p] - One(p \in Holds(c)) + One(p \in Holds(x))
    <3>1. pins[p] \in Nat /\ pins'[p] = pins[p] /\ (p \in Holds(x) <=> p \in Holds(c))
      BY <1>0, <1>1, <1>3, <2>1, Sizes
    <3> QED BY <3>1 DEF One
  <2> QED BY <1>0, <1>3, <2>2
<1>4. CASE x.st = "open" /\ x.pageNo \in DataPages /\ x.pageNo # c.pageNo
           /\ pins' = Moved(c.pageNo, x.pageNo)
  <2>1. Hdr \in Holds(x) /\ \A p \in DataPages : p \in Holds(x) <=> p = x.pageNo
    BY <1>4, ObjFacts
  <2>2. ASSUME NEW p \in PageNos
        PROVE  pins'[p] = pins[p] - One(p \in Holds(c)) + One(p \in Holds(x))
    <3>1. pins[p] \in Nat /\ pins'[p] = pins[p] - One(p = c.pageNo) + One(p = x.pageNo)
      BY <1>0, <1>4, MovedFacts
    <3>2. CASE p = Hdr
      <4>1. p # c.pageNo /\ p # x.pageNo
        BY <1>4, <3>2, Sizes
      <4> QED BY <1>1, <2>1, <3>1, <3>2, <4>1 DEF One
    <3>3. CASE p \in DataPages
      BY <1>1, <2>1, <3>1, <3>3 DEF One
    <3> QED BY <3>2, <3>3, Sizes
  <2> QED BY <1>4, <2>2, MovedFacts
<1> QED BY <1>2, <1>3, <1>4

LEMMA Leaves ==
  ASSUME Shape, NEW o \in Objects, obj[o].st = "open", obj[o].pageNo \in DataPages,
         NEW x \in ObjType, x.hdrDirty = obj[o].hdrDirty, obj' = [obj EXCEPT ![o] = x],
         NEW S, unsaved' = Reported(S, obj[o].dirty),
         \/ obj[o].pageNo \in S
         \/ x.st = "open" /\ x.pageNo = obj[o].pageNo /\ x.dirty = obj[o].dirty,
         \/ x.st = "failed" /\ pins' = Released(o)
         \/ /\ x.st = "open" /\ x.pageNo \in DataPages
            /\ pins' = IF x.pageNo = obj[o].pageNo THEN pins ELSE Moved(obj[o].pageNo, x.pageNo)
  PROVE  Becomes(o, x) /\ pins' \in [PageNos -> Int]
<1> DEFINE c == obj[o]
<1>1. c \in ObjType /\ c.dirty \in BOOLEAN /\ pins \in [PageNos -> Nat]
  BY ObjFacts DEF Shape
<1>2. /\ unsaved' \in [PageNos -> BOOLEAN]
      /\ \A p \in PageNos : unsaved'[p] <=> unsaved[p] /\ ~(c.dirty /\ p \in S)
  BY <1>1, ReportedFacts
<1>3. ASSUME NEW p \in PageNos, unsaved'[p] PROVE Says(x, p) \/ (unsaved[p] /\ ~Says(c, p))
  BY <1>2, <1>3 DEF Says
<1>4. /\ pins' \in [PageNos -> Int]
      /\ \A p \in PageNos : pins'[p] = pins[p] - One(p \in Holds(c)) + One(p \in Holds(x))
  BY PinsMove
<1> QED BY <1>2, <1>3, <1>4 DEF Becomes

(* a call that changes no object *)
LEMMA Stays ==
  ASSUME Shape, NEW o \in Objects, UNCHANGED <<pins, unsaved, obj>>
  PROVE  Becomes(o, obj[o]) /\ pins' \in [PageNos -> Int]
<1>1. obj[o] \in ObjType /\ obj' = [obj EXCEPT ![o] = obj[o]]
  BY DEF Shape
<1>2. \A p \in PageNos : pins'[p] = pins[p] - One(p \in Holds(obj[o])) + One(p \in Holds(obj[o]))
  <2>1. ASSUME NEW p \in PageNos PROVE pins'[p] = pins[p] - One(p \in Holds(obj[o])) + One(p \in Holds(obj[o]))
    <3>1. pins[p] \in Nat /\ pins' = pins
      BY DEF Shape
    <3> QED BY <3>1 DEF One
  <2> QED BY <2>1
<1>3. pins' \in [PageNos -> Int]
  BY DEF Shape
<1> QED BY <1>1, <1>2, <1>3 DEF Becomes, Shape

(* where an object stands *)
LEMMA Here ==
  ASSUME IInv, NEW o \in Objects, obj[o].st = "open"
  PROVE  /\ obj[o] \in ObjType /\ obj[o].pageNo \in DataPages /\ obj[o].pageNo # 0
         /\ obj[o].idx \in DOMAIN dir /\ obj[o].idx \in Nat
         /\ o \notin Readers => At(obj[o].idx) = obj[o].pageNo
         /\ obj[o].dirty \in BOOLEAN /\ obj[o].hdrDirty \in BOOLEAN /\ obj[o].rec \in RecType
BY ObjFacts, Sizes DEF IInv, Placed, Standing, Shape

LEMMA FailBecomes ==
  ASSUME IInv, NEW o \in Objects, obj[o].st = "open", Fail(o), pins' = Released(o),
         NEW S, unsaved' = Reported(S, obj[o].dirty), obj[o].pageNo \in S
  PROVE  \E x \in ObjType : Becomes(o, x) /\ x.st = "failed" /\ pins' \in [PageNos -> Int]
<1> DEFINE x == [Closed EXCEPT !.st = "failed", !.hdrDirty = obj[o].hdrDirty]
<1>1. Shape /\ obj[o].pageNo \in DataPages /\ obj[o].hdrDirty \in BOOLEAN
  BY Here DEF IInv
<1>2. x \in ObjType /\ x.st = "failed" /\ x.hdrDirty = obj[o].hdrDirty
  BY <1>1, FailedFacts
<1>3. obj' = [obj EXCEPT ![o] = x]
  BY DEF Fail
<1> HIDE DEF x
<1>4. Becomes(o, x) /\ pins' \in [PageNos -> Int]
  BY <1>1, <1>2, <1>3, Leaves
<1> QED BY <1>2, <1>4

LEMMA NumPagesStay == ASSUME Shape PROVE numPages \in numPages .. MaxPages + 2
BY Sizes DEF Shape

-----------------------------------------------------------------------------
(* Those calls *)

LEMMA OpenStep == ASSUME IInv, NEW o \in Objects, Open(o) PROVE IInv'
<1> DEFINE a == [Closed EXCEPT !.st = "open", !.pageNo = At(1), !.idx = 1]
           b == [Closed EXCEPT !.st = "failed", !.hdrDirty = obj[o].hdrDirty]
<1>1. Shape /\ obj[o] = Closed /\ obj[o].st = "closed" /\ pins \in [PageNos -> Nat]
  BY DEF Open, IInv, Placed, Shape
<1>2. 1 \in DOMAIN dir /\ At(1) \in DataPages /\ At(1) \in PageNos /\ At(1) # Hdr /\ Hdr \in PageNos
  BY <1>1, DirFacts, Sizes
<1>3. Holds(obj[o]) = {} /\ \A p : ~Says(obj[o], p)
  BY <1>1, ClosedFacts DEF Holds, Says
<1>4. /\ a \in ObjType /\ a.st = "open" /\ a.pageNo = At(1) /\ a.idx = 1 /\ Holds(a) = {Hdr, At(1)}
      /\ b \in ObjType /\ b.st = "failed" /\ Holds(b) = {Hdr}
  <2>1. a \in ObjType /\ a.st = "open" /\ a.pageNo = At(1) /\ a.idx = 1
    BY <1>2, OpenFacts
  <2>2. obj[o].hdrDirty \in BOOLEAN
    BY <1>1, ClosedFacts, ObjFacts
  <2> QED BY <2>1, <2>2, FailedFacts DEF Holds
<1>5. unsaved' = unsaved /\ unsaved \in [PageNos -> BOOLEAN] /\ UNCHANGED <<dir, recCnt, page, numPages, scan>>
  BY <1>1 DEF Open, Shape
<1> HIDE DEF a, b
<1>6. \E x \in {a, b} : Becomes(o, x) /\ pins' \in [PageNos -> Int]
  <2>1. CASE obj' = [obj EXCEPT ![o] = a]
             /\ pins' = [pins EXCEPT ![Hdr] = pins[Hdr] + 1, ![At(1)] = pins[At(1)] + 1]
    <3>1. ASSUME NEW p \in PageNos
          PROVE  pins'[p] \in Int /\ pins'[p] = pins[p] - One(p \in Holds(obj[o])) + One(p \in Holds(a))
      <4>1. pins[p] \in Nat /\ One(p \in Holds(obj[o])) = 0
        BY <1>1, <1>3 DEF One
      <4>2. CASE p = Hdr \/ p = At(1)
        <5>1. One(p \in Holds(a)) = 1
          BY <1>4, <4>2 DEF One
        <5>2. pins'[p] = pins[p] + 1
          BY <1>1, <1>2, <2>1, <4>2
        <5> QED BY <4>1, <5>1, <5>2
      <4>3. CASE p # Hdr /\ p # At(1)
        <5>1. One(p \in Holds(a)) = 0
          BY <1>4, <4>3 DEF One
        <5>2. pins'[p] = pins[p]
          BY <1>1, <1>2, <2>1, <4>3
        <5> QED BY <4>1, <5>1, <5>2
      <4> QED BY <4>2, <4>3
    <3>2. pins' \in [PageNos -> Int]
      <4>1. pins' = [p \in PageNos |-> pins'[p]]
        BY <1>1, <2>1
      <4> QED BY <3>1, <4>1
    <3> QED BY <1>3, <1>4, <1>5, <2>1, <3>1, <3>2 DEF Becomes
  <2>2. CASE Fail(o) /\ pins' = [pins EXCEPT ![Hdr] = pins[Hdr] + 1]
    <3>1. ASSUME NEW p \in PageNos
          PROVE  pins'[p] \in Int /\ pins'[p] = pins[p] - One(p \in Holds(obj[o])) + One(p \in Holds(b))
      <4>1. pins[p] \in Nat /\ One(p \in Holds(obj[o])) = 0
        BY <1>1, <1>3 DEF One
      <4>2. CASE p = Hdr
        <5>1. One(p \in Holds(b)) = 1 /\ pins'[p] = pins[p] + 1
          BY <1>1, <1>2, <1>4, <2>2, <4>2 DEF One
        <5> QED BY <4>1, <5>1
      <4>3. CASE p # Hdr
        <5>1. One(p \in Holds(b)) = 0 /\ pins'[p] = pins[p]
          BY <1>1, <1>2, <1>4, <2>2, <4>3 DEF One
        <5> QED BY <4>1, <5>1
      <4> QED BY <4>2, <4>3
    <3>2. pins' \in [PageNos -> Int]
      <4>1. pins' = [p \in PageNos |-> pins'[p]]
        BY <1>1, <2>2
      <4> QED BY <3>1, <4>1
    <3>3. obj' = [obj EXCEPT ![o] = b]
      BY <2>2 DEF Fail, b
    <3> QED BY <1>3, <1>4, <1>5, <3>1, <3>2, <3>3 DEF Becomes
  <2> QED BY <2>1, <2>2 DEF Open, a
<1>7. PICK x \in {a, b} : Becomes(o, x) /\ pins' \in [PageNos -> Int]
  BY <1>6
<1>8. ScansPlaced'
  <2>1. scan' = scan /\ obj[o].st # "open" /\ UNCHANGED dir
    BY <1>1, <1>5
  <2> QED BY <1>7, <2>1, OtherScans
<1>9. x.st # "closed" /\ (x.st = "open" => x.pageNo \in DataPages /\ x.idx \in DOMAIN dir /\ At(x.idx) = x.pageNo)
  BY <1>2, <1>4, <1>7
<1>10. numPages' \in numPages .. MaxPages + 2
  BY <1>1, <1>5, NumPagesStay
<1> QED BY <1>5, <1>7, <1>8, <1>9, <1>10, QuietStep

LEMMA CloseStep == ASSUME IInv, NEW o \in Objects, Close(o) PROVE IInv'
<1> DEFINE c == obj[o]
<1>1. Shape /\ pins \in [PageNos -> Nat] /\ c.st = "open"
  BY DEF Close, IInv, Shape
<1>2. c \in ObjType /\ c.pageNo \in DataPages /\ c.pageNo # Hdr /\ c.dirty \in BOOLEAN /\ c.hdrDirty \in BOOLEAN
  BY <1>1, Here, Sizes
<1>3. /\ Holds(c) = {Hdr, c.pageNo} /\ Holds(Closed) = {} /\ \A p : ~Says(Closed, p)
  BY <1>1, ClosedFacts DEF Holds, Says
<1>4. Hdr \in PageNos /\ c.pageNo \in PageNos
  BY <1>2, Sizes
<1>5. ASSUME NEW p \in PageNos
      PROVE  pins'[p] \in Int /\ pins'[p] = pins[p] - One(p \in Holds(c)) + One(p \in Holds(Closed))
  <2>1. pins[p] \in Nat /\ One(p \in Holds(Closed)) = 0
    BY <1>1, <1>3 DEF One
  <2>2. pins' = [Released(o) EXCEPT ![Hdr] = pins[Hdr] - 1]
    BY DEF Close
  <2>3. CASE p \in Holds(c)
    <3>1. pins'[p] = pins[p] - 1
      BY <1>1, <1>2, <1>3, <1>4, <2>2, <2>3 DEF Released
    <3> QED BY <2>1, <2>3, <3>1 DEF One
  <2>4. CASE p \notin Holds(c)
    <3>1. pins'[p] = pins[p]
      BY <1>1, <1>2, <1>3, <1>4, <2>2, <2>4 DEF Released
    <3> QED BY <2>1, <2>4, <3>1 DEF One
  <2> QED BY <2>3, <2>4
<1>6. pins' \in [PageNos -> Int]
  <2>1. pins' = [p \in PageNos |-> pins'[p]]
    BY <1>1 DEF Close, Released
  <2> QED BY <1>5, <2>1
<1>7. /\ unsaved' \in [PageNos -> BOOLEAN]
      /\ \A p \in PageNos : unsaved'[p] => unsaved[p] /\ ~Says(c, p)
  <2>1. /\ \A p \in PageNos : Reported({c.pageNo}, c.dirty)[p] <=> unsaved[p] /\ ~(c.dirty /\ p \in {c.pageNo})
        /\ \A p \in PageNos : Reported({Hdr}, c.hdrDirty)[p] <=> unsaved[p] /\ ~(c.hdrDirty /\ p \in {Hdr})
    BY <1>1, <1>2, ReportedFacts
  <2>2. unsaved' = [p \in PageNos |-> Reported({c.pageNo}, c.dirty)[p] /\ Reported({Hdr}, c.hdrDirty)[p]]
    BY DEF Close
  <2>3. unsaved' \in [PageNos -> BOOLEAN]
    BY <2>2
  <2> QED BY <2>1, <2>2, <2>3 DEF Says
<1>8. Becomes(o, Closed)
  BY <1>5, <1>7, ClosedFacts DEF Becomes, Close
<1>9. scan' = [s \in Scans |-> IF s = o THEN NoScan ELSE scan[s]] /\ UNCHANGED <<dir, recCnt, page, numPages>>
  BY DEF Close
<1>10. numPages' \in numPages .. MaxPages + 2
  BY <1>1, <1>9, NumPagesStay
<1>11. ScansPlaced'
  BY <1>8, <1>9, OtherScans
<1> QED BY <1>6, <1>8, <1>9, <1>10, <1>11, QuietStep, ClosedFacts

LEMMA InsertFailsStep == ASSUME IInv, NEW o \in Inserters, InsertFails(o) PROVE IInv'
<1> DEFINE c == obj[o]
           last == IF Roomy(o) # {} THEN Target(o) ELSE Len(dir)
<1>1. /\ Shape /\ o \in Objects /\ c.st = "open" /\ Fail(o) /\ pins' = Released(o)
      /\ UNCHANGED <<dir, recCnt, page, scan>>
  BY Kinds DEF InsertFails, IInv
<1>2. c.idx \in DOMAIN dir /\ c.idx \in Nat /\ At(c.idx) = c.pageNo /\ Len(dir) \in Nat /\ c.idx <= Len(dir)
  BY <1>1, Here, Kinds, DirFacts
<1>3. \E j \in Nat : c.idx < j /\ unsaved' = Reported(Passed(c.idx, j), c.dirty)
  <2>1. CASE \E j \in c.idx + 1 .. last : unsaved' = Reported(Passed(c.idx, j), c.dirty)
    <3>1. PICK j \in c.idx + 1 .. last : unsaved' = Reported(Passed(c.idx, j), c.dirty)
      BY <2>1
    <3>2. j \in Int /\ c.idx + 1 <= j
      OBVIOUS
    <3>3. j \in Nat /\ c.idx < j
      BY <1>2, <3>2
    <3> QED BY <3>1, <3>3
  <2>2. CASE unsaved' = Reported(Passed(c.idx, Len(dir) + 1), c.dirty)
    BY <1>2, <2>2
  <2> QED BY <2>1, <2>2 DEF InsertFails
<1>4. PICK j \in Nat : c.idx < j /\ unsaved' = Reported(Passed(c.idx, j), c.dirty)
  BY <1>3
<1>5. c.pageNo \in Passed(c.idx, j)
  BY <1>2, <1>4 DEF Passed
<1>6. PICK x \in ObjType : Becomes(o, x) /\ x.st = "failed" /\ pins' \in [PageNos -> Int]
  BY <1>1, <1>4, <1>5, FailBecomes
<1>7. ScansPlaced'
  BY <1>1, <1>6, OtherScans, Kinds
<1>8. numPages' \in numPages .. MaxPages + 2
  <2>1. numPages \in Nat /\ numPages <= MaxPages + 2 /\ MaxPages \in Nat
    BY <1>1, Sizes DEF Shape
  <2>2. numPages' = numPages \/ (numPages \in DataPages /\ numPages' = numPages + 1)
    BY DEF InsertFails
  <2> QED BY <2>1, <2>2 DEF DataPages
<1> QED BY <1>1, <1>6, <1>7, <1>8, QuietStep

(* calls on a scan *)
LEMMA ScanChanged ==
  ASSUME IInv, NEW s \in Scans, NEW x, Becomes(s, x), UNCHANGED dir,
         NEW y \in ScanType, scan' = [scan EXCEPT ![s] = y],
         x.st # "open" => y = NoScan,
         y.mark.pageNo # 0 => y.mark.idx \in DOMAIN dir /\ At(y.mark.idx) = y.mark.pageNo
  PROVE  ScansPlaced'
<1>1. \A b \in Scans : obj'[b] = (IF b = s THEN x ELSE obj[b]) /\ Marked(b)
  BY Kinds DEF Becomes, IInv, Shape, Placed, ScansPlaced
<1>2. \A b \in Scans : scan'[b] = IF b = s THEN y ELSE scan[b]
  BY DEF IInv, Shape
<1>3. scan' \in [Scans -> ScanType]
  BY DEF IInv, Shape
<1>4. \A b \in Scans : Marked(b)'
  BY <1>1, <1>2 DEF Marked, At
<1> QED BY <1>3, <1>4 DEF ScansPlaced

LEMMA ScanFacts ==
  ASSUME NEW y \in ScanType
  PROVE  /\ y.filter \in Filters \cup {{}} /\ y.fresh \in BOOLEAN /\ y.seen \in SUBSET Rids
         /\ y.twice \in BOOLEAN /\ y.due \in SUBSET Rids /\ y.out \in {"none", "going", "eof"}
         /\ y.mark \in MarkType /\ y.mark.pageNo \in {0} \cup DataPages /\ y.mark.idx \in Nat
         /\ y.mark.rec \in RecType /\ y.mark.seen \in SUBSET Rids /\ y.mark.fresh \in BOOLEAN
BY DEF ScanType, MarkType

LEMMA RecordFacts ==
  /\ Records \subseteq Rids
  /\ \A r \in Rids : r = <<r[1], r[2]>> /\ r[1] \in DataPages /\ r[2] \in 1 .. MaxSlots
  /\ \A r \in Records : r[2] \in UsedIn(page[r[1]])
BY DEF Records, Rids

LEMMA StartScanStep == ASSUME IInv, NEW s \in Scans, NEW F \in Filters, StartScan(s, F) PROVE IInv'
<1> DEFINE c == obj[s]
           back == c.pageNo # At(1)
           fresh == back \/ c.rec = NULLRID
           x == IF back THEN [c EXCEPT !.pageNo = At(1), !.idx = 1, !.dirty = FALSE, !.rec = NULLRID] ELSE c
           y == [NoScan EXCEPT !.filter = F, !.out = "going", !.fresh = fresh,
                               !.due = IF fresh THEN Matching(F) ELSE {},
                               !.mark = [scan[s].mark EXCEPT !.seen = {}, !.fresh = FALSE]]
<1>1. /\ Shape /\ s \in Objects /\ s \notin Readers /\ c.st = "open" /\ scan' = [scan EXCEPT ![s] = y]
      /\ UNCHANGED <<dir, recCnt, page, numPages>>
  BY Kinds DEF StartScan, IInv
<1>2. /\ c \in ObjType /\ c.pageNo \in DataPages /\ c.dirty \in BOOLEAN /\ c.idx \in DOMAIN dir
      /\ At(c.idx) = c.pageNo
      /\ 1 \in DOMAIN dir /\ At(1) \in DataPages
  BY <1>1, Here, DirFacts
<1>3. /\ x \in ObjType /\ x.st = "open" /\ x.hdrDirty = c.hdrDirty
      /\ x.pageNo \in DataPages /\ x.idx \in DOMAIN dir /\ At(x.idx) = x.pageNo
  BY <1>1, <1>2 DEF ObjType, RecType
<1>4. Becomes(s, x) /\ pins' \in [PageNos -> Int]
  <2>1. CASE back
    <3>1. /\ obj' = [obj EXCEPT ![s] = x] /\ unsaved' = Reported({c.pageNo}, c.dirty)
          /\ x.pageNo # c.pageNo /\ pins' = Moved(c.pageNo, x.pageNo)
      BY <1>2, <2>1 DEF StartScan, ObjType
    <3> HIDE DEF x, c
    <3>2. c = obj[s]
      BY DEF c
    <3> QED BY <1>1, <1>2, <1>3, <3>1, <3>2, Leaves
  <2>2. CASE ~back
    <3>1. x = obj[s] /\ UNCHANGED <<pins, unsaved, obj>>
      BY <2>2 DEF StartScan
    <3> QED BY <1>1, <3>1, Stays
  <2> QED BY <2>1, <2>2
<1>5. y \in ScanType /\ y.mark.pageNo = scan[s].mark.pageNo /\ y.mark.idx = scan[s].mark.idx
  <2> DEFINE m == [scan[s].mark EXCEPT !.seen = {}, !.fresh = FALSE]
             due == IF fresh THEN Matching(F) ELSE {}
  <2>1. scan[s] \in ScanType
    BY <1>1 DEF Shape
  <2>2. m \in MarkType /\ m.pageNo = scan[s].mark.pageNo /\ m.idx = scan[s].mark.idx
    BY <2>1, ScanFacts DEF MarkType
  <2>3. due \in SUBSET Rids /\ fresh \in BOOLEAN
    BY RecordFacts DEF Matching
  <2> HIDE DEF m, due, fresh
  <2>4. [NoScan EXCEPT !.filter = F, !.out = "going", !.fresh = fresh, !.due = due, !.mark = m] \in ScanType
    BY <2>2, <2>3, ClosedFacts DEF ScanType
  <2>5. [NoScan EXCEPT !.filter = F, !.out = "going", !.fresh = fresh, !.due = due, !.mark = m].mark = m
    BY DEF NoScan
  <2> QED BY <2>2, <2>4, <2>5 DEF m, due, fresh
<1>6. scan[s].mark.pageNo # 0 => scan[s].mark.idx \in DOMAIN dir /\ At(scan[s].mark.idx) = scan[s].mark.pageNo
  BY DEF IInv, Placed, ScansPlaced, Marked
<1> HIDE DEF x, y
<1>7. ScansPlaced'
  BY <1>1, <1>3, <1>4, <1>5, <1>6, ScanChanged
<1>8. numPages' \in numPages .. MaxPages + 2
  BY <1>1, NumPagesStay
<1> QED BY <1>1, <1>3, <1>4, <1>7, <1>8, QuietStep

(* the records scanNext may get to *)
LEMMA AheadFacts ==
  ASSUME Shape, NEW s \in Scans, obj[s].idx \in DOMAIN dir
  PROVE  /\ Hits(s) \subseteq Ahead(s) /\ Ahead(s) \subseteq Nat \X Nat
         /\ \A x \in Ahead(s) : /\ x = <<x[1], x[2]>> /\ x[1] \in obj[s].idx .. Len(dir) /\ x[1] \in DOMAIN dir
                                /\ x[1] \in Nat /\ x[2] \in 1 .. MaxSlots /\ x[2] \in Nat
                                /\ x[2] \in UsedIn(page[At(x[1])])
                                /\ x[1] = obj[s].idx => x[2] > obj[s].rec[2]
         /\ Hits(s) # {} => First(Hits(s)) \in Hits(s) /\ \A y \in Hits(s) : Before(First(Hits(s)), y)
<1>1. DOMAIN dir = 1 .. Len(dir) /\ Len(dir) \in Nat /\ obj[s].idx \in Nat /\ obj[s].idx >= 1 /\ MaxSlots \in Nat
  BY DirFacts, Sizes
<1>2. Hits(s) \subseteq Ahead(s)
  BY DEF Hits
<1>3. ASSUME NEW x \in Ahead(s)
      PROVE  /\ x = <<x[1], x[2]>> /\ x[1] \in obj[s].idx .. Len(dir) /\ x[1] \in DOMAIN dir
             /\ x[1] \in Nat /\ x[2] \in 1 .. MaxSlots /\ x[2] \in Nat
             /\ x[2] \in UsedIn(page[At(x[1])])
             /\ x[1] = obj[s].idx => x[2] > obj[s].rec[2]
  <2>1. x \in (obj[s].idx .. Len(dir)) \X (1 .. MaxSlots) /\ x[2] \in UsedIn(page[At(x[1])])
        /\ (x[1] = obj[s].idx => x[2] > obj[s].rec[2])
    BY DEF Ahead
  <2>2. x = <<x[1], x[2]>> /\ x[1] \in obj[s].idx .. Len(dir) /\ x[2] \in 1 .. MaxSlots
    BY <2>1
  <2>3. x[1] \in 1 .. Len(dir) /\ x[1] \in Nat /\ x[2] \in Nat
    BY <1>1, <2>2
  <2> QED BY <1>1, <2>1, <2>2, <2>3
<1>4. Ahead(s) \subseteq Nat \X Nat
  BY <1>3
<1>5. Hits(s) # {} => First(Hits(s)) \in Hits(s) /\ \A y \in Hits(s) : Before(First(Hits(s)), y)
  BY <1>2, <1>4, FirstFacts
<1> QED BY <1>2, <1>3, <1>4, <1>5

LEMMA GotoBecomes ==
  ASSUME IInv, NEW s \in Scans, obj[s].st = "open", NEW i \in DOMAIN dir, obj[s].idx <= i,
         NEW r \in RecType, Goto(s, i, r)
  PROVE  \E x \in ObjType : /\ Becomes(s, x) /\ pins' \in [PageNos -> Int]
                            /\ x.st = "open" /\ x.pageNo = At(i) /\ x.idx = i
<1> DEFINE c == obj[s]
           x == [c EXCEPT !.pageNo = At(i), !.idx = i, !.rec = r]
<1>1. /\ Shape /\ s \in Objects /\ s \notin Readers
      /\ c \in ObjType /\ c.pageNo \in DataPages /\ c.idx \in DOMAIN dir /\ c.idx \in Nat /\ At(c.idx) = c.pageNo
      /\ At(i) \in DataPages /\ i \in Nat
  BY Kinds, Here, DirFacts DEF IInv
<1>2. /\ x \in ObjType /\ x.st = "open" /\ x.hdrDirty = c.hdrDirty /\ x.dirty = c.dirty
      /\ x.pageNo = At(i) /\ x.idx = i /\ x.rec = r
  BY <1>1 DEF ObjType
<1>3. At(i) = c.pageNo <=> i = c.idx
  BY <1>1 DEF IInv, Directory
<1>4. /\ obj' = [obj EXCEPT ![s] = x] /\ unsaved' = Reported(Passed(c.idx, i), c.dirty)
      /\ pins' = IF x.pageNo = c.pageNo THEN pins ELSE Moved(c.pageNo, x.pageNo)
  BY <1>2, <1>3 DEF Goto
<1>5. c.pageNo \in Passed(c.idx, i) \/ x.pageNo = c.pageNo
  <2>1. CASE i = c.idx
    BY <1>2, <1>3, <2>1
  <2>2. CASE i # c.idx
    BY <1>1, <2>2 DEF Passed
  <2> QED BY <2>1, <2>2
<1>7. x.hdrDirty = obj[s].hdrDirty /\ x.dirty = obj[s].dirty /\ x \in ObjType
  BY <1>2
<1> DEFINE S == Passed(c.idx, i)
<1>8. unsaved' = Reported(S, obj[s].dirty) /\ (obj[s].pageNo \in S \/ x.pageNo = obj[s].pageNo)
  BY <1>4, <1>5
<1>9. pins' = IF x.pageNo = obj[s].pageNo THEN pins ELSE Moved(obj[s].pageNo, x.pageNo)
  BY <1>4
<1> HIDE DEF x, S
<1>10. Becomes(s, x) /\ pins' \in [PageNos -> Int]
  BY <1>1, <1>2, <1>4, <1>7, <1>8, <1>9, Leaves
<1> QED BY <1>2, <1>10

LEMMA ScanNextStep == ASSUME IInv, NEW s \in Scans, ScanNext(s) PROVE IInv'
<1> DEFINE h == First(Hits(s))
           r == <<At(h[1]), h[2]>>
           y == [scan[s] EXCEPT !.out = "going", !.seen = scan[s].seen \cup {r},
                                !.twice = scan[s].twice \/ r \in scan[s].seen]
<1>1. /\ Shape /\ s \in Objects /\ s \notin Readers /\ obj[s].st = "open" /\ Hits(s) # {}
      /\ Goto(s, h[1], r) /\ scan' = [scan EXCEPT ![s] = y]
  BY Kinds DEF ScanNext, IInv
<1>2. UNCHANGED <<dir, recCnt, page, numPages>>
  BY <1>1 DEF Goto
<1>3. /\ h[1] \in DOMAIN dir /\ obj[s].idx <= h[1] /\ h[2] \in 1 .. MaxSlots /\ At(h[1]) \in DataPages
  <2>1. obj[s].idx \in DOMAIN dir /\ obj[s].idx \in Nat
    BY <1>1, Here
  <2>2. h \in Ahead(s)
    BY <1>1, <2>1, AheadFacts
  <2>3. h[1] \in DOMAIN dir /\ h[1] \in obj[s].idx .. Len(dir) /\ h[2] \in 1 .. MaxSlots /\ h[1] \in Nat
    BY <1>1, <2>1, <2>2, AheadFacts
  <2> QED BY <1>1, <2>1, <2>3, DirFacts
<1>4. r \in Rids /\ r \in RecType
  BY <1>3 DEF Rids, RecType
<1> HIDE DEF r, h
<1>5. PICK x \in ObjType : /\ Becomes(s, x) /\ pins' \in [PageNos -> Int]
                           /\ x.st = "open" /\ x.pageNo = At(h[1]) /\ x.idx = h[1]
  BY <1>1, <1>3, <1>4, GotoBecomes
<1>6. y \in ScanType /\ y.mark = scan[s].mark
  <2>1. scan[s] \in ScanType
    BY <1>1 DEF Shape
  <2>2. scan[s].seen \cup {r} \in SUBSET Rids /\ (scan[s].twice \/ r \in scan[s].seen) \in BOOLEAN
    BY <1>4, <2>1, ScanFacts
  <2> QED BY <2>1, <2>2 DEF ScanType
<1>7. scan[s].mark.pageNo # 0 => scan[s].mark.idx \in DOMAIN dir /\ At(scan[s].mark.idx) = scan[s].mark.pageNo
  BY DEF IInv, Placed, ScansPlaced, Marked
<1> HIDE DEF y
<1>8. ScansPlaced'
  BY <1>1, <1>2, <1>5, <1>6, <1>7, ScanChanged
<1>9. numPages' \in numPages .. MaxPages + 2
  BY <1>1, <1>2, NumPagesStay
<1> QED BY <1>1, <1>2, <1>3, <1>5, <1>8, <1>9, QuietStep

LEMMA ScanEofStep == ASSUME IInv, NEW s \in Scans, ScanEof(s) PROVE IInv'
<1> DEFINE i == Len(dir)
           there == {x \in Ahead(s) : x[1] = i}
           r == IF there # {} THEN <<At(i), Last(there)[2]>>
                ELSE IF i = obj[s].idx THEN obj[s].rec ELSE NULLRID
           y == [scan[s] EXCEPT !.out = "eof"]
<1>1. /\ Shape /\ s \in Objects /\ s \notin Readers /\ obj[s].st = "open"
      /\ Goto(s, i, r) /\ scan' = [scan EXCEPT ![s] = y]
  BY Kinds DEF ScanEof, IInv
<1>2. UNCHANGED <<dir, recCnt, page, numPages>>
  BY <1>1 DEF Goto
<1>3. /\ obj[s].idx \in DOMAIN dir /\ obj[s].idx \in Nat /\ obj[s].rec \in RecType
      /\ i \in DOMAIN dir /\ obj[s].idx <= i /\ At(i) \in DataPages /\ i \in Nat
  BY <1>1, Here, DirFacts
<1>4. r \in RecType
  <2>1. CASE there # {}
    <3>1. there \subseteq {i} \X (0 .. MaxSlots)
      BY <1>1, <1>3, AheadFacts
    <3>2. Last(there) \in there
      BY <1>3, <2>1, <3>1, LastFacts, Sizes
    <3>3. Last(there)[2] \in 1 .. MaxSlots
      BY <1>1, <1>3, <3>2, AheadFacts
    <3> QED BY <1>3, <2>1, <3>3 DEF RecType, Rids
  <2>2. CASE there = {}
    BY <1>3, <2>2 DEF RecType
  <2> QED BY <2>1, <2>2
<1> HIDE DEF r
<1>5. PICK x \in ObjType : /\ Becomes(s, x) /\ pins' \in [PageNos -> Int]
                           /\ x.st = "open" /\ x.pageNo = At(i) /\ x.idx = i
  BY <1>1, <1>3, <1>4, GotoBecomes
<1>6. y \in ScanType /\ y.mark = scan[s].mark
  <2>1. scan[s] \in ScanType
    BY <1>1 DEF Shape
  <2> QED BY <2>1 DEF ScanType
<1>7. scan[s].mark.pageNo # 0 => scan[s].mark.idx \in DOMAIN dir /\ At(scan[s].mark.idx) = scan[s].mark.pageNo
  BY DEF IInv, Placed, ScansPlaced, Marked
<1> HIDE DEF y
<1>8. ScansPlaced'
  BY <1>1, <1>2, <1>5, <1>6, <1>7, ScanChanged
<1>9. numPages' \in numPages .. MaxPages + 2
  BY <1>1, <1>2, NumPagesStay
<1> QED BY <1>1, <1>2, <1>3, <1>5, <1>8, <1>9, QuietStep

LEMMA ScanFailsStep == ASSUME IInv, NEW s \in Scans, ScanFails(s) PROVE IInv'
<1> DEFINE c == obj[s]
<1>1. /\ Shape /\ s \in Objects /\ s \notin Readers /\ c.st = "open" /\ Fail(s) /\ pins' = Released(s)
      /\ scan' = [scan EXCEPT ![s] = NoScan] /\ UNCHANGED <<dir, recCnt, page, numPages>>
  BY Kinds DEF ScanFails, IInv
<1>2. c.idx \in DOMAIN dir /\ c.idx \in Nat /\ At(c.idx) = c.pageNo
  BY <1>1, Here
<1>3. \E S : unsaved' = Reported(S, c.dirty) /\ c.pageNo \in S
  <2>1. CASE unsaved' = Reported({c.pageNo}, c.dirty)
    BY <2>1
  <2>2. CASE \E i \in c.idx + 1 .. Goal(s) : unsaved' = Reported(Passed(c.idx, i), c.dirty)
    <3>1. PICK i \in c.idx + 1 .. Goal(s) : unsaved' = Reported(Passed(c.idx, i), c.dirty)
      BY <2>2
    <3>2. i \in Int /\ c.idx + 1 <= i
      OBVIOUS
    <3>3. c.pageNo \in Passed(c.idx, i)
      BY <1>2, <3>2 DEF Passed
    <3> QED BY <3>1, <3>3
  <2> QED BY <2>1, <2>2 DEF ScanFails
<1>4. PICK S : unsaved' = Reported(S, c.dirty) /\ c.pageNo \in S
  BY <1>3
<1>5. PICK x \in ObjType : Becomes(s, x) /\ x.st = "failed" /\ pins' \in [PageNos -> Int]
  BY <1>1, <1>4, FailBecomes
<1>6. ScansPlaced'
  BY <1>1, <1>5, ScanChanged, ClosedFacts
<1>7. numPages' \in numPages .. MaxPages + 2
  BY <1>1, NumPagesStay
<1> QED BY <1>1, <1>5, <1>6, <1>7, QuietStep

LEMMA MarkScanStep == ASSUME IInv, NEW s \in Scans, MarkScan(s) PROVE IInv'
<1> DEFINE c == obj[s]
           m == [pageNo |-> c.pageNo, idx |-> c.idx, rec |-> c.rec, seen |-> scan[s].seen,
                 fresh |-> scan[s].fresh]
           y == [scan[s] EXCEPT !.mark = m]
<1>1. /\ Shape /\ s \in Objects /\ s \notin Readers /\ c.st = "open" /\ scan' = [scan EXCEPT ![s] = y]
      /\ UNCHANGED <<pins, unsaved, obj>> /\ UNCHANGED <<dir, recCnt, page, numPages>>
  BY Kinds DEF MarkScan, IInv
<1>2. /\ c.pageNo \in DataPages /\ c.idx \in DOMAIN dir /\ c.idx \in Nat /\ At(c.idx) = c.pageNo /\ c.rec \in RecType
  BY <1>1, Here
<1>3. scan[s] \in ScanType
  BY <1>1 DEF Shape
<1>4. m \in MarkType
  BY <1>2, <1>3, ScanFacts DEF MarkType
<1>5. y \in ScanType /\ y.mark.pageNo = c.pageNo /\ y.mark.idx = c.idx
  BY <1>3, <1>4 DEF ScanType
<1>6. Becomes(s, obj[s]) /\ pins' \in [PageNos -> Int]
  BY <1>1, Stays
<1> HIDE DEF y
<1>7. ScansPlaced'
  BY <1>1, <1>2, <1>5, <1>6, ScanChanged
<1>8. numPages' \in numPages .. MaxPages + 2
  BY <1>1, NumPagesStay
<1> QED BY <1>1, <1>2, <1>6, <1>7, <1>8, QuietStep

LEMMA ResetScanStep == ASSUME IInv, NEW s \in Scans, ResetScan(s) PROVE IInv'
<1> DEFINE c == obj[s]
           m == scan[s].mark
           here == m.pageNo = c.pageNo
           x == IF here THEN c
                ELSE [c EXCEPT !.pageNo = m.pageNo, !.idx = m.idx, !.dirty = FALSE, !.rec = m.rec]
           y == IF here THEN [scan[s] EXCEPT !.out = "going"]
                ELSE [scan[s] EXCEPT !.out = "going", !.seen = m.seen, !.fresh = m.fresh,
                                     !.due = IF m.fresh THEN scan[s].due ELSE {}]
<1>1. /\ Shape /\ s \in Objects /\ s \notin Readers /\ c.st = "open" /\ m.pageNo # 0
      /\ UNCHANGED <<dir, recCnt, page, numPages>>
  BY Kinds DEF ResetScan, IInv
<1>2. scan' = [scan EXCEPT ![s] = y]
  BY DEF ResetScan
<1>3. c \in ObjType /\ c.pageNo \in DataPages /\ c.idx \in DOMAIN dir /\ At(c.idx) = c.pageNo /\ c.dirty \in BOOLEAN
  BY <1>1, Here
<1>4. scan[s] \in ScanType /\ m \in MarkType
  BY <1>1, ScanFacts DEF Shape
<1>5. /\ m.idx \in DOMAIN dir /\ At(m.idx) = m.pageNo /\ m.pageNo \in DataPages
      /\ m.rec \in RecType /\ m.idx \in Nat
  <2>1. m.idx \in DOMAIN dir /\ At(m.idx) = m.pageNo
    BY <1>1 DEF IInv, Placed, ScansPlaced, Marked
  <2> QED BY <1>1, <1>4, <2>1, DirFacts, ScanFacts
<1>6. /\ x \in ObjType /\ x.st = "open" /\ x.hdrDirty = c.hdrDirty
      /\ x.pageNo \in DataPages /\ x.idx \in DOMAIN dir /\ At(x.idx) = x.pageNo
  BY <1>1, <1>3, <1>5 DEF ObjType
<1>7. y \in ScanType /\ y.mark = m
  <2>1. (IF m.fresh THEN scan[s].due ELSE {}) \in SUBSET Rids /\ m.seen \in SUBSET Rids /\ m.fresh \in BOOLEAN
    BY <1>4, ScanFacts
  <2> QED BY <1>4, <2>1 DEF ScanType
<1>8. Becomes(s, x) /\ pins' \in [PageNos -> Int]
  <2>1. CASE here
    <3>1. x = obj[s] /\ UNCHANGED <<pins, unsaved, obj>>
      BY <2>1 DEF ResetScan
    <3> QED BY <1>1, <3>1, Stays
  <2>2. CASE ~here
    <3>1. /\ obj' = [obj EXCEPT ![s] = x] /\ unsaved' = Reported({c.pageNo}, c.dirty)
          /\ x.pageNo # c.pageNo /\ pins' = Moved(c.pageNo, x.pageNo)
      BY <1>3, <2>2 DEF ResetScan, ObjType
    <3> HIDE DEF x, c
    <3>2. c = obj[s]
      BY DEF c
    <3> QED BY <1>1, <1>3, <1>6, <3>1, <3>2, Leaves
  <2> QED BY <2>1, <2>2
<1> HIDE DEF x, y
<1>9. ScansPlaced'
  BY <1>1, <1>2, <1>5, <1>6, <1>7, <1>8, ScanChanged
<1>10. numPages' \in numPages .. MaxPages + 2
  BY <1>1, NumPagesStay
<1> QED BY <1>1, <1>6, <1>8, <1>9, <1>10, QuietStep

LEMMA GetRecordStep == ASSUME IInv, NEW o \in Readers, NEW r \in Records, GetRecord(o, r) PROVE IInv'
<1> DEFINE c == obj[o]
           x == [c EXCEPT !.pageNo = r[1], !.dirty = FALSE]
<1>1. /\ Shape /\ o \in Objects /\ o \notin Scans /\ c.st = "open" /\ r[1] # c.pageNo
      /\ unsaved' = Reported({c.pageNo}, c.dirty) /\ UNCHANGED <<dir, recCnt, page, numPages, scan>>
  BY Kinds DEF GetRecord, IInv
<1>2. /\ c \in ObjType /\ c.pageNo \in DataPages /\ c.idx \in DOMAIN dir /\ r[1] \in DataPages
  BY <1>1, Here, RecordFacts
<1>3. \E z \in ObjType : /\ Becomes(o, z) /\ pins' \in [PageNos -> Int] /\ z.st # "closed"
                         /\ z.st = "open" => z.pageNo \in DataPages /\ z.idx \in DOMAIN dir
  <2>1. CASE pins' = Moved(c.pageNo, r[1]) /\ obj' = [obj EXCEPT ![o] = x]
    <3>1. x \in ObjType /\ x.pageNo = r[1] /\ x.idx = c.idx /\ x.st = "open" /\ x.hdrDirty = c.hdrDirty
      BY <1>1, <1>2 DEF ObjType
    <3> HIDE DEF x, c
    <3>2. c = obj[o]
      BY DEF c
    <3>3. x.pageNo # c.pageNo /\ pins' = Moved(c.pageNo, x.pageNo) /\ c.pageNo \in {c.pageNo}
      BY <1>1, <2>1, <3>1
    <3>4. Becomes(o, x) /\ pins' \in [PageNos -> Int]
      BY <1>1, <1>2, <2>1, <3>1, <3>2, <3>3, Leaves
    <3> QED BY <1>2, <3>1, <3>4
  <2>2. CASE pins' = Released(o) /\ Fail(o)
    BY <1>1, <2>2, FailBecomes
  <2> QED BY <2>1, <2>2 DEF GetRecord
<1>4. PICK z \in ObjType : /\ Becomes(o, z) /\ pins' \in [PageNos -> Int] /\ z.st # "closed"
                           /\ z.st = "open" => z.pageNo \in DataPages /\ z.idx \in DOMAIN dir
  BY <1>3
<1>5. ScansPlaced'
  BY <1>1, <1>4, OtherScans
<1>6. numPages' \in numPages .. MaxPages + 2
  BY <1>1, NumPagesStay
<1> QED BY <1>1, <1>4, <1>5, <1>6, QuietStep

-----------------------------------------------------------------------------
(* The calls that change a page *)

LEMMA PutStep ==
  ASSUME IInv, NEW o \in Inserters, NEW v \in Vals, obj[o].st = "open",
         NEW d \in Seq(DirEntry), NEW i \in 1 .. Len(d), NEW p \in DataPages, d[i].pageNo = p,
         Len(dir) <= Len(d), \A j \in DOMAIN dir : d[j].pageNo = At(j),
         \A j, k \in 1 .. Len(d) : d[j].pageNo = d[k].pageNo => j = k,
         \A j \in 1 .. Len(d) : d[j].pageNo < numPages' /\ d[j].freeSpace <= FreeIn(page[d[j].pageNo]),
         FreeIn(page[p]) >= RecLen + SlotSize, obj[o].idx <= i, numPages' \in 3 .. MaxPages + 2,
         pins' = IF p = obj[o].pageNo THEN pins ELSE Moved(obj[o].pageNo, p),
         Put(o, v, d, i, p)
  PROVE  IInv'
<1> DEFINE c == obj[o]
           pg == WithRecord(page[p], v)
           x == [c EXCEPT !.pageNo = p, !.idx = i, !.dirty = TRUE, !.hdrDirty = TRUE]
<1>1. /\ Shape /\ o \in Objects /\ o \notin Readers /\ o \notin Scans
      /\ c \in ObjType /\ c.pageNo \in DataPages /\ c.idx \in DOMAIN dir /\ c.idx \in Nat /\ At(c.idx) = c.pageNo
      /\ c.dirty \in BOOLEAN
  BY Here, Kinds DEF IInv
<1>2. Len(dir) \in Nat /\ DOMAIN dir = 1 .. Len(dir) /\ Len(d) \in Nat /\ i \in Nat
  BY <1>1, DirFacts
<1>3. /\ recCnt' = recCnt + 1 /\ recCnt < MaxRecCnt /\ page' = [page EXCEPT ![p] = pg]
      /\ dir' = [d EXCEPT ![i].freeSpace = FreeIn(pg)] /\ obj' = [obj EXCEPT ![o] = x] /\ scan' = scan
  BY DEF Put, DirAfter
<1>4. /\ unsaved' \in [PageNos -> BOOLEAN]
      /\ \A q \in PageNos : unsaved'[q] => q = Hdr \/ q = p \/ (unsaved[q] /\ ~(c.dirty /\ q \in Passed(c.idx, i)))
  <2>1. unsaved' = [q \in PageNos |-> q \in {Hdr, p} \/ Reported(Passed(c.idx, i), c.dirty)[q]]
    BY DEF Put
  <2>2. \A q \in PageNos : /\ Reported(Passed(c.idx, i), c.dirty)[q] \in BOOLEAN
                           /\ Reported(Passed(c.idx, i), c.dirty)[q]
                                <=> unsaved[q] /\ ~(c.dirty /\ q \in Passed(c.idx, i))
    BY <1>1, ReportedFacts
  <2> QED BY <2>1, <2>2
<1>5. page[p] \in Seq(Content) /\ page \in [DataPages -> Seq(Content)] /\ recCnt \in 0 .. MaxRecCnt
  BY <1>1 DEF Shape
<1>6. pg \in Seq(Content) /\ FreeIn(pg) \in 0 .. Area
  <2>1. pg \in Seq(Content) /\ FreeIn(pg) >= FreeIn(page[p]) - RecLen - SlotSize
    BY <1>5, WithFacts
  <2>2. FreeIn(pg) \in Int /\ FreeIn(pg) <= Area /\ FreeIn(page[p]) \in Int
    BY <1>5, <2>1, PageFacts
  <2>3. RecLen \in Nat /\ SlotSize \in Nat /\ Area \in Nat
    BY Sizes
  <2> QED BY <2>1, <2>2, <2>3
<1>7. x \in ObjType /\ x.st = "open" /\ x.pageNo = p /\ x.idx = i /\ x.dirty /\ x.hdrDirty
  BY <1>1, <1>2 DEF ObjType
<1> HIDE DEF pg, x
(* the directory and the pages *)
<1>8. /\ dir' \in Seq(DirEntry) /\ Len(dir') = Len(d) /\ DOMAIN dir' = 1 .. Len(d)
      /\ \A j \in 1 .. Len(d) : /\ dir'[j].pageNo = d[j].pageNo
                                /\ dir'[j].freeSpace = IF j = i THEN FreeIn(pg) ELSE d[j].freeSpace
  <2>1. \A j \in 1 .. Len(d) : d[j] \in DirEntry
    BY ElementOfSeq
  <2>2. dir' \in [1 .. Len(d) -> DirEntry]
    <3>1. [d[i] EXCEPT !.freeSpace = FreeIn(pg)] \in DirEntry
      BY <1>6, <2>1 DEF DirEntry
    <3>2. d \in [1 .. Len(d) -> DirEntry]
      BY <2>1
    <3> QED BY <1>3, <3>1, <3>2
  <2>3. dir' \in Seq(DirEntry) /\ Len(dir') = Len(d) /\ DOMAIN dir' = 1 .. Len(d)
    BY <1>2, <2>2, SeqDef
  <2> QED BY <1>3, <2>1, <2>3 DEF DirEntry
<1>9. /\ \A q \in DataPages : page'[q] = IF q = p THEN pg ELSE page[q]
      /\ page' \in [DataPages -> Seq(Content)]
  BY <1>3, <1>5, <1>6
<1>10. Directory'
  <2>0. \A q \in DataPages : FreeIn(page'[q]) = IF q = p THEN FreeIn(pg) ELSE FreeIn(page[q])
    BY <1>9
  <2>1. ASSUME NEW q \in DataPages PROVE FreeIn(page'[q]) >= 0
    BY <1>6, <2>0 DEF IInv, Directory
  <2>2. \A j \in DOMAIN dir' : At(j)' = d[j].pageNo
    BY <1>8 DEF At
  <2>3. ASSUME NEW j \in DOMAIN dir'
        PROVE  At(j)' < numPages' /\ dir'[j].freeSpace <= FreeIn(page'[At(j)'])
    <3>1. d[j].pageNo < numPages' /\ d[j].freeSpace <= FreeIn(page[d[j].pageNo]) /\ d[j].pageNo \in DataPages
          /\ (d[j].pageNo = p => j = i)
      <4>1. d[j] \in DirEntry
        BY <1>8, ElementOfSeq
      <4> QED BY <1>8, <4>1 DEF DirEntry
    <3>2. FreeIn(page'[At(j)']) = IF j = i THEN FreeIn(pg) ELSE FreeIn(page[d[j].pageNo])
      BY <2>0, <2>2, <3>1
    <3>3. FreeIn(pg) <= FreeIn(pg)
      BY <1>6
    <3> QED BY <1>8, <2>2, <3>1, <3>2, <3>3
  <2>4. \A j, k \in DOMAIN dir' : At(j)' = At(k)' => j = k
    BY <1>8, <2>2
  <2>5. ASSUME NEW q \in DataPages, \A j \in DOMAIN dir' : At(j)' # q PROVE page'[q] = <<>>
    <3>1. q # p
      BY <1>8, <2>2, <2>5
    <3>2. \A j \in DOMAIN dir : At(j) # q
      BY <1>2, <1>8, <2>2, <2>5
    <3> QED BY <1>9, <3>1, <3>2 DEF IInv, Directory
  <2> QED BY <2>1, <2>3, <2>4, <2>5 DEF Directory
(* pins and changes *)
<1>11. Becomes(o, x)
  <2>1. \A q \in PageNos : pins'[q] = pins[q] - One(q \in Holds(obj[o])) + One(q \in Holds(x))
    BY <1>1, <1>7, PinsMove
  <2>2. ASSUME NEW q \in PageNos, unsaved'[q]
        PROVE  Says(x, q) \/ (unsaved[q] /\ ~Says(obj[o], q))
    <3>1. CASE q = Hdr \/ q = p
      BY <1>7, <3>1 DEF Says
    <3>2. CASE q # Hdr /\ q # p
      <4>1. unsaved[q] /\ ~(c.dirty /\ q \in Passed(c.idx, i))
        BY <1>4, <2>2, <3>2
      <4>2. CASE q # c.pageNo
        BY <3>2, <4>1, <4>2 DEF Says
      <4>3. CASE q = c.pageNo
        <5>1. c.idx # i
          BY <1>1, <3>2, <4>3
        <5>2. q \in Passed(c.idx, i)
          BY <1>1, <1>2, <4>3, <5>1 DEF Passed
        <5> QED BY <3>2, <4>1, <5>2 DEF Says
      <4> QED BY <4>2, <4>3
    <3> QED BY <3>1, <3>2
  <2> QED BY <1>3, <1>4, <1>7, <2>1, <2>2 DEF Becomes
<1>12. pins' \in [PageNos -> Nat]
  <2>1. pins' \in [PageNos -> Int]
    BY <1>1, <1>7, PinsMove
  <2> QED BY <1>1, <1>11, <2>1, PinNat DEF IInv
<1>13. Shape'
  <2>1. obj' \in [Objects -> ObjType] /\ scan' \in [Scans -> ScanType]
    BY <1>1, <1>3, <1>7 DEF Shape
  <2>2. recCnt' \in 0 .. MaxRecCnt
    <3>1. recCnt \in 0 .. MaxRecCnt /\ recCnt' = recCnt + 1 /\ recCnt < MaxRecCnt /\ MaxRecCnt \in Nat
      BY <1>3, <1>5, Sizes
    <3> QED BY <3>1
  <2>3. Len(dir') > 0
    BY <1>2, <1>8
  <2> QED BY <1>4, <1>8, <1>9, <1>12, <2>1, <2>2, <2>3 DEF Shape
(* where the objects stand *)
<1>14. ASSUME NEW j \in DOMAIN dir PROVE j \in DOMAIN dir' /\ At(j)' = At(j)
  <2>1. j \in 1 .. Len(d)
    BY <1>2
  <2>2. dir'[j].pageNo = d[j].pageNo /\ DOMAIN dir' = 1 .. Len(d)
    BY <1>8, <2>1
  <2> QED BY <2>1, <2>2 DEF At
<1>15. Placed'
  <2>1. \A b \in Objects : obj'[b] = IF b = o THEN x ELSE obj[b]
    BY <1>1, <1>3 DEF Shape
  <2>2. i \in DOMAIN dir' /\ At(i)' = p
    BY <1>8 DEF At
  <2>3. ASSUME NEW b \in Objects PROVE Standing(b)' /\ (obj'[b].st = "closed" => obj'[b] = Closed)
    <3>1. CASE b = o
      BY <1>7, <2>1, <2>2, <3>1 DEF Standing, At
    <3>2. CASE b # o
      <4>1. obj'[b] = obj[b] /\ Standing(b) /\ (obj[b].st = "closed" => obj[b] = Closed)
        BY <2>1, <3>2 DEF IInv, Placed
      <4> QED BY <1>14, <4>1 DEF Standing, At
    <3> QED BY <3>1, <3>2
  <2>4. ASSUME NEW s \in Scans PROVE Marked(s)'
    <3>1. obj'[s] = obj[s] /\ scan'[s] = scan[s] /\ Marked(s)
      BY <1>1, <1>3, <2>1, Kinds DEF IInv, Placed, ScansPlaced
    <3> QED BY <1>14, <3>1 DEF Marked, At
  <2> QED BY <1>13, <2>3, <2>4 DEF Placed, ScansPlaced, Shape
<1> QED BY <1>1, <1>10, <1>11, <1>13, <1>15, PinsStep, UpdatesStep DEF IInv

LEMMA InsertRecordStep == ASSUME IInv, NEW o \in Inserters, NEW v \in Vals, InsertRecord(o, v) PROVE IInv'
<1> DEFINE t == Target(o)
           p == At(t)
<1>1. /\ Shape /\ o \in Objects /\ obj[o].st = "open" /\ Roomy(o) # {}
      /\ Put(o, v, dir, t, p) /\ numPages' = numPages
      /\ pins' = IF t = obj[o].idx THEN pins ELSE Moved(obj[o].pageNo, p)
  BY Kinds DEF InsertRecord, IInv
<1>2. obj[o].idx \in DOMAIN dir /\ obj[o].idx \in Nat /\ At(obj[o].idx) = obj[o].pageNo
      /\ DOMAIN dir = 1 .. Len(dir) /\ Len(dir) \in Nat
  BY <1>1, Here, Kinds, DirFacts
<1>3. t \in Roomy(o)
  BY <1>1, <1>2, TargetFacts
<1>4. t \in obj[o].idx .. Len(dir) /\ dir[t].freeSpace >= RecLen + SlotSize
  BY <1>3 DEF Roomy, Room
<1>5. t \in 1 .. Len(dir) /\ t \in DOMAIN dir /\ obj[o].idx <= t
  BY <1>2, <1>4
<1> HIDE DEF t
<1>6. p \in DataPages /\ dir[t].pageNo = p /\ dir[t].freeSpace \in Nat
  BY <1>1, <1>5, DirFacts DEF At
<1>7. FreeIn(page[p]) >= RecLen + SlotSize
  <2>1. dir[t].freeSpace <= FreeIn(page[p])
    BY <1>5 DEF IInv, Directory
  <2>2. page[p] \in Seq(Content)
    BY <1>1, <1>6 DEF Shape
  <2>3. FreeIn(page[p]) \in Int
    BY <2>2, PageFacts
  <2> QED BY <1>4, <1>6, <2>1, <2>3, Sizes
<1>8. t = obj[o].idx <=> p = obj[o].pageNo
  BY <1>2, <1>5 DEF IInv, Directory
<1>9. /\ \A j, k \in 1 .. Len(dir) : dir[j].pageNo = dir[k].pageNo => j = k
      /\ \A j \in 1 .. Len(dir) : dir[j].pageNo < numPages' /\ dir[j].freeSpace <= FreeIn(page[dir[j].pageNo])
      /\ \A j \in DOMAIN dir : dir[j].pageNo = At(j)
  BY <1>1, <1>2 DEF IInv, Directory, At
<1>10. dir \in Seq(DirEntry) /\ numPages' \in 3 .. MaxPages + 2 /\ Len(dir) <= Len(dir)
  BY <1>1, <1>2 DEF Shape
<1> HIDE DEF p
<1> QED BY <1>1, <1>5, <1>6, <1>7, <1>8, <1>9, <1>10, PutStep

LEMMA InsertInNewPageStep ==
  ASSUME IInv, NEW o \in Inserters, NEW v \in Vals, InsertInNewPage(o, v) PROVE IInv'
<1> DEFINE p == numPages
           e == [pageNo |-> p, freeSpace |-> Area]
           d == Append(dir, e)
           n == Len(dir)
<1>1. /\ Shape /\ o \in Objects /\ obj[o].st = "open" /\ p \in DataPages
      /\ Put(o, v, d, Len(d), p) /\ numPages' = p + 1 /\ pins' = Moved(obj[o].pageNo, p)
  BY Kinds DEF InsertInNewPage, IInv
<1>2. obj[o].idx \in DOMAIN dir /\ obj[o].idx \in Nat /\ At(obj[o].idx) = obj[o].pageNo
      /\ DOMAIN dir = 1 .. n /\ n \in Nat /\ p \in Nat /\ \A j \in DOMAIN dir : At(j) \in Nat
  BY <1>1, Here, Kinds, DirFacts, Sizes
<1>3. e \in DirEntry /\ dir \in Seq(DirEntry) /\ e.pageNo = p /\ e.freeSpace = Area
  BY <1>1, Sizes DEF DirEntry, Shape
<1> HIDE DEF e
<1>4. /\ d \in Seq(DirEntry) /\ Len(d) = n + 1 /\ d[n + 1] = e /\ \A j \in 1 .. n : d[j] = dir[j]
  BY <1>2, <1>3
<1> HIDE DEF d
<1>5. \A j \in DOMAIN dir : At(j) < p
  BY DEF IInv, Directory
<1>6. p # obj[o].pageNo
  BY <1>2, <1>5
<1>7. page[p] = <<>>
  <2>1. \A j \in DOMAIN dir : At(j) # p
    BY <1>2, <1>5
  <2> QED BY <1>1, <2>1 DEF IInv, Directory
<1>8. FreeIn(page[p]) = Area
  <2>1. UsedIn(<<>>) = {} /\ Len(<<>>) = 0
    BY DEF UsedIn
  <2>2. Cardinality({}) = 0
    BY FS_EmptySet
  <2>3. SlotSize * 0 = 0 /\ RecLen * 0 = 0
    BY Sizes
  <2>4. FreeIn(<<>>) = Area - SlotSize * 0 - RecLen * 0
    BY <2>1, <2>2 DEF FreeIn
  <2> QED BY <1>7, <2>3, <2>4, Sizes
<1>9. ASSUME NEW j \in 1 .. n + 1
      PROVE  /\ j \in 1 .. n \/ j = n + 1
             /\ d[j].pageNo = IF j = n + 1 THEN p ELSE At(j)
             /\ d[j].freeSpace = IF j = n + 1 THEN Area ELSE dir[j].freeSpace
  BY <1>2, <1>3, <1>4 DEF At
<1>10. \A j \in DOMAIN dir : d[j].pageNo = At(j)
  BY <1>2, <1>4 DEF At
<1>11. \A j, k \in 1 .. n + 1 : d[j].pageNo = d[k].pageNo => j = k
  <2>1. \A j, k \in DOMAIN dir : At(j) = At(k) => j = k
    BY DEF IInv, Directory
  <2>2. \A j \in DOMAIN dir : At(j) # p
    BY <1>2, <1>5
  <2>3. ASSUME NEW j \in 1 .. n + 1, NEW k \in 1 .. n + 1, d[j].pageNo = d[k].pageNo PROVE j = k
    <3>1. CASE j = n + 1 /\ k = n + 1
      BY <3>1
    <3>2. CASE j = n + 1 /\ k # n + 1
      BY <1>2, <1>9, <2>2, <2>3, <3>2
    <3>3. CASE j # n + 1 /\ k = n + 1
      BY <1>2, <1>9, <2>2, <2>3, <3>3
    <3>4. CASE j # n + 1 /\ k # n + 1
      <4>1. j \in DOMAIN dir /\ k \in DOMAIN dir /\ At(j) = At(k)
        BY <1>2, <1>9, <2>3, <3>4
      <4> QED BY <2>1, <4>1
    <3> QED BY <3>1, <3>2, <3>3, <3>4
  <2> QED BY <2>3
<1>12. ASSUME NEW j \in 1 .. n + 1
       PROVE  d[j].pageNo < numPages' /\ d[j].freeSpace <= FreeIn(page[d[j].pageNo])
  <2>1. CASE j = n + 1
    <3>1. d[j].pageNo = p /\ d[j].freeSpace = Area
      BY <1>9, <2>1
    <3>2. p < numPages' /\ Area <= FreeIn(page[p])
      BY <1>1, <1>2, <1>8, Sizes
    <3> QED BY <3>1, <3>2
  <2>2. CASE j # n + 1
    <3>1. j \in DOMAIN dir /\ d[j].pageNo = At(j) /\ d[j].freeSpace = dir[j].freeSpace /\ At(j) < p
      BY <1>2, <1>5, <1>9, <2>2
    <3> QED BY <1>1, <1>2, <3>1 DEF IInv, Directory
  <2> QED BY <2>1, <2>2
<1>13. /\ Len(d) \in 1 .. Len(d) /\ d[Len(d)].pageNo = p /\ n <= Len(d)
       /\ FreeIn(page[p]) >= RecLen + SlotSize /\ obj[o].idx <= Len(d)
       /\ numPages' \in 3 .. MaxPages + 2
  <2>1. numPages \in 3 .. MaxPages + 2 /\ numPages \in 2 .. MaxPages + 1
    BY <1>1 DEF Shape, DataPages
  <2> QED BY <1>1, <1>2, <1>3, <1>4, <1>8, <2>1, Sizes
<1> HIDE DEF p
<1> QED BY <1>1, <1>4, <1>6, <1>10, <1>11, <1>12, <1>13, PutStep

(* the scan's page gets the content pg, and the object reports it *)
LEMMA ChangeStep ==
  ASSUME IInv, NEW s \in Scans, Current(s), NEW pg \in Seq(Content),
         FreeIn(pg) >= FreeIn(page[obj[s].pageNo]),
         page' = [page EXCEPT ![obj[s].pageNo] = pg],
         NEW h \in BOOLEAN, obj[s].hdrDirty => h, unsaved'[Hdr] => h \/ unsaved[Hdr],
         obj' = [obj EXCEPT ![s] = [obj[s] EXCEPT !.dirty = TRUE, !.hdrDirty = h]],
         unsaved' \in [PageNos -> BOOLEAN],
         \A q \in DataPages : q # obj[s].pageNo => unsaved'[q] = unsaved[q],
         recCnt' \in 0 .. MaxRecCnt, scan' = NotDue(obj[s].rec), UNCHANGED <<dir, numPages, pins>>
  PROVE  IInv'
<1> DEFINE c == obj[s]
           p == c.pageNo
           x == [c EXCEPT !.dirty = TRUE, !.hdrDirty = h]
<1>1. /\ Shape /\ s \in Objects /\ s \notin Readers /\ c.st = "open" /\ c.rec \in Records /\ c.rec[1] = p
  BY Kinds DEF Current, IInv
<1>2. /\ c \in ObjType /\ p \in DataPages /\ p # Hdr /\ c.idx \in DOMAIN dir /\ At(c.idx) = p
  BY <1>1, Here, Sizes
<1>3. x \in ObjType /\ x.st = "open" /\ x.pageNo = p /\ x.idx = c.idx /\ x.dirty /\ (x.hdrDirty <=> h)
  BY <1>1, <1>2 DEF ObjType
<1>4. obj' = [obj EXCEPT ![s] = x]
  OBVIOUS
<1> HIDE DEF x
<1>5. /\ page' \in [DataPages -> Seq(Content)]
      /\ \A q \in DataPages : page'[q] = IF q = p THEN pg ELSE page[q]
  BY <1>1, <1>2 DEF Shape
<1>6. \A q \in DataPages : FreeIn(page'[q]) \in Int /\ FreeIn(page[q]) \in Int /\ FreeIn(page'[q]) >= FreeIn(page[q])
  <2>1. ASSUME NEW q \in DataPages
        PROVE  FreeIn(page'[q]) \in Int /\ FreeIn(page[q]) \in Int /\ FreeIn(page'[q]) >= FreeIn(page[q])
    <3>1. page[q] \in Seq(Content) /\ page'[q] \in Seq(Content)
      BY <1>1, <1>5 DEF Shape
    <3>2. FreeIn(page'[q]) \in Int /\ FreeIn(page[q]) \in Int
      BY <3>1, PageFacts
    <3> QED BY <1>5, <3>2
  <2> QED BY <2>1
<1>7. Directory'
  <2>1. \A q \in DataPages : FreeIn(page'[q]) >= 0
    BY <1>6 DEF IInv, Directory
  <2>2. ASSUME NEW i \in DOMAIN dir PROVE At(i) < numPages /\ dir[i].freeSpace <= FreeIn(page'[At(i)])
    <3>1. At(i) \in DataPages /\ dir[i].freeSpace \in Nat
      BY <1>1, DirFacts
    <3>2. At(i) < numPages /\ dir[i].freeSpace <= FreeIn(page[At(i)])
      BY DEF IInv, Directory
    <3> QED BY <1>6, <3>1, <3>2
  <2>3. ASSUME NEW q \in DataPages, \A i \in DOMAIN dir : At(i) # q PROVE page'[q] = <<>>
    BY <1>2, <1>5, <2>3 DEF IInv, Directory
  <2> QED BY <2>1, <2>2, <2>3 DEF IInv, Directory, At
<1>8. Becomes(s, x)
  <2>1. \A q \in PageNos : pins'[q] = pins[q] - One(q \in Holds(obj[s])) + One(q \in Holds(x))
    BY <1>1, <1>2, <1>3, PinsMove
  <2>2. ASSUME NEW q \in PageNos, unsaved'[q]
        PROVE  Says(x, q) \/ (unsaved[q] /\ ~Says(obj[s], q))
    <3>1. CASE q = Hdr
      <4>1. unsaved'[Hdr]
        BY <2>2, <3>1
      <4>2. CASE h
        BY <1>3, <3>1, <4>2 DEF Says
      <4>3. CASE ~h
        <5>1. unsaved[Hdr] /\ ~obj[s].hdrDirty
          BY <4>1, <4>3
        <5> QED BY <3>1, <5>1 DEF Says
      <4> QED BY <4>2, <4>3
    <3>2. CASE q = p
      BY <1>2, <1>3, <3>2 DEF Says
    <3>3. CASE q \in DataPages /\ q # p /\ q # Hdr
      BY <2>2, <3>3 DEF Says
    <3> QED BY <3>1, <3>2, <3>3, Sizes
  <2> QED BY <1>3, <1>4, <2>1, <2>2 DEF Becomes
<1>9. scan' \in [Scans -> ScanType] /\ \A b \in Scans : scan'[b].mark = scan[b].mark /\ (scan[b] = NoScan => scan'[b] = NoScan)
  <2>1. ASSUME NEW b \in Scans
        PROVE  /\ [scan[b] EXCEPT !.due = scan[b].due \ {c.rec}] \in ScanType
               /\ [scan[b] EXCEPT !.due = scan[b].due \ {c.rec}].mark = scan[b].mark
               /\ scan[b] = NoScan => [scan[b] EXCEPT !.due = scan[b].due \ {c.rec}] = NoScan
    <3>1. scan[b] \in ScanType
      BY <1>1 DEF Shape
    <3>2. /\ [scan[b] EXCEPT !.due = scan[b].due \ {c.rec}] \in ScanType
          /\ [scan[b] EXCEPT !.due = scan[b].due \ {c.rec}].mark = scan[b].mark
      BY <3>1 DEF ScanType
    <3>3. ASSUME scan[b] = NoScan PROVE [scan[b] EXCEPT !.due = scan[b].due \ {c.rec}] = NoScan
      <4>1. scan[b].due \ {c.rec} = scan[b].due
        BY <3>3 DEF NoScan
      <4>2. [scan[b] EXCEPT !.due = scan[b].due] = scan[b]
        BY <3>1 DEF ScanType
      <4> QED BY <3>3, <4>1, <4>2
    <3> QED BY <3>2, <3>3
  <2> QED BY <2>1 DEF NotDue
<1>10. Shape'
  <2>1. obj' \in [Objects -> ObjType]
    BY <1>1, <1>3, <1>4 DEF Shape
  <2> QED BY <1>1, <1>5, <1>9, <2>1 DEF Shape
<1>11. Placed'
  <2>1. \A b \in Objects : obj'[b] = IF b = s THEN x ELSE obj[b]
    BY <1>1, <1>4 DEF Shape
  <2>2. ASSUME NEW b \in Objects PROVE Standing(b)' /\ (obj'[b].st = "closed" => obj'[b] = Closed)
    <3>1. CASE b = s
      BY <1>2, <1>3, <2>1, <3>1 DEF Standing, At
    <3>2. CASE b # s
      BY <2>1, <3>2 DEF IInv, Placed, Standing, At
    <3> QED BY <3>1, <3>2
  <2>3. ASSUME NEW b \in Scans PROVE Marked(b)'
    <3>1. obj'[b].st = obj[b].st /\ Marked(b)
      BY <1>1, <1>3, <2>1, Kinds DEF IInv, Placed, ScansPlaced
    <3> QED BY <1>9, <3>1 DEF Marked, At
  <2> QED BY <1>9, <2>2, <2>3 DEF Placed, ScansPlaced
<1> QED BY <1>1, <1>7, <1>8, <1>10, <1>11, PinsStep, UpdatesStep DEF IInv

LEMMA DeleteRecordStep == ASSUME IInv, NEW s \in Scans, DeleteRecord(s) PROVE IInv'
<1> DEFINE r == obj[s].rec
           p == obj[s].pageNo
           pg == WithoutRecord(page[p], r[2])
<1>1. Shape /\ s \in Objects /\ Current(s) /\ r \in Records /\ r[1] = p /\ recCnt < MaxRecCnt /\ recCnt' = recCnt + 1
  BY Kinds DEF DeleteRecord, Current, IInv
<1>2. r[2] \in UsedIn(page[p]) /\ p \in DataPages /\ p \in PageNos /\ Hdr \in PageNos /\ obj[s].hdrDirty \in BOOLEAN
  <2>1. r[2] \in UsedIn(page[r[1]]) /\ r[1] \in DataPages
    BY <1>1, RecordFacts
  <2>2. obj[s].st = "open"
    BY <1>1 DEF Current
  <2> QED BY <1>1, <2>1, <2>2, Here, Sizes
<1>3. page[p] \in Seq(Content) /\ unsaved \in [PageNos -> BOOLEAN] /\ recCnt \in 0 .. MaxRecCnt
  BY <1>1, <1>2 DEF Shape
<1>4. pg \in Seq(Content) /\ FreeIn(pg) >= FreeIn(page[p])
  BY <1>2, <1>3, WithoutFacts
<1>5. recCnt' \in 0 .. MaxRecCnt
  <2>1. recCnt \in 0 .. MaxRecCnt /\ MaxRecCnt \in Nat /\ recCnt' = recCnt + 1 /\ recCnt < MaxRecCnt
    BY <1>1, <1>3, Sizes
  <2> QED BY <2>1
<1>6. /\ unsaved' \in [PageNos -> BOOLEAN] /\ \A q \in DataPages : q # p => unsaved'[q] = unsaved[q]
  <2>1. unsaved' = [unsaved EXCEPT ![p] = TRUE, ![Hdr] = TRUE]
    BY <1>1 DEF DeleteRecord
  <2> QED BY <1>2, <1>3, <2>1, Sizes
<1>7. /\ page' = [page EXCEPT ![p] = pg] /\ scan' = NotDue(r) /\ UNCHANGED <<dir, numPages, pins>>
      /\ obj' = [obj EXCEPT ![s] = [obj[s] EXCEPT !.dirty = TRUE, !.hdrDirty = TRUE]]
  BY <1>1 DEF DeleteRecord
<1> HIDE DEF pg
<1> QED BY <1>1, <1>4, <1>5, <1>6, <1>7, ChangeStep

LEMMA UpdateRecordStep == ASSUME IInv, NEW s \in Scans, NEW v \in Vals, UpdateRecord(s, v) PROVE IInv'
<1> DEFINE r == obj[s].rec
           p == obj[s].pageNo
           h == obj[s].hdrDirty
           pg == [page[p] EXCEPT ![r[2]] = v]
<1>1. Shape /\ s \in Objects /\ Current(s) /\ r \in Records /\ r[1] = p /\ recCnt' = recCnt
  BY Kinds DEF UpdateRecord, Current, IInv
<1>2. r[2] \in UsedIn(page[p]) /\ p \in DataPages /\ p \in PageNos /\ p # Hdr /\ h \in BOOLEAN /\ obj[s] \in ObjType
  <2>1. r[2] \in UsedIn(page[r[1]]) /\ r[1] \in DataPages
    BY <1>1, RecordFacts
  <2>2. obj[s].st = "open"
    BY <1>1 DEF Current
  <2> QED BY <1>1, <2>1, <2>2, Here, Sizes
<1>3. page[p] \in Seq(Content) /\ unsaved \in [PageNos -> BOOLEAN] /\ recCnt' \in 0 .. MaxRecCnt
  BY <1>1, <1>2 DEF Shape
<1>4. pg \in Seq(Content) /\ FreeIn(pg) >= FreeIn(page[p])
  <2>1. pg \in Seq(Content) /\ FreeIn(pg) = FreeIn(page[p])
    BY <1>2, <1>3, UpdateFacts
  <2> QED BY <1>3, <2>1, PageFacts
<1>5. /\ unsaved' \in [PageNos -> BOOLEAN] /\ \A q \in PageNos : q # p => unsaved'[q] = unsaved[q]
  <2>1. unsaved' = [unsaved EXCEPT ![p] = TRUE]
    BY <1>1 DEF UpdateRecord
  <2> QED BY <1>2, <1>3, <2>1
<1>6. /\ page' = [page EXCEPT ![p] = pg] /\ scan' = NotDue(r) /\ UNCHANGED <<dir, numPages, pins>>
      /\ obj' = [obj EXCEPT ![s] = [obj[s] EXCEPT !.dirty = TRUE]]
  BY <1>1 DEF UpdateRecord
<1>7. [obj[s] EXCEPT !.dirty = TRUE] = [obj[s] EXCEPT !.dirty = TRUE, !.hdrDirty = h]
  BY <1>2 DEF ObjType
<1>8. /\ obj' = [obj EXCEPT ![s] = [obj[s] EXCEPT !.dirty = TRUE, !.hdrDirty = h]]
      /\ unsaved'[Hdr] = unsaved[Hdr] /\ \A q \in DataPages : q # p => unsaved'[q] = unsaved[q]
  BY <1>2, <1>5, <1>6, <1>7, Sizes
<1> HIDE DEF pg
<1> QED BY <1>1, <1>2, <1>3, <1>4, <1>5, <1>6, <1>8, ChangeStep

-----------------------------------------------------------------------------
(* The invariant holds, and the properties follow *)

LEMMA NextStep == IInv /\ [Next]_vars => IInv'
<1> SUFFICES ASSUME IInv, [Next]_vars PROVE IInv'
  OBVIOUS
<1>1. CASE UNCHANGED vars
  BY <1>1 DEF vars, IInv, Shape, Directory, Placed, PinsBalanced, Told, Standing, ScansPlaced,
              Marked, At
<1>2. CASE \E o \in Objects : Open(o) \/ Close(o)
  BY <1>2, OpenStep, CloseStep
<1>3. CASE \E o \in Inserters : InsertFails(o) \/ \E v \in Vals : InsertRecord(o, v) \/ InsertInNewPage(o, v)
  BY <1>3, InsertFailsStep, InsertRecordStep, InsertInNewPageStep
<1>4. CASE \E s \in Scans :
          \/ ScanNext(s) \/ ScanEof(s) \/ ScanFails(s) \/ MarkScan(s) \/ ResetScan(s)
          \/ DeleteRecord(s)
          \/ \E F \in Filters : StartScan(s, F)
          \/ \E v \in Vals : UpdateRecord(s, v)
  BY <1>4, ScanNextStep, ScanEofStep, ScanFailsStep, MarkScanStep, ResetScanStep, DeleteRecordStep,
     StartScanStep, UpdateRecordStep
<1>5. CASE \E o \in Readers, r \in Records : GetRecord(o, r)
  BY <1>5, GetRecordStep
<1> QED BY <1>1, <1>2, <1>3, <1>4, <1>5 DEF Next

LEMMA InitStep == Init => IInv
<1> SUFFICES ASSUME Init PROVE IInv
  OBVIOUS
<1> DEFINE e == [pageNo |-> 2, freeSpace |-> Area]
<1>1. dir = <<e>> /\ e \in DirEntry /\ e.pageNo = 2 /\ e.freeSpace = Area
  BY Sizes DEF Init, DirEntry
<1> HIDE DEF e
<1>2. dir \in Seq(DirEntry) /\ Len(dir) = 1 /\ DOMAIN dir = {1} /\ At(1) = 2 /\ dir[1].freeSpace = Area
  BY <1>1 DEF At
<1>3. \A p \in DataPages : page[p] = <<>>
  BY DEF Init
<1>4. <<>> \in Seq(Content) /\ FreeIn(<<>>) = Area
  <2>1. UsedIn(<<>>) = {} /\ Len(<<>>) = 0 /\ <<>> \in Seq(Content)
    BY DEF UsedIn
  <2>2. Cardinality({}) = 0
    BY FS_EmptySet
  <2>3. SlotSize * 0 = 0 /\ RecLen * 0 = 0
    BY Sizes
  <2>4. FreeIn(<<>>) = Area - SlotSize * 0 - RecLen * 0
    BY <2>1, <2>2 DEF FreeIn
  <2> QED BY <2>1, <2>3, <2>4, Sizes
<1>5. Shape
  <2>1. page \in [DataPages -> Seq(Content)]
    BY <1>4 DEF Init
  <2>2. numPages \in 3 .. MaxPages + 2 /\ recCnt \in 0 .. MaxRecCnt
    BY Sizes DEF Init
  <2>3. obj \in [Objects -> ObjType] /\ scan \in [Scans -> ScanType]
    BY ClosedFacts DEF Init
  <2>4. pins \in [PageNos -> Nat] /\ unsaved \in [PageNos -> BOOLEAN]
    BY DEF Init
  <2> QED BY <1>2, <2>1, <2>2, <2>3, <2>4 DEF Shape
<1>6. Directory
  <2>1. \A p \in DataPages : FreeIn(page[p]) = Area
    BY <1>3, <1>4
  <2>2. numPages = 3
    BY DEF Init
  <2> QED BY <1>2, <1>3, <2>1, <2>2, Sizes DEF Directory
<1>7. Placed
  BY <1>5, ClosedFacts DEF Init, Placed, Standing, ScansPlaced, Marked, Shape, Objects
<1>8. PinsBalanced
  <2>1. \A p \in PageNos : Users(p) = {} /\ pins[p] = 0
    BY ClosedFacts DEF Init, Users, Holds
  <2> QED BY <1>5, <2>1, PinsByUsers, FS_EmptySet
<1>9. Told
  BY DEF Init, Told
<1> QED BY <1>5, <1>6, <1>7, <1>8, <1>9 DEF IInv

(* The inductive invariant: every call of every object, and every failure
   on the way, leaves file, pins and changes as the next call needs them. *)
THEOREM InvariantCorrect == Spec => []IInv
<1>1. Init => IInv
  BY InitStep
<1>2. IInv /\ [Next]_vars => IInv'
  BY NextStep
<1> QED BY <1>1, <1>2, PTL DEF Spec

(* The directory agrees with the data pages, and every object stands on an
   entry there is (heapfile.C: insertRecord, scanNext, resetScan). *)
THEOREM FileCorrect == Spec => []FileSound
<1>1. IInv => FileSound
  <2> SUFFICES ASSUME IInv PROVE FileSound
    OBVIOUS
  <2>1. Shape /\ Directory /\ Placed
    BY DEF IInv
  <2>2. TypeOK
    <3>1. \A i \in DOMAIN dir : dir[i] \in [pageNo : DataPages, freeSpace : 0 .. Area]
      BY <2>1, DirFacts DEF DirEntry
    <3>2. ASSUME NEW p \in DataPages PROVE Len(page[p]) <= MaxSlots /\ FreeIn(page[p]) >= 0
      <4>1. page[p] \in Seq(Content) /\ FreeIn(page[p]) >= 0
        BY <2>1 DEF Shape, Directory
      <4> QED BY <4>1, PageFacts
    <3>3. ASSUME NEW o \in Objects
          PROVE  /\ obj[o].st \in {"closed", "open", "failed"}
                 /\ obj[o].st = "open" => obj[o].idx \in DOMAIN dir /\ obj[o].pageNo \in DataPages
                 /\ obj[o].rec \in Rids \cup {NULLRID}
      <4>1. obj[o] \in ObjType /\ Standing(o)
        BY <2>1 DEF Shape, Placed
      <4> QED BY <4>1, ObjFacts DEF Standing, RecType
    <3>4. \A s \in Scans : scan[s].seen \cup scan[s].due \subseteq Rids
      <4>1. \A s \in Scans : scan[s] \in ScanType
        BY <2>1 DEF Shape
      <4> QED BY <4>1, ScanFacts
    <3> QED BY <2>1, <3>1, <3>2, <3>3, <3>4 DEF TypeOK, Shape
  <2>3. DirectoryAgrees
    <3>1. ASSUME NEW r \in Records PROVE \E i \in DOMAIN dir : At(i) = r[1]
      <4>1. r[1] \in DataPages /\ r[2] \in UsedIn(page[r[1]])
        BY RecordFacts
      <4>2. page[r[1]] # <<>>
        BY <4>1 DEF UsedIn
      <4> QED BY <2>1, <4>1, <4>2 DEF Directory
    <3> QED BY <2>1, <3>1 DEF DirectoryAgrees, Directory
  <2> QED BY <2>2, <2>3 DEF FileSound
<1> QED BY <1>1, InvariantCorrect, PTL

(* A page is pinned once by each object that has it open, and the directory
   also by those dropped after an error (heapfile.C: every pin and unpin). *)
THEOREM PinsCorrect == Spec => []PinsBalanced
<1>1. IInv => PinsBalanced
  BY DEF IInv
<1> QED BY <1>1, InvariantCorrect, PTL

(* Whatever calls fail, a changed page stays pinned until the pool is told,
   by an object that is still open or, of the directory alone, never if all
   that changed it have failed (heapfile.C: curDirtyFlag, hdrDirtyFlag and
   the unpins that report them). *)
THEOREM UpdatesCorrect == Spec => []ChangesKept
<1>1. IInv => ChangesKept
  <2> SUFFICES ASSUME IInv, NEW p \in PageNos, unsaved[p]
               PROVE  /\ pins[p] > 0
                      /\ \/ \E o \in Objects : WillSay(o, p)
                         \/ p = Hdr /\ \E o \in Objects : obj[o].st = "failed" /\ obj[o].hdrDirty
    BY DEF ChangesKept
  <2>1. PICK o \in Objects : Says(obj[o], p)
    BY DEF IInv, Told
  <2>2. obj[o].st \in {"open", "failed"} /\ (obj[o].st = "failed" => p = Hdr /\ obj[o].hdrDirty)
    BY <2>1, ObjFacts DEF IInv, Placed, Shape, Says, Closed
  <2>3. p \in Holds(obj[o])
    BY <2>1, <2>2 DEF Holds, Says
  <2>4. o \in Users(p)
    BY <2>3 DEF Users
  <2>5. pins[p] = Cardinality(Users(p)) /\ pins[p] \in Nat
    BY PinsByUsers DEF IInv, Shape
  <2>6. pins[p] > 0
    BY <2>4, <2>5, UsersFinite, FS_EmptySet
  <2>7. obj[o].st = "open" => WillSay(o, p)
    BY <2>1 DEF Says, WillSay
  <2> QED BY <2>2, <2>6, <2>7
<1> QED BY <1>1, InvariantCorrect, PTL

-----------------------------------------------------------------------------
(* Filtered scans *)

(* Record r is behind, or beyond, slot k of the page of directory entry i;
   it is a record that passes filter F. *)
Behind(d, i, k, r) == \E j \in DOMAIN d : d[j].pageNo = r[1] /\ (j < i \/ (j = i /\ r[2] <= k))
Beyond(d, i, k, r) == \E j \in DOMAIN d : d[j].pageNo = r[1] /\ (j > i \/ (j = i /\ r[2] > k))
Passes(pg, F, r)   == r \in Rids /\ r[2] \in UsedIn(pg[r[1]]) /\ pg[r[1]][r[2]] \in F

(* What a scan has seen is behind it, and what it still has to see beyond. *)
Walk(d, pg, F, i, k, S, D, fresh) ==
    /\ \A r \in S : Behind(d, i, k, r)
    /\ fresh => \A r \in D \ S : Passes(pg, F, r) /\ Beyond(d, i, k, r)

Steady(d, pg, i, k, y) ==
    /\ Walk(d, pg, y.filter, i, k, y.seen, y.due, y.fresh)
    /\ y.mark.pageNo # 0 =>
          Walk(d, pg, y.filter, y.mark.idx, y.mark.rec[2], y.mark.seen, y.due, y.mark.fresh)
    /\ ~y.twice
    /\ y.out = "eof" /\ y.fresh => y.due \subseteq y.seen

(* the same of scan s; the next lemmas are about a step of it *)
SteadyScan(s) == Steady(dir, page, obj[s].idx, obj[s].rec[2], scan[s])

SInv == IInv /\ \A s \in Scans : SteadyScan(s)

-----------------------------------------------------------------------------
LEMMA SteadyNoScan == ASSUME NEW d, NEW pg, NEW i, NEW k PROVE Steady(d, pg, i, k, NoScan)
BY DEF Steady, Walk, NoScan

(* directory entries are never moved *)
Keeps(d, e) == \A j \in DOMAIN d : j \in DOMAIN e /\ e[j].pageNo = d[j].pageNo

LEMMA WalkKept ==
  ASSUME NEW d, NEW e, Keeps(d, e), NEW pg, NEW pg2, NEW F, NEW i, NEW k, NEW S, NEW D, NEW fresh,
         NEW E, E \subseteq D, \A r \in E : Passes(pg, F, r) => Passes(pg2, F, r),
         Walk(d, pg, F, i, k, S, D, fresh)
  PROVE  Walk(e, pg2, F, i, k, S, E, fresh)
<1>1. \A r : Behind(d, i, k, r) => Behind(e, i, k, r)
  BY DEF Keeps, Behind
<1>2. \A r : Beyond(d, i, k, r) => Beyond(e, i, k, r)
  BY DEF Keeps, Beyond
<1> QED BY <1>1, <1>2 DEF Walk

LEMMA SteadyKept ==
  ASSUME NEW d, NEW e, Keeps(d, e), NEW pg, NEW pg2, NEW i, NEW k, NEW y \in ScanType,
         NEW E, E \subseteq y.due, \A F : \A r \in E : Passes(pg, F, r) => Passes(pg2, F, r),
         Steady(d, pg, i, k, y)
  PROVE  Steady(e, pg2, i, k, [y EXCEPT !.due = E])
<1> DEFINE z == [y EXCEPT !.due = E]
<1>1. /\ z.filter = y.filter /\ z.fresh = y.fresh /\ z.seen = y.seen /\ z.twice = y.twice
      /\ z.out = y.out /\ z.mark = y.mark /\ z.due = E
  BY DEF ScanType
<1> HIDE DEF z
<1>2. Walk(e, pg2, y.filter, i, k, y.seen, E, y.fresh)
  BY WalkKept DEF Steady
<1>3. y.mark.pageNo # 0 =>
        Walk(e, pg2, y.filter, y.mark.idx, y.mark.rec[2], y.mark.seen, E, y.mark.fresh)
  BY WalkKept DEF Steady
<1>4. ~y.twice /\ (y.out = "eof" /\ y.fresh => E \subseteq y.seen)
  BY DEF Steady
<1>5. Steady(e, pg2, i, k, z)
  BY <1>1, <1>2, <1>3, <1>4 DEF Steady
<1> QED BY <1>5 DEF z

(* a step that changes one object, and of the scans at most that one *)
LEMMA OneScan ==
  ASSUME SInv, NEW o \in Objects, NEW x, obj' = [obj EXCEPT ![o] = x], UNCHANGED <<dir, page>>,
         NEW y, scan' = [s \in Scans |-> IF s = o THEN y ELSE scan[s]],
         o \in Scans => Steady(dir, page, x.idx, x.rec[2], y)
  PROVE  \A s \in Scans : SteadyScan(s)'
<1>1. ASSUME NEW s \in Scans PROVE SteadyScan(s)'
  <2>1. obj \in [Objects -> ObjType] /\ SteadyScan(s) /\ s \in Objects
    BY Kinds DEF SInv, IInv, Shape
  <2>2. CASE s = o
    <3>1. obj'[s] = x /\ scan'[s] = y
      BY <2>1, <2>2
    <3> QED BY <2>2, <3>1 DEF SteadyScan
  <2>3. CASE s # o
    <3>1. obj'[s] = obj[s] /\ scan'[s] = scan[s]
      BY <2>1, <2>3
    <3> QED BY <2>1, <3>1 DEF SteadyScan
  <2> QED BY <2>2, <2>3
<1> QED BY <1>1

LEMMA OneScanExcept ==
  ASSUME SInv, NEW s \in Scans, NEW y
  PROVE  [scan EXCEPT ![s] = y] = [b \in Scans |-> IF b = s THEN y ELSE scan[b]]
BY DEF SInv, IInv, Shape

LEMMA NoScanOf ==
  ASSUME SInv, NEW o \in Objects, o \notin Scans \/ obj[o].st # "open"
  PROVE  scan = [s \in Scans |-> IF s = o THEN NoScan ELSE scan[s]]
<1>1. scan \in [Scans -> ScanType] /\ \A s \in Scans : Marked(s)
  BY DEF SInv, IInv, Shape, Placed, ScansPlaced
<1>2. \A s \in Scans : s = o => scan[s] = NoScan
  BY <1>1 DEF Marked
<1> QED BY <1>1, <1>2

(* objects that are no scans, or not open *)
LEMMA OtherObject ==
  ASSUME SInv, NEW o \in Objects, o \notin Scans \/ obj[o].st # "open",
         NEW x, obj' = [obj EXCEPT ![o] = x], UNCHANGED <<dir, page, scan>>
  PROVE  \A s \in Scans : SteadyScan(s)'
<1>1. scan' = [s \in Scans |-> IF s = o THEN NoScan ELSE scan[s]]
  BY NoScanOf
<1> QED BY <1>1, OneScan, SteadyNoScan

-----------------------------------------------------------------------------
(* The steps *)

LEMMA QuietScans ==
  ASSUME SInv,
         \/ \E o \in Objects : Open(o) \/ Close(o)
         \/ \E o \in Inserters : InsertFails(o)
         \/ \E o \in Readers, r \in Records : GetRecord(o, r)
         \/ \E s \in Scans : ScanFails(s)
  PROVE  \A s \in Scans : SteadyScan(s)'
<1>1. ASSUME NEW o \in Objects, Open(o) PROVE \A s \in Scans : SteadyScan(s)'
  <2>1. obj[o].st # "open" /\ UNCHANGED <<dir, page, scan>>
    BY <1>1 DEF Open
  <2>2. \E x : obj' = [obj EXCEPT ![o] = x]
    BY <1>1 DEF Open, Fail
  <2> QED BY <2>1, <2>2, OtherObject
<1>2. ASSUME NEW o \in Objects, Close(o) PROVE \A s \in Scans : SteadyScan(s)'
  <2>1. /\ obj' = [obj EXCEPT ![o] = Closed] /\ scan' = [s \in Scans |-> IF s = o THEN NoScan ELSE scan[s]]
        /\ UNCHANGED <<dir, page>>
    BY <1>2 DEF Close
  <2> QED BY <2>1, OneScan, SteadyNoScan
<1>3. ASSUME NEW o \in Inserters, InsertFails(o) PROVE \A s \in Scans : SteadyScan(s)'
  <2>1. o \in Objects /\ o \notin Scans /\ UNCHANGED <<dir, page, scan>>
    BY <1>3, Kinds DEF InsertFails
  <2>2. \E x : obj' = [obj EXCEPT ![o] = x]
    BY <1>3 DEF InsertFails, Fail
  <2> QED BY <2>1, <2>2, OtherObject
<1>4. ASSUME NEW o \in Readers, NEW r \in Records, GetRecord(o, r) PROVE \A s \in Scans : SteadyScan(s)'
  <2>1. o \in Objects /\ o \notin Scans /\ UNCHANGED <<dir, page, scan>>
    BY <1>4, Kinds DEF GetRecord
  <2>2. \E x : obj' = [obj EXCEPT ![o] = x]
    BY <1>4 DEF GetRecord, Fail
  <2> QED BY <2>1, <2>2, OtherObject
<1>5. ASSUME NEW s \in Scans, ScanFails(s) PROVE \A b \in Scans : SteadyScan(b)'
  <2>1. s \in Objects /\ scan' = [scan EXCEPT ![s] = NoScan] /\ UNCHANGED <<dir, page>>
    BY <1>5, Kinds DEF ScanFails
  <2>2. PICK x : obj' = [obj EXCEPT ![s] = x]
    BY <1>5 DEF ScanFails, Fail
  <2>3. scan' = [b \in Scans |-> IF b = s THEN NoScan ELSE scan[b]]
    BY <2>1, OneScanExcept
  <2>4. Steady(dir, page, x.idx, x.rec[2], NoScan)
    BY SteadyNoScan
  <2> QED BY <2>1, <2>2, <2>3, <2>4, OneScan
<1> QED BY <1>1, <1>2, <1>3, <1>4, <1>5

(* the entry of the directory a record's page has *)
LEMMA EntryOf ==
  ASSUME IInv, NEW r \in Records
  PROVE  \E j \in DOMAIN dir : dir[j].pageNo = r[1]
<1>1. r[1] \in DataPages /\ r[2] \in UsedIn(page[r[1]])
  BY RecordFacts
<1>2. page[r[1]] # <<>>
  BY <1>1 DEF UsedIn
<1> QED BY <1>1, <1>2 DEF IInv, Directory, At

LEMMA StartScanSteady ==
  ASSUME SInv, NEW s \in Scans, NEW F \in Filters, StartScan(s, F)
  PROVE  \A b \in Scans : SteadyScan(b)'
<1> DEFINE c == obj[s]
           back == c.pageNo # At(1)
           fresh == back \/ c.rec = NULLRID
           m == [scan[s].mark EXCEPT !.seen = {}, !.fresh = FALSE]
           due == IF fresh THEN Matching(F) ELSE {}
           y == [NoScan EXCEPT !.filter = F, !.out = "going", !.fresh = fresh, !.due = due, !.mark = m]
           x == IF back THEN [c EXCEPT !.pageNo = At(1), !.idx = 1, !.dirty = FALSE, !.rec = NULLRID] ELSE c
<1>1. /\ IInv /\ Shape /\ s \in Objects /\ s \notin Readers /\ c.st = "open"
      /\ scan' = [scan EXCEPT ![s] = y] /\ UNCHANGED <<dir, page>>
  BY Kinds DEF StartScan, SInv, IInv
<1>2. c \in ObjType /\ c.idx \in DOMAIN dir /\ At(c.idx) = c.pageNo /\ 1 \in DOMAIN dir
  BY <1>1, Here, DirFacts
<1>3. obj' = [obj EXCEPT ![s] = x]
  BY <1>1, <1>2 DEF StartScan, Shape
<1>4. fresh => x.idx = 1 /\ x.rec[2] = 0
  <2>1. ASSUME ~back PROVE c.idx = 1
    BY <1>1, <1>2, <2>1 DEF IInv, Directory
  <2>2. NULLRID[2] = 0
    BY DEF NULLRID
  <2> QED BY <1>2, <2>1, <2>2 DEF ObjType
<1>5. /\ y.filter = F /\ y.out = "going" /\ y.fresh = fresh /\ y.due = due /\ y.mark = m
      /\ y.seen = {} /\ y.twice = FALSE
  <2> HIDE DEF fresh, due, m
  <2> QED BY DEF NoScan
<1>6. m.seen = {} /\ m.fresh = FALSE
  <2>1. scan[s].mark \in MarkType
    BY <1>1, ScanFacts DEF Shape
  <2> QED BY <2>1 DEF MarkType
<1>7. ASSUME NEW r \in due, fresh PROVE Passes(page, F, r) /\ Beyond(dir, 1, 0, r)
  <2>1. r \in Records /\ page[r[1]][r[2]] \in F
    BY <1>7 DEF Matching
  <2>2. r \in Rids /\ r[2] \in 1 .. MaxSlots /\ r[2] \in UsedIn(page[r[1]])
    BY <2>1, RecordFacts
  <2>3. PICK j \in DOMAIN dir : dir[j].pageNo = r[1]
    BY <1>1, <2>1, EntryOf
  <2>4. j \in Nat /\ j >= 1 /\ r[2] > 0
    BY <1>1, <2>2, <2>3, DirFacts, Sizes
  <2> QED BY <2>1, <2>2, <2>3, <2>4 DEF Passes, Beyond
<1> HIDE DEF x, y, due, fresh, m
<1>8. Steady(dir, page, x.idx, x.rec[2], y)
  <2>1. Walk(dir, page, F, x.idx, x.rec[2], {}, due, fresh)
    BY <1>4, <1>7 DEF Walk
  <2>2. Walk(dir, page, F, m.idx, m.rec[2], {}, due, FALSE)
    BY DEF Walk
  <2> QED BY <1>5, <1>6, <2>1, <2>2 DEF Steady
<1>9. scan' = [b \in Scans |-> IF b = s THEN y ELSE scan[b]]
  BY <1>1, OneScanExcept
<1> QED BY <1>1, <1>3, <1>8, <1>9, OneScan

(* what an open scan still has to see is among the records ahead that match *)
LEMMA DueIsHit ==
  ASSUME SInv, NEW s \in Scans, obj[s].st = "open", scan[s].fresh, NEW r \in scan[s].due \ scan[s].seen
  PROVE  \E j \in DOMAIN dir : dir[j].pageNo = r[1] /\ <<j, r[2]>> \in Hits(s)
<1> DEFINE i == obj[s].idx
           k == obj[s].rec[2]
<1>1. IInv /\ Shape /\ s \in Objects /\ SteadyScan(s)
  BY Kinds DEF SInv, IInv
<1>2. Passes(page, scan[s].filter, r) /\ Beyond(dir, i, k, r)
  BY <1>1 DEF SteadyScan, Steady, Walk
<1>3. PICK j \in DOMAIN dir : dir[j].pageNo = r[1] /\ (j > i \/ (j = i /\ r[2] > k))
  BY <1>2 DEF Beyond
<1>4. /\ r[2] \in 1 .. MaxSlots /\ r[2] \in UsedIn(page[At(j)]) /\ page[At(j)][r[2]] \in scan[s].filter
  BY <1>2, <1>3, RecordFacts DEF Passes, At
<1>5. j \in i .. Len(dir) /\ (j = i => r[2] > k)
  <2>1. i \in Nat /\ j \in Nat /\ j <= Len(dir) /\ Len(dir) \in Nat
    BY <1>1, <1>3, Here, DirFacts
  <2> QED BY <1>3, <2>1
<1>6. <<j, r[2]>> \in Ahead(s)
  BY <1>4, <1>5 DEF Ahead
<1> QED BY <1>3, <1>4, <1>6 DEF Hits

LEMMA PlaceFacts ==
  ASSUME IInv, NEW s \in Scans, obj[s].st = "open"
  PROVE  /\ obj[s].idx \in Nat /\ obj[s].idx \in DOMAIN dir /\ obj[s].rec[2] \in Int /\ Len(dir) \in Nat
         /\ DOMAIN dir = 1 .. Len(dir)
         /\ \A i, j \in DOMAIN dir : dir[i].pageNo = dir[j].pageNo => i = j
<1>1. s \in Objects /\ Shape
  BY Kinds DEF IInv
<1>2. \A r \in RecType : r[2] \in Int
  BY RecordFacts, Sizes DEF RecType, NULLRID
<1> QED BY <1>1, <1>2, Here, DirFacts DEF IInv, Directory, At

(* whatever is behind stays behind when the scan goes on *)
LEMMA BehindFurther ==
  ASSUME IInv, NEW i \in Nat, NEW k \in Int, NEW i2 \in Nat, NEW k2 \in Int,
         i < i2 \/ (i = i2 /\ k <= k2), NEW r \in Rids, Behind(dir, i, k, r)
  PROVE  Behind(dir, i2, k2, r)
<1>1. PICK j \in DOMAIN dir : dir[j].pageNo = r[1] /\ (j < i \/ (j = i /\ r[2] <= k))
  BY DEF Behind
<1>2. j \in Nat /\ r[2] \in Nat
  BY DirFacts, RecordFacts DEF IInv
<1>3. j < i2 \/ (j = i2 /\ r[2] <= k2)
  BY <1>1, <1>2
<1> QED BY <1>1, <1>3 DEF Behind

LEMMA ScanNextSteady ==
  ASSUME SInv, NEW s \in Scans, ScanNext(s) PROVE \A b \in Scans : SteadyScan(b)'
<1> DEFINE c == obj[s]
           v == scan[s]
           h == First(Hits(s))
           r == <<At(h[1]), h[2]>>
           x == [c EXCEPT !.pageNo = At(h[1]), !.idx = h[1], !.rec = r]
           y == [v EXCEPT !.out = "going", !.seen = v.seen \cup {r}, !.twice = v.twice \/ r \in v.seen]
<1>1. /\ IInv /\ Shape /\ s \in Objects /\ c.st = "open" /\ Hits(s) # {} /\ SteadyScan(s)
      /\ obj' = [obj EXCEPT ![s] = x] /\ scan' = [scan EXCEPT ![s] = y] /\ UNCHANGED <<dir, page>>
  BY Kinds DEF ScanNext, Goto, SInv, IInv
<1>2. /\ c.idx \in Nat /\ c.idx \in DOMAIN dir /\ c.rec[2] \in Int /\ c \in ObjType /\ v \in ScanType
      /\ \A i, j \in DOMAIN dir : dir[i].pageNo = dir[j].pageNo => i = j
  BY <1>1, PlaceFacts DEF Shape
<1>3. /\ h \in Hits(s) /\ \A z \in Hits(s) : Before(h, z)
      /\ h[1] \in DOMAIN dir /\ h[1] \in Nat /\ h[2] \in 1 .. MaxSlots /\ h[2] \in Nat
      /\ c.idx <= h[1] /\ (h[1] = c.idx => h[2] > c.rec[2])
  <2>1. h \in Hits(s) /\ h \in Ahead(s) /\ \A z \in Hits(s) : Before(h, z)
    BY <1>1, <1>2, AheadFacts
  <2>2. h[1] \in c.idx .. Len(dir) /\ h[1] \in DOMAIN dir /\ h[1] \in Nat /\ h[2] \in 1 .. MaxSlots /\ h[2] \in Nat
        /\ (h[1] = c.idx => h[2] > c.rec[2])
    BY <1>1, <1>2, <2>1, AheadFacts
  <2> QED BY <2>1, <2>2
<1>4. r \in Rids /\ r[1] = dir[h[1]].pageNo /\ r[2] = h[2]
  BY <1>1, <1>3, DirFacts DEF At, Rids
<1>5. x.idx = h[1] /\ x.rec = r
  BY <1>2 DEF ObjType
<1>6. /\ y.filter = v.filter /\ y.fresh = v.fresh /\ y.seen = v.seen \cup {r} /\ y.due = v.due
      /\ y.mark = v.mark /\ y.out = "going" /\ (y.twice <=> (v.twice \/ r \in v.seen))
  BY <1>2 DEF ScanType
<1> HIDE DEF h, r, x, y
<1>7. \A q \in v.seen : q \in Rids /\ Behind(dir, c.idx, c.rec[2], q)
  BY <1>1, <1>2, ScanFacts DEF SteadyScan, Steady, Walk
<1>8. r \notin v.seen
  <2> SUFFICES ASSUME r \in v.seen PROVE FALSE
    OBVIOUS
  <2>1. PICK j \in DOMAIN dir : dir[j].pageNo = r[1] /\ (j < c.idx \/ (j = c.idx /\ r[2] <= c.rec[2]))
    BY <1>7 DEF Behind
  <2>2. j = h[1]
    BY <1>2, <1>3, <1>4, <2>1
  <2> QED BY <1>2, <1>3, <1>4, <2>1, <2>2
<1>9. ASSUME NEW q \in v.seen \cup {r} PROVE Behind(dir, h[1], h[2], q)
  <2>1. CASE q = r
    BY <1>3, <1>4, <2>1 DEF Behind
  <2>2. CASE q \in v.seen
    <3>1. c.idx < h[1] \/ (c.idx = h[1] /\ c.rec[2] <= h[2])
      BY <1>2, <1>3
    <3> QED BY <1>1, <1>2, <1>3, <1>7, <2>2, <3>1, BehindFurther
  <2> QED BY <2>1, <2>2
<1>10. ASSUME v.fresh, NEW q \in v.due \ (v.seen \cup {r})
       PROVE  Passes(page, v.filter, q) /\ Beyond(dir, h[1], h[2], q)
  <2>1. Passes(page, v.filter, q)
    BY <1>1, <1>10 DEF SteadyScan, Steady, Walk
  <2>2. PICK j \in DOMAIN dir : dir[j].pageNo = q[1] /\ <<j, q[2]>> \in Hits(s)
    BY <1>1, <1>10, DueIsHit
  <2>3. q \in Rids /\ q = <<q[1], q[2]>> /\ q[2] \in Nat /\ j \in Nat
    <3>1. q \in Rids
      BY <2>1 DEF Passes
    <3> QED BY <1>1, <2>2, <3>1, DirFacts, RecordFacts
  <2>4. h[1] < j \/ (h[1] = j /\ h[2] <= q[2])
    BY <1>3, <2>2 DEF Before
  <2>5. ~(h[1] = j /\ h[2] = q[2])
    <3>1. q # r
      BY <1>10
    <3>2. r = <<r[1], r[2]>>
      BY <1>4, RecordFacts
    <3> QED BY <1>4, <2>2, <2>3, <3>1, <3>2
  <2>6. j > h[1] \/ (j = h[1] /\ q[2] > h[2])
    BY <1>3, <2>3, <2>4, <2>5
  <2> QED BY <2>1, <2>2, <2>6 DEF Beyond
<1>11. Steady(dir, page, x.idx, x.rec[2], y)
  <2>1. Walk(dir, page, v.filter, h[1], h[2], v.seen \cup {r}, v.due, v.fresh)
    BY <1>9, <1>10 DEF Walk
  <2>2. /\ v.mark.pageNo # 0 =>
             Walk(dir, page, v.filter, v.mark.idx, v.mark.rec[2], v.mark.seen, v.due, v.mark.fresh)
        /\ ~v.twice
    BY <1>1 DEF SteadyScan, Steady
  <2> QED BY <1>4, <1>5, <1>6, <1>8, <2>1, <2>2 DEF Steady
<1>12. scan' = [b \in Scans |-> IF b = s THEN y ELSE scan[b]]
  BY <1>1, OneScanExcept
<1> QED BY <1>1, <1>11, <1>12, OneScan

LEMMA ScanEofSteady ==
  ASSUME SInv, NEW s \in Scans, ScanEof(s) PROVE \A b \in Scans : SteadyScan(b)'
<1> DEFINE c == obj[s]
           v == scan[s]
           i == Len(dir)
           there == {z \in Ahead(s) : z[1] = i}
           r == IF there # {} THEN <<At(i), Last(there)[2]>>
                ELSE IF i = c.idx THEN c.rec ELSE NULLRID
           x == [c EXCEPT !.pageNo = At(i), !.idx = i, !.rec = r]
           y == [v EXCEPT !.out = "eof"]
<1>1. /\ IInv /\ Shape /\ s \in Objects /\ c.st = "open" /\ Hits(s) = {} /\ SteadyScan(s)
      /\ obj' = [obj EXCEPT ![s] = x] /\ scan' = [scan EXCEPT ![s] = y] /\ UNCHANGED <<dir, page>>
  BY Kinds DEF ScanEof, Goto, SInv, IInv
<1>2. /\ c.idx \in Nat /\ c.idx \in DOMAIN dir /\ c.rec[2] \in Int /\ c \in ObjType /\ v \in ScanType
      /\ i \in Nat /\ c.idx <= i
  BY <1>1, PlaceFacts DEF Shape
<1>3. r[2] \in Int /\ (c.idx = i => c.rec[2] <= r[2])
  <2>1. CASE there # {}
    <3>1. there \subseteq {i} \X (0 .. MaxSlots)
      BY <1>1, <1>2, AheadFacts
    <3>2. Last(there) \in there
      BY <1>2, <2>1, <3>1, LastFacts, Sizes
    <3>3. Last(there)[2] \in Nat /\ (c.idx = i => Last(there)[2] > c.rec[2])
      BY <1>1, <1>2, <3>2, AheadFacts
    <3>4. r[2] = Last(there)[2]
      BY <2>1
    <3> HIDE DEF r, there
    <3> QED BY <1>2, <3>3, <3>4
  <2>2. CASE there = {}
    BY <1>2, <2>2 DEF NULLRID
  <2> QED BY <2>1, <2>2
<1>4. x.idx = i /\ x.rec = r
  BY <1>2 DEF ObjType
<1>5. /\ y.filter = v.filter /\ y.fresh = v.fresh /\ y.seen = v.seen /\ y.due = v.due
      /\ y.mark = v.mark /\ y.out = "eof" /\ y.twice = v.twice
  BY <1>2 DEF ScanType
<1> HIDE DEF r, x, y
<1>6. v.fresh => v.due \subseteq v.seen
  BY <1>1, DueIsHit
<1>7. Walk(dir, page, v.filter, i, r[2], v.seen, v.due, v.fresh)
  <2>1. ASSUME NEW q \in v.seen PROVE Behind(dir, i, r[2], q)
    <3>1. q \in Rids /\ Behind(dir, c.idx, c.rec[2], q)
      BY <1>1, <1>2, ScanFacts DEF SteadyScan, Steady, Walk
    <3>2. c.idx < i \/ (c.idx = i /\ c.rec[2] <= r[2])
      BY <1>2, <1>3
    <3> QED BY <1>1, <1>2, <1>3, <3>1, <3>2, BehindFurther
  <2> QED BY <1>6, <2>1 DEF Walk
<1>8. Steady(dir, page, x.idx, x.rec[2], y)
  <2>1. /\ v.mark.pageNo # 0 =>
             Walk(dir, page, v.filter, v.mark.idx, v.mark.rec[2], v.mark.seen, v.due, v.mark.fresh)
        /\ ~v.twice
    BY <1>1 DEF SteadyScan, Steady
  <2> QED BY <1>4, <1>5, <1>6, <1>7, <2>1 DEF Steady
<1>9. scan' = [b \in Scans |-> IF b = s THEN y ELSE scan[b]]
  BY <1>1, OneScanExcept
<1> QED BY <1>1, <1>8, <1>9, OneScan

LEMMA MarkScanSteady ==
  ASSUME SInv, NEW s \in Scans, MarkScan(s) PROVE \A b \in Scans : SteadyScan(b)'
<1> DEFINE c == obj[s]
           v == scan[s]
           m == [pageNo |-> c.pageNo, idx |-> c.idx, rec |-> c.rec, seen |-> v.seen, fresh |-> v.fresh]
           y == [v EXCEPT !.mark = m]
<1>1. /\ IInv /\ Shape /\ s \in Objects /\ SteadyScan(s)
      /\ scan' = [scan EXCEPT ![s] = y] /\ UNCHANGED <<dir, page, obj>>
  BY Kinds DEF MarkScan, SInv, IInv
<1>2. v \in ScanType /\ obj' = [obj EXCEPT ![s] = c]
  BY <1>1 DEF Shape
<1>3. /\ y.filter = v.filter /\ y.fresh = v.fresh /\ y.seen = v.seen /\ y.due = v.due
      /\ y.mark = m /\ y.out = v.out /\ y.twice = v.twice
  <2> HIDE DEF m
  <2> QED BY <1>2 DEF ScanType
<1>4. m.idx = c.idx /\ m.rec = c.rec /\ m.seen = v.seen /\ m.fresh = v.fresh
  OBVIOUS
<1> HIDE DEF y, m
<1>5. Steady(dir, page, c.idx, c.rec[2], y)
  <2>1. /\ Walk(dir, page, v.filter, c.idx, c.rec[2], v.seen, v.due, v.fresh)
        /\ ~v.twice /\ (v.out = "eof" /\ v.fresh => v.due \subseteq v.seen)
    BY <1>1 DEF SteadyScan, Steady
  <2> QED BY <1>3, <1>4, <2>1 DEF Steady
<1>6. scan' = [b \in Scans |-> IF b = s THEN y ELSE scan[b]]
  BY <1>1, OneScanExcept
<1> QED BY <1>1, <1>2, <1>5, <1>6, OneScan

LEMMA ResetScanSteady ==
  ASSUME SInv, NEW s \in Scans, ResetScan(s) PROVE \A b \in Scans : SteadyScan(b)'
<1> DEFINE c == obj[s]
           v == scan[s]
           m == v.mark
<1>1. /\ IInv /\ Shape /\ s \in Objects /\ SteadyScan(s) /\ m.pageNo # 0 /\ UNCHANGED <<dir, page>>
  BY Kinds DEF ResetScan, SInv, IInv
<1>2. v \in ScanType /\ c \in ObjType /\ m.fresh \in BOOLEAN
  BY <1>1, ScanFacts DEF Shape
<1>3. /\ Walk(dir, page, v.filter, c.idx, c.rec[2], v.seen, v.due, v.fresh)
      /\ Walk(dir, page, v.filter, m.idx, m.rec[2], m.seen, v.due, m.fresh)
      /\ ~v.twice
  BY <1>1 DEF SteadyScan, Steady
<1>4. CASE m.pageNo = c.pageNo
  <2> DEFINE y == [v EXCEPT !.out = "going"]
  <2>1. scan' = [scan EXCEPT ![s] = y] /\ obj' = [obj EXCEPT ![s] = c]
    BY <1>1, <1>4 DEF ResetScan, Shape
  <2>2. /\ y.filter = v.filter /\ y.fresh = v.fresh /\ y.seen = v.seen /\ y.due = v.due
        /\ y.mark = m /\ y.out = "going" /\ y.twice = v.twice
    BY <1>2 DEF ScanType
  <2> HIDE DEF y
  <2>3. Steady(dir, page, c.idx, c.rec[2], y)
    BY <1>3, <2>2 DEF Steady
  <2>4. scan' = [b \in Scans |-> IF b = s THEN y ELSE scan[b]]
    BY <1>1, <2>1, OneScanExcept
  <2>5. s \in Objects /\ UNCHANGED <<dir, page>> /\ obj' = [obj EXCEPT ![s] = c]
    BY <1>1, <2>1
  <2> HIDE DEF c
  <2> QED BY <2>3, <2>4, <2>5, OneScan
<1>5. CASE m.pageNo # c.pageNo
  <2> DEFINE due == IF m.fresh THEN v.due ELSE {}
             x == [c EXCEPT !.pageNo = m.pageNo, !.idx = m.idx, !.dirty = FALSE, !.rec = m.rec]
             y == [v EXCEPT !.out = "going", !.seen = m.seen, !.fresh = m.fresh, !.due = due]
  <2>1. scan' = [scan EXCEPT ![s] = y] /\ obj' = [obj EXCEPT ![s] = x]
    BY <1>5 DEF ResetScan
  <2>2. /\ y.filter = v.filter /\ y.fresh = m.fresh /\ y.seen = m.seen /\ y.due = due
        /\ y.mark = m /\ y.out = "going" /\ y.twice = v.twice
    <3> HIDE DEF due
    <3> QED BY <1>2 DEF ScanType
  <2>3. x.idx = m.idx /\ x.rec = m.rec
    BY <1>2 DEF ObjType
  <2>4. due \subseteq v.due
    OBVIOUS
  <2> HIDE DEF x, y, due
  <2>5. Walk(dir, page, v.filter, m.idx, m.rec[2], m.seen, due, m.fresh)
    BY <1>3, <2>4 DEF Walk
  <2>6. Steady(dir, page, x.idx, x.rec[2], y)
    BY <1>3, <2>2, <2>3, <2>5 DEF Steady
  <2>7. scan' = [b \in Scans |-> IF b = s THEN y ELSE scan[b]]
    BY <1>1, <2>1, OneScanExcept
  <2>8. s \in Objects /\ UNCHANGED <<dir, page>> /\ obj' = [obj EXCEPT ![s] = x]
    BY <1>1, <2>1
  <2> QED BY <2>6, <2>7, <2>8, OneScan
<1> QED BY <1>4, <1>5

(* a step that keeps the entries of the directory, the places of the scans
   and the records they still have to see *)
LEMMA ScansKept ==
  ASSUME SInv, Keeps(dir, dir'),
         \A s \in Scans : obj'[s].idx = obj[s].idx /\ obj'[s].rec = obj[s].rec,
         NEW gone, scan' = [s \in Scans |-> [scan[s] EXCEPT !.due = scan[s].due \ gone]],
         \A F : \A r \in Rids \ gone : Passes(page, F, r) => Passes(page', F, r)
  PROVE  \A s \in Scans : SteadyScan(s)'
<1>1. ASSUME NEW s \in Scans PROVE SteadyScan(s)'
  <2> DEFINE v == scan[s]
             due == v.due \ gone
             z == [v EXCEPT !.due = due]
             i == obj[s].idx
             k == obj[s].rec[2]
  <2>1. v \in ScanType /\ SteadyScan(s)
    BY DEF SInv, IInv, Shape
  <2>2. due \subseteq v.due /\ \A r \in due : r \in Rids \ gone
    BY <2>1, ScanFacts
  <2>3. scan'[s] = z
    OBVIOUS
  <2>4. Steady(dir, page, i, k, v)
    BY <2>1 DEF SteadyScan
  <2> HIDE DEF due, v
  <2>5. \A F : \A r \in due : Passes(page, F, r) => Passes(page', F, r)
    BY <2>2
  <2>6. Steady(dir', page', i, k, z)
    BY <2>1, <2>2, <2>4, <2>5, SteadyKept
  <2>7. obj'[s].idx = i /\ obj'[s].rec[2] = k
    OBVIOUS
  <2> HIDE DEF z, i, k
  <2> QED BY <2>3, <2>6, <2>7 DEF SteadyScan
<1> QED BY <1>1

LEMMA ScansSame ==
  ASSUME SInv, UNCHANGED scan
  PROVE  scan' = [s \in Scans |-> [scan[s] EXCEPT !.due = scan[s].due \ {}]]
<1>1. \A s \in Scans : scan[s] \in ScanType
  BY DEF SInv, IInv, Shape
<1>2. \A y \in ScanType : [y EXCEPT !.due = y.due \ {}] = y
  <2>1. ASSUME NEW y \in ScanType PROVE [y EXCEPT !.due = y.due \ {}] = y
    <3>1. y.due \ {} = y.due
      OBVIOUS
    <3>2. [y EXCEPT !.due = y.due] = y
      BY DEF ScanType
    <3> QED BY <3>1, <3>2
  <2> QED BY <2>1
<1>3. scan \in [Scans -> ScanType]
  BY DEF SInv, IInv, Shape
<1> QED BY <1>1, <1>2, <1>3

LEMMA PutSteady ==
  ASSUME SInv, NEW o \in Inserters, NEW v \in Vals, NEW d \in Seq(DirEntry), NEW i, NEW p \in DataPages,
         Keeps(dir, d), Put(o, v, d, i, p)
  PROVE  \A s \in Scans : SteadyScan(s)'
<1>1. /\ page' = [page EXCEPT ![p] = WithRecord(page[p], v)] /\ dir' = [d EXCEPT ![i].freeSpace = FreeIn(WithRecord(page[p], v))]
      /\ UNCHANGED scan
  BY DEF Put, DirAfter
<1>2. page \in [DataPages -> Seq(Content)] /\ obj \in [Objects -> ObjType]
  BY DEF SInv, IInv, Shape
<1>3. Keeps(dir, dir')
  <2>1. ASSUME NEW j \in DOMAIN dir PROVE j \in DOMAIN dir' /\ dir'[j].pageNo = dir[j].pageNo
    <3>1. j \in DOMAIN d /\ d[j].pageNo = dir[j].pageNo /\ d[j] \in DirEntry
      BY DEF Keeps
    <3>2. DOMAIN dir' = DOMAIN d /\ dir'[j].pageNo = d[j].pageNo
      BY <1>1, <3>1 DEF DirEntry
    <3> QED BY <3>1, <3>2
  <2> QED BY <2>1 DEF Keeps
<1>4. ASSUME NEW s \in Scans PROVE obj'[s].idx = obj[s].idx /\ obj'[s].rec = obj[s].rec
  <2>1. s # o /\ s \in Objects
    BY Kinds
  <2>2. \E x : obj' = [obj EXCEPT ![o] = x]
    BY DEF Put
  <2> QED BY <1>2, <2>1, <2>2
<1>5. ASSUME NEW F, NEW r \in Rids, Passes(page, F, r) PROVE Passes(page', F, r)
  <2>1. r[1] \in DataPages /\ r[2] \in UsedIn(page[r[1]]) /\ page[r[1]][r[2]] \in F
    BY <1>5, RecordFacts DEF Passes
  <2>2. CASE r[1] # p
    <3>1. page'[r[1]] = page[r[1]]
      BY <1>1, <1>2, <2>1, <2>2
    <3> QED BY <2>1, <3>1 DEF Passes
  <2>3. CASE r[1] = p
    <3>1. page'[p] = WithRecord(page[p], v) /\ page[p] \in Seq(Content)
      BY <1>1, <1>2
    <3>2. r[2] \in UsedIn(page'[p]) /\ page'[p][r[2]] = page[p][r[2]]
      BY <2>1, <2>3, <3>1, WithFacts
    <3> QED BY <2>1, <2>3, <3>2 DEF Passes
  <2> QED BY <2>2, <2>3
<1>6. scan' = [s \in Scans |-> [scan[s] EXCEPT !.due = scan[s].due \ {}]]
  BY <1>1, ScansSame
<1> QED BY <1>3, <1>4, <1>5, <1>6, ScansKept

LEMMA InsertSteady ==
  ASSUME SInv, NEW o \in Inserters, NEW v \in Vals, InsertRecord(o, v) \/ InsertInNewPage(o, v)
  PROVE  \A s \in Scans : SteadyScan(s)'
<1>1. IInv /\ Shape /\ o \in Objects /\ dir \in Seq(DirEntry) /\ Len(dir) \in Nat /\ DOMAIN dir = 1 .. Len(dir)
  BY Kinds, DirFacts DEF SInv, IInv, Shape
<1>2. CASE InsertRecord(o, v)
  <2>1. Roomy(o) # {} /\ obj[o].st = "open" /\ Put(o, v, dir, Target(o), At(Target(o)))
    BY <1>2 DEF InsertRecord
  <2>2. Target(o) \in DOMAIN dir
    <3>1. obj[o].idx \in DOMAIN dir /\ obj[o].idx \in Nat /\ obj[o].idx >= 1
      <4>1. obj[o].st = "open"
        BY <1>2 DEF InsertRecord
      <4>2. obj[o].idx \in DOMAIN dir
        BY <1>1, <4>1, Here
      <4> QED BY <1>1, <4>2
    <3>2. Target(o) \in Roomy(o)
      <4>1. Roomy(o) # {} /\ o \in Objects
        BY <1>1, <2>1
      <4> QED BY <3>1, <4>1, TargetFacts
    <3>3. Target(o) \in obj[o].idx .. Len(dir)
      BY <3>2 DEF Roomy
    <3> QED BY <1>1, <3>1, <3>3
  <2>3. At(Target(o)) \in DataPages /\ Keeps(dir, dir)
    BY <1>1, <2>2, DirFacts DEF Keeps
  <2> QED BY <1>1, <2>1, <2>3, PutSteady
<1>3. CASE InsertInNewPage(o, v)
  <2> DEFINE e == [pageNo |-> numPages, freeSpace |-> Area]
             d == Append(dir, e)
  <2>1. numPages \in DataPages /\ Put(o, v, d, Len(d), numPages)
    BY <1>3 DEF InsertInNewPage
  <2>2. e \in DirEntry
    BY <2>1, Sizes DEF DirEntry
  <2> HIDE DEF e
  <2>3. d \in Seq(DirEntry) /\ DOMAIN d = 1 .. Len(dir) + 1 /\ \A j \in 1 .. Len(dir) : d[j] = dir[j]
    BY <1>1, <2>2
  <2>4. Keeps(dir, d)
    BY <1>1, <2>3 DEF Keeps
  <2> HIDE DEF d
  <2> QED BY <2>1, <2>3, <2>4, PutSteady
<1> QED BY <1>2, <1>3

LEMMA ChangeSteady ==
  ASSUME SInv, NEW s \in Scans, DeleteRecord(s) \/ \E v \in Vals : UpdateRecord(s, v)
  PROVE  \A b \in Scans : SteadyScan(b)'
<1> DEFINE r == obj[s].rec
           p == r[1]
<1>1. /\ Shape /\ Current(s) /\ r \in Records /\ dir' = dir /\ scan' = NotDue(r)
      /\ \E pg : page' = [page EXCEPT ![p] = pg]
      /\ \/ page'[p] = WithoutRecord(page[p], r[2])
         \/ \E v \in Vals : page'[p] = [page[p] EXCEPT ![r[2]] = v]
  <2>1. Shape /\ Current(s) /\ r \in Records
    BY DEF DeleteRecord, UpdateRecord, Current, SInv, IInv
  <2>2. p \in DataPages /\ page \in [DataPages -> Seq(Content)]
    BY <2>1, RecordFacts DEF Shape
  <2>3. CASE DeleteRecord(s)
    BY <2>1, <2>2, <2>3 DEF DeleteRecord
  <2>4. ASSUME NEW v \in Vals, UpdateRecord(s, v)
        PROVE  /\ dir' = dir /\ scan' = NotDue(r)
               /\ \E pg : page' = [page EXCEPT ![p] = pg]
               /\ page'[p] = [page[p] EXCEPT ![r[2]] = v]
    BY <2>1, <2>2, <2>4 DEF UpdateRecord
  <2> QED BY <2>1, <2>3, <2>4
<1>2. /\ r = <<r[1], r[2]>> /\ p \in DataPages /\ r[2] \in UsedIn(page[p])
      /\ page \in [DataPages -> Seq(Content)] /\ obj \in [Objects -> ObjType]
  BY <1>1, RecordFacts DEF Shape
<1>3. ASSUME NEW b \in Scans PROVE obj'[b].idx = obj[b].idx /\ obj'[b].rec = obj[b].rec
  <2>1. \/ obj' = [obj EXCEPT ![s] = [obj[s] EXCEPT !.dirty = TRUE, !.hdrDirty = TRUE]]
        \/ obj' = [obj EXCEPT ![s] = [obj[s] EXCEPT !.dirty = TRUE]]
    BY DEF DeleteRecord, UpdateRecord
  <2>2. b \in Objects /\ s \in Objects /\ obj[s] \in ObjType
    BY <1>2, Kinds
  <2>3. PICK x : /\ obj' = [obj EXCEPT ![s] = x] /\ x.idx = obj[s].idx /\ x.rec = obj[s].rec
    BY <2>1, <2>2 DEF ObjType
  <2>4. obj'[b] = IF b = s THEN x ELSE obj[b]
    BY <1>2, <2>2, <2>3
  <2> QED BY <2>3, <2>4
<1>4. \A j \in UsedIn(page[p]) \ {r[2]} : j \in UsedIn(page'[p]) /\ page'[p][j] = page[p][j]
  <2>1. page[p] \in Seq(Content)
    BY <1>2
  <2>2. CASE page'[p] = WithoutRecord(page[p], r[2])
    BY <1>2, <2>1, <2>2, WithoutFacts
  <2>3. ASSUME NEW v \in Vals, page'[p] = [page[p] EXCEPT ![r[2]] = v]
        PROVE  \A j \in UsedIn(page[p]) \ {r[2]} : j \in UsedIn(page'[p]) /\ page'[p][j] = page[p][j]
    BY <1>2, <2>1, <2>3, UpdateFacts
  <2> QED BY <1>1, <2>2, <2>3
<1>5. ASSUME NEW F, NEW q \in Rids \ {r}, Passes(page, F, q) PROVE Passes(page', F, q)
  <2>1. q = <<q[1], q[2]>> /\ q[1] \in DataPages /\ q[2] \in UsedIn(page[q[1]]) /\ page[q[1]][q[2]] \in F
    BY <1>5, RecordFacts DEF Passes
  <2>2. CASE q[1] # p
    <3>1. page'[q[1]] = page[q[1]]
      BY <1>1, <1>2, <2>1, <2>2
    <3> QED BY <2>1, <3>1 DEF Passes
  <2>3. CASE q[1] = p
    <3>1. q[2] # r[2]
      BY <1>2, <2>1, <2>3
    <3> QED BY <1>4, <2>1, <2>3, <3>1 DEF Passes
  <2> QED BY <2>2, <2>3
<1>6. Keeps(dir, dir') /\ scan' = [b \in Scans |-> [scan[b] EXCEPT !.due = scan[b].due \ {r}]]
  BY <1>1 DEF Keeps, NotDue
<1> HIDE DEF r
<1> QED BY <1>3, <1>5, <1>6, ScansKept

-----------------------------------------------------------------------------
LEMMA SNextStep == SInv /\ [Next]_vars => SInv'
<1> SUFFICES ASSUME SInv, [Next]_vars PROVE \A s \in Scans : SteadyScan(s)'
  BY NextStep DEF SInv
<1>1. CASE UNCHANGED vars
  BY <1>1 DEF SInv, SteadyScan, vars
<1>2. CASE \E o \in Objects : Open(o) \/ Close(o)
  BY <1>2, QuietScans
<1>3. CASE \E o \in Inserters : InsertFails(o) \/ \E v \in Vals : InsertRecord(o, v) \/ InsertInNewPage(o, v)
  BY <1>3, QuietScans, InsertSteady
<1>4. CASE \E s \in Scans :
          \/ ScanNext(s) \/ ScanEof(s) \/ ScanFails(s) \/ MarkScan(s) \/ ResetScan(s)
          \/ DeleteRecord(s)
          \/ \E F \in Filters : StartScan(s, F)
          \/ \E v \in Vals : UpdateRecord(s, v)
  BY <1>4, ScanNextSteady, ScanEofSteady, QuietScans, MarkScanSteady, ResetScanSteady, ChangeSteady,
     StartScanSteady
<1>5. CASE \E o \in Readers, r \in Records : GetRecord(o, r)
  BY <1>5, QuietScans
<1> QED BY <1>1, <1>2, <1>3, <1>4, <1>5 DEF Next

LEMMA SInitStep == Init => SInv
<1> SUFFICES ASSUME Init PROVE SInv
  OBVIOUS
<1>1. IInv
  BY InitStep
<1>2. \A s \in Scans : scan[s] = NoScan
  BY DEF Init
<1> QED BY <1>1, <1>2, SteadyNoScan DEF SInv, SteadyScan

(* What a scan has seen is behind it and what it still has to see ahead,
   where it stands and where it would go back to (heapfile.C: markScan). *)
THEOREM ScansInvariant == Spec => []SInv
<1>1. Init => SInv
  BY SInitStep
<1>2. SInv /\ [Next]_vars => SInv'
  BY SNextStep
<1> QED BY <1>1, <1>2, PTL DEF Spec

(* No scan returns a record twice unless it is reset to before it
   (heapfile.C: scanNext, markScan, resetScan). *)
THEOREM ScansOnce == Spec => []ScanOnce
<1>1. SInv => ScanOnce
  BY DEF SInv, SteadyScan, Steady, ScanOnce
<1> QED BY <1>1, ScansInvariant, PTL

(* At FILEEOF a scan that began at the first page has returned all it had
   to, whatever was inserted, deleted and updated meanwhile (heapfile.C:
   startScan, scanNext). *)
THEOREM ScansComplete == Spec => []ScanComplete
<1>1. SInv => ScanComplete
  BY DEF SInv, SteadyScan, Steady, ScanComplete
<1> QED BY <1>1, ScansInvariant, PTL

=============================================================================
