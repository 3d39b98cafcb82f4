-------------------------- MODULE ClockBuf_proofs --------------------------
(***************************************************************************)
(* Theorems about the clock buffer manager, for any number of frames,      *)
(* files, pages and clients: its accounts of the frames agree, and the     *)
(* sweep of allocBuf, which nothing in the code bounds, is bounded.        *)
(***************************************************************************)
EXTENDS ClockBuf, FiniteSetTheorems, SequenceTheorems, TLAPS

Content   == Data \cup {Zero}
DescType  == [file : Files \cup {NoFile}, pageNo : {-1} \cup 1 .. MaxPages, pinCnt : Nat,
              dirty : BOOLEAN, valid : BOOLEAN, refbit : BOOLEAN]
HeldType  == [Clients -> [Keys -> {"no", "clean", "wrote"}]]
CallType  == [op : {"read", "alloc"}, client : Clients, key : Keys, advances : 0 .. SweepLimit]

(* TypeOK, but for the bounds that follow from the accounts *)
WeakType ==
    /\ bufTable \in [Frames -> DescType]
    /\ bufPool \in [Frames -> Content]
    /\ hashTable \in [Keys -> Frames \cup {NULL}]
    /\ clockHand \in Frames /\ pinnedFrame \in Nat
    /\ disk \in [Files -> Seq(Content)]
    /\ \A f \in Files : Len(disk[f]) <= MaxPages
    /\ held \in HeldType
    /\ call \in {NoCall} \cup CallType
    /\ status \in {"OK", "error", "started"}

Descs == \A i \in Frames : IF bufTable[i].valid THEN KeyOf(i) \in Keys ELSE bufTable[i] = Clear

Accounts == Descs /\ HashAgrees /\ PinsCounted

CacheOnDisk == \A k \in Keys : hashTable[k] # NULL => k[2] \in DOMAIN disk[k[1]]

(* a call looks for a frame for a page that is not cached, and only if some
   frame is not pinned *)
Pending ==
    Sweeping => /\ hashTable[call.key] = NULL
                /\ call.op = "alloc" => call.key[2] \in DOMAIN disk[call.key[1]]
                /\ pinnedFrame < NumBufs

(* how long ago the hand was on a frame *)
Ago(i) == IF i < clockHand THEN clockHand - i ELSE clockHand - i + NumBufs

(* what the sweep has left behind: no reference bit where it was once, and a
   pinned frame where it was twice *)
Swept ==
    Sweeping => /\ call.advances < SweepLimit
                /\ \A i \in Frames :
                      /\ call.advances >= Ago(i) => ~bufTable[i].refbit
                      /\ call.advances >= Ago(i) + NumBufs => bufTable[i].pinCnt > 0

IInv == WeakType /\ Accounts /\ CacheOnDisk /\ Pending /\ Swept

PinnedFrames == {i \in Frames : bufTable[i].pinCnt > 0}

-----------------------------------------------------------------------------
(* Operators *)

LEMMA Numbers == /\ NumBufs \in Nat /\ NumBufs > 0 /\ NULL \notin Frames /\ 0 \in Frames
                 /\ SweepLimit \in Nat /\ SweepLimit > 0
                 /\ \A i \in Frames : i \in Nat /\ i < NumBufs
BY ClockAssumption DEF Frames, SweepLimit

LEMMA DescFacts ==
  /\ Clear \in DescType /\ ~Clear.valid /\ Clear.pinCnt = 0 /\ ~Clear.refbit /\ Clear.file = NoFile
     /\ Clear.dirty = FALSE
  /\ \A k \in Keys : /\ Set(k) \in DescType /\ Set(k).valid /\ Set(k).pinCnt = 1
                     /\ <<Set(k).file, Set(k).pageNo>> = k
BY DEF Clear, Set, DescType, Keys

LEMMA KeyFacts ==
  ASSUME NEW k \in Keys
  PROVE  k = <<k[1], k[2]>> /\ k[1] \in Files /\ k[2] \in 1 .. MaxPages
BY DEF Keys

LEMMA CallFacts ==
  ASSUME NEW x \in {NoCall} \cup CallType
  PROVE  x # NoCall => /\ x \in CallType /\ x.key \in Keys /\ x.client \in Clients
                       /\ x.advances \in 0 .. SweepLimit /\ x.op \in {"read", "alloc"}
BY DEF CallType

LEMMA CallingFacts ==
  ASSUME NEW c \in Clients, NEW k \in Keys, NEW op \in {"read", "alloc"}
  PROVE  /\ Calling(op, c, k) \in CallType /\ Calling(op, c, k) # NoCall
         /\ Calling(op, c, k).key = k /\ Calling(op, c, k).op = op /\ Calling(op, c, k).advances = 0
BY Numbers DEF Calling, NoCall, CallType

LEMMA PinnedFinite ==
  IsFiniteSet(PinnedFrames) /\ Cardinality(PinnedFrames) \in 0 .. NumBufs
<1>1. PinnedFrames \in SUBSET Frames
  BY DEF PinnedFrames
<1>2. IsFiniteSet(Frames) /\ Cardinality(Frames) = NumBufs
  <2>1. 0 \in Int /\ NumBufs - 1 \in Int
    BY Numbers
  <2> QED BY <2>1, Numbers, FS_Interval DEF Frames
<1>3. IsFiniteSet(PinnedFrames) /\ Cardinality(PinnedFrames) <= NumBufs
  BY <1>1, <1>2, FS_Subset
<1> QED BY <1>3, Numbers, FS_CardinalityType

LEMMA AllPinned ==
  ASSUME \A i \in Frames : bufTable[i].pinCnt > 0 PROVE Cardinality(PinnedFrames) = NumBufs
<1>1. PinnedFrames = 0 .. NumBufs - 1
  BY DEF PinnedFrames, Frames
<1>2. 0 \in Int /\ NumBufs - 1 \in Int
  BY Numbers
<1> QED BY <1>1, <1>2, Numbers, FS_Interval

LEMMA HoldersFinite ==
  ASSUME NEW k
  PROVE  /\ IsFiniteSet(Holders(k)) /\ Cardinality(Holders(k)) \in 0 .. Cardinality(Clients)
         /\ Cardinality(Holders(k)) = 0 <=> Holders(k) = {}
<1>1. Holders(k) \in SUBSET Clients
  BY DEF Holders
<1>2. IsFiniteSet(Holders(k)) /\ Cardinality(Holders(k)) <= Cardinality(Clients)
  BY <1>1, ClientsAssumption, FS_Subset
<1>3. Cardinality(Holders(k)) \in Nat /\ Cardinality(Clients) \in Nat
  BY <1>2, ClientsAssumption, FS_CardinalityType
<1> QED BY <1>2, <1>3, FS_EmptySet

LEMMA WriteOutFacts ==
  ASSUME WeakType, NEW S \in SUBSET Frames
  PROVE  /\ WriteOut(disk, S) \in [Files -> Seq(Content)]
         /\ \A f \in Files : /\ DOMAIN WriteOut(disk, S)[f] = DOMAIN disk[f]
                             /\ Len(WriteOut(disk, S)[f]) = Len(disk[f])
<1>1. ASSUME NEW f \in Files
      PROVE  /\ WriteOut(disk, S)[f] \in Seq(Content)
             /\ DOMAIN WriteOut(disk, S)[f] = DOMAIN disk[f]
             /\ Len(WriteOut(disk, S)[f]) = Len(disk[f])
  <2> DEFINE val(p) == IF \E i \in S : KeyOf(i) = <<f, p>>
                       THEN bufPool[CHOOSE i \in S : KeyOf(i) = <<f, p>>] ELSE disk[f][p]
  <2>1. disk[f] \in Seq(Content) /\ DOMAIN disk[f] = 1 .. Len(disk[f]) /\ Len(disk[f]) \in Nat
    BY DEF WeakType
  <2>2. ASSUME NEW p \in 1 .. Len(disk[f]) PROVE val(p) \in Content
    <3>1. CASE \E i \in S : KeyOf(i) = <<f, p>>
      <4>1. (CHOOSE i \in S : KeyOf(i) = <<f, p>>) \in Frames
        BY <3>1
      <4> QED BY <3>1, <4>1 DEF WeakType
    <3>2. CASE ~\E i \in S : KeyOf(i) = <<f, p>>
      BY <2>1, <3>2
    <3> QED BY <3>1, <3>2
  <2>3. WriteOut(disk, S)[f] = [p \in 1 .. Len(disk[f]) |-> val(p)]
    BY <2>1 DEF WriteOut
  <2> HIDE DEF val
  <2>4. [p \in 1 .. Len(disk[f]) |-> val(p)] \in [1 .. Len(disk[f]) -> Content]
    BY <2>2
  <2>5. WriteOut(disk, S)[f] \in Seq(Content)
    BY <2>1, <2>3, <2>4, SeqDef
  <2> QED BY <2>1, <2>3, <2>5
<1> QED BY <1>1 DEF WriteOut

-----------------------------------------------------------------------------
(* How the accounts change with the frames *)

SameDesc(i) == /\ bufTable'[i].valid = bufTable[i].valid
               /\ bufTable'[i].file = bufTable[i].file
               /\ bufTable'[i].pageNo = bufTable[i].pageNo

LEMMA Unheld ==
  ASSUME WeakType, Accounts, NEW i \in Frames, bufTable[i].valid, bufTable[i].pinCnt = 0
  PROVE  Holders(KeyOf(i)) = {}
BY HoldersFinite DEF Accounts, PinsCounted

(* nobody's pin changes *)
LEMMA AccSame ==
  ASSUME WeakType, Accounts, UNCHANGED <<hashTable, pinnedFrame>>,
         \A k : Holders(k)' = Holders(k),
         \A i \in Frames : /\ SameDesc(i) /\ bufTable'[i].pinCnt = bufTable[i].pinCnt
                           /\ ~bufTable[i].valid => bufTable'[i] = bufTable[i]
  PROVE  Accounts'
<1>1. \A i \in Frames : KeyOf(i)' = KeyOf(i)
  BY DEF KeyOf, SameDesc
<1>2. Descs' /\ HashAgrees'
  BY <1>1 DEF Accounts, Descs, HashAgrees, SameDesc
<1>3. PinnedFrames' = PinnedFrames
  BY DEF PinnedFrames
<1>4. PinsCounted'
  BY <1>1, <1>3 DEF Accounts, PinsCounted, PinnedFrames, SameDesc
<1> QED BY <1>2, <1>4 DEF Accounts

(* unpinned frames leave the pool *)
LEMMA AccDrop ==
  ASSUME WeakType, Accounts, NEW F \in SUBSET Frames, UNCHANGED <<held, pinnedFrame>>,
         \A i \in F : bufTable[i].valid /\ bufTable[i].pinCnt = 0,
         \A i \in Frames : bufTable'[i] = IF i \in F THEN Clear ELSE bufTable[i],
         \A k \in Keys : hashTable'[k] = IF hashTable[k] \in F THEN NULL ELSE hashTable[k]
  PROVE  Accounts'
<1>1. \A i \in Frames \ F : KeyOf(i)' = KeyOf(i)
  BY DEF KeyOf
<1>2. \A i \in F : ~bufTable'[i].valid /\ bufTable'[i].pinCnt = 0 /\ bufTable'[i] = Clear
  BY DescFacts
<1>3. Descs'
  BY <1>1, <1>2 DEF Accounts, Descs
<1>4. HashAgrees'
  BY <1>1, <1>2, Numbers DEF Accounts, HashAgrees
<1>5. PinnedFrames' = PinnedFrames
  BY <1>2 DEF PinnedFrames
<1>6. \A k : Holders(k)' = Holders(k)
  BY DEF Holders
<1>7. \A k \in Keys : Holders(k) # {} => hashTable[k] \notin F
  BY Unheld DEF Accounts, HashAgrees
<1>8. PinsCounted'
  <2>1. pinnedFrame' = Cardinality(PinnedFrames')
    BY <1>5 DEF Accounts, PinsCounted, PinnedFrames
  <2>2. ASSUME NEW i \in Frames
        PROVE  (bufTable[i].pinCnt =
                    IF bufTable[i].valid THEN Cardinality(Holders(KeyOf(i))) ELSE 0)'
    <3>1. CASE i \in F
      BY <1>2, <3>1
    <3>2. CASE i \notin F
      <4>1. bufTable'[i] = bufTable[i] /\ KeyOf(i)' = KeyOf(i)
        BY <1>1, <3>2
      <4>2. Holders(KeyOf(i))' = Holders(KeyOf(i))
        BY <1>6, <4>1
      <4> QED BY <4>1, <4>2 DEF Accounts, PinsCounted
    <3> QED BY <3>1, <3>2
  <2>3. \A k \in Keys : Holders(k)' # {} => hashTable'[k] # NULL
    BY <1>6, <1>7 DEF Accounts, PinsCounted
  <2> QED BY <2>1, <2>2, <2>3 DEF PinsCounted, PinnedFrames
<1> QED BY <1>3, <1>4, <1>8 DEF Accounts

(* who holds what after one client's hold on one page changes *)
LEMMA Hold ==
  ASSUME WeakType, NEW c \in Clients, NEW k \in Keys, NEW v \in {"no", "clean", "wrote"},
         held' = [held EXCEPT ![c][k] = v]
  PROVE  /\ held' \in HeldType
         /\ \A j \in Keys : j # k => Holders(j)' = Holders(j)
         /\ Holders(k)' = IF v = "no" THEN Holders(k) \ {c} ELSE Holders(k) \cup {c}
         /\ c \in Holders(k) <=> held[c][k] # "no"
<1>1. held' \in HeldType /\ \A a \in Clients, j \in Keys :
         held'[a][j] = IF a = c /\ j = k THEN v ELSE held[a][j]
  BY DEF WeakType, HeldType
<1> QED BY <1>1 DEF Holders

(* client c gets page k, which frame i has or is to have *)
LEMMA AccPin ==
  ASSUME WeakType, Accounts, NEW c \in Clients, NEW k \in Keys, NEW v \in {"clean", "wrote"},
         held' = [held EXCEPT ![c][k] = v],
         NEW i \in Frames, hashTable[k] = i, held[c][k] = "no", hashTable' = hashTable,
         \A j \in Frames : j # i => bufTable'[j] = bufTable[j],
         SameDesc(i), bufTable'[i].pinCnt = bufTable[i].pinCnt + 1,
         pinnedFrame' = IF bufTable[i].pinCnt = 0 THEN pinnedFrame + 1 ELSE pinnedFrame
  PROVE  Accounts'
<1>1. /\ \A j \in Keys : j # k => Holders(j)' = Holders(j)
      /\ Holders(k)' = Holders(k) \cup {c} /\ c \notin Holders(k)
  BY Hold
<1>2. Cardinality(Holders(k)') = Cardinality(Holders(k)) + 1
  <2>1. IsFiniteSet(Holders(k))
    BY HoldersFinite
  <2>2. Cardinality(Holders(k) \cup {c}) = Cardinality(Holders(k)) + 1
    BY <1>1, <2>1, FS_AddElement
  <2> QED BY <1>1, <2>2
<1>3. \A j \in Frames : KeyOf(j)' = KeyOf(j) /\ bufTable'[j].valid = bufTable[j].valid
  BY DEF KeyOf, SameDesc
<1>4. bufTable[i].valid /\ KeyOf(i) = k /\ \A j \in Frames : j # i /\ bufTable[j].valid => KeyOf(j) # k
  BY DEF Accounts, HashAgrees
<1>5. Descs' /\ HashAgrees'
  BY <1>3, <1>4 DEF Accounts, Descs, HashAgrees
<1>6. bufTable[i].pinCnt \in Nat /\ PinnedFrames' = PinnedFrames \cup {i}
      /\ (i \in PinnedFrames <=> bufTable[i].pinCnt # 0)
  BY DEF PinnedFrames, WeakType, DescType
<1>7. pinnedFrame' = Cardinality(PinnedFrames')
  <2>1. pinnedFrame = Cardinality(PinnedFrames)
    BY DEF Accounts, PinsCounted, PinnedFrames
  <2>2. Cardinality(PinnedFrames \cup {i}) = IF i \in PinnedFrames THEN Cardinality(PinnedFrames)
                                             ELSE Cardinality(PinnedFrames) + 1
    BY PinnedFinite, FS_AddElement
  <2> QED BY <1>6, <2>1, <2>2
<1>8. ASSUME NEW j \in Frames
      PROVE  bufTable'[j].pinCnt = IF bufTable'[j].valid THEN Cardinality(Holders(KeyOf(j))') ELSE 0
  <2>1. bufTable[j].pinCnt = IF bufTable[j].valid THEN Cardinality(Holders(KeyOf(j))) ELSE 0
    BY DEF Accounts, PinsCounted
  <2>2. bufTable[j].valid => KeyOf(j) \in Keys
    BY DEF Accounts, Descs
  <2>3. CASE j = i
    <3>1. Holders(KeyOf(j))' = Holders(k)'
      BY <1>3, <1>4, <2>3 DEF Holders
    <3> QED BY <1>2, <1>3, <1>4, <2>1, <2>3, <3>1
  <2>4. CASE j # i
    <3>1. bufTable[j].valid => Holders(KeyOf(j))' = Holders(KeyOf(j))
      BY <1>1, <1>3, <1>4, <2>2, <2>4 DEF Holders
    <3> QED BY <1>3, <2>1, <2>4, <3>1
  <2> QED BY <2>3, <2>4
<1>9. \A j \in Keys : Holders(j)' # {} => hashTable'[j] # NULL
  BY <1>1, Numbers DEF Accounts, PinsCounted
<1> QED BY <1>5, <1>7, <1>8, <1>9 DEF Accounts, PinsCounted, PinnedFrames, Holders

LEMMA AccUnpin ==
  ASSUME WeakType, Accounts, NEW c \in Clients, NEW k \in Keys,
         held' = [held EXCEPT ![c][k] = "no"],
         NEW i \in Frames, hashTable[k] = i, held[c][k] # "no", hashTable' = hashTable,
         \A j \in Frames : j # i => bufTable'[j] = bufTable[j],
         SameDesc(i), bufTable[i].pinCnt > 0, bufTable'[i].pinCnt = bufTable[i].pinCnt - 1,
         pinnedFrame' = IF bufTable[i].pinCnt = 1 THEN pinnedFrame - 1 ELSE pinnedFrame
  PROVE  Accounts' /\ pinnedFrame' \in Nat
<1>1. /\ \A j \in Keys : j # k => Holders(j)' = Holders(j)
      /\ Holders(k)' = Holders(k) \ {c} /\ c \in Holders(k)
  BY Hold
<1>2. Cardinality(Holders(k)') = Cardinality(Holders(k)) - 1
  BY <1>1, HoldersFinite, FS_RemoveElement
<1>3. \A j \in Frames : KeyOf(j)' = KeyOf(j) /\ bufTable'[j].valid = bufTable[j].valid
  BY DEF KeyOf, SameDesc
<1>4. bufTable[i].valid /\ KeyOf(i) = k /\ \A j \in Frames : j # i /\ bufTable[j].valid => KeyOf(j) # k
  BY DEF Accounts, HashAgrees
<1>5. Descs' /\ HashAgrees'
  BY <1>3, <1>4 DEF Accounts, Descs, HashAgrees
<1>6. /\ bufTable[i].pinCnt \in Nat /\ i \in PinnedFrames
      /\ PinnedFrames' = IF bufTable[i].pinCnt = 1 THEN PinnedFrames \ {i} ELSE PinnedFrames
  BY DEF PinnedFrames, WeakType, DescType
<1>7. pinnedFrame' = Cardinality(PinnedFrames')
  <2>1. pinnedFrame = Cardinality(PinnedFrames)
    BY DEF Accounts, PinsCounted, PinnedFrames
  <2>2. Cardinality(PinnedFrames \ {i}) = Cardinality(PinnedFrames) - 1
    BY <1>6, PinnedFinite, FS_RemoveElement
  <2> QED BY <1>6, <2>1, <2>2
<1>8. ASSUME NEW j \in Frames
      PROVE  bufTable'[j].pinCnt = IF bufTable'[j].valid THEN Cardinality(Holders(KeyOf(j))') ELSE 0
  <2>1. bufTable[j].pinCnt = IF bufTable[j].valid THEN Cardinality(Holders(KeyOf(j))) ELSE 0
    BY DEF Accounts, PinsCounted
  <2>2. bufTable[j].valid => KeyOf(j) \in Keys
    BY DEF Accounts, Descs
  <2>3. CASE j = i
    <3>1. Holders(KeyOf(j))' = Holders(k)'
      BY <1>3, <1>4, <2>3 DEF Holders
    <3> QED BY <1>2, <1>3, <1>4, <2>1, <2>3, <3>1
  <2>4. CASE j # i
    <3>1. bufTable[j].valid => Holders(KeyOf(j))' = Holders(KeyOf(j))
      BY <1>1, <1>3, <1>4, <2>2, <2>4 DEF Holders
    <3> QED BY <1>3, <2>1, <2>4, <3>1
  <2> QED BY <2>3, <2>4
<1>9. \A j \in Keys : Holders(j)' # {} => hashTable'[j] # NULL
  BY <1>1, Numbers DEF Accounts, PinsCounted
<1>10. pinnedFrame' \in Nat
  <2>1. IsFiniteSet(PinnedFrames')
    BY <1>6, PinnedFinite, FS_RemoveElement
  <2> QED BY <1>7, <2>1, FS_CardinalityType
<1> QED BY <1>5, <1>7, <1>8, <1>9, <1>10 DEF Accounts, PinsCounted, PinnedFrames, Holders

(* an empty frame gets page k, with one pin *)
LEMMA AccInstall ==
  ASSUME WeakType, Accounts, NEW c \in Clients, NEW k \in Keys, NEW v \in {"clean", "wrote"},
         held' = [held EXCEPT ![c][k] = v], hashTable[k] = NULL,
         NEW i \in Frames, ~bufTable[i].valid,
         hashTable' = [hashTable EXCEPT ![k] = i],
         bufTable' = [bufTable EXCEPT ![i] = Set(k)],
         pinnedFrame' = pinnedFrame + 1
  PROVE  Accounts'
<1>1. /\ \A j \in Keys : j # k => Holders(j)' = Holders(j)
      /\ Holders(k)' = Holders(k) \cup {c} /\ Holders(k) = {}
  BY Hold DEF Accounts, PinsCounted
<1>2. Cardinality(Holders(k)') = 1
  <2>1. Holders(k)' = {c}
    BY <1>1
  <2>2. Cardinality({c}) = 1
    BY FS_Singleton
  <2> QED BY <2>1, <2>2
<1>3. /\ \A j \in Frames : j # i => bufTable'[j] = bufTable[j] /\ KeyOf(j)' = KeyOf(j)
      /\ bufTable'[i].valid /\ bufTable'[i].pinCnt = 1 /\ KeyOf(i)' = k
  BY DescFacts DEF KeyOf, WeakType
<1>4. \A j \in Keys : hashTable'[j] = IF j = k THEN i ELSE hashTable[j]
  BY DEF WeakType
<1>5. \A j \in Frames : bufTable[j].valid => KeyOf(j) # k
  BY Numbers DEF Accounts, HashAgrees
<1>6. Descs'
  BY <1>3 DEF Accounts, Descs
<1>7. HashAgrees'
  BY <1>3, <1>4, <1>5 DEF Accounts, HashAgrees
<1>8. i \notin PinnedFrames /\ PinnedFrames' = PinnedFrames \cup {i}
  BY <1>3, DescFacts DEF Accounts, Descs, PinnedFrames
<1>9. pinnedFrame' = Cardinality(PinnedFrames')
  BY <1>8, PinnedFinite, FS_AddElement DEF Accounts, PinsCounted, PinnedFrames
<1>10. ASSUME NEW j \in Frames
       PROVE  bufTable'[j].pinCnt = IF bufTable'[j].valid THEN Cardinality(Holders(KeyOf(j))') ELSE 0
  <2>1. bufTable[j].pinCnt = IF bufTable[j].valid THEN Cardinality(Holders(KeyOf(j))) ELSE 0
    BY DEF Accounts, PinsCounted
  <2>2. bufTable[j].valid => KeyOf(j) \in Keys
    BY DEF Accounts, Descs
  <2>3. CASE j = i
    <3>1. Holders(KeyOf(j))' = Holders(k)'
      BY <1>3, <2>3 DEF Holders
    <3> QED BY <1>2, <1>3, <2>3, <3>1
  <2>4. CASE j # i
    <3>1. bufTable[j].valid => Holders(KeyOf(j))' = Holders(KeyOf(j))
      BY <1>1, <1>3, <1>5, <2>2, <2>4 DEF Holders
    <3> QED BY <1>3, <2>1, <2>4, <3>1
  <2> QED BY <2>3, <2>4
<1>11. \A j \in Keys : Holders(j)' # {} => hashTable'[j] # NULL
  BY <1>1, <1>4, Numbers DEF Accounts, PinsCounted
<1> QED BY <1>6, <1>7, <1>9, <1>10, <1>11 DEF Accounts, PinsCounted, PinnedFrames, Holders

(* an empty pool *)
LEMMA AccEmpty ==
  ASSUME bufTable' = [i \in Frames |-> Clear], hashTable' = [k \in Keys |-> NULL], pinnedFrame' = 0,
         held' = [c \in Clients |-> [k \in Keys |-> "no"]]
  PROVE  Accounts'
<1>1. \A i \in Frames : bufTable'[i] = Clear /\ ~bufTable'[i].valid /\ bufTable'[i].pinCnt = 0
  BY DescFacts
<1>2. \A k \in Keys : Holders(k)' = {} /\ hashTable'[k] = NULL
  BY DEF Holders
<1>3. PinnedFrames' = {}
  BY <1>1 DEF PinnedFrames
<1>4. Descs' /\ HashAgrees'
  BY <1>1, <1>2, Numbers DEF Descs, HashAgrees
<1>5. PinsCounted'
  BY <1>1, <1>2, <1>3, FS_EmptySet DEF PinsCounted, PinnedFrames
<1> QED BY <1>4, <1>5 DEF Accounts

-----------------------------------------------------------------------------
(* The invariant, step by step.  A step of the sweep: *)

LEMMA Moves ==
  ASSUME IInv, Sweeping, GoOn, NEW r \in BOOLEAN,
         bufTable' = [bufTable EXCEPT ![clockHand].refbit = r],
         ~r, bufTable[clockHand].refbit \/ bufTable[clockHand].pinCnt > 0, bufTable[clockHand].valid
  PROVE  IInv'
<1> DEFINE h == clockHand
           a == call.advances
<1>1. /\ call \in CallType /\ a \in 0 .. SweepLimit /\ a < SweepLimit /\ h \in Frames
      /\ call.key \in Keys /\ call.op \in {"read", "alloc"}
  BY CallFacts DEF IInv, WeakType, Swept, Sweeping
<1>2. /\ call' = [call EXCEPT !.advances = a + 1] /\ call' \in CallType /\ call'.advances = a + 1
      /\ call'.key = call.key /\ call'.op = call.op
      /\ UNCHANGED <<bufPool, hashTable, pinnedFrame, disk, held, status>>
  BY <1>1, Numbers DEF GoOn, CallType
<1>3. /\ clockHand' = IF h = NumBufs - 1 THEN 0 ELSE h + 1
      /\ clockHand' \in Frames
  BY <1>1, ClockAssumption DEF GoOn, Advanced, Frames
<1>4. /\ bufTable' \in [Frames -> DescType]
      /\ \A i \in Frames : i # h => bufTable'[i] = bufTable[i]
      /\ bufTable'[h] = [bufTable[h] EXCEPT !.refbit = r]
      /\ SameDesc(h) /\ bufTable'[h].pinCnt = bufTable[h].pinCnt /\ bufTable'[h].refbit = r
  BY <1>1 DEF IInv, WeakType, DescType, SameDesc
<1> HIDE DEF h, a
<1>5. WeakType'
  BY <1>2, <1>3, <1>4 DEF IInv, WeakType
<1>6. Accounts'
  <2>1. \A k : Holders(k)' = Holders(k)
    BY <1>2 DEF Holders
  <2>2. \A i \in Frames : /\ SameDesc(i) /\ bufTable'[i].pinCnt = bufTable[i].pinCnt
                          /\ ~bufTable[i].valid => bufTable'[i] = bufTable[i]
    BY <1>4 DEF SameDesc, h
  <2> QED BY <1>2, <2>1, <2>2, AccSame DEF IInv
<1>7. CacheOnDisk' /\ Pending'
  BY <1>2 DEF IInv, CacheOnDisk, Pending, Sweeping, CallType, NoCall
<1>8. ASSUME NEW i \in Frames
      PROVE  /\ i # h => Ago(i)' = Ago(i) + 1 /\ Ago(i) < NumBufs
             /\ i = h => Ago(i)' = 1 /\ Ago(i) = NumBufs
             /\ Ago(i) \in Nat
  BY <1>1, <1>3, Numbers DEF Ago, Frames, h
<1>9. ASSUME NEW i \in Frames
      PROVE  /\ a >= Ago(i) => ~bufTable[i].refbit
             /\ a >= Ago(i) + NumBufs => bufTable[i].pinCnt > 0
  BY DEF IInv, Swept, a
<1>10. ASSUME NEW i \in Frames
       PROVE  /\ a + 1 >= Ago(i)' => ~bufTable'[i].refbit
              /\ a + 1 >= Ago(i)' + NumBufs => bufTable'[i].pinCnt > 0
  <2>1. CASE i # h
    BY <1>1, <1>4, <1>8, <1>9, <2>1, Numbers
  <2>2. CASE i = h
    <3>1. a >= NumBufs => bufTable[h].pinCnt > 0
      BY <1>8, <1>9, <2>2 DEF h
    <3>2. bufTable'[h].pinCnt = bufTable[h].pinCnt
      BY <1>4
    <3>3. a + 1 >= Ago(i)' + NumBufs => a >= NumBufs
      BY <1>1, <1>8, <2>2, Numbers
    <3> QED BY <1>4, <2>2, <3>1, <3>2, <3>3
  <2> QED BY <2>1, <2>2
<1>11. a + 1 < SweepLimit
  <2> SUFFICES ASSUME a + 1 >= SweepLimit PROVE FALSE
    BY <1>1, Numbers
  <2>1. ASSUME NEW i \in Frames PROVE bufTable'[i].pinCnt > 0
    <3>1. Ago(i)' \in 1 .. NumBufs
      BY <1>1, <1>8, Numbers
    <3>2. a + 1 >= Ago(i)' + NumBufs
      BY <1>1, <3>1, Numbers DEF SweepLimit
    <3> QED BY <1>10, <3>2
  <2>2. \A i \in Frames : bufTable[i].pinCnt > 0
    BY <1>4, <2>1
  <2>3. pinnedFrame = NumBufs
    BY <2>2, AllPinned DEF IInv, Accounts, PinsCounted, PinnedFrames
  <2> QED BY <2>3, Numbers DEF IInv, Pending
<1>12. Swept'
  BY <1>2, <1>10, <1>11 DEF Swept
<1> QED BY <1>5, <1>6, <1>7, <1>12 DEF IInv

LEMMA SecondChanceInv == ASSUME IInv, SecondChance PROVE IInv'
<1>1. /\ Sweeping /\ GoOn /\ bufTable[clockHand].refbit /\ bufTable[clockHand].valid
      /\ bufTable' = [bufTable EXCEPT ![clockHand].refbit = FALSE]
  BY DEF SecondChance
<1> QED BY <1>1, Moves

LEMMA SkipPinnedInv == ASSUME IInv, SkipPinned PROVE IInv'
<1>1. /\ Sweeping /\ GoOn /\ bufTable[clockHand].pinCnt > 0 /\ bufTable[clockHand].valid
      /\ bufTable' = bufTable /\ ~bufTable[clockHand].refbit
  BY DEF SkipPinned
<1>2. bufTable' = [bufTable EXCEPT ![clockHand].refbit = FALSE]
  BY <1>1 DEF IInv, WeakType, DescType
<1> QED BY <1>1, <1>2, Moves

LEMMA EvictInv == ASSUME IInv, Evict PROVE IInv'
<1> DEFINE h == clockHand
<1>1. /\ Sweeping /\ h \in Frames /\ bufTable[h].valid /\ bufTable[h].pinCnt = 0
      /\ disk' = WriteOut(disk, Dirty \cap {h})
      /\ hashTable' = [hashTable EXCEPT ![KeyOf(h)] = NULL]
      /\ bufTable' = [bufTable EXCEPT ![h] = Clear]
      /\ UNCHANGED <<bufPool, clockHand, pinnedFrame, held, call, status>>
  BY DEF Evict, FoundVictim, IInv, WeakType
<1> HIDE DEF h
<1>2. /\ \A i \in Frames : bufTable'[i] = IF i \in {h} THEN Clear ELSE bufTable[i]
      /\ bufTable' \in [Frames -> DescType]
  BY <1>1, DescFacts DEF IInv, WeakType
<1>3. /\ \A k \in Keys : hashTable'[k] = IF hashTable[k] \in {h} THEN NULL ELSE hashTable[k]
      /\ hashTable' \in [Keys -> Frames \cup {NULL}]
  BY <1>1 DEF IInv, WeakType, Accounts, HashAgrees
<1>4. /\ disk' \in [Files -> Seq(Content)]
      /\ \A f \in Files : DOMAIN disk'[f] = DOMAIN disk[f] /\ Len(disk'[f]) = Len(disk[f])
  BY <1>1, WriteOutFacts DEF IInv
<1>5. WeakType'
  BY <1>1, <1>2, <1>3, <1>4 DEF IInv, WeakType
<1>6. Accounts'
  <2>1. {h} \in SUBSET Frames /\ \A i \in {h} : bufTable[i].valid /\ bufTable[i].pinCnt = 0
    BY <1>1
  <2> QED BY <1>1, <1>2, <1>3, <2>1, AccDrop DEF IInv
<1>7. CacheOnDisk'
  BY <1>3, <1>4, KeyFacts, Numbers DEF IInv, CacheOnDisk
<1>8. Pending'
  <2>1. call.key \in Keys
    BY <1>1, CallFacts DEF IInv, WeakType, Sweeping
  <2> QED BY <1>1, <1>3, <1>4, <2>1, KeyFacts, Numbers DEF IInv, Pending, Sweeping
<1>9. Swept'
  <2>1. Ago(h) = NumBufs /\ \A i \in Frames : Ago(i)' = Ago(i)
    BY <1>1, Numbers DEF Ago, h
  <2>2. call.advances < SweepLimit /\ call.advances \in Nat
    BY <1>1, CallFacts, Numbers DEF IInv, WeakType, Swept, Sweeping
  <2>3. ~(call.advances >= Ago(h) + NumBufs)
    BY <2>1, <2>2, Numbers DEF SweepLimit
  <2>4. bufTable'[h].refbit = FALSE
    BY <1>1, <1>2, DescFacts
  <2> QED BY <1>1, <1>2, <2>1, <2>3, <2>4 DEF IInv, Swept, Sweeping
<1> QED BY <1>5, <1>6, <1>7, <1>8, <1>9 DEF IInv

(* what a call that fails leaves *)
LEMMA GivesUp ==
  ASSUME IInv, UNCHANGED <<bufTable, bufPool, hashTable, clockHand, pinnedFrame, disk, held>>,
         call' = NoCall, status' \in {"OK", "error"}
  PROVE  IInv'
<1>1. WeakType'
  BY DEF IInv, WeakType
<1>2. Accounts' /\ CacheOnDisk'
  BY DEF IInv, Accounts, Descs, HashAgrees, PinsCounted, KeyOf, Holders, CacheOnDisk
<1>3. Pending' /\ Swept'
  BY DEF Pending, Swept, Sweeping
<1> QED BY <1>1, <1>2, <1>3 DEF IInv

LEMMA FailsInv == ASSUME IInv, EvictFails \/ ReadFails PROVE IInv'
BY GivesUp DEF EvictFails, ReadFails, pool

(* the frame is found: ReadDone and AllocDone *)
LEMMA DoneInv == ASSUME IInv, ReadDone \/ AllocDone PROVE IInv'
<1> DEFINE h == clockHand
           k == call.key
           c == call.client
<1>1. /\ Sweeping /\ h \in Frames /\ ~bufTable[h].valid /\ k \in Keys /\ c \in Clients
      /\ hashTable[k] = NULL /\ k[2] \in DOMAIN disk[k[1]]
  BY CallFacts DEF ReadDone, AllocDone, Free, IInv, WeakType, Pending, Sweeping
<1>2. PICK v \in {"clean", "wrote"} : held' = [held EXCEPT ![c][k] = v]
  BY DEF ReadDone, AllocDone
<1>3. /\ hashTable' = [hashTable EXCEPT ![k] = h]
      /\ bufTable' = [bufTable EXCEPT ![h] = Set(k)]
      /\ pinnedFrame' = pinnedFrame + 1 /\ call' = NoCall /\ status' = "OK"
      /\ UNCHANGED <<clockHand, disk>>
  BY DEF ReadDone, AllocDone, Install
<1>4. bufPool' \in [Frames -> Content]
  <2>1. CASE AllocDone
    BY <2>1 DEF AllocDone, IInv, WeakType
  <2>2. CASE ReadDone
    <3>1. OnDisk(disk, k) \in Content
      <4>1. disk[k[1]] \in Seq(Content)
        BY <1>1, KeyFacts DEF IInv, WeakType
      <4> HIDE DEF k
      <4> QED BY <1>1, <4>1 DEF OnDisk
    <3>2. bufPool' = [bufPool EXCEPT ![h] = OnDisk(disk, k)]
      BY <2>2 DEF ReadDone
    <3> HIDE DEF h, k
    <3> QED BY <3>1, <3>2 DEF IInv, WeakType
  <2> QED BY <2>1, <2>2
<1> HIDE DEF h, k, c
<1>5. held' \in HeldType
  BY <1>1, <1>2, Hold DEF IInv
<1>6. WeakType'
  <2>1. bufTable' \in [Frames -> DescType] /\ hashTable' \in [Keys -> Frames \cup {NULL}]
    BY <1>1, <1>3, DescFacts DEF IInv, WeakType
  <2>2. pinnedFrame' \in Nat
    BY <1>3 DEF IInv, WeakType
  <2> QED BY <1>3, <1>4, <1>5, <2>1, <2>2 DEF IInv, WeakType
<1>7. Accounts'
  BY <1>1, <1>2, <1>3, AccInstall DEF IInv
<1>8. CacheOnDisk'
  BY <1>1, <1>3 DEF IInv, CacheOnDisk, WeakType
<1>9. Pending' /\ Swept'
  BY <1>3 DEF Pending, Swept, Sweeping
<1> QED BY <1>6, <1>7, <1>8, <1>9 DEF IInv

(* Between the sweeps: what callers do *)

(* a call starts to look for a frame: the hand has yet to move *)
LEMMA Starts ==
  ASSUME IInv, pinnedFrame # NumBufs,
         NEW op \in {"read", "alloc"}, NEW c \in Clients, NEW k \in Keys,
         call' = Calling(op, c, k), UNCHANGED <<bufTable, clockHand, pinnedFrame>>
  PROVE  Swept' /\ pinnedFrame < NumBufs
<1>1. call'.advances = 0
  BY CallingFacts
<1>2. \A i \in Frames : Ago(i)' >= 1 /\ Ago(i)' \in Nat
  BY Numbers DEF IInv, WeakType, Ago
<1>3. Swept'
  BY <1>1, <1>2, Numbers DEF Swept
<1>4. pinnedFrame \in 0 .. NumBufs
  BY PinnedFinite DEF IInv, Accounts, PinsCounted, PinnedFrames
<1> QED BY <1>3, <1>4, Numbers

LEMMA NoSweep == ASSUME ~Sweeping, UNCHANGED call PROVE Pending' /\ Swept'
BY DEF Pending, Swept, Sweeping

LEMMA ReadHitInv ==
  ASSUME IInv, ~Sweeping, NEW c \in Clients, NEW k \in Keys, ReadHit(c, k) PROVE IInv'
<1> DEFINE i == hashTable[k]
<1>1. /\ i \in Frames /\ held[c][k] = "no"
      /\ bufTable' = [bufTable EXCEPT ![i].refbit = TRUE, ![i].pinCnt = @ + 1]
      /\ pinnedFrame' = IF bufTable[i].pinCnt = 0 THEN pinnedFrame + 1 ELSE pinnedFrame
      /\ held' = [held EXCEPT ![c][k] = "clean"]
      /\ status' = "OK"
      /\ UNCHANGED <<bufPool, hashTable, clockHand, disk, call>>
  BY DEF ReadHit, IInv, WeakType
<1> HIDE DEF i
<1>2. /\ bufTable' \in [Frames -> DescType]
      /\ \A j \in Frames : j # i => bufTable'[j] = bufTable[j]
      /\ SameDesc(i) /\ bufTable'[i].pinCnt = bufTable[i].pinCnt + 1
  <2>1. bufTable \in [Frames -> DescType] /\ bufTable[i] \in DescType /\ bufTable[i].pinCnt + 1 \in Nat
    BY <1>1 DEF IInv, WeakType, DescType
  <2> DEFINE new == [[bufTable[i] EXCEPT !.refbit = TRUE] EXCEPT !.pinCnt = bufTable[i].pinCnt + 1]
  <2>2. /\ new \in DescType /\ new.valid = bufTable[i].valid /\ new.file = bufTable[i].file
        /\ new.pageNo = bufTable[i].pageNo /\ new.pinCnt = bufTable[i].pinCnt + 1
    BY <2>1 DEF DescType
  <2>3. bufTable' = [bufTable EXCEPT ![i] = new]
    BY <1>1, <2>1 DEF DescType
  <2> HIDE DEF new
  <2> QED BY <1>1, <2>1, <2>2, <2>3 DEF SameDesc
<1>3. held' \in HeldType /\ pinnedFrame' \in Nat
  <2>1. WeakType /\ "clean" \in {"no", "clean", "wrote"} /\ pinnedFrame \in Nat
    BY DEF IInv, WeakType
  <2>2. held' = [held EXCEPT ![c][k] = "clean"]
    BY <1>1
  <2>3. held' \in HeldType
    BY <2>1, <2>2, Hold
  <2>4. pinnedFrame' \in Nat
    BY <1>1, <2>1
  <2> QED BY <2>3, <2>4
<1>4. WeakType'
  BY <1>1, <1>2, <1>3 DEF IInv, WeakType
<1>5. Accounts'
  BY <1>1, <1>2, AccPin DEF IInv, i
<1>6. CacheOnDisk'
  BY <1>1 DEF IInv, CacheOnDisk
<1> QED BY <1>1, <1>4, <1>5, <1>6, NoSweep DEF IInv

LEMMA ReadMissInv ==
  ASSUME IInv, ~Sweeping, NEW c \in Clients, NEW k \in Keys, ReadMiss(c, k) PROVE IInv'
<1>1. hashTable[k] = NULL
      /\ UNCHANGED <<bufTable, bufPool, hashTable, clockHand, pinnedFrame, disk, held>>
  BY DEF ReadMiss, pool
<1>2. Accounts' /\ CacheOnDisk'
  BY <1>1 DEF IInv, Accounts, Descs, HashAgrees, PinsCounted, KeyOf, Holders, CacheOnDisk
<1>3. CASE pinnedFrame = NumBufs
  <2>1. status' = "error" /\ call' = NoCall
    BY <1>3 DEF ReadMiss, Sweeping
  <2> QED BY <1>1, <2>1, GivesUp
<1>4. CASE pinnedFrame # NumBufs
  <2>1. call' = Calling("read", c, k) /\ status' = "OK"
    BY <1>4 DEF ReadMiss
  <2>2. WeakType'
    BY <1>1, <2>1, CallingFacts DEF IInv, WeakType
  <2>3. Swept' /\ pinnedFrame < NumBufs
    BY <1>1, <1>4, <2>1, Starts
  <2>4. Pending'
    BY <1>1, <2>1, <2>3, CallingFacts DEF Pending
  <2> QED BY <1>2, <2>2, <2>3, <2>4 DEF IInv
<1> QED BY <1>3, <1>4

LEMMA AllocBeginInv ==
  ASSUME IInv, ~Sweeping, NEW c \in Clients, NEW f \in Files, AllocBegin(c, f) PROVE IInv'
<1> DEFINE k == NewKey(f)
<1>1. /\ Len(disk[f]) < MaxPages
      /\ disk' = [disk EXCEPT ![f] = Append(disk[f], Zero)]
      /\ UNCHANGED <<bufTable, bufPool, hashTable, clockHand, pinnedFrame, held>>
  BY DEF AllocBegin, pool
<1>2. /\ disk[f] \in Seq(Content) /\ Len(disk[f]) \in Nat /\ Zero \in Content /\ MaxPages \in Nat
      /\ DOMAIN disk[f] = 1 .. Len(disk[f])
  BY ClockAssumption DEF IInv, WeakType, Content
<1>3. /\ Append(disk[f], Zero) \in Seq(Content) /\ Len(Append(disk[f], Zero)) = Len(disk[f]) + 1
      /\ DOMAIN Append(disk[f], Zero) = 1 .. Len(disk[f]) + 1
  BY <1>2
<1>4. /\ disk' \in [Files -> Seq(Content)] /\ \A g \in Files : Len(disk'[g]) <= MaxPages
      /\ \A g \in Files : DOMAIN disk[g] \subseteq DOMAIN disk'[g]
      /\ disk'[f] = Append(disk[f], Zero)
  BY <1>1, <1>2, <1>3 DEF IInv, WeakType
<1>5. k \in Keys /\ k[1] = f /\ k[2] = Len(disk[f]) + 1
  BY <1>1, <1>2 DEF NewKey, Keys
<1>6. hashTable[k] = NULL /\ k[2] \in DOMAIN disk'[k[1]]
  BY <1>2, <1>3, <1>4, <1>5 DEF IInv, CacheOnDisk
<1> HIDE DEF k
<1>7. Accounts'
  <2>1. Accounts
    BY DEF IInv
  <2>2. /\ UNCHANGED <<bufTable, hashTable, pinnedFrame>>
        /\ \A j \in Keys : Holders(j)' = Holders(j)
    BY <1>1 DEF Holders
  <2> QED BY <2>1, <2>2 DEF Accounts, Descs, HashAgrees, PinsCounted, KeyOf
<1>8. CacheOnDisk'
  BY <1>1, <1>4, KeyFacts DEF IInv, CacheOnDisk
<1>9. CASE pinnedFrame = NumBufs
  <2>1. status' = "error" /\ call' = call
    BY <1>9 DEF AllocBegin
  <2>2. WeakType'
    BY <1>1, <1>4, <2>1 DEF IInv, WeakType
  <2> QED BY <1>7, <1>8, <2>1, <2>2, NoSweep DEF IInv
<1>10. CASE pinnedFrame # NumBufs
  <2>1. call' = Calling("alloc", c, k) /\ status' = "OK"
    BY <1>10 DEF AllocBegin, k
  <2>2. WeakType'
    BY <1>1, <1>4, <1>5, <2>1, CallingFacts DEF IInv, WeakType
  <2>3. Swept' /\ pinnedFrame < NumBufs
    BY <1>1, <1>5, <1>10, <2>1, Starts
  <2>4. Pending'
    BY <1>1, <1>5, <1>6, <2>1, <2>3, CallingFacts DEF Pending
  <2> QED BY <1>7, <1>8, <2>2, <2>3, <2>4 DEF IInv
<1> QED BY <1>9, <1>10

LEMMA UnPinPageInv ==
  ASSUME IInv, ~Sweeping, NEW c \in Clients, NEW k \in Keys, NEW d \in BOOLEAN, UnPinPage(c, k, d)
  PROVE  IInv'
<1> DEFINE i == hashTable[k]
<1>1. /\ i \in Frames /\ held[c][k] # "no" /\ bufTable[i].pinCnt > 0
      /\ bufTable' = [bufTable EXCEPT ![i].dirty = @ \/ d, ![i].pinCnt = @ - 1]
      /\ pinnedFrame' = IF bufTable[i].pinCnt = 1 THEN pinnedFrame - 1 ELSE pinnedFrame
      /\ held' = [held EXCEPT ![c][k] = "no"]
      /\ status' = "OK"
      /\ UNCHANGED <<bufPool, hashTable, clockHand, disk, call>>
  BY DEF UnPinPage, IInv, WeakType
<1> HIDE DEF i
<1>2. /\ bufTable' \in [Frames -> DescType]
      /\ \A j \in Frames : j # i => bufTable'[j] = bufTable[j]
      /\ SameDesc(i) /\ bufTable'[i].pinCnt = bufTable[i].pinCnt - 1
  <2>1. bufTable \in [Frames -> DescType] /\ bufTable[i] \in DescType /\ bufTable[i].pinCnt - 1 \in Nat
    BY <1>1 DEF IInv, WeakType, DescType
  <2> DEFINE dd == bufTable[i].dirty \/ d
             new == [[bufTable[i] EXCEPT !.dirty = dd] EXCEPT !.pinCnt = bufTable[i].pinCnt - 1]
  <2>2. dd \in BOOLEAN
    BY Zenon
  <2>3. bufTable' = [bufTable EXCEPT ![i] = new]
    BY <1>1, <2>1 DEF DescType
  <2> HIDE DEF dd
  <2>4. /\ new \in DescType /\ new.valid = bufTable[i].valid /\ new.file = bufTable[i].file
        /\ new.pageNo = bufTable[i].pageNo /\ new.pinCnt = bufTable[i].pinCnt - 1
    BY <2>1, <2>2 DEF DescType
  <2> HIDE DEF new
  <2> QED BY <1>1, <2>1, <2>3, <2>4 DEF SameDesc
<1>3. held' \in HeldType
  <2>1. WeakType /\ "no" \in {"no", "clean", "wrote"}
    BY DEF IInv
  <2> QED BY <1>1, <2>1, Hold
<1>4. Accounts' /\ pinnedFrame' \in Nat
  BY <1>1, <1>2, AccUnpin DEF IInv, i
<1>5. WeakType'
  BY <1>1, <1>2, <1>3, <1>4 DEF IInv, WeakType
<1>6. CacheOnDisk'
  BY <1>1 DEF IInv, CacheOnDisk
<1> QED BY <1>1, <1>4, <1>5, <1>6, NoSweep DEF IInv

LEMMA WritePinnedInv ==
  ASSUME IInv, ~Sweeping, NEW c \in Clients, NEW k \in Keys, NEW d \in Data, WritePinned(c, k, d)
  PROVE  IInv'
<1>1. /\ held[c][k] # "no" /\ held' = [held EXCEPT ![c][k] = "wrote"]
      /\ bufPool' = [bufPool EXCEPT ![hashTable[k]] = d]
      /\ UNCHANGED <<bufTable, hashTable, clockHand, pinnedFrame, disk, call, status>>
  BY DEF WritePinned
<1>2. held' \in HeldType /\ \A j \in Keys : Holders(j)' = Holders(j)
  <2>1. WeakType /\ "wrote" \in {"no", "clean", "wrote"} /\ held' = [held EXCEPT ![c][k] = "wrote"]
    BY <1>1 DEF IInv
  <2>2. /\ held' \in HeldType /\ \A j \in Keys : j # k => Holders(j)' = Holders(j)
        /\ Holders(k)' = Holders(k) \cup {c} /\ c \in Holders(k)
    BY <1>1, <2>1, Hold
  <2> QED BY <2>2
<1>3. bufPool' \in [Frames -> Content]
  BY <1>1 DEF IInv, WeakType, Content
<1>4. WeakType'
  BY <1>1, <1>2, <1>3 DEF IInv, WeakType
<1>5. Accounts'
  <2>1. Descs' /\ HashAgrees' /\ PinnedFrames' = PinnedFrames
    BY <1>1 DEF IInv, Accounts, Descs, HashAgrees, KeyOf, PinnedFrames
  <2>2. ASSUME NEW j \in Frames
        PROVE  bufTable'[j].pinCnt = IF bufTable'[j].valid THEN Cardinality(Holders(KeyOf(j))') ELSE 0
    <3>1. bufTable[j].valid => Holders(KeyOf(j))' = Holders(KeyOf(j))
      <4>1. KeyOf(j)' = KeyOf(j) /\ (bufTable[j].valid => KeyOf(j) \in Keys)
        BY <1>1 DEF IInv, Accounts, Descs, KeyOf
      <4> QED BY <1>2, <4>1 DEF Holders
    <3> QED BY <1>1, <3>1 DEF IInv, Accounts, PinsCounted
  <2>3. PinsCounted'
    BY <1>1, <1>2, <2>1, <2>2 DEF IInv, Accounts, PinsCounted, PinnedFrames
  <2> QED BY <2>1, <2>3 DEF Accounts
<1>6. CacheOnDisk'
  BY <1>1 DEF IInv, CacheOnDisk
<1> QED BY <1>1, <1>4, <1>5, <1>6, NoSweep DEF IInv

LEMMA FlushFileInv ==
  ASSUME IInv, ~Sweeping, NEW f \in Files, FlushFile(f) PROVE IInv'
<1> DEFINE Mine == {i \in Frames : bufTable[i].file = f}
           Flushed(s) == {i \in Mine : i < s}
<1>1. PICK s \in 0 .. NumBufs :
         /\ \A i \in Flushed(s) : bufTable[i].pinCnt = 0
         /\ disk' = WriteOut(disk, Flushed(s) \cap Dirty)
         /\ hashTable' = [k \in Keys |-> IF k \in {KeyOf(i) : i \in Flushed(s)} THEN NULL ELSE hashTable[k]]
         /\ bufTable' = [i \in Frames |-> IF i \in Flushed(s) THEN Clear ELSE bufTable[i]]
         /\ status' \in {"OK", "error"}
         /\ UNCHANGED <<bufPool, clockHand, pinnedFrame, held, call>>
  BY DEF FlushFile
<1> DEFINE F == Flushed(s)
<1>2. F \in SUBSET Frames /\ \A i \in F : bufTable[i].valid /\ bufTable[i].pinCnt = 0
  <2>1. \A i \in Frames : bufTable[i].file = f => bufTable[i].valid
    BY DescFacts, ClockAssumption DEF IInv, Accounts, Descs
  <2> QED BY <1>1, <2>1
<1>3. \A i \in Frames : bufTable'[i] = IF i \in F THEN Clear ELSE bufTable[i]
  BY <1>1
<1>4. \A k \in Keys : hashTable'[k] = IF hashTable[k] \in F THEN NULL ELSE hashTable[k]
  <2>1. ASSUME NEW k \in Keys PROVE k \in {KeyOf(i) : i \in F} <=> hashTable[k] \in F
    BY <1>2 DEF IInv, Accounts, HashAgrees
  <2> QED BY <1>1, <2>1
<1>5. /\ disk' \in [Files -> Seq(Content)]
      /\ \A g \in Files : DOMAIN disk'[g] = DOMAIN disk[g] /\ Len(disk'[g]) = Len(disk[g])
  BY <1>1, <1>2, WriteOutFacts DEF IInv
<1> HIDE DEF F
<1>6. Accounts'
  BY <1>1, <1>2, <1>3, <1>4, AccDrop DEF IInv
<1>7. WeakType'
  <2>1. bufTable' \in [Frames -> DescType]
    BY <1>1, DescFacts DEF IInv, WeakType
  <2>2. hashTable' \in [Keys -> Frames \cup {NULL}]
    BY <1>1 DEF IInv, WeakType
  <2> QED BY <1>1, <1>5, <2>1, <2>2 DEF IInv, WeakType
<1>8. CacheOnDisk'
  BY <1>4, <1>5, KeyFacts DEF IInv, CacheOnDisk
<1> QED BY <1>1, <1>6, <1>7, <1>8, NoSweep DEF IInv

LEMMA RestartInv == ASSUME IInv, ~Sweeping, Restart PROVE IInv'
<1>1. PICK failed \in SUBSET Dirty : disk' = WriteOut(disk, Dirty \ failed)
  BY DEF Restart
<1>2. /\ bufTable' = [i \in Frames |-> Clear] /\ bufPool' = [i \in Frames |-> Zero]
      /\ hashTable' = [k \in Keys |-> NULL]
      /\ clockHand' = 0 /\ pinnedFrame' = 0
      /\ held' = [c \in Clients |-> [k \in Keys |-> "no"]]
      /\ status' = "started" /\ UNCHANGED call
  BY DEF Restart
<1>3. /\ disk' \in [Files -> Seq(Content)]
      /\ \A g \in Files : Len(disk'[g]) = Len(disk[g])
  BY <1>1, WriteOutFacts DEF IInv, Dirty
<1>4. WeakType'
  BY <1>2, <1>3, DescFacts, Numbers DEF IInv, WeakType, Content, HeldType
<1>5. Accounts'
  BY <1>2, AccEmpty
<1>6. CacheOnDisk'
  BY <1>2 DEF CacheOnDisk
<1> QED BY <1>2, <1>4, <1>5, <1>6, NoSweep DEF IInv

LEMMA InitInv == Init => IInv
<1> SUFFICES ASSUME Init PROVE IInv
  OBVIOUS
<1>1. WeakType
  <2>1. disk \in [Files -> Seq(Content)] /\ \A f \in Files : Len(disk[f]) <= MaxPages
    BY ClockAssumption DEF Init
  <2> QED BY <2>1, DescFacts, Numbers DEF Init, WeakType, Content, HeldType
<1>2. \A i \in Frames : bufTable[i] = Clear /\ ~bufTable[i].valid /\ bufTable[i].pinCnt = 0
  BY DescFacts DEF Init
<1>3. \A k \in Keys : Holders(k) = {} /\ hashTable[k] = NULL
  BY DEF Init, Holders
<1>4. PinnedFrames = {} /\ pinnedFrame = 0
  BY <1>2 DEF PinnedFrames, Init
<1>5. Descs /\ HashAgrees
  BY <1>2, <1>3, Numbers DEF Descs, HashAgrees
<1>6. PinsCounted
  BY <1>2, <1>3, <1>4, FS_EmptySet DEF PinsCounted, PinnedFrames
<1>7. CacheOnDisk /\ Pending /\ Swept
  BY <1>3 DEF CacheOnDisk, Pending, Swept, Sweeping, Init
<1> QED BY <1>1, <1>5, <1>6, <1>7 DEF IInv, Accounts

LEMMA StepInv == IInv /\ [Next]_vars => IInv'
<1> SUFFICES ASSUME IInv, [Next]_vars PROVE IInv'
  OBVIOUS
<1>1. CASE UNCHANGED vars
  <2>1. WeakType'
    BY <1>1 DEF vars, IInv, WeakType
  <2>2. Accounts'
    <3>1. Descs'
      BY <1>1 DEF vars, IInv, Accounts, Descs, KeyOf
    <3>2. HashAgrees'
      BY <1>1 DEF vars, IInv, Accounts, HashAgrees, KeyOf
    <3>3. PinsCounted'
      BY <1>1 DEF vars, IInv, Accounts, PinsCounted, Holders, KeyOf
    <3> QED BY <3>1, <3>2, <3>3 DEF Accounts
  <2>3. CacheOnDisk'
    BY <1>1 DEF vars, IInv, CacheOnDisk, KeyOf
  <2>4. Pending' /\ Swept'
    BY <1>1 DEF vars, IInv, Pending, Swept, Sweeping, Ago
  <2> QED BY <2>1, <2>2, <2>3, <2>4 DEF IInv
<1>2. CASE Sweep
  BY <1>2, SecondChanceInv, SkipPinnedInv, EvictInv, FailsInv, DoneInv DEF Sweep
<1>3. ASSUME ~Sweeping, NEW k \in Keys, UnPinRefused(k) PROVE IInv'
  <2>1. UNCHANGED <<bufTable, bufPool, hashTable, clockHand, pinnedFrame, disk, held>>
        /\ call' = NoCall /\ status' = "error"
    BY <1>3 DEF UnPinRefused, pool, Sweeping
  <2> QED BY <2>1, GivesUp
<1>4. ASSUME ~Sweeping, AllocFails PROVE IInv'
  <2>1. UNCHANGED <<bufTable, bufPool, hashTable, clockHand, pinnedFrame, disk, held>>
        /\ call' = NoCall /\ status' = "error"
    BY <1>4 DEF AllocFails, pool, Sweeping
  <2> QED BY <2>1, GivesUp
<1> QED BY <1>1, <1>2, <1>3, <1>4, ReadHitInv, ReadMissInv, AllocBeginInv, UnPinPageInv,
           WritePinnedInv, FlushFileInv, RestartInv DEF Next, AllocPage

(* The accounts of the frames, and where a sweep has been, are an invariant
   of every pool, whatever fails. *)
THEOREM Invariance == Spec => []IInv
BY InitInv, StepInv, PTL DEF Spec

(* Descriptors, hash table and the counter that guards the sweep agree, for
   any number of frames and clients (src/part1/buf.C:83). *)
THEOREM PoolCorrect == Spec => []PoolSound
<1>1. IInv => PoolSound
  <2> SUFFICES ASSUME IInv PROVE PoolSound
    OBVIOUS
  <2>1. pinnedFrame \in 0 .. NumBufs
    BY PinnedFinite DEF IInv, Accounts, PinsCounted, PinnedFrames
  <2>2. \A i \in Frames : bufTable[i].pinCnt \in 0 .. Cardinality(Clients)
    <3>1. Cardinality(Clients) \in Nat
      BY ClientsAssumption, FS_CardinalityType
    <3> QED BY <3>1, HoldersFinite DEF IInv, Accounts, PinsCounted
  <2>3. bufTable \in [Frames -> [file : Files \cup {NoFile}, pageNo : {-1} \cup 1 .. MaxPages,
                                pinCnt : 0 .. Cardinality(Clients), dirty : BOOLEAN,
                                valid : BOOLEAN, refbit : BOOLEAN]]
    BY <2>2 DEF IInv, WeakType, DescType
  <2>4. TypeOK
    BY <2>1, <2>3 DEF IInv, WeakType, TypeOK, Content, HeldType, CallType
  <2> QED BY <2>4 DEF IInv, Accounts, PoolSound
<1> QED BY <1>1, Invariance, PTL

(* The sweep passes no frame more than twice: with its loop bounded, only
   the counter's being right keeps allocBuf from hanging. *)
THEOREM SweepsEnd == Spec => []SweepBounded
<1>1. IInv => SweepBounded
  BY DEF IInv, Swept, SweepBounded
<1> QED BY <1>1, Invariance, PTL
-----------------------------------------------------------------------------
(* The pool is a page store *)

Unwritten(k) == \A c \in Clients : held[c][k] # "wrote"

(* what is in a clean frame that nobody is writing is in the file *)
Clean(k) == hashTable[k] # NULL /\ ~bufTable[hashTable[k]].dirty /\ Unwritten(k)
               => bufPool[hashTable[k]] = OnDisk(disk, k)

CInv == IInv /\ \A k \in Keys : Clean(k)

(* the image the clients see of a page *)
Shown(k) == IF hashTable[k] # NULL THEN bufPool[hashTable[k]] ELSE OnDisk(disk, k)

(* the page a pending allocPage will hand out *)
Claimed == IF Sweeping /\ call.op = "alloc" THEN {call.key} ELSE {}

LEMMA StoreIs ==
  /\ \A k \in Keys : Store[k] = Shown(k) /\ Store'[k] = Shown(k)'
  /\ (\A k \in Keys : Shown(k)' = Shown(k)) => Store' = Store
  /\ \A k \in Keys : \A d : (\A j \in Keys : Shown(j)' = IF j = k THEN d ELSE Shown(j))
                        => Store' = [Store EXCEPT ![k] = d]
<1>1. Store = [k \in Keys |-> Shown(k)] /\ Store' = [k \in Keys |-> Shown(k)']
  BY DEF Store, Shown
<1> QED BY <1>1

LEMMA SavedIs ==
  /\ \A k \in Keys : Saved[k] = OnDisk(disk, k) /\ Saved'[k] = OnDisk(disk', k)
  /\ (\A k \in Keys : OnDisk(disk', k) = OnDisk(disk, k)) => Saved' = Saved
<1>1. Saved = [k \in Keys |-> OnDisk(disk, k)] /\ Saved' = [k \in Keys |-> OnDisk(disk', k)]
  BY DEF Saved
<1> QED BY <1>1

LEMMA InUseIs ==
  /\ InUseKeys = {k \in Keys : k[2] \in DOMAIN disk[k[1]]} \ Claimed
  /\ InUseKeys' = {k \in Keys : k[2] \in DOMAIN disk'[k[1]]} \ Claimed'
  /\ (Claimed' = Claimed /\ (\A f \in Files : DOMAIN disk'[f] = DOMAIN disk[f]))
       => InUseKeys' = InUseKeys
<1>1. /\ InUseKeys = {k \in Keys : k[2] \in DOMAIN disk[k[1]]} \ Claimed
      /\ InUseKeys' = {k \in Keys : k[2] \in DOMAIN disk'[k[1]]} \ Claimed'
  BY DEF InUseKeys, Claimed
<1>2. ASSUME Claimed' = Claimed, \A f \in Files : DOMAIN disk'[f] = DOMAIN disk[f]
      PROVE  InUseKeys' = InUseKeys
  <2>1. \A k \in Keys : k[2] \in DOMAIN disk'[k[1]] <=> k[2] \in DOMAIN disk[k[1]]
    BY <1>2, KeyFacts
  <2> QED BY <1>1, <1>2, <2>1
<1> QED BY <1>1, <1>2

(* nothing changes for page k but pins and reference bits *)
LEMMA KeepKey ==
  ASSUME CInv, NEW k \in Keys, hashTable'[k] = hashTable[k],
         hashTable[k] # NULL => /\ bufTable'[hashTable[k]].dirty = bufTable[hashTable[k]].dirty
                                /\ bufPool'[hashTable[k]] = bufPool[hashTable[k]],
         OnDisk(disk', k) = OnDisk(disk, k),
         \A c \in Clients : held'[c][k] # "wrote" => held[c][k] # "wrote"
  PROVE  Shown(k)' = Shown(k) /\ Clean(k)'
<1>1. /\ Shown(k)' = IF hashTable'[k] # NULL THEN bufPool'[hashTable'[k]] ELSE OnDisk(disk', k)
      /\ Clean(k)' <=> (hashTable'[k] # NULL /\ ~bufTable'[hashTable'[k]].dirty /\ Unwritten(k)'
                         => bufPool'[hashTable'[k]] = OnDisk(disk', k))
  BY DEF Shown, Clean
<1>2. Unwritten(k)' => Unwritten(k)
  BY DEF Unwritten
<1> QED BY <1>1, <1>2 DEF CInv, Clean, Shown

LEMMA WriteOutPage ==
  ASSUME IInv, NEW S \in SUBSET Frames, \A i \in S : bufTable[i].valid, NEW k \in Keys
  PROVE  OnDisk(WriteOut(disk, S), k) =
            IF hashTable[k] \in S THEN bufPool[hashTable[k]] ELSE OnDisk(disk, k)
<1>1. k = <<k[1], k[2]>> /\ k[1] \in Files /\ k[2] \in 1 .. MaxPages
  BY KeyFacts
<1>2. \A i \in S : KeyOf(i) = k <=> hashTable[k] = i
  BY DEF IInv, Accounts, HashAgrees
<1>3. DOMAIN WriteOut(disk, S)[k[1]] = DOMAIN disk[k[1]]
  BY <1>1, WriteOutFacts DEF IInv
<1>4. k[2] \in DOMAIN disk[k[1]] =>
        WriteOut(disk, S)[k[1]][k[2]] = IF \E i \in S : KeyOf(i) = k
                                        THEN bufPool[CHOOSE i \in S : KeyOf(i) = k]
                                        ELSE disk[k[1]][k[2]]
  BY <1>1 DEF WriteOut
<1>5. CASE hashTable[k] \in S
  <2>1. (CHOOSE i \in S : KeyOf(i) = k) = hashTable[k] /\ \E i \in S : KeyOf(i) = k
    BY <1>2, <1>5
  <2>2. k[2] \in DOMAIN disk[k[1]]
    BY <1>5, Numbers DEF IInv, CacheOnDisk
  <2> QED BY <1>3, <1>4, <1>5, <2>1, <2>2 DEF OnDisk
<1>6. CASE hashTable[k] \notin S
  BY <1>2, <1>3, <1>4, <1>6 DEF OnDisk
<1> QED BY <1>5, <1>6

(* Nothing but the image the clients see is ever written to a file. *)
LEMMA Written ==
  ASSUME IInv, NEW S \in SUBSET Frames, \A i \in S : bufTable[i].valid, disk' = WriteOut(disk, S)
  PROVE  Abstract!CatchUp
<1>1. ASSUME NEW k \in Keys PROVE Saved'[k] \in {Saved[k], Store[k]}
  <2>1. OnDisk(disk', k) = IF hashTable[k] \in S THEN bufPool[hashTable[k]] ELSE OnDisk(disk, k)
    BY WriteOutPage
  <2>2. hashTable[k] \in S => hashTable[k] # NULL
    BY Numbers
  <2> QED BY <2>1, <2>2, StoreIs, SavedIs DEF Shown
<1> QED BY <1>1 DEF Abstract!CatchUp, Abstract!Saving

(* Frames nobody is writing leave the pool, the dirty ones written back:
   no page looks different for it. *)
LEMMA Leaving ==
  ASSUME CInv, NEW F \in SUBSET Frames, \A i \in F : bufTable[i].valid, NEW k \in Keys,
         hashTable[k] \in F => Unwritten(k),
         disk' = WriteOut(disk, F \cap Dirty),
         hashTable'[k] = IF hashTable[k] \in F THEN NULL ELSE hashTable[k],
         hashTable'[k] # NULL => /\ bufPool' = bufPool /\ held' = held
                                 /\ \A i \in Frames \ F : bufTable'[i] = bufTable[i]
  PROVE  Shown(k)' = Shown(k) /\ Clean(k)'
<1>1. OnDisk(disk', k) = IF hashTable[k] \in F \cap Dirty THEN bufPool[hashTable[k]] ELSE OnDisk(disk, k)
  <2>1. F \cap Dirty \in SUBSET Frames /\ \A i \in F \cap Dirty : bufTable[i].valid
    OBVIOUS
  <2> QED BY <2>1, WriteOutPage DEF CInv
<1>2. /\ Shown(k)' = IF hashTable'[k] # NULL THEN bufPool'[hashTable'[k]] ELSE OnDisk(disk', k)
      /\ Clean(k)' <=> (hashTable'[k] # NULL /\ ~bufTable'[hashTable'[k]].dirty /\ Unwritten(k)'
                         => bufPool'[hashTable'[k]] = OnDisk(disk', k))
  BY DEF Shown, Clean
<1>3. hashTable[k] \in Frames \cup {NULL}
  BY DEF CInv, IInv, WeakType
<1>4. CASE hashTable[k] \in F
  <2>1. hashTable[k] \notin Dirty => bufPool[hashTable[k]] = OnDisk(disk, k)
    BY <1>4, Numbers DEF CInv, Clean, Dirty
  <2> QED BY <1>1, <1>2, <1>4, <2>1, Numbers DEF Shown
<1>5. CASE hashTable[k] \notin F
  <2>1. OnDisk(disk', k) = OnDisk(disk, k)
    BY <1>1, <1>5
  <2>2. hashTable[k] # NULL => /\ bufPool' = bufPool /\ held' = held
                               /\ bufTable'[hashTable[k]] = bufTable[hashTable[k]]
    BY <1>3, <1>5
  <2>3. hashTable[k] # NULL => Shown(k)' = Shown(k) /\ Clean(k)'
    BY <1>5, <2>1, <2>2, KeepKey
  <2> QED BY <1>2, <1>5, <2>1, <2>3 DEF Shown
<1> QED BY <1>4, <1>5

(* What a step must do for the pool to go on as a page store. *)
Simulates == /\ \A k \in Keys : Clean(k)'
             /\ Abstract!Next \/ UNCHANGED <<Store, Saved, InUseKeys, held>>

(* nothing the clients could see *)
LEMMA Unseen ==
  ASSUME CInv, UNCHANGED <<bufPool, hashTable, disk, held>>, Claimed' = Claimed,
         \A i \in Frames : bufTable'[i].dirty = bufTable[i].dirty
  PROVE  Simulates
<1>1. \A k \in Keys : hashTable[k] \in Frames \cup {NULL}
  BY DEF CInv, IInv, WeakType
<1>2. \A k \in Keys : Shown(k)' = Shown(k) /\ Clean(k)'
  BY <1>1, KeepKey
<1>3. InUseKeys' = InUseKeys /\ Saved' = Saved
  BY InUseIs, SavedIs
<1> QED BY <1>2, <1>3, StoreIs DEF Simulates

LEMMA MoveSim == ASSUME CInv, SecondChance \/ SkipPinned PROVE Simulates
<1>1. /\ Sweeping /\ call \in CallType
      /\ call' = [call EXCEPT !.advances = IF @ < SweepLimit THEN @ + 1 ELSE @]
      /\ UNCHANGED <<bufPool, hashTable, disk, held>>
  BY CallFacts DEF SecondChance, SkipPinned, GoOn, CInv, IInv, WeakType, Sweeping
<1>2. Claimed' = Claimed
  <2>1. call'.op = call.op /\ call'.key = call.key /\ call' # NoCall
    BY <1>1 DEF CallType, NoCall
  <2> QED BY <1>1, <2>1 DEF Claimed, Sweeping
<1>3. \A i \in Frames : bufTable'[i].dirty = bufTable[i].dirty
  BY DEF SecondChance, SkipPinned, CInv, IInv, WeakType, DescType
<1> QED BY <1>1, <1>2, <1>3, Unseen

LEMMA EvictSim == ASSUME CInv, Evict PROVE Simulates
<1> DEFINE h == clockHand
<1>1. /\ h \in Frames /\ bufTable[h].valid /\ bufTable[h].pinCnt = 0
      /\ disk' = WriteOut(disk, Dirty \cap {h})
      /\ hashTable' = [hashTable EXCEPT ![KeyOf(h)] = NULL]
      /\ bufTable' = [bufTable EXCEPT ![h] = Clear]
      /\ UNCHANGED <<bufPool, held, call>>
  BY DEF Evict, FoundVictim, CInv, IInv, WeakType
<1> HIDE DEF h
<1>2. PICK F \in SUBSET Frames : F = {h}
  BY <1>1
<1>3. Holders(KeyOf(h)) = {}
  BY <1>1, Unheld DEF CInv, IInv
<1>4. ASSUME NEW k \in Keys PROVE Shown(k)' = Shown(k) /\ Clean(k)'
  <2>1. hashTable[k] = h <=> KeyOf(h) = k
    BY <1>1 DEF CInv, IInv, Accounts, HashAgrees
  <2>2. hashTable'[k] = IF hashTable[k] \in F THEN NULL ELSE hashTable[k]
    BY <1>1, <1>2, <2>1 DEF CInv, IInv, WeakType
  <2>3. hashTable[k] \in F => Unwritten(k)
    BY <1>2, <1>3, <2>1 DEF Holders, Unwritten
  <2>4. disk' = WriteOut(disk, F \cap Dirty)
    <3>1. F \cap Dirty = Dirty \cap {h}
      BY <1>2
    <3> QED BY <1>1, <3>1
  <2>5. \A i \in F : bufTable[i].valid
    BY <1>1, <1>2
  <2>6. bufPool' = bufPool /\ held' = held /\ \A i \in Frames \ F : bufTable'[i] = bufTable[i]
    BY <1>1, <1>2 DEF CInv, IInv, WeakType
  <2> QED BY <2>2, <2>3, <2>4, <2>5, <2>6, Leaving
<1>5. InUseKeys' = InUseKeys
  <2>1. Claimed' = Claimed
    BY <1>1 DEF Claimed, Sweeping
  <2>2. \A f \in Files : DOMAIN disk'[f] = DOMAIN disk[f]
    BY <1>1, WriteOutFacts DEF CInv, IInv
  <2> QED BY <2>1, <2>2, InUseIs
<1>6. Abstract!CatchUp
  <2>1. Dirty \cap {h} \in SUBSET Frames /\ \A i \in Dirty \cap {h} : bufTable[i].valid
    BY <1>1
  <2> QED BY <1>1, <2>1, Written DEF CInv
<1>7. Abstract!Save
  BY <1>1, <1>4, <1>5, <1>6, StoreIs DEF Abstract!Save
<1> QED BY <1>4, <1>7 DEF Simulates, Abstract!Next

LEMMA FailSim == ASSUME CInv, EvictFails \/ ReadFails PROVE Simulates
<1>1. /\ UNCHANGED <<bufTable, bufPool, hashTable, disk, held>>
      /\ call' = NoCall /\ status' = "error" /\ Claimed' = {}
  BY DEF EvictFails, ReadFails, pool, Claimed, Sweeping
<1>2. CASE Claimed = {}
  BY <1>1, <1>2, Unseen
<1>3. CASE Claimed # {}
  <2>1. Sweeping /\ call.op = "alloc" /\ Claimed = {call.key}
    BY <1>3 DEF Claimed
  <2>2. call.key \in Keys /\ call.key[2] \in DOMAIN disk[call.key[1]]
    BY <2>1, CallFacts DEF CInv, IInv, WeakType, Pending, Sweeping
  <2>3. \A k \in Keys : Shown(k)' = Shown(k) /\ Clean(k)'
    BY <1>1, KeepKey
  <2>4. call.key \notin InUseKeys /\ InUseKeys' = InUseKeys \cup {call.key}
    BY <1>1, <2>1, <2>2, InUseIs
  <2>5. Abstract!AllocateInVain(call.key)
    BY <1>1, <2>3, <2>4, StoreIs, SavedIs
       DEF Abstract!AllocateInVain, Abstract!OthersKeep, Abstract!Saving
  <2> QED BY <2>2, <2>3, <2>5 DEF Simulates, Abstract!Next
<1> QED BY <1>2, <1>3

LEMMA DoneSim == ASSUME CInv, ReadDone \/ AllocDone PROVE Simulates
<1>0. PICK h, k, c : h = clockHand /\ k = call.key /\ c = call.client
  OBVIOUS
<1>1. /\ Sweeping /\ h \in Frames /\ ~bufTable[h].valid /\ k \in Keys /\ c \in Clients
      /\ hashTable[k] = NULL /\ k[2] \in DOMAIN disk[k[1]]
      /\ Claimed = IF ReadDone THEN {} ELSE {k}
  BY <1>0, CallFacts DEF ReadDone, AllocDone, Free, CInv, IInv, WeakType, Pending, Sweeping, Claimed
<1>2. /\ hashTable' = [hashTable EXCEPT ![k] = h] /\ disk' = disk /\ Claimed' = {}
      /\ bufTable' = [bufTable EXCEPT ![h] = Set(k)]
  BY <1>0 DEF ReadDone, AllocDone, Install, Claimed, Sweeping
<1>3. \/ /\ ReadDone /\ held' = [held EXCEPT ![c][k] = "clean"]
         /\ bufPool' = [bufPool EXCEPT ![h] = OnDisk(disk, k)]
      \/ /\ ~ReadDone /\ held' = [held EXCEPT ![c][k] = "wrote"] /\ bufPool' = bufPool
  BY <1>0 DEF ReadDone, AllocDone
<1>4. held[c][k] = "no" /\ Holders(k) = {}
  BY <1>1, <1>1 DEF CInv, IInv, Accounts, PinsCounted, Holders
<1>5. \A j \in Keys : hashTable'[j] = IF j = k THEN h ELSE hashTable[j]
  BY <1>1, <1>2 DEF CInv, IInv, WeakType
<1>6. \A j \in Keys : hashTable[j] # h /\ hashTable[j] \in Frames \cup {NULL}
  BY <1>1 DEF CInv, IInv, Accounts, HashAgrees, WeakType
<1>7. \A i \in Frames : i # h => bufPool'[i] = bufPool[i] /\ bufTable'[i] = bufTable[i]
  BY <1>2, <1>3 DEF CInv, IInv, WeakType
<1>8. \A a \in Clients, j \in Keys : j # k => held'[a][j] = held[a][j]
  BY <1>1, <1>3 DEF CInv, IInv, WeakType, HeldType
<1>9. \A j \in Keys : j # k => Shown(j)' = Shown(j) /\ Clean(j)'
  <2> SUFFICES ASSUME NEW j \in Keys, j # k PROVE Shown(j)' = Shown(j) /\ Clean(j)'
    OBVIOUS
  <2>1. hashTable'[j] = hashTable[j]
    BY <1>5
  <2>2. hashTable[j] # NULL => /\ bufTable'[hashTable[j]].dirty = bufTable[hashTable[j]].dirty
                               /\ bufPool'[hashTable[j]] = bufPool[hashTable[j]]
    BY <1>6, <1>7
  <2>3. OnDisk(disk', j) = OnDisk(disk, j) /\ \A a \in Clients : held'[a][j] # "wrote" => held[a][j] # "wrote"
    BY <1>2, <1>8
  <2> QED BY <2>1, <2>2, <2>3, KeepKey
<1>10. k \notin Claimed => k \in InUseKeys /\ InUseKeys' = InUseKeys
  BY <1>1, <1>2, InUseIs
<1>11. k \in Claimed => k \notin InUseKeys /\ InUseKeys' = InUseKeys \cup {k}
  BY <1>1, <1>2, InUseIs
<1>s. Saved' = Saved
  BY <1>2, SavedIs
<1>12. CASE ReadDone
  <2>1. bufPool'[h] = OnDisk(disk', k) /\ hashTable'[k] = h
    BY <1>1, <1>2, <1>3, <1>5, <1>12 DEF CInv, IInv, WeakType
  <2>2. Shown(k)' = Shown(k) /\ Clean(k)'
    BY <1>1, <1>2, <2>1, Numbers DEF Shown, Clean
  <2>3. Store' = Store
    BY <1>9, <2>2, StoreIs
  <2>4. Abstract!Pin(c, k)
    BY <1>1, <1>3, <1>4, <1>10, <1>12, <1>s, <2>3
       DEF Abstract!Pin, Abstract!CatchUp, Abstract!Saving
  <2> QED BY <1>1, <1>9, <2>2, <2>4 DEF Simulates, Abstract!Next
<1>13. CASE ~ReadDone
  <2>1. held'[c][k] = "wrote"
    BY <1>1, <1>3, <1>13 DEF CInv, IInv, WeakType, HeldType
  <2>2. Clean(k)'
    BY <1>1, <2>1 DEF Clean, Unwritten
  <2>3. \A j \in Keys \ {k} : Store'[j] = Store[j]
    BY <1>9, StoreIs
  <2>4. Abstract!Allocate(c, k)
    BY <1>1, <1>3, <1>4, <1>11, <1>13, <1>s, <2>3
       DEF Abstract!Allocate, Abstract!OthersKeep, Abstract!Saving, Abstract!Holders, Holders
  <2> QED BY <1>1, <1>9, <2>2, <2>4 DEF Simulates, Abstract!Next
<1> QED BY <1>12, <1>13

LEMMA ReadHitSim ==
  ASSUME CInv, ~Sweeping, NEW c \in Clients, NEW k \in Keys, ReadHit(c, k) PROVE Simulates
<1>1. /\ hashTable[k] \in Frames /\ hashTable[k] # NULL /\ held[c][k] = "no"
      /\ held' = [held EXCEPT ![c][k] = "clean"]
      /\ UNCHANGED <<bufPool, hashTable, disk, call>> /\ Claimed = {} /\ Claimed' = Claimed
  BY DEF ReadHit, CInv, IInv, WeakType, Claimed, Sweeping
<1>2. \A i \in Frames : bufTable'[i].dirty = bufTable[i].dirty
  BY DEF ReadHit, CInv, IInv, WeakType, DescType
<1>3. \A a \in Clients, j \in Keys : held'[a][j] # "wrote" => held[a][j] # "wrote"
  BY <1>1 DEF CInv, IInv, WeakType, HeldType
<1>4. \A j \in Keys : hashTable[j] \in Frames \cup {NULL}
  BY DEF CInv, IInv, WeakType
<1>5. \A j \in Keys : Shown(j)' = Shown(j) /\ Clean(j)'
  BY <1>1, <1>2, <1>3, <1>4, KeepKey
<1>6. InUseKeys' = InUseKeys /\ k \in InUseKeys
  BY <1>1, InUseIs DEF CInv, IInv, CacheOnDisk
<1>7. Store' = Store /\ Saved' = Saved
  BY <1>1, <1>5, StoreIs, SavedIs
<1>8. Abstract!Pin(c, k)
  BY <1>1, <1>6, <1>7 DEF Abstract!Pin, Abstract!CatchUp, Abstract!Saving
<1> QED BY <1>5, <1>8 DEF Simulates, Abstract!Next

LEMMA ReadMissSim ==
  ASSUME CInv, ~Sweeping, NEW c \in Clients, NEW k \in Keys, ReadMiss(c, k) PROVE Simulates
<1>1. UNCHANGED <<bufTable, bufPool, hashTable, disk, held>>
  BY DEF ReadMiss, pool
<1>2. Claimed = {} /\ Claimed' = {}
  BY CallingFacts DEF ReadMiss, Claimed, Sweeping
<1> QED BY <1>1, <1>2, Unseen

LEMMA AllocBeginSim ==
  ASSUME CInv, ~Sweeping, NEW c \in Clients, NEW f \in Files, AllocBegin(c, f) PROVE Simulates
<1> DEFINE k == NewKey(f)
<1>1. /\ Len(disk[f]) < MaxPages
      /\ disk' = [disk EXCEPT ![f] = Append(disk[f], Zero)]
      /\ UNCHANGED <<bufTable, bufPool, hashTable, held>>
  BY DEF AllocBegin, pool
<1>2. /\ disk[f] \in Seq(Content) /\ Len(disk[f]) \in Nat /\ MaxPages \in Nat
      /\ DOMAIN disk[f] = 1 .. Len(disk[f])
  BY ClockAssumption DEF CInv, IInv, WeakType
<1>3. /\ DOMAIN Append(disk[f], Zero) = 1 .. Len(disk[f]) + 1
      /\ Append(disk[f], Zero)[Len(disk[f]) + 1] = Zero
      /\ \A p \in 1 .. Len(disk[f]) : Append(disk[f], Zero)[p] = disk[f][p]
  BY <1>2 DEF Content
<1>4. k \in Keys /\ k = <<f, Len(disk[f]) + 1>> /\ k[1] = f /\ k[2] = Len(disk[f]) + 1
  BY <1>1, <1>2 DEF NewKey, Keys
<1> HIDE DEF k
<1>5. disk'[f] = Append(disk[f], Zero) /\ \A g \in Files : g # f => disk'[g] = disk[g]
  BY <1>1 DEF CInv, IInv, WeakType
<1>6. ASSUME NEW j \in Keys
      PROVE  /\ OnDisk(disk', j) = OnDisk(disk, j)
             /\ j[2] \in DOMAIN disk'[j[1]] <=> j[2] \in DOMAIN disk[j[1]] \/ j = k
             /\ k[2] \notin DOMAIN disk[k[1]]
  <2>1. j = <<j[1], j[2]>> /\ j[1] \in Files /\ j[2] \in 1 .. MaxPages
    BY KeyFacts
  <2>2. CASE j[1] # f
    BY <1>2, <1>4, <1>5, <2>1, <2>2 DEF OnDisk
  <2>3. CASE j[1] = f
    <3>1. j = k <=> j[2] = Len(disk[f]) + 1
      BY <1>4, <2>1, <2>3
    <3>2. k[2] \notin DOMAIN disk[k[1]]
      BY <1>2, <1>4
    <3>3. j[2] \in DOMAIN disk'[f] <=> j[2] \in DOMAIN disk[f] \/ j[2] = Len(disk[f]) + 1
      BY <1>2, <1>3, <1>5, <2>1
    <3>4. OnDisk(disk', j) = OnDisk(disk, j)
      <4>1. CASE j[2] \in DOMAIN disk[f]
        BY <1>2, <1>3, <1>5, <2>3, <3>3, <4>1 DEF OnDisk
      <4>2. CASE j[2] \notin DOMAIN disk[f]
        BY <1>2, <1>3, <1>5, <2>3, <3>3, <4>2 DEF OnDisk
      <4> QED BY <4>1, <4>2
    <3> QED BY <2>3, <3>1, <3>2, <3>3, <3>4
  <2> QED BY <2>2, <2>3
<1>7. \A j \in Keys : Shown(j)' = Shown(j) /\ Clean(j)'
  BY <1>1, <1>6, KeepKey
<1>8. Store' = Store /\ Saved' = Saved
  BY <1>6, <1>7, StoreIs, SavedIs
<1>9. Claimed = {}
  BY DEF Claimed
<1>10. CASE pinnedFrame = NumBufs
  <2>1. status' = "error" /\ Claimed' = {}
    BY <1>10 DEF AllocBegin, Claimed, Sweeping
  <2>2. k \notin InUseKeys /\ InUseKeys' = InUseKeys \cup {k}
    BY <1>4, <1>6, <1>9, <2>1, InUseIs
  <2>3. Abstract!AllocateInVain(k)
    BY <1>1, <1>8, <2>1, <2>2 DEF Abstract!AllocateInVain, Abstract!OthersKeep, Abstract!Saving
  <2> QED BY <1>4, <1>7, <2>3 DEF Simulates, Abstract!Next
<1>11. CASE pinnedFrame # NumBufs
  <2>1. call' = Calling("alloc", c, k)
    BY <1>11 DEF AllocBegin, k
  <2>2. Claimed' = {k}
    BY <1>4, <2>1, CallingFacts DEF Claimed, Sweeping
  <2>3. InUseKeys' = InUseKeys
    BY <1>4, <1>6, <1>9, <2>2, InUseIs
  <2> QED BY <1>1, <1>7, <1>8, <2>3 DEF Simulates
<1> QED BY <1>10, <1>11

LEMMA UnPinPageSim ==
  ASSUME CInv, ~Sweeping, NEW c \in Clients, NEW k \in Keys, NEW d \in BOOLEAN, UnPinPage(c, k, d)
  PROVE  Simulates
<1>1. /\ hashTable[k] \in Frames /\ held[c][k] # "no" /\ (held[c][k] = "wrote" => d)
      /\ held' = [held EXCEPT ![c][k] = "no"]
      /\ UNCHANGED <<bufPool, hashTable, disk, call>> /\ Claimed' = Claimed
  BY DEF UnPinPage, CInv, IInv, WeakType, Claimed, Sweeping
<1>2. /\ \A i \in Frames : i # hashTable[k] => bufTable'[i] = bufTable[i]
      /\ bufTable'[hashTable[k]].dirty = (bufTable[hashTable[k]].dirty \/ d)
  <2>1. bufTable' = [bufTable EXCEPT ![hashTable[k]].dirty = @ \/ d, ![hashTable[k]].pinCnt = @ - 1]
    BY DEF UnPinPage
  <2>2. bufTable \in [Frames -> DescType]
    BY DEF CInv, IInv, WeakType
  <2> QED BY <1>1, <2>1, <2>2 DEF DescType
<1>3. \A a \in Clients, j \in Keys : held'[a][j] = IF a = c /\ j = k THEN "no" ELSE held[a][j]
  BY <1>1 DEF CInv, IInv, WeakType, HeldType
<1>4. ASSUME NEW j \in Keys PROVE Shown(j)' = Shown(j) /\ Clean(j)'
  <2>0. hashTable[j] \in Frames \cup {NULL} /\ (j # k => hashTable[j] # hashTable[k])
    BY <1>1 DEF CInv, IInv, WeakType, Accounts, HashAgrees
  <2>1. CASE j # k
    BY <1>1, <1>2, <1>3, <2>0, <2>1, KeepKey
  <2>2. CASE j = k
    <3>1. Shown(j)' = Shown(j)
      BY <1>1 DEF Shown
    <3>2. ~bufTable'[hashTable[k]].dirty /\ Unwritten(k)' => ~bufTable[hashTable[k]].dirty /\ Unwritten(k)
      <4>1. ~bufTable'[hashTable[k]].dirty => ~bufTable[hashTable[k]].dirty /\ ~d
        BY <1>2
      <4>2. Unwritten(k)' /\ ~d => Unwritten(k)
        BY <1>1, <1>3 DEF Unwritten
      <4> QED BY <4>1, <4>2
    <3>3. Clean(k)'
      BY <1>1, <3>2 DEF CInv, Clean
    <3> QED BY <2>2, <3>1, <3>3
  <2> QED BY <2>1, <2>2
<1>5. Store' = Store /\ Saved' = Saved /\ InUseKeys' = InUseKeys
  BY <1>1, <1>4, StoreIs, SavedIs, InUseIs
<1>6. Abstract!Unpin(c, k)
  BY <1>1, <1>5 DEF Abstract!Unpin, Abstract!Holders
<1> QED BY <1>4, <1>6 DEF Simulates, Abstract!Next

LEMMA WritePinnedSim ==
  ASSUME CInv, ~Sweeping, NEW c \in Clients, NEW k \in Keys, NEW d \in Data, WritePinned(c, k, d)
  PROVE  Simulates
<1>1. /\ held[c][k] # "no" /\ held' = [held EXCEPT ![c][k] = "wrote"]
      /\ bufPool' = [bufPool EXCEPT ![hashTable[k]] = d]
      /\ UNCHANGED <<bufTable, hashTable, disk, call>> /\ Claimed' = Claimed
  BY DEF WritePinned, Claimed, Sweeping
<1>2. hashTable[k] # NULL /\ hashTable[k] \in Frames
  BY <1>1 DEF CInv, IInv, WeakType, Accounts, PinsCounted, Holders
<1>3. \A j \in Keys : hashTable[j] \in Frames \cup {NULL} /\ (j # k => hashTable[j] # hashTable[k])
  BY <1>2 DEF CInv, IInv, WeakType, Accounts, HashAgrees
<1>4. /\ bufPool'[hashTable[k]] = d
      /\ \A i \in Frames : i # hashTable[k] => bufPool'[i] = bufPool[i]
      /\ \A a \in Clients, j \in Keys : held'[a][j] = IF a = c /\ j = k THEN "wrote" ELSE held[a][j]
  BY <1>1, <1>2 DEF CInv, IInv, WeakType, HeldType
<1>5. ASSUME NEW j \in Keys, j # k PROVE Shown(j)' = Shown(j) /\ Clean(j)'
  BY <1>1, <1>3, <1>4, <1>5, KeepKey
<1>6. Shown(k)' = d /\ Clean(k)'
  <2>1. Shown(k)' = d
    BY <1>1, <1>2, <1>4 DEF Shown
  <2>2. ~Unwritten(k)'
    BY <1>4 DEF Unwritten
  <2> QED BY <2>1, <2>2 DEF Clean
<1>7. Store' = [Store EXCEPT ![k] = d] /\ InUseKeys' = InUseKeys
  <2>1. \A j \in Keys : Shown(j)' = IF j = k THEN d ELSE Shown(j)
    BY <1>5, <1>6
  <2> QED BY <1>1, <2>1, StoreIs, InUseIs
<1>8. Abstract!Write(c, k, d)
  BY <1>1, <1>7, SavedIs DEF Abstract!Write, Abstract!Holders
<1> QED BY <1>5, <1>6, <1>8 DEF Simulates, Abstract!Next

LEMMA FlushFileSim == ASSUME CInv, ~Sweeping, NEW f \in Files, FlushFile(f) PROVE Simulates
<1> DEFINE Mine == {i \in Frames : bufTable[i].file = f}
           Flushed(s) == {i \in Mine : i < s}
<1>1. PICK s \in 0 .. NumBufs :
         /\ \A i \in Flushed(s) : bufTable[i].pinCnt = 0
         /\ disk' = WriteOut(disk, Flushed(s) \cap Dirty)
         /\ hashTable' = [k \in Keys |-> IF k \in {KeyOf(i) : i \in Flushed(s)} THEN NULL ELSE hashTable[k]]
         /\ bufTable' = [i \in Frames |-> IF i \in Flushed(s) THEN Clear ELSE bufTable[i]]
         /\ UNCHANGED <<bufPool, held, call>>
  BY DEF FlushFile
<1>2. PICK F \in SUBSET Frames : F = Flushed(s)
  OBVIOUS
<1>3. \A i \in F : bufTable[i].valid /\ bufTable[i].pinCnt = 0
  <2>1. \A i \in Frames : bufTable[i].file = f => bufTable[i].valid
    BY DescFacts, ClockAssumption DEF CInv, IInv, Accounts, Descs
  <2> QED BY <1>1, <1>2, <2>1
<1>4. /\ disk' = WriteOut(disk, F \cap Dirty)
      /\ hashTable' = [k \in Keys |-> IF k \in {KeyOf(i) : i \in F} THEN NULL ELSE hashTable[k]]
      /\ \A i \in Frames \ F : bufTable'[i] = bufTable[i]
      /\ UNCHANGED <<bufPool, held, call>> /\ Claimed' = Claimed
  BY <1>1, <1>2 DEF Claimed, Sweeping
<1> HIDE DEF Flushed, Mine
<1>5. ASSUME NEW k \in Keys PROVE Shown(k)' = Shown(k) /\ Clean(k)'
  <2>1. k \in {KeyOf(i) : i \in F} <=> hashTable[k] \in F
    BY <1>3 DEF CInv, IInv, Accounts, HashAgrees
  <2>2. hashTable'[k] = IF hashTable[k] \in F THEN NULL ELSE hashTable[k]
    BY <1>4, <2>1
  <2>3. hashTable[k] \in F => Unwritten(k)
    <3>1. hashTable[k] \in F => KeyOf(hashTable[k]) = k
      BY DEF CInv, IInv, Accounts, HashAgrees
    <3>2. hashTable[k] \in F => Holders(k) = {}
      BY <1>3, <3>1, Unheld DEF CInv, IInv
    <3> QED BY <3>2 DEF Holders, Unwritten
  <2> QED BY <1>3, <1>4, <2>2, <2>3, Leaving
<1>6. InUseKeys' = InUseKeys
  <2>1. \A g \in Files : DOMAIN disk'[g] = DOMAIN disk[g]
    BY <1>4, WriteOutFacts DEF CInv, IInv
  <2> QED BY <1>4, <2>1, InUseIs
<1>7. Abstract!CatchUp
  <2>1. F \cap Dirty \in SUBSET Frames /\ \A i \in F \cap Dirty : bufTable[i].valid
    BY <1>3
  <2> QED BY <1>4, <2>1, Written DEF CInv
<1>8. Abstract!Save
  BY <1>4, <1>5, <1>6, <1>7, StoreIs DEF Abstract!Save
<1> QED BY <1>5, <1>8 DEF Simulates, Abstract!Next

LEMMA RestartSim == ASSUME CInv, ~Sweeping, Restart PROVE Simulates
<1>1. PICK failed \in SUBSET Dirty :
         ("write" \in Faults \/ failed = {}) /\ disk' = WriteOut(disk, Dirty \ failed)
  BY DEF Restart
<1>2. /\ \A k \in Keys : hashTable'[k] = NULL /\ Unwritten(k)
      /\ held' = [c \in Clients |-> [k \in Keys |-> "no"]] /\ Claimed' = Claimed
      /\ status' = "started"
  BY DEF Restart, Unwritten, Claimed, Sweeping
<1>3. \A k \in Keys : Clean(k)'
  BY <1>2 DEF Clean
<1>4. InUseKeys' = InUseKeys
  <2>1. Dirty \ failed \in SUBSET Frames
    BY DEF Dirty
  <2>2. \A g \in Files : DOMAIN disk'[g] = DOMAIN disk[g]
    BY <1>1, <2>1, WriteOutFacts DEF CInv, IInv
  <2> QED BY <1>2, <2>2, InUseIs
<1>5. ASSUME "write" \notin Faults, NEW k \in Keys PROVE Shown(k)' = Shown(k)
  <2>1. PICK F \in SUBSET Frames : F = {i \in Frames : bufTable[i].valid}
    OBVIOUS
  <2>2. F \cap Dirty = Dirty \ failed
    BY <1>1, <1>5, <2>1, DescFacts DEF Dirty, CInv, IInv, Accounts, Descs
  <2>3. disk' = WriteOut(disk, F \cap Dirty) /\ \A i \in F : bufTable[i].valid
    BY <1>1, <2>1, <2>2
  <2>4. hashTable'[k] = IF hashTable[k] \in F THEN NULL ELSE hashTable[k]
    BY <1>2, <2>1 DEF CInv, IInv, WeakType, Accounts, HashAgrees
  <2> QED BY <1>2, <2>3, <2>4, Leaving
<1>6. Abstract!Restart
  <2>1. "write" \notin Faults => Store' = Store
    BY <1>5, StoreIs
  <2>2. Abstract!CatchUp
    <3>1. Dirty \ failed \in SUBSET Frames /\ \A i \in Dirty \ failed : bufTable[i].valid
      BY DescFacts DEF Dirty, CInv, IInv, Accounts, Descs
    <3> QED BY <1>1, <3>1, Written DEF CInv
  <2>3. Store' = Saved'
    <3>1. \A k \in Keys : Shown(k)' = OnDisk(disk', k)
      BY <1>2 DEF Shown
    <3>2. Store' = [k \in Keys |-> Shown(k)'] /\ Saved' = [k \in Keys |-> OnDisk(disk', k)]
      BY DEF Store, Shown, Saved
    <3> QED BY <3>1, <3>2
  <2> QED BY <1>2, <1>4, <2>1, <2>2, <2>3 DEF Abstract!Restart
<1> QED BY <1>3, <1>6 DEF Simulates, Abstract!Next

LEMMA StepSim == CInv /\ [Next]_vars => Simulates
<1> SUFFICES ASSUME CInv, [Next]_vars PROVE Simulates
  OBVIOUS
<1>1. CASE UNCHANGED vars
  BY <1>1, Unseen DEF vars, Claimed, Sweeping
<1>2. CASE Sweep
  BY <1>2, MoveSim, EvictSim, FailSim, DoneSim DEF Sweep
<1>3. ASSUME NEW k \in Keys, UnPinRefused(k) PROVE Simulates
  BY <1>3, Unseen DEF UnPinRefused, pool, Claimed, Sweeping
<1>4. ASSUME AllocFails PROVE Simulates
  BY <1>4, Unseen DEF AllocFails, pool, Claimed, Sweeping
<1> QED BY <1>1, <1>2, <1>3, <1>4, ReadHitSim, ReadMissSim, AllocBeginSim, UnPinPageSim,
           WritePinnedSim, FlushFileSim, RestartSim DEF Next, AllocPage

LEMMA InitSim == Init => CInv /\ Abstract!Init
<1> SUFFICES ASSUME Init PROVE CInv /\ Abstract!Init
  OBVIOUS
<1>1. \A k \in Keys : Clean(k)
  BY DEF Init, Clean
<1>2. InUseKeys = {}
  BY KeyFacts DEF Init, InUseKeys
<1>3. Store = Saved
  BY DEF Init, Store, Saved
<1> QED BY <1>1, <1>2, <1>3, InitInv DEF CInv, Init, Abstract!Init

(* Under the clock, too, the pool (src/part1/buf.C) is one shared page store:
   no eviction, flush or failed call loses an update or shows a stale page,
   a file is only ever given the image its clients see, and a shutdown loses
   the updates of a page only if its own write of that page fails. *)
THEOREM PageStoreImplemented == Spec => ImplementsPageStore
<1>1. CInv /\ [Next]_vars => CInv'
  BY StepInv, StepSim DEF CInv, Simulates
<1>2. CInv /\ [Next]_vars => [Abstract!Next]_<<Store, Saved, InUseKeys, held>>
  BY StepSim DEF Simulates
<1> QED BY <1>1, <1>2, InitSim, PTL DEF Spec, ImplementsPageStore, Abstract!Spec, Abstract!vars
=============================================================================
