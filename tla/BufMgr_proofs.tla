--------------------------- MODULE BufMgr_proofs ---------------------------
(***************************************************************************)
(* Invariants of the buffer manager, for any number of frames, files,      *)
(* pages and clients, and whichever Unix calls may fail; and what they are *)
(* for: clean frames agree with the file, no ASSERT fails while no write   *)
(* fails, and a pinned page keeps its frame.                               *)
(***************************************************************************)
EXTENDS BufMgr, FiniteSetTheorems, WellFoundedInduction, TLAPS

-----------------------------------------------------------------------------
(* The edits of the unpinned list *)

(* The sentinel is no frame, and NULL is no node. *)
LEMMA NodeFacts ==
    /\ frontUPL \notin Frames /\ frontUPL \in Nodes
    /\ NULL \notin Nodes
    /\ Frames \subseteq Nodes /\ Nodes \subseteq Links /\ 0 \in Frames
  BY NumBufsAssumption DEF frontUPL, Frames, NULL, Nodes, Links

LEMMA LeastOne ==
  ASSUME NEW T, T \subseteq Nat, T # {} PROVE \E x \in T : \A y \in T : x <= y
<1> DEFINE R == {ss \in Nat \X Nat : ss[1] < ss[2]}
<1>1. IsWellFoundedOn(R, Nat)
  BY NatLessThanWellFounded DEF OpToRel
<1>2. PICK x \in T : \A y \in T : <<y, x>> \notin R
  BY <1>1, WFMin
<1>3. ASSUME NEW y \in T PROVE x <= y
  <2>1. x \in Nat /\ y \in Nat
    OBVIOUS
  <2>2. y < x => <<y, x>> \in R
    BY <2>1
  <2> QED BY <1>2, <2>1, <2>2
<1> QED BY <1>3

(* The constructor threads all frames into a ring (buf.C:35-57). *)
LEMMA FreshRing == FreshUpl \in UplType /\ Ring(FreshUpl, Frames)
<1> USE NumBufsAssumption DEF frontUPL, Frames, NULL, Nodes, Links
<1>1. FreshUpl \in UplType
  BY DEF FreshUpl, UplType
<1>2. Ring(FreshUpl, Frames)
  <2>1. \A x \in Nodes : /\ FreshUpl.next[x] = IF x = frontUPL THEN 0 ELSE x + 1
                         /\ FreshUpl.prior[x] = IF x = 0 THEN frontUPL ELSE x - 1
    BY DEF FreshUpl
  <2>2. FreshUpl.rear = 0
    BY DEF FreshUpl
  <2>3. OneCircle(FreshUpl, Frames)
    <3> SUFFICES ASSUME NEW T \in SUBSET Frames,
                        \A x \in T \cup {frontUPL} : FreshUpl.next[x] \in T \cup {frontUPL}
                 PROVE  T = Frames
      BY DEF OneCircle
    <3> SUFFICES ASSUME Frames \ T # {} PROVE FALSE
      OBVIOUS
    <3>1. PICK x \in Frames \ T : \A y \in Frames \ T : ~(y < x)
      <4>1. Frames \ T \subseteq Nat
        OBVIOUS
      <4>2. PICK x \in Frames \ T : \A y \in Frames \ T : x <= y
        BY <4>1, LeastOne
      <4> QED BY <4>1, <4>2
    <3>2. CASE x = 0
      BY <2>1, <3>1, <3>2
    <3>3. CASE x # 0
      <4>1. x - 1 \in T
        BY <3>1, <3>3
      <4> QED BY <2>1, <3>1, <4>1
    <3> QED BY <3>2, <3>3
  <2> QED BY <2>1, <2>2, <2>3, SMTT(60) DEF Ring
<1> QED BY <1>1, <1>2

(* A ring passes the ASSERTs that follow every edit. *)
LEMMA RingAsserts ==
  ASSUME NEW l, NEW S \in SUBSET Frames, Ring(l, S)
  PROVE  Asserts(l)
<1>1. l.rear \in Nodes /\ l.prior[l.rear] = frontUPL /\ l.next[frontUPL] = l.rear
      /\ l.next[l.rear] \in Nodes
  BY NodeFacts DEF Ring, Nodes
<1> QED BY <1>1, NodeFacts DEF Asserts

(* Taking a frame off the ring leaves the ring of the others, whatever     *)
(* becomes of the links of the frame itself.                               *)
LEMMA UnlinkRing ==
  ASSUME NEW l \in UplType, NEW S \in SUBSET Frames, NEW i \in S, Ring(l, S)
  PROVE  /\ Unlink(l, i) \in UplType
         /\ Ring(Unlink(l, i), S \ {i})
         /\ \A x \in Nodes : x \notin S \cup {frontUPL}
              => Unlink(l, i).next[x] = l.next[x] /\ Unlink(l, i).prior[x] = l.prior[x]
         /\ Unlink(l, i).next[i] = l.next[i] /\ Unlink(l, i).prior[i] = l.prior[i]
<1> DEFINE m == Unlink(l, i)
           T == S \cup {frontUPL}
<1>1. /\ l.next[i] \in T /\ l.prior[i] \in T
      /\ i \in Nodes /\ T \subseteq Nodes /\ i # frontUPL
  BY NodeFacts DEF Ring, Nodes
<1>2. /\ l.next \in [Nodes -> Links] /\ l.prior \in [Nodes -> Links] /\ l.rear \in Nodes
  BY DEF UplType
<1>3. /\ m.next  = [l.next EXCEPT ![l.prior[i]] = l.next[i]]
      /\ m.prior = [l.prior EXCEPT ![l.next[i]] = l.prior[i]]
      /\ m.rear  = IF l.rear = i THEN l.next[i] ELSE l.rear
  BY DEF Unlink
<1>4. m \in UplType
  BY <1>1, <1>2, NodeFacts DEF Unlink, UplType
<1>5. \A x \in Nodes : /\ m.next[x] = IF x = l.prior[i] THEN l.next[i] ELSE l.next[x]
                       /\ m.prior[x] = IF x = l.next[i] THEN l.prior[i] ELSE l.prior[x]
  BY <1>1, <1>2, <1>3
<1>6. Ring(m, S \ {i})
  <2>1. ASSUME NEW x \in (S \ {i}) \cup {frontUPL}
        PROVE  /\ m.next[x] \in (S \ {i}) \cup {frontUPL}
               /\ m.prior[x] \in (S \ {i}) \cup {frontUPL}
               /\ m.prior[m.next[x]] = x /\ m.next[m.prior[x]] = x
    BY <1>1, <1>5, SMTT(60) DEF Ring
  <2>2. m.next[frontUPL] = m.rear
    BY <1>1, <1>3, <1>5, NodeFacts DEF Ring
  <2>3. OneCircle(m, S \ {i})
    <3> SUFFICES ASSUME NEW Q \in SUBSET (S \ {i}),
                        \A x \in Q \cup {frontUPL} : m.next[x] \in Q \cup {frontUPL}
                 PROVE  Q = S \ {i}
      BY DEF OneCircle
    <3>1. l.next[l.prior[i]] = i
      BY DEF Ring
    <3>2. CASE l.prior[i] \in Q \cup {frontUPL}
      <4>1. \A x \in Q \cup {i} \cup {frontUPL} : l.next[x] \in Q \cup {i} \cup {frontUPL}
        BY <1>1, <1>5, <3>1, <3>2
      <4>2. Q \cup {i} = S
        <5> Q \cup {i} \in SUBSET S
          OBVIOUS
        <5> QED BY <4>1 DEF Ring, OneCircle
      <4> QED BY <4>2
    <3>3. CASE l.prior[i] \notin Q \cup {frontUPL}
      <4>1. \A x \in Q \cup {frontUPL} : l.next[x] \in Q \cup {frontUPL}
        BY <1>1, <1>5, <3>3
      <4>2. Q = S
        BY <4>1 DEF Ring, OneCircle
      <4> QED BY <4>2
    <3> QED BY <3>2, <3>3
  <2> QED BY <2>1, <2>2, <2>3 DEF Ring
<1>7. \A x \in Nodes : x \notin T => m.next[x] = l.next[x] /\ m.prior[x] = l.prior[x]
  BY <1>1, <1>5
<1>8. m.next[i] = l.next[i] /\ m.prior[i] = l.prior[i]
  BY <1>1, <1>5 DEF Ring
<1> QED BY <1>4, <1>6, <1>7, <1>8

(* The links of a frame off the list may be cleared. *)
LEMMA DetachRing ==
  ASSUME NEW l \in UplType, NEW S \in SUBSET Frames, NEW i \in Frames, i \notin S, Ring(l, S)
  PROVE  /\ Detach(l, i) \in UplType
         /\ Ring(Detach(l, i), S)
         /\ \A x \in Nodes : x # i => /\ Detach(l, i).next[x] = l.next[x]
                                      /\ Detach(l, i).prior[x] = l.prior[x]
<1>1. /\ l.next \in [Nodes -> Links] /\ l.prior \in [Nodes -> Links] /\ l.rear \in Nodes
  BY DEF UplType
<1>2. \A x \in Nodes : /\ Detach(l, i).next[x] = IF x = i THEN NULL ELSE l.next[x]
                       /\ Detach(l, i).prior[x] = IF x = i THEN NULL ELSE l.prior[x]
  BY <1>1 DEF Detach
<1>3. Detach(l, i) \in UplType
  BY <1>1, NodeFacts DEF Detach, UplType, Links
<1>4. Ring(Detach(l, i), S)
  <2>1. Detach(l, i).rear = l.rear
    BY DEF Detach
  <2>2. OneCircle(Detach(l, i), S)
    <3>1. \A x \in S \cup {frontUPL} : Detach(l, i).next[x] = l.next[x]
      BY <1>2, NodeFacts
    <3> QED BY <3>1 DEF Ring, OneCircle
  <2> QED BY <1>2, <2>1, <2>2, NodeFacts DEF Ring
<1> QED BY <1>2, <1>3, <1>4

(* Linking a frame at either end of a ring makes a ring of one more.       *)
LEMMA LinkRing ==
  ASSUME NEW l \in UplType, NEW S \in SUBSET Frames, NEW i \in Frames, i \notin S, Ring(l, S),
         NEW m \in {LinkFront(l, i), LinkRear(l, i)}
  PROVE  /\ m \in UplType
         /\ Ring(m, S \cup {i})
         /\ \A x \in Nodes : x \notin S \cup {i, frontUPL}
              => m.next[x] = l.next[x] /\ m.prior[x] = l.prior[x]
<1> DEFINE T == S \cup {frontUPL}
           e == IF m = LinkFront(l, i) THEN frontUPL ELSE l.rear   \* i goes before e
<1>1. /\ e \in T /\ l.prior[e] \in T /\ l.rear \in T /\ T \subseteq Nodes /\ i \notin T
      /\ i \in Nodes /\ l.next[l.prior[e]] = e
      /\ l.prior[l.rear] = frontUPL /\ l.next[frontUPL] = l.rear
  BY NodeFacts DEF Ring, Nodes
<1>2. /\ l.next \in [Nodes -> Links] /\ l.prior \in [Nodes -> Links] /\ l.rear \in Nodes
  BY DEF UplType
<1>3. /\ m.next  = [l.next EXCEPT ![i] = e, ![l.prior[e]] = i]
      /\ m.prior = [l.prior EXCEPT ![i] = l.prior[e], ![e] = i]
      /\ m.rear  = IF l.prior[e] = frontUPL THEN i ELSE l.rear
  <2>1. CASE m = LinkFront(l, i)
    <3>1. l.rear = frontUPL <=> l.prior[frontUPL] = frontUPL
      BY <1>1, NodeFacts DEF Ring
    <3> QED BY <2>1, <3>1 DEF LinkFront
  <2>2. CASE m # LinkFront(l, i)
    BY <1>1, <2>2 DEF LinkRear
  <2> QED BY <2>1, <2>2
<1>4. \A x \in Nodes :
        /\ m.next[x] = IF x = l.prior[e] THEN i ELSE IF x = i THEN e ELSE l.next[x]
        /\ m.prior[x] = IF x = e THEN i ELSE IF x = i THEN l.prior[e] ELSE l.prior[x]
  BY <1>1, <1>2, <1>3
<1>5. m \in UplType
  <2>1. m = [next |-> m.next, prior |-> m.prior, rear |-> m.rear]
    BY DEF LinkFront, LinkRear
  <2>2. e \in Nodes /\ l.prior[e] \in Nodes /\ i \in Links /\ e \in Links /\ l.prior[e] \in Links
    BY <1>1, NodeFacts
  <2>3. m.next \in [Nodes -> Links]
    BY <1>2, <1>3, <2>2
  <2>4. m.prior \in [Nodes -> Links]
    BY <1>2, <1>3, <2>2
  <2>5. m.rear \in Nodes
    BY <1>1, <1>2, <1>3
  <2> QED BY <2>1, <2>3, <2>4, <2>5 DEF UplType
<1>6. Ring(m, S \cup {i})
  <2>1. ASSUME NEW x \in S \cup {i} \cup {frontUPL}
        PROVE  /\ m.next[x] \in S \cup {i} \cup {frontUPL}
               /\ m.prior[x] \in S \cup {i} \cup {frontUPL}
               /\ m.prior[m.next[x]] = x /\ m.next[m.prior[x]] = x
    BY <1>1, <1>4, SMTT(60) DEF Ring
  <2>2. m.next[frontUPL] = m.rear
    BY <1>1, <1>3, <1>4, NodeFacts DEF Ring
  <2>3. OneCircle(m, S \cup {i})
    <3> SUFFICES ASSUME NEW Q \in SUBSET (S \cup {i}),
                        \A x \in Q \cup {frontUPL} : m.next[x] \in Q \cup {frontUPL}
                 PROVE  Q = S \cup {i}
      BY DEF OneCircle
    <3>0. \A x \in T : l.next[x] \in T
      BY DEF Ring
    <3>1. \A x \in (Q \ {i}) \cup {frontUPL} : l.next[x] \in (Q \ {i}) \cup {frontUPL}
      <4> SUFFICES ASSUME NEW x \in (Q \ {i}) \cup {frontUPL}
                   PROVE  l.next[x] \in (Q \ {i}) \cup {frontUPL}
        OBVIOUS
      <4>1. x \in T /\ x # i /\ l.next[x] \in T
        BY <1>1, <3>0
      <4>2. CASE x # l.prior[e]
        BY <1>1, <1>4, <4>1, <4>2
      <4>3. CASE x = l.prior[e]
        <5>1. i \in Q /\ m.next[i] \in Q \cup {frontUPL}
          BY <1>1, <1>4, <4>1, <4>3
        <5>2. m.next[i] = e
          BY <1>1, <1>4
        <5> QED BY <1>1, <4>3, <5>1, <5>2
      <4> QED BY <4>2, <4>3
    <3>2. Q \ {i} = S
      <4>1. Q \ {i} \in SUBSET S
        OBVIOUS
      <4> QED BY <3>1, <4>1 DEF Ring, OneCircle
    <3>3. i \in Q
      <4>1. m.next[l.prior[e]] = i /\ l.prior[e] \in Q \cup {frontUPL}
        BY <1>1, <1>4, <3>2
      <4> QED BY <1>1, <4>1
    <3> QED BY <3>2, <3>3
  <2> QED BY <2>1, <2>2, <2>3 DEF Ring
<1>7. \A x \in Nodes : x \notin S \cup {i, frontUPL}
         => m.next[x] = l.next[x] /\ m.prior[x] = l.prior[x]
  BY <1>1, <1>4
<1> QED BY <1>5, <1>6, <1>7

-----------------------------------------------------------------------------
TableType == [Frames -> [file : Files \cup {NoFile}, pageNo : Pages \cup {-1},
                         pinCnt : Nat, dirty : BOOLEAN, valid : BOOLEAN]]

(* What the invariants ask of each other, hence the inductive invariant    *)
IInv == TypeOK /\ UplLinked /\ FreeListSound /\ HashAgrees /\ PinsAccounted

-----------------------------------------------------------------------------
(* Operators *)

LEMMA ClearType == Clear \in [file : Files \cup {NoFile}, pageNo : Pages \cup {-1},
                              pinCnt : Nat, dirty : BOOLEAN, valid : BOOLEAN]
  BY DEF Clear

LEMMA SetType ==
  ASSUME NEW f \in Files, NEW p \in Pages
  PROVE  Set(f, p) \in [file : Files \cup {NoFile}, pageNo : Pages \cup {-1},
                        pinCnt : Nat, dirty : BOOLEAN, valid : BOOLEAN]
  BY DEF Set

LEMMA KeyFacts ==
  ASSUME NEW k \in Keys
  PROVE  k = <<k[1], k[2]>> /\ k[1] \in Files /\ k[2] \in Pages
  BY DEF Keys

(* Writing frames back touches page images only. *)
LEMMA WriteOutType ==
  ASSUME NEW d \in DiskType, NEW S \in SUBSET Frames, bufPool \in [Frames -> Content]
  PROVE  WriteOut(d, S) \in DiskType
<1>1. ASSUME NEW f \in Files, NEW p \in Pages
      PROVE  (IF \E i \in S : KeyOf(i) = <<f, p>>
              THEN bufPool[CHOOSE i \in S : KeyOf(i) = <<f, p>>]
              ELSE d[f].page[p]) \in Content
  <2>1. CASE \E i \in S : KeyOf(i) = <<f, p>>
    <3>1. (CHOOSE i \in S : KeyOf(i) = <<f, p>>) \in Frames
      BY <2>1
    <3> QED BY <2>1, <3>1
  <2>2. CASE ~\E i \in S : KeyOf(i) = <<f, p>>
    BY <2>2 DEF DiskType
  <2> QED BY <2>1, <2>2
<1>2. \A f \in Files : d[f] \in [numPages : 1 .. MaxPages + 1, free : Seq(Pages),
                                 page : [Pages -> Content]]
  BY DEF DiskType
<1> QED BY <1>1, <1>2 DEF WriteOut, DiskType

(* Allocating and disposing keep the file images well formed. *)
LEMMA AllocatedType ==
  ASSUME disk \in DiskType, NEW f \in Files, CanAllocate(f)
  PROVE  Allocated(f) \in DiskType /\ NewPage(f) \in Pages
<1>1. disk[f].free \in Seq(Pages) /\ disk[f].numPages \in 1 .. MaxPages + 1
      /\ disk[f].page \in [Pages -> Content] /\ Zero \in Content
  BY DEF DiskType, Content
<1>2. CASE HasFree(f)
  <2>1. Head(disk[f].free) \in Pages /\ Tail(disk[f].free) \in Seq(Pages)
    BY <1>1, <1>2 DEF HasFree
  <2> QED BY <1>2, <2>1, <1>1 DEF Allocated, NewPage, DiskType
<1>3. CASE ~HasFree(f)
  <2>1. disk[f].numPages \in Pages
    BY <1>1, <1>3, MaxPagesAssumption DEF CanAllocate, Pages
  <2> QED BY <1>1, <1>3, <2>1, MaxPagesAssumption DEF Allocated, NewPage, DiskType, Pages
<1> QED BY <1>2, <1>3

LEMMA DisposedType ==
  ASSUME disk \in DiskType, NEW f \in Files, NEW p \in Pages
  PROVE  Disposed(f, p) \in DiskType /\ DisposeCutShort(f, p) \subseteq DiskType
<1>1. disk[f].free \in Seq(Pages) /\ disk[f].page \in [Pages -> Content] /\ Linked \in Content
  BY DEF DiskType, Content
<1>2. <<p>> \o disk[f].free \in Seq(Pages)
  BY <1>1
<1>3. Unlisted(f, p) \in DiskType
  BY <1>1 DEF Unlisted, DiskType
<1> QED BY <1>1, <1>2, <1>3 DEF Disposed, DisposeCutShort, DiskType

(* A dispose that fails leaves the page list and all other pages alone. *)
LEMMA CutShort ==
  ASSUME disk \in DiskType, NEW k \in Keys, NEW d \in DisposeCutShort(k[1], k[2])
  PROVE  /\ \A f \in Files : d[f].free = disk[f].free /\ d[f].numPages = disk[f].numPages
         /\ \A j \in Keys : j # k => OnDisk(d, j) = OnDisk(disk, j)
<1>1. CASE d = disk
  BY <1>1
<1>2. CASE d = Unlisted(k[1], k[2])
  <2>1. k[1] \in Files /\ k[2] \in Pages
    BY KeyFacts
  <2>2. \A f \in Files : d[f].free = disk[f].free /\ d[f].numPages = disk[f].numPages
    BY <1>2, <2>1 DEF Unlisted, DiskType
  <2>3. ASSUME NEW j \in Keys, j # k PROVE OnDisk(d, j) = OnDisk(disk, j)
    <3>1. j = <<j[1], j[2]>> /\ k = <<k[1], k[2]>> /\ j[1] \in Files /\ j[2] \in Pages
      BY KeyFacts
    <3>2. j[1] # k[1] \/ j[2] # k[2]
      BY <2>3, <3>1
    <3> QED BY <1>2, <2>1, <3>1, <3>2 DEF Unlisted, OnDisk, DiskType
  <2> QED BY <2>2, <2>3
<1> QED BY <1>1, <1>2 DEF DisposeCutShort

(* The victim of allocBuf is an unpinned frame of the list; without it the
   list is the ring of the others. *)
LEMMA VictimFacts ==
  ASSUME TypeOK, UplLinked, alive, ~AllPinned
  PROVE  /\ Victim \in Frames /\ Victim \in OnList /\ bufTable[Victim].pinCnt = 0
         /\ Unlink(upl, Victim) \in UplType
         /\ Ring(Unlink(upl, Victim), OnList \ {Victim})
         /\ \A x \in stranded : /\ Unlink(upl, Victim).next[x] = upl.next[x]
                                /\ Unlink(upl, Victim).prior[x] = upl.prior[x]
         /\ Unlink(upl, Victim).next[Victim] \in Nodes
         /\ Unlink(upl, Victim).prior[Victim] = frontUPL
         /\ Taken(upl) \in UplType
         /\ Ring(Taken(upl), OnList \ {Victim})
         /\ \A x \in stranded : /\ Taken(upl).next[x] = upl.next[x]
                                /\ Taken(upl).prior[x] = upl.prior[x]
<1>1. upl \in UplType /\ Ring(upl, OnList) /\ OnList \subseteq Frames /\ stranded \subseteq Frames
  BY DEF TypeOK, UplLinked, UplIsUnpinned, OnList
<1>2. Victim \in OnList /\ upl.prior[Victim] = frontUPL
  BY <1>1 DEF Victim, AllPinned, Ring
<1>3. /\ Unlink(upl, Victim) \in UplType
      /\ Ring(Unlink(upl, Victim), OnList \ {Victim})
      /\ \A x \in Nodes : x \notin OnList \cup {frontUPL}
           => /\ Unlink(upl, Victim).next[x] = upl.next[x]
              /\ Unlink(upl, Victim).prior[x] = upl.prior[x]
      /\ Unlink(upl, Victim).next[Victim] = upl.next[Victim]
      /\ Unlink(upl, Victim).prior[Victim] = upl.prior[Victim]
  BY <1>1, <1>2, UnlinkRing
<1>4. \A x \in stranded : x \in Nodes /\ x \notin OnList \cup {frontUPL} /\ x # Victim
  BY <1>1, <1>2, NodeFacts DEF OnList
<1>5. upl.next[Victim] \in Nodes
  BY <1>1, <1>2, NodeFacts DEF Ring, Nodes
<1>6. /\ Taken(upl) \in UplType
      /\ Ring(Taken(upl), OnList \ {Victim})
      /\ \A x \in Nodes : x # Victim
           => /\ Taken(upl).next[x] = Unlink(upl, Victim).next[x]
              /\ Taken(upl).prior[x] = Unlink(upl, Victim).prior[x]
  <2>1. OnList \ {Victim} \subseteq Frames /\ Victim \in Frames /\ Victim \notin OnList \ {Victim}
    BY <1>1, <1>2
  <2> QED BY <1>3, <2>1, DetachRing DEF Taken
<1> QED BY <1>1, <1>2, <1>3, <1>4, <1>5, <1>6 DEF OnList

(* Writing the victim back and dropping its hash entry keep the types. *)
LEMMA EvictType ==
  ASSUME TypeOK, NEW d \in DiskType
  PROVE  /\ WrittenBack(d) \in DiskType
         /\ HashLessVictim \in [Keys -> Frames \cup {NULL}]
<1>1. WrittenBack(d) \in DiskType
  BY WriteOutType DEF WrittenBack, Dirty, TypeOK
<1>2. HashLessVictim \in [Keys -> Frames \cup {NULL}]
  BY DEF HashLessVictim, TypeOK
<1> QED BY <1>1, <1>2

-----------------------------------------------------------------------------
(* Type correctness *)

LEMMA InitType == Init => TypeOK
<1> SUFFICES ASSUME Init PROVE TypeOK
  OBVIOUS
<1>1. FreshTable \in TableType
  BY ClearType DEF FreshTable, TableType
<1>2. FreshPool \in [Frames -> Content]
  BY DEF FreshPool, Content
<1>3. [f \in Files |-> EmptyFile] \in DiskType
  <2>1. EmptyFile \in [numPages : 1 .. MaxPages + 1, free : Seq(Pages), page : [Pages -> Content]]
    BY MaxPagesAssumption DEF EmptyFile, Content
  <2> QED BY <2>1 DEF DiskType
<1>4. NoHash \in [Keys -> Frames \cup {NULL}]
      /\ NoHolder \in [Clients -> [Keys -> {"no", "clean", "wrote"}]]
  BY DEF NoHash, NoHolder
<1> QED BY <1>1, <1>2, <1>3, <1>4, FreshRing DEF Init, TypeOK, TableType

LEMMA TypeStep == TypeOK /\ UplLinked /\ Next => TypeOK'
<1> SUFFICES ASSUME TypeOK, UplLinked, Next PROVE TypeOK'
  OBVIOUS
<1> USE DEF TableType
<1>0. /\ alive
      /\ bufTable \in TableType /\ bufPool \in [Frames -> Content]
      /\ hashTable \in [Keys -> Frames \cup {NULL}]
      /\ upl \in UplType /\ disk \in DiskType
      /\ held \in [Clients -> [Keys -> {"no", "clean", "wrote"}]]
      /\ stranded \subseteq Frames
      /\ NULL \notin Frames
      /\ \A l : Asserts(l) \in BOOLEAN
  BY NodeFacts DEF TypeOK, Next, Nodes, Asserts
<1>strand. ASSUME ~AllPinned, StrandVictim
           PROVE  /\ upl' \in UplType /\ alive' \in BOOLEAN /\ stranded' \subseteq Frames
                  /\ UNCHANGED <<bufTable, bufPool, hashTable, held>>
  BY <1>0, <1>strand, VictimFacts DEF StrandVictim
<1>1. ASSUME NEW c \in Clients, NEW k \in Keys, ReadHit(c, k)
      PROVE  TypeOK'
  <2> DEFINE i == hashTable[k]
  <2>1. i \in Frames
    BY <1>0, <1>1 DEF ReadHit
  <2>2. bufTable' \in TableType
    <3>1. bufTable' = [bufTable EXCEPT ![i].pinCnt = bufTable[i].pinCnt + 1]
      BY <1>1 DEF ReadHit
    <3>2. bufTable[i].pinCnt + 1 \in Nat
      BY <1>0, <2>1
    <3> HIDE DEF i
    <3> QED BY <1>0, <2>1, <3>1, <3>2, SMTT(60)
  <2>3. held' \in [Clients -> [Keys -> {"no", "clean", "wrote"}]]
    BY <1>0, <1>1 DEF ReadHit
  <2>4. upl' \in UplType /\ alive' \in BOOLEAN
    <3>1. CASE bufTable[i].pinCnt = 0
      <4>1. upl.next[i] \in Nodes /\ upl.prior[i] \in Nodes
        BY <1>0, <2>1, <3>1, NodeFacts DEF UplLinked, UplIsUnpinned, OnList, Ring, Nodes
      <4>2. Unlink(upl, i) \in UplType
        BY <1>0, <4>1, NodeFacts DEF Unlink, UplType
      <4>3. Detach(Unlink(upl, i), i) \in UplType
        BY <4>2 DEF Detach, UplType, Links
      <4> QED BY <1>0, <1>1, <3>1, <4>3 DEF ReadHit
    <3>2. CASE bufTable[i].pinCnt # 0
      BY <1>0, <1>1, <3>2 DEF ReadHit
    <3> QED BY <3>1, <3>2
  <2>5. /\ bufPool' = bufPool /\ hashTable' = hashTable /\ disk' = disk
        /\ status' = "OK" /\ stranded' \subseteq Frames
    BY <1>0, <1>1 DEF ReadHit
  <2> QED BY <1>0, <2>2, <2>3, <2>4, <2>5 DEF TypeOK
<1>2. ASSUME NEW c \in Clients, NEW k \in Keys, ReadMiss(c, k)
      PROVE  TypeOK'
  <2>1. Victim \in Frames /\ Taken(upl) \in UplType
    BY <1>0, <1>2, VictimFacts DEF ReadMiss
  <2>2. disk' \in DiskType /\ HashLessVictim \in [Keys -> Frames \cup {NULL}]
    BY <1>0, <1>2, EvictType DEF ReadMiss
  <2>3. OnDisk(disk', k) \in Content
    BY <2>2, KeyFacts DEF DiskType, OnDisk
  <2>4. bufPool' \in [Frames -> Content] /\ hashTable' \in [Keys -> Frames \cup {NULL}]
    BY <1>0, <1>2, <2>1, <2>2, <2>3 DEF ReadMiss
  <2>5. bufTable' \in TableType
    BY <1>0, <1>2, <2>1, KeyFacts, SetType DEF ReadMiss
  <2>6. held' \in [Clients -> [Keys -> {"no", "clean", "wrote"}]]
    BY <1>0, <1>2 DEF ReadMiss
  <2>7. upl' \in UplType /\ alive' \in BOOLEAN /\ status' = "OK" /\ stranded' = stranded
    BY <1>0, <1>2, <2>1 DEF ReadMiss
  <2> QED BY <1>0, <2>2, <2>4, <2>5, <2>6, <2>7 DEF TypeOK
<1>3. ASSUME NEW k \in Keys, ReadFails(k)
      PROVE  TypeOK'
  <2>1. /\ Victim \in Frames /\ Taken(upl) \in UplType
        /\ Ring(Taken(upl), OnList \ {Victim})
    BY <1>0, <1>3, VictimFacts DEF ReadFails
  <2>2. disk' \in DiskType /\ hashTable' \in [Keys -> Frames \cup {NULL}]
    BY <1>0, <1>3, EvictType DEF ReadFails
  <2>3. bufTable' \in TableType
    BY <1>0, <1>3, <2>1, ClearType DEF ReadFails
  <2>4. LinkRear(Taken(upl), Victim) \in UplType
    BY <2>1, LinkRing DEF OnList
  <2>5. /\ upl' \in UplType /\ alive' \in BOOLEAN /\ status' = "UNIXERR"
        /\ UNCHANGED <<bufPool, held, stranded>>
    BY <1>0, <1>3, <2>4 DEF ReadFails
  <2> QED BY <1>0, <2>2, <2>3, <2>5 DEF TypeOK
<1>4. ASSUME NEW k \in Keys, ReadNoVictim(k)
      PROVE  TypeOK'
  <2>1. CASE AllPinned /\ status' = "BUFFEREXCEEDED" /\ UNCHANGED <<mem, held, alive>>
    BY <1>0, <1>4, <2>1 DEF ReadNoVictim, TypeOK, mem
  <2>2. CASE WriteBackFails /\ status' = "UNIXERR" /\ StrandVictim
    BY <1>0, <1>4, <2>2, <1>strand DEF ReadNoVictim, TypeOK, WriteBackFails
  <2> QED BY <1>4, <2>1, <2>2 DEF ReadNoVictim
<1>5. ASSUME NEW c \in Clients, NEW k \in Keys, NEW dirty \in BOOLEAN, NEW loveIt \in BOOLEAN,
             UnPinPage(c, k, dirty, loveIt)
      PROVE  TypeOK'
  <2> DEFINE i == hashTable[k]
  <2>1. i \in Frames /\ bufTable[i].pinCnt \in Nat \ {0}
    BY <1>0, <1>5 DEF UnPinPage
  <2>2. bufTable' \in TableType
    BY <1>0, <1>5, <2>1 DEF UnPinPage
  <2>3. held' \in [Clients -> [Keys -> {"no", "clean", "wrote"}]]
    BY <1>0, <1>5 DEF UnPinPage
  <2>4. upl' \in UplType /\ alive' \in BOOLEAN
    <3>1. i \notin OnList /\ OnList \subseteq Frames /\ Ring(upl, OnList)
      BY <1>0, <2>1 DEF OnList, UplLinked, UplIsUnpinned
    <3>2. LinkFront(upl, i) \in UplType /\ LinkRear(upl, i) \in UplType
      BY <1>0, <2>1, <3>1, LinkRing
    <3> QED BY <1>0, <1>5, <3>2 DEF UnPinPage
  <2>5. /\ status' = "OK" /\ UNCHANGED <<bufPool, hashTable, disk, stranded>>
    BY <1>5 DEF UnPinPage
  <2> QED BY <1>0, <2>2, <2>3, <2>4, <2>5 DEF TypeOK
<1>6. ASSUME NEW k \in Keys, UnPinRefused(k)
      PROVE  TypeOK'
  BY <1>6 DEF UnPinRefused, TypeOK, mem
<1>7. ASSUME NEW c \in Clients, NEW k \in Keys, NEW d \in Data, WritePinned(c, k, d)
      PROVE  TypeOK'
  <2>1. d \in Content
    BY DEF Content
  <2>2. bufPool' \in [Frames -> Content]
        /\ held' \in [Clients -> [Keys -> {"no", "clean", "wrote"}]]
    BY <1>0, <1>7, <2>1 DEF WritePinned
  <2> QED BY <1>0, <1>7, <2>2 DEF WritePinned, TypeOK
<1>8. ASSUME NEW f \in Files, FlushFile(f)
      PROVE  TypeOK'
  <2>1. bufTable' \in TableType
    BY <1>0, <1>8, ClearType DEF FlushFile
  <2>2. hashTable' \in [Keys -> Frames \cup {NULL}]
    BY <1>0, <1>8 DEF FlushFile
  <2>3. disk' \in DiskType
    <3>1. \A S \in SUBSET Frames : WriteOut(disk, S) \in DiskType
      BY <1>0, WriteOutType
    <3> QED BY <1>8, <3>1 DEF FlushFile, Dirty
  <2>4. status' \in {"OK", "PAGEPINNED", "UNIXERR"} /\ UNCHANGED <<bufPool, upl, held, alive, stranded>>
    BY <1>8 DEF FlushFile
  <2> QED BY <1>0, <2>1, <2>2, <2>3, <2>4 DEF TypeOK
<1>9. ASSUME NEW k \in Keys, DisposePage(k)
      PROVE  TypeOK'
  <2>1. bufTable' \in TableType
    BY <1>0, <1>9, ClearType DEF DisposePage, mem
  <2>2. hashTable' \in [Keys -> Frames \cup {NULL}]
    BY <1>0, <1>9 DEF DisposePage, mem
  <2>3. disk' \in DiskType
    <3>1. Disposed(k[1], k[2]) \in DiskType /\ DisposeCutShort(k[1], k[2]) \subseteq DiskType
      BY <1>0, DisposedType, KeyFacts
    <3> QED BY <1>0, <1>9, <3>1 DEF DisposePage
  <2>4. /\ status' \in {"OK", "PAGEPINNED", "HASHNOTFOUND", "BADPAGENO", "DISPOSEFAILED"}
        /\ UNCHANGED <<bufPool, upl, held, alive, stranded>>
    BY <1>9 DEF DisposePage, mem
  <2> QED BY <1>0, <2>1, <2>2, <2>3, <2>4 DEF TypeOK
<1>10. ASSUME NEW c \in Clients, NEW f \in Files, AllocDone(c, f)
       PROVE  TypeOK'
  <2> DEFINE k == <<f, NewPage(f)>>
  <2>1. Allocated(f) \in DiskType /\ NewPage(f) \in Pages
    BY <1>0, <1>10, AllocatedType DEF AllocDone
  <2>2. CASE AllPinned
    <3>1. /\ disk' = Allocated(f) /\ status' = "BUFFEREXCEEDED" /\ UNCHANGED <<mem, held, alive>>
      BY <1>10, <2>2 DEF AllocDone, WriteBackFails
    <3> QED BY <1>0, <2>1, <3>1 DEF TypeOK, mem
  <2>3. CASE ~AllPinned /\ disk' = Allocated(f)  /\ status' = "UNIXERR" /\ StrandVictim
    BY <1>0, <2>1, <2>3, <1>strand DEF TypeOK
  <2>4. CASE ~AllPinned /\ status' = "OK"
    <3>1. Victim \in Frames /\ Taken(upl) \in UplType
      BY <1>0, <2>4, VictimFacts
    <3>2. /\ disk' = WrittenBack(Allocated(f))
          /\ hashTable' = [HashLessVictim EXCEPT ![k] = Victim]
          /\ bufTable' = [bufTable EXCEPT ![Victim] = Set(f, k[2])]
          /\ upl' = Taken(upl)
          /\ alive' = Asserts(upl')
          /\ held' = [held EXCEPT ![c][k] = "wrote"]
          /\ UNCHANGED <<bufPool, stranded>>
      BY <1>10, <2>4 DEF AllocDone
    <3>3. disk' \in DiskType /\ hashTable' \in [Keys -> Frames \cup {NULL}]
      BY <1>0, <2>1, <3>1, <3>2, EvictType
    <3>4. bufTable' \in TableType
      BY <1>0, <2>1, <3>1, <3>2, SetType
    <3>5. held' \in [Clients -> [Keys -> {"no", "clean", "wrote"}]]
      BY <1>0, <3>2
    <3> QED BY <1>0, <2>4, <3>1, <3>2, <3>3, <3>4, <3>5 DEF TypeOK
  <2> QED BY <1>10, <2>2, <2>3, <2>4 DEF AllocDone, WriteBackFails
<1>15. ASSUME AllocFails
       PROVE  TypeOK'
  BY <1>15 DEF AllocFails, TypeOK, mem
<1>11. ASSUME Restart
       PROVE  TypeOK'
  <2>1. disk' \in DiskType
    <3>1. \A S \in SUBSET Frames : WriteOut(disk, S) \in DiskType
      BY <1>0, WriteOutType
    <3> QED BY <1>11, <3>1 DEF Restart, Dirty
  <2>2. FreshTable \in TableType
    BY ClearType DEF FreshTable
  <2>3. FreshPool \in [Frames -> Content]
    BY DEF FreshPool, Content
  <2>4. NoHash \in [Keys -> Frames \cup {NULL}]
        /\ NoHolder \in [Clients -> [Keys -> {"no", "clean", "wrote"}]]
    BY DEF NoHash, NoHolder
  <2> QED BY <1>0, <1>11, <2>1, <2>2, <2>3, <2>4, FreshRing DEF Restart, TypeOK
<1> QED
  BY <1>1, <1>2, <1>3, <1>4, <1>5, <1>6, <1>7, <1>8, <1>9, <1>10, <1>11, <1>15
     DEF Next, ReadPage, AllocPage

-----------------------------------------------------------------------------
(* The free lists *)

(* The page a file gives out is in no frame. *)
LEMMA NewPageUncached ==
  ASSUME TypeOK, FreeListSound, alive, NEW f \in Files, CanAllocate(f)
  PROVE  <<f, NewPage(f)>> \in Keys /\ hashTable[<<f, NewPage(f)>>] = NULL
<1>1. disk \in DiskType /\ NewPage(f) \in Pages
  BY AllocatedType DEF TypeOK
<1>2. NewPage(f) \notin InUse(f)
  <2>1. CASE HasFree(f)
    <3>1. disk[f].free \in Seq(Pages) /\ disk[f].free # <<>>
      BY <1>1, <2>1 DEF HasFree, DiskType
    <3>2. 1 \in 1 .. Len(disk[f].free) /\ NewPage(f) = disk[f].free[1]
      BY <2>1, <3>1 DEF NewPage
    <3> QED BY <3>2 DEF InUse
  <2>2. CASE ~HasFree(f)
    <3>1. NewPage(f) = disk[f].numPages /\ disk[f].numPages \in Nat
      BY <1>1, <2>2 DEF NewPage, DiskType
    <3> QED BY <3>1 DEF InUse
  <2> QED BY <2>1, <2>2
<1> QED BY <1>1, <1>2 DEF Keys, FreeListSound

(* Writing frames back leaves the free lists alone. *)
LEMMA WriteOutFree ==
  ASSUME NEW d \in DiskType, NEW S, NEW f \in Files
  PROVE  WriteOut(d, S)[f].free = d[f].free /\ WriteOut(d, S)[f].numPages = d[f].numPages
  BY DEF WriteOut

-----------------------------------------------------------------------------
(* The hash table agrees with the descriptors *)

LEMMA HashStep == TypeOK /\ UplLinked /\ FreeListSound /\ HashAgrees /\ Next => HashAgrees'
<1> SUFFICES ASSUME TypeOK, UplLinked, FreeListSound, HashAgrees, Next PROVE HashAgrees'
  OBVIOUS
<1>0. /\ alive /\ NULL \notin Frames /\ NoFile \notin Files
      /\ bufTable \in TableType
      /\ hashTable \in [Keys -> Frames \cup {NULL}]
      /\ \A k \in Keys, i \in Frames :
            hashTable[k] = i <=> bufTable[i].valid /\ <<bufTable[i].file, bufTable[i].pageNo>> = k
      /\ \A i \in Frames : bufTable[i].valid => <<bufTable[i].file, bufTable[i].pageNo>> \in Keys
  BY NodeFacts, NoFileAssumption DEF TypeOK, TableType, Next, Nodes, HashAgrees, KeyOf
<1>same. ASSUME hashTable' = hashTable,
                \A i \in Frames : /\ bufTable'[i].valid = bufTable[i].valid
                                  /\ bufTable'[i].file = bufTable[i].file
                                  /\ bufTable'[i].pageNo = bufTable[i].pageNo
         PROVE  HashAgrees'
  BY <1>0, <1>same DEF HashAgrees, KeyOf
<1>take. ASSUME NEW k \in Keys, hashTable[k] = NULL \/ hashTable[k] = Victim, Victim \in Frames,
                hashTable' = [HashLessVictim EXCEPT ![k] = Victim],
                bufTable' = [bufTable EXCEPT ![Victim] = Set(k[1], k[2])]
         PROVE  HashAgrees'
  <2>1. \A j \in Frames : j # Victim => bufTable'[j] = bufTable[j]
    BY <1>0, <1>take DEF TableType
  <2>2. /\ bufTable'[Victim].valid
        /\ <<bufTable'[Victim].file, bufTable'[Victim].pageNo>> = k
    BY <1>0, <1>take, KeyFacts DEF TableType, Set
  <2>3. \A j \in Keys : hashTable'[j] = IF j = k THEN Victim
                                         ELSE IF hashTable[j] = Victim THEN NULL ELSE hashTable[j]
    BY <1>0, <1>take DEF HashLessVictim, KeyOf
  <2> QED BY <1>0, <1>take, <2>1, <2>2, <2>3 DEF HashAgrees, KeyOf
<1>1. ASSUME NEW c \in Clients, NEW k \in Keys, ReadHit(c, k)
      PROVE  HashAgrees'
  <2> DEFINE i == hashTable[k]
  <2>1. i \in Frames /\ hashTable' = hashTable
    BY <1>0, <1>1 DEF ReadHit
  <2>2. bufTable' = [bufTable EXCEPT ![i].pinCnt = bufTable[i].pinCnt + 1]
    BY <1>1 DEF ReadHit
  <2> HIDE DEF i
  <2> QED BY <1>0, <1>same, <2>1, <2>2 DEF TableType
<1>2. ASSUME NEW c \in Clients, NEW k \in Keys, ReadMiss(c, k)
      PROVE  HashAgrees'
  BY <1>0, <1>2, <1>take, VictimFacts DEF ReadMiss
<1>3. ASSUME NEW k \in Keys, ReadFails(k)
      PROVE  HashAgrees'
  <2>1. Victim \in Frames
    BY <1>0, <1>3, VictimFacts DEF ReadFails
  <2>2. hashTable' = HashLessVictim /\ bufTable' = [bufTable EXCEPT ![Victim] = Clear]
    BY <1>3 DEF ReadFails
  <2>3. \A j \in Keys : hashTable'[j] = IF hashTable[j] = Victim THEN NULL ELSE hashTable[j]
    BY <1>0, <2>1, <2>2 DEF HashLessVictim, KeyOf
  <2>4. ~bufTable'[Victim].valid /\ \A j \in Frames : j # Victim => bufTable'[j] = bufTable[j]
    BY <1>0, <2>1, <2>2 DEF TableType, Clear
  <2> QED BY <1>0, <2>1, <2>3, <2>4 DEF HashAgrees, KeyOf
<1>4. ASSUME NEW k \in Keys, ReadNoVictim(k)
      PROVE  HashAgrees'
  BY <1>4, <1>same DEF ReadNoVictim, mem, StrandVictim
<1>5. ASSUME NEW c \in Clients, NEW k \in Keys, NEW dirty \in BOOLEAN, NEW loveIt \in BOOLEAN,
             UnPinPage(c, k, dirty, loveIt)
      PROVE  HashAgrees'
  <2> DEFINE i == hashTable[k]
  <2>1. i \in Frames /\ hashTable' = hashTable
    BY <1>0, <1>5 DEF UnPinPage
  <2>2. bufTable' = [bufTable EXCEPT ![i].dirty = bufTable[i].dirty \/ dirty,
                                    ![i].pinCnt = bufTable[i].pinCnt - 1]
    BY <1>5 DEF UnPinPage
  <2> HIDE DEF i
  <2> QED BY <1>0, <1>same, <2>1, <2>2 DEF TableType
<1>6. ASSUME NEW k \in Keys, UnPinRefused(k)
      PROVE  HashAgrees'
  BY <1>6, <1>same DEF UnPinRefused, mem
<1>7. ASSUME NEW c \in Clients, NEW k \in Keys, NEW d \in Data, WritePinned(c, k, d)
      PROVE  HashAgrees'
  BY <1>7, <1>same DEF WritePinned
<1>8. ASSUME NEW f \in Files, FlushFile(f)
      PROVE  HashAgrees'
  <2>1. PICK F \in SUBSET Frames :
           /\ \A i \in F : bufTable[i].valid
           /\ hashTable' = [k \in Keys |-> IF k \in {KeyOf(i) : i \in F} THEN NULL ELSE hashTable[k]]
           /\ bufTable' = [i \in Frames |-> IF i \in F THEN Clear ELSE bufTable[i]]
    BY <1>8 DEF FlushFile
  <2>2. \A k \in Keys : hashTable'[k] = IF hashTable[k] \in F THEN NULL ELSE hashTable[k]
    BY <1>0, <2>1 DEF KeyOf
  <2>3. \A i \in Frames : IF i \in F THEN ~bufTable'[i].valid ELSE bufTable'[i] = bufTable[i]
    BY <2>1 DEF Clear
  <2> QED BY <1>0, <2>2, <2>3 DEF HashAgrees, KeyOf
<1>9. ASSUME NEW k \in Keys, DisposePage(k)
      PROVE  HashAgrees'
  <2> DEFINE i == hashTable[k]
  <2>1. CASE UNCHANGED mem
    BY <2>1, <1>same DEF mem
  <2>2. CASE ~UNCHANGED mem
    <3>1. /\ i \in Frames
          /\ hashTable' = [hashTable EXCEPT ![k] = NULL]
          /\ bufTable' = [bufTable EXCEPT ![i] = Clear]
      BY <1>0, <1>9, <2>2 DEF DisposePage
    <3> HIDE DEF i
    <3>2. ~bufTable'[i].valid /\ \A j \in Frames : j # i => bufTable'[j] = bufTable[j]
      BY <1>0, <3>1 DEF TableType, Clear
    <3>3. \A j \in Keys : hashTable'[j] = IF j = k THEN NULL ELSE hashTable[j]
      BY <1>0, <3>1
    <3>4. i = hashTable[k]
      BY DEF i
    <3> QED BY <1>0, <3>1, <3>2, <3>3, <3>4 DEF HashAgrees, KeyOf
  <2> QED BY <2>1, <2>2
<1>10. ASSUME NEW c \in Clients, NEW f \in Files, AllocDone(c, f)
       PROVE  HashAgrees'
  <2> DEFINE k == <<f, NewPage(f)>>
  <2>1. CASE UNCHANGED <<hashTable, bufTable>>
    BY <2>1, <1>same
  <2>2. CASE ~AllPinned /\ ~UNCHANGED <<hashTable, bufTable>>
    <3>1. /\ hashTable' = [HashLessVictim EXCEPT ![k] = Victim]
          /\ bufTable' = [bufTable EXCEPT ![Victim] = Set(k[1], k[2])]
      BY <1>10, <2>2 DEF AllocDone, StrandVictim
    <3>2. k \in Keys /\ hashTable[k] = NULL
      BY <1>0, <1>10, NewPageUncached DEF AllocDone
    <3>3. Victim \in Frames
      BY <1>0, <2>2, VictimFacts
    <3> QED BY <1>take, <3>1, <3>2, <3>3
  <2> QED BY <1>10, <2>1, <2>2 DEF AllocDone, mem, StrandVictim
<1>15. ASSUME AllocFails
       PROVE  HashAgrees'
  BY <1>15, <1>same DEF AllocFails, mem
<1>11. ASSUME Restart
       PROVE  HashAgrees'
  BY <1>0, <1>11 DEF Restart, FreshTable, NoHash, Clear, HashAgrees, KeyOf
<1> QED
  BY <1>1, <1>2, <1>3, <1>4, <1>5, <1>6, <1>7, <1>8, <1>9, <1>10, <1>11, <1>15
     DEF Next, ReadPage, AllocPage

-----------------------------------------------------------------------------
(* Free lists stay sound *)

(* a step that neither grows nor shrinks a file, and caches no page that is
   not in use *)
LEMMA FreeSame ==
  ASSUME FreeListSound, alive,
         \A f \in Files : disk'[f].free = disk[f].free /\ disk'[f].numPages = disk[f].numPages,
         \A k \in Keys : hashTable'[k] # NULL => hashTable[k] # NULL \/ k[2] \in InUse(k[1])
  PROVE  FreeListSound'
<1>1. \A f \in Files : InUse(f)' = InUse(f)
  BY DEF InUse
<1>2. \A k \in Keys : k[1] \in Files
  BY KeyFacts
<1> QED BY <1>1, <1>2 DEF FreeListSound

LEMMA FreeStep == TypeOK /\ UplLinked /\ FreeListSound /\ HashAgrees /\ Next => FreeListSound'
<1> SUFFICES ASSUME TypeOK, UplLinked, FreeListSound, HashAgrees, Next PROVE FreeListSound'
  OBVIOUS
<1>0. /\ alive /\ disk \in DiskType
      /\ hashTable \in [Keys -> Frames \cup {NULL}] /\ NULL \notin Frames
      /\ \A f \in Files : /\ disk[f].free \in Seq(Pages) /\ disk[f].numPages \in 1 .. MaxPages + 1
  BY NodeFacts DEF TypeOK, DiskType, Next, Nodes
<1>1. ASSUME NEW c \in Clients, NEW k \in Keys, ReadHit(c, k)
      PROVE  FreeListSound'
  BY <1>0, <1>1, FreeSame DEF ReadHit
<1>evict. /\ \A d \in DiskType, f \in Files : WrittenBack(d)[f].free = d[f].free
                                              /\ WrittenBack(d)[f].numPages = d[f].numPages
          /\ \A j \in Keys : HashLessVictim[j] # NULL => hashTable[j] # NULL
  <2>1. \A d \in DiskType, f \in Files : WrittenBack(d)[f].free = d[f].free
                                         /\ WrittenBack(d)[f].numPages = d[f].numPages
    BY WriteOutFree DEF WrittenBack
  <2>2. \A j \in Keys : HashLessVictim[j] # NULL => hashTable[j] # NULL
    BY <1>0 DEF HashLessVictim
  <2> QED BY <2>1, <2>2
<1>2. ASSUME NEW c \in Clients, NEW k \in Keys, k[2] \in InUse(k[1]), ReadMiss(c, k)
      PROVE  FreeListSound'
  <2>1. \A j \in Keys : hashTable'[j] # NULL => j = k \/ hashTable[j] # NULL
    BY <1>0, <1>2, <1>evict, EvictType DEF ReadMiss
  <2>2. \A f \in Files : disk'[f].free = disk[f].free /\ disk'[f].numPages = disk[f].numPages
    BY <1>0, <1>2, <1>evict DEF ReadMiss
  <2> QED BY <1>0, <1>2, <2>1, <2>2, FreeSame
<1>3. ASSUME NEW k \in Keys, ReadFails(k)
      PROVE  FreeListSound'
  BY <1>0, <1>3, <1>evict, FreeSame DEF ReadFails
<1>4. ASSUME NEW k \in Keys, ReadNoVictim(k)
      PROVE  FreeListSound'
  BY <1>0, <1>4, FreeSame DEF ReadNoVictim, mem, StrandVictim
<1>5. ASSUME NEW c \in Clients, NEW k \in Keys, NEW dirty \in BOOLEAN, NEW loveIt \in BOOLEAN,
             UnPinPage(c, k, dirty, loveIt)
      PROVE  FreeListSound'
  BY <1>0, <1>5, FreeSame DEF UnPinPage
<1>6. ASSUME NEW k \in Keys, UnPinRefused(k)
      PROVE  FreeListSound'
  BY <1>0, <1>6, FreeSame DEF UnPinRefused, mem
<1>7. ASSUME NEW c \in Clients, NEW k \in Keys, NEW d \in Data, WritePinned(c, k, d)
      PROVE  FreeListSound'
  BY <1>0, <1>7, FreeSame DEF WritePinned
<1>8. ASSUME NEW f \in Files, FlushFile(f)
      PROVE  FreeListSound'
  <2>1. PICK S : disk' = WriteOut(disk, S)
    BY <1>8 DEF FlushFile
  <2>2. \A k \in Keys : hashTable'[k] # NULL => hashTable[k] # NULL
    BY <1>8 DEF FlushFile
  <2> QED BY <1>0, <2>1, <2>2, WriteOutFree, FreeSame
<1>9. ASSUME NEW k \in Keys, DisposePage(k)
      PROVE  FreeListSound'
  <2>1. CASE disk' = disk \/ disk' \in DisposeCutShort(k[1], k[2])
    <3>1. \A j \in Keys : hashTable'[j] # NULL => hashTable[j] # NULL
      BY <1>0, <1>9 DEF DisposePage, mem
    <3>2. \A f \in Files : disk'[f].free = disk[f].free /\ disk'[f].numPages = disk[f].numPages
      BY <1>0, <2>1, CutShort
    <3> QED BY <1>0, <3>1, <3>2, FreeSame
  <2>2. CASE ~(disk' = disk \/ disk' \in DisposeCutShort(k[1], k[2]))
    <3> DEFINE g == k[1]
               p == k[2]
               fl == disk[g].free
    <3>1. /\ hashTable[k] # NULL /\ hashTable' = [hashTable EXCEPT ![k] = NULL]
          /\ disk' = Disposed(g, p) /\ alive' = alive
      BY <1>9, <2>2 DEF DisposePage
    <3>2. k = <<g, p>> /\ g \in Files /\ p \in Pages /\ p \in Nat
      BY KeyFacts DEF Pages
    <3>3. p < disk[g].numPages /\ \A n \in 1 .. Len(fl) : fl[n] # p
      BY <1>0, <3>1, <3>2 DEF FreeListSound, InUse
    <3>4. /\ disk'[g].free = <<p>> \o fl /\ disk'[g].numPages = disk[g].numPages
          /\ \A f \in Files : f # g => disk'[f] = disk[f]
      BY <1>0, <3>1, <3>2 DEF Disposed, DiskType
    <3>5. /\ Len(<<p>> \o fl) = Len(fl) + 1
          /\ \A n \in 1 .. Len(fl) + 1 : (<<p>> \o fl)[n] = IF n = 1 THEN p ELSE fl[n - 1]
      BY <1>0, <3>2
    <3>6. \A f \in Files : \A m, n \in 1 .. Len(disk'[f].free) :
             /\ disk'[f].free[n] < disk'[f].numPages
             /\ disk'[f].free[m] = disk'[f].free[n] => m = n
      <4> TAKE f \in Files
      <4> TAKE m, n \in 1 .. Len(disk'[f].free)
      <4>2. CASE f # g
        BY <3>4, <4>2 DEF FreeListSound
      <4>3. CASE f = g
        <5> HIDE DEF fl
        <5>1. fl \in Seq(Pages) /\ Len(fl) \in Nat
          BY <1>0, <3>2 DEF fl
        <5>2. \A x, y \in 1 .. Len(fl) : fl[x] < disk[g].numPages /\ (fl[x] = fl[y] => x = y)
          BY <3>2 DEF FreeListSound, fl
        <5>3. m \in 1 .. Len(fl) + 1 /\ n \in 1 .. Len(fl) + 1
          BY <3>4, <3>5, <4>3
        <5>4. disk'[f].free[m] = (IF m = 1 THEN p ELSE fl[m - 1])
              /\ disk'[f].free[n] = (IF n = 1 THEN p ELSE fl[n - 1])
          BY <3>4, <3>5, <4>3, <5>3
        <5>5. m # 1 => m - 1 \in 1 .. Len(fl)
          BY <5>1, <5>3
        <5>6. n # 1 => n - 1 \in 1 .. Len(fl)
          BY <5>1, <5>3
        <5> QED BY <3>3, <3>4, <4>3, <5>2, <5>3, <5>4, <5>5, <5>6
      <4> QED BY <4>2, <4>3
    <3>7. ASSUME NEW j \in Keys, hashTable'[j] # NULL
          PROVE  j[2] \in InUse(j[1])'
      <4>1. j # k /\ hashTable[j] # NULL /\ j = <<j[1], j[2]>> /\ j[1] \in Files
        BY <1>0, <3>1, <3>7, KeyFacts
      <4>2. j[2] \in InUse(j[1])
        BY <1>0, <4>1 DEF FreeListSound
      <4>3. CASE j[1] # g
        BY <3>4, <4>1, <4>2, <4>3 DEF InUse
      <4>4. CASE j[1] = g
        <5>1. j[2] # p
          BY <3>2, <4>1, <4>4
        <5>2. \A n \in 1 .. Len(fl) + 1 : (<<p>> \o fl)[n] # j[2]
          <6> HIDE DEF fl
          <6>1. Len(fl) \in Nat /\ \A n \in 1 .. Len(fl) : fl[n] # j[2]
            BY <1>0, <3>2, <4>2, <4>4 DEF InUse, fl
          <6>2. \A n \in 1 .. Len(fl) + 1 : n = 1 \/ n - 1 \in 1 .. Len(fl)
            BY <6>1
          <6> QED BY <3>5, <5>1, <6>1, <6>2
        <5>3. j[2] \in Pages /\ j[2] < disk[g].numPages
          BY <4>2, <4>4 DEF InUse
        <5> QED BY <3>4, <3>5, <4>4, <5>2, <5>3 DEF InUse
      <4> QED BY <4>3, <4>4
    <3> QED BY <3>6, <3>7 DEF FreeListSound
  <2> QED BY <2>1, <2>2
<1>10. ASSUME NEW c \in Clients, NEW f \in Files, AllocDone(c, f)
       PROVE  FreeListSound'
  <2> DEFINE q == NewPage(f)
             fl == disk[f].free
  <2>1. q \in Pages /\ Allocated(f) \in DiskType
    BY <1>0, <1>10, AllocatedType DEF AllocDone
  <2>2. /\ \A g \in Files : /\ disk'[g].free = Allocated(f)[g].free
                            /\ disk'[g].numPages = Allocated(f)[g].numPages
        /\ \A j \in Keys : hashTable'[j] # NULL => j = <<f, q>> \/ hashTable[j] # NULL
    <3>1. HashLessVictim \in [Keys -> Frames \cup {NULL}]
      BY <1>0, EvictType
    <3>2. disk' = Allocated(f) \/ disk' = WrittenBack(Allocated(f))
      BY <1>10 DEF AllocDone
    <3>3. \/ hashTable' = hashTable
          \/ hashTable' = [HashLessVictim EXCEPT ![<<f, q>>] = Victim]
      BY <1>10 DEF AllocDone, mem, StrandVictim
    <3>4. \A g \in Files : /\ disk'[g].free = Allocated(f)[g].free
                           /\ disk'[g].numPages = Allocated(f)[g].numPages
      BY <2>1, <3>2, <1>evict
    <3> QED BY <3>1, <3>3, <3>4, <1>evict
  <2>3. CASE HasFree(f)
    <3>1. /\ Allocated(f)[f].free = Tail(fl) /\ Allocated(f)[f].numPages = disk[f].numPages
          /\ \A g \in Files : g # f => Allocated(f)[g] = disk[g]
      BY <1>0, <2>3 DEF Allocated, DiskType
    <3>2. /\ fl \in Seq(Pages) /\ fl # <<>> /\ q = fl[1]
      BY <1>0, <2>3 DEF HasFree, NewPage
    <3>3. /\ Len(fl) \in Nat \ {0} /\ Len(Tail(fl)) = Len(fl) - 1
          /\ \A n \in 1 .. Len(fl) - 1 : Tail(fl)[n] = fl[n + 1] /\ n + 1 \in 1 .. Len(fl)
      BY <3>2
    <3>4. \A x, y \in 1 .. Len(fl) : fl[x] < disk[f].numPages /\ (fl[x] = fl[y] => x = y)
      BY DEF FreeListSound
    <3>5. \A g \in Files : \A m, n \in 1 .. Len(disk'[g].free) :
             /\ disk'[g].free[n] < disk'[g].numPages
             /\ disk'[g].free[m] = disk'[g].free[n] => m = n
      <4> TAKE g \in Files
      <4> TAKE m, n \in 1 .. Len(disk'[g].free)
      <4>2. CASE g # f
        BY <2>2, <3>1, <4>2 DEF FreeListSound
      <4>3. CASE g = f
        <5>1. disk'[g].free = Tail(fl) /\ disk'[g].numPages = disk[f].numPages
          BY <2>2, <3>1, <4>3
        <5>2. m \in 1 .. Len(fl) - 1 /\ n \in 1 .. Len(fl) - 1
          BY <3>3, <5>1
        <5> HIDE DEF fl
        <5>3. m + 1 = n + 1 => m = n
          BY <3>3, <5>2
        <5> QED BY <3>3, <3>4, <5>1, <5>2, <5>3
      <4> QED BY <4>2, <4>3
    <3>6. \A g \in Files, p \in Pages : p \in InUse(g) \/ (g = f /\ p = q) => p \in InUse(g)'
      <4>1. ASSUME NEW g \in Files, NEW p \in Pages, p \in InUse(g) \/ (g = f /\ p = q)
            PROVE  p \in InUse(g)'
        <5>1. CASE g # f
          BY <2>2, <3>1, <4>1, <5>1 DEF InUse
        <5>2. CASE g = f
          <6>1. disk'[g].free = Tail(fl) /\ disk'[g].numPages = disk[f].numPages
            BY <2>2, <3>1, <5>2
          <6>2. p < disk[f].numPages
            BY <3>2, <3>3, <3>4, <4>1, <5>2 DEF InUse
          <6>3. \A n \in 1 .. Len(Tail(fl)) : Tail(fl)[n] # p
            <7> SUFFICES ASSUME NEW n \in 1 .. Len(fl) - 1 PROVE fl[n + 1] # p
              BY <3>3
            <7>1. n + 1 \in 1 .. Len(fl) /\ 1 \in 1 .. Len(fl) /\ n + 1 # 1
              BY <3>3
            <7>2. CASE p = q
              BY <3>2, <3>4, <7>1, <7>2
            <7>3. CASE p # q
              BY <4>1, <5>2, <7>1, <7>3 DEF InUse
            <7> QED BY <7>2, <7>3
          <6> QED BY <6>1, <6>2, <6>3 DEF InUse
        <5> QED BY <5>1, <5>2
      <4> QED BY <4>1
    <3> QED BY <1>0, <2>1, <2>2, <3>5, <3>6, KeyFacts DEF FreeListSound
  <2>4. CASE ~HasFree(f)
    <3>1. /\ Allocated(f)[f].free = fl /\ Allocated(f)[f].numPages = disk[f].numPages + 1
          /\ \A g \in Files : g # f => Allocated(f)[g] = disk[g]
          /\ q = disk[f].numPages
      BY <1>0, <2>4 DEF Allocated, DiskType, NewPage
    <3>2. fl = <<>>
      BY <2>4 DEF HasFree
    <3>3. \A g \in Files : \A m, n \in 1 .. Len(disk'[g].free) :
             /\ disk'[g].free[n] < disk'[g].numPages
             /\ disk'[g].free[m] = disk'[g].free[n] => m = n
      BY <2>2, <3>1, <3>2 DEF FreeListSound
    <3>4. \A g \in Files, p \in Pages : p \in InUse(g) \/ (g = f /\ p = q) => p \in InUse(g)'
      <4>1. ASSUME NEW g \in Files, NEW p \in Pages, p \in InUse(g) \/ (g = f /\ p = q)
            PROVE  p \in InUse(g)'
        <5>1. CASE g # f
          BY <2>2, <3>1, <4>1, <5>1 DEF InUse
        <5>2. CASE g = f
          BY <1>0, <2>2, <3>1, <3>2, <4>1, <5>2, MaxPagesAssumption DEF InUse, Pages
        <5> QED BY <5>1, <5>2
      <4> QED BY <4>1
    <3> QED BY <1>0, <2>1, <2>2, <3>3, <3>4, KeyFacts DEF FreeListSound
  <2> QED BY <2>3, <2>4
<1>15. ASSUME AllocFails
       PROVE  FreeListSound'
  BY <1>0, <1>15, FreeSame DEF AllocFails, mem
<1>11. ASSUME Restart
       PROVE  FreeListSound'
  <2>1. PICK S : disk' = WriteOut(disk, S)
    BY <1>11 DEF Restart
  <2>2. \A k \in Keys : hashTable'[k] = NULL
    BY <1>11 DEF Restart, NoHash
  <2> QED BY <1>0, <2>1, <2>2, WriteOutFree, FreeSame
<1>12. ASSUME NEW c \in Clients, NEW k \in Keys, ReadPage(c, k)
       PROVE  FreeListSound'
  <2>1. ReadMiss(c, k) => k[2] \in InUse(k[1])
    BY <1>0, <1>12, KeyFacts DEF ReadPage, ReadMiss, Readable, Pages
  <2> QED BY <1>1, <1>2, <1>3, <1>4, <1>12, <2>1 DEF ReadPage
<1> QED
  BY <1>5, <1>6, <1>7, <1>8, <1>9, <1>10, <1>11, <1>12, <1>15 DEF Next, AllocPage

-----------------------------------------------------------------------------
(* The unpinned list *)

LEMMA UplStep == TypeOK /\ UplLinked /\ HashAgrees /\ Next => UplLinked'
<1> SUFFICES ASSUME TypeOK, UplLinked, HashAgrees, Next PROVE UplLinked'
  OBVIOUS
<1>0. /\ alive /\ NULL \notin Frames
      /\ bufTable \in TableType /\ upl \in UplType /\ stranded \subseteq Frames
      /\ hashTable \in [Keys -> Frames \cup {NULL}]
      /\ OnList \subseteq Frames /\ Ring(upl, OnList)
      /\ \A i \in stranded : /\ bufTable[i].pinCnt = 0 /\ upl.prior[i] = frontUPL
                             /\ upl.next[i] \in Nodes /\ i \in Nodes /\ i # frontUPL
  BY NodeFacts DEF TypeOK, TableType, Next, Nodes, UplLinked, UplIsUnpinned, OnList
<1>same. ASSUME upl' = upl, stranded' = stranded,
                \A i \in Frames : bufTable'[i].pinCnt = bufTable[i].pinCnt
         PROVE  UplLinked'
  <2>1. OnList' = OnList
    BY <1>same DEF OnList
  <2> QED BY <1>0, <1>same, <2>1 DEF UplLinked, UplIsUnpinned
<1>take. ASSUME ~AllPinned, upl' = Taken(upl), stranded' = stranded,
                NEW d, d.pinCnt = 1, bufTable' = [bufTable EXCEPT ![Victim] = d]
         PROVE  UplLinked'
  <2>1. /\ Victim \in Frames /\ Victim \in OnList
        /\ Ring(Taken(upl), OnList \ {Victim})
        /\ \A x \in stranded : /\ Taken(upl).next[x] = upl.next[x]
                               /\ Taken(upl).prior[x] = upl.prior[x]
    BY <1>0, <1>take, VictimFacts
  <2>2. OnList' = OnList \ {Victim}
    BY <1>0, <1>take, <2>1 DEF OnList, TableType
  <2>3. \A x \in stranded : bufTable'[x].pinCnt = 0
    BY <1>0, <1>take, <2>1 DEF OnList, TableType
  <2> QED BY <1>0, <1>take, <2>1, <2>2, <2>3 DEF UplLinked, UplIsUnpinned
<1>strand. ASSUME ~AllPinned, StrandVictim
           PROVE  UplLinked'
  <2>1. /\ Victim \in OnList /\ bufTable[Victim].pinCnt = 0
        /\ Ring(Unlink(upl, Victim), OnList \ {Victim})
        /\ \A x \in stranded : /\ Unlink(upl, Victim).next[x] = upl.next[x]
                               /\ Unlink(upl, Victim).prior[x] = upl.prior[x]
        /\ Unlink(upl, Victim).next[Victim] \in Nodes
        /\ Unlink(upl, Victim).prior[Victim] = frontUPL
    BY <1>0, <1>strand, VictimFacts
  <2>2. upl' = Unlink(upl, Victim) /\ stranded' = stranded \cup {Victim} /\ bufTable' = bufTable
    BY <1>strand DEF StrandVictim
  <2>3. OnList' = OnList \ {Victim}
    BY <2>2 DEF OnList
  <2> QED BY <1>0, <2>1, <2>2, <2>3 DEF UplLinked, UplIsUnpinned
<1>1. ASSUME NEW c \in Clients, NEW k \in Keys, ReadHit(c, k)
      PROVE  UplLinked'
  <2> DEFINE i == hashTable[k]
  <2>1. i \in Frames /\ stranded' = stranded \ {i}
        /\ bufTable' = [bufTable EXCEPT ![i].pinCnt = bufTable[i].pinCnt + 1]
    BY <1>0, <1>1 DEF ReadHit
  <2>2. bufTable[i].pinCnt = 0 => upl' = Detach(Unlink(upl, i), i) /\ alive' = Asserts(upl')
    BY <1>1 DEF ReadHit
  <2>3. bufTable[i].pinCnt # 0 => upl' = upl
    BY <1>1 DEF ReadHit
  <2> HIDE DEF i
  <2>4. bufTable[i].pinCnt \in Nat /\ bufTable'[i].pinCnt = bufTable[i].pinCnt + 1
        /\ \A j \in Frames : j # i => bufTable'[j] = bufTable[j]
    BY <1>0, <2>1 DEF TableType
  <2>5. CASE bufTable[i].pinCnt # 0
    <3>1. i \notin stranded /\ OnList' = OnList
      BY <1>0, <2>1, <2>4, <2>5 DEF OnList
    <3> QED BY <1>0, <2>1, <2>3, <2>4, <2>5, <3>1 DEF UplLinked, UplIsUnpinned
  <2>6. CASE bufTable[i].pinCnt = 0 /\ i \in OnList
    <3>1. /\ Unlink(upl, i) \in UplType /\ Ring(Unlink(upl, i), OnList \ {i})
          /\ \A x \in Nodes : x \notin OnList \cup {frontUPL}
               => Unlink(upl, i).next[x] = upl.next[x] /\ Unlink(upl, i).prior[x] = upl.prior[x]
      BY <1>0, <2>6, UnlinkRing
    <3>2. /\ Ring(upl', OnList \ {i})
          /\ \A x \in Nodes : x # i => /\ upl'.next[x] = Unlink(upl, i).next[x]
                                       /\ upl'.prior[x] = Unlink(upl, i).prior[x]
      <4>1. OnList \ {i} \in SUBSET Frames /\ i \notin OnList \ {i}
        BY <1>0
      <4> QED BY <2>1, <2>2, <2>6, <3>1, <4>1, DetachRing
    <3>3. OnList' = OnList \ {i} /\ i \notin stranded
      BY <2>1, <2>4, <2>6 DEF OnList
    <3>4. \A x \in stranded : x \notin OnList \cup {frontUPL}
      BY <1>0 DEF OnList
    <3> QED BY <1>0, <2>1, <2>4, <3>1, <3>2, <3>3, <3>4 DEF UplLinked, UplIsUnpinned
  <2>7. CASE bufTable[i].pinCnt = 0 /\ i \notin OnList
    <3>1. i \in stranded
      BY <2>1, <2>7 DEF OnList
    <3>2. OnList' = OnList
      BY <2>1, <2>4, <2>7, <3>1 DEF OnList
    <3> SUFFICES ASSUME alive' PROVE UplLinked'
      BY DEF UplLinked, UplIsUnpinned
    <3> DEFINE y == upl.next[i]
               m == Unlink(upl, i)
    <3>3. /\ upl.prior[i] = frontUPL /\ y \in Nodes /\ i \in Nodes /\ i # frontUPL
          /\ frontUPL \in Nodes /\ upl.rear # i
      BY <1>0, <2>7, <3>1, NodeFacts DEF Ring
    <3>4. /\ m.next = [upl.next EXCEPT ![frontUPL] = y] /\ m.prior = [upl.prior EXCEPT ![y] = frontUPL]
          /\ m.rear = upl.rear
      BY <3>3 DEF Unlink
    <3>5. /\ upl'.next = [m.next EXCEPT ![i] = NULL] /\ upl'.prior = [m.prior EXCEPT ![i] = NULL]
          /\ upl'.rear = m.rear
      BY <2>2, <2>7 DEF Detach
    <3>6. /\ upl.next \in [Nodes -> Links] /\ upl.prior \in [Nodes -> Links]
          /\ upl.next[frontUPL] = upl.rear /\ upl.prior[upl.rear] = frontUPL
      BY <1>0 DEF UplType, Ring
    <3>7. y = upl.rear
      <4>1. upl'.next[frontUPL] = upl'.rear
        BY <2>2, <2>7 DEF Asserts
      <4> QED BY <3>3, <3>4, <3>5, <3>6, <4>1
    <3>8. \A x \in Nodes : x # i => upl'.next[x] = upl.next[x] /\ upl'.prior[x] = upl.prior[x]
      BY <3>3, <3>4, <3>5, <3>6, <3>7
    <3>9. Ring(upl', OnList)
      <4>1. OneCircle(upl', OnList)
        <5>1. \A x \in OnList \cup {frontUPL} : upl'.next[x] = upl.next[x]
          <6> \A x \in OnList \cup {frontUPL} : x \in Nodes /\ x # i
            BY <1>0, <2>7, <3>3, NodeFacts
          <6> QED BY <3>8
        <5> QED BY <1>0, <5>1 DEF Ring, OneCircle
      <4> QED BY <1>0, <2>7, <3>3, <3>4, <3>5, <3>8, <4>1, NodeFacts DEF Ring, Nodes
    <3> QED BY <1>0, <2>1, <2>4, <3>2, <3>8, <3>9 DEF UplLinked, UplIsUnpinned
  <2> QED BY <2>5, <2>6, <2>7
<1>2. ASSUME NEW c \in Clients, NEW k \in Keys, ReadMiss(c, k)
      PROVE  UplLinked'
  <2>1. Set(k[1], k[2]).pinCnt = 1
    BY DEF Set
  <2> QED BY <1>2, <1>take, <2>1 DEF ReadMiss
<1>3. ASSUME NEW k \in Keys, ReadFails(k)
      PROVE  UplLinked'
  <2>1. /\ Victim \in Frames /\ Victim \in OnList
        /\ Taken(upl) \in UplType /\ Ring(Taken(upl), OnList \ {Victim})
        /\ \A x \in stranded : /\ Taken(upl).next[x] = upl.next[x]
                               /\ Taken(upl).prior[x] = upl.prior[x]
    BY <1>0, <1>3, VictimFacts DEF ReadFails
  <2>2. /\ upl' = LinkRear(Taken(upl), Victim) /\ stranded' = stranded
        /\ bufTable' = [bufTable EXCEPT ![Victim] = Clear]
    BY <1>3 DEF ReadFails
  <2>3. OnList' = OnList
    BY <1>0, <2>1, <2>2 DEF OnList, Clear, TableType
  <2>4. /\ Ring(upl', (OnList \ {Victim}) \cup {Victim})
        /\ \A x \in Nodes : x \notin (OnList \ {Victim}) \cup {Victim, frontUPL}
              => upl'.next[x] = Taken(upl).next[x] /\ upl'.prior[x] = Taken(upl).prior[x]
    <3>1. OnList \ {Victim} \in SUBSET Frames /\ Victim \notin OnList \ {Victim}
      BY <1>0
    <3> QED BY <2>1, <2>2, <3>1, LinkRing
  <2>5. (OnList \ {Victim}) \cup {Victim} = OnList /\ \A x \in stranded : x \notin OnList \cup {Victim}
    BY <2>1 DEF OnList
  <2>6. \A x \in stranded : bufTable'[x].pinCnt = 0
    BY <1>0, <2>1, <2>2, <2>5 DEF TableType
  <2> QED BY <1>0, <2>1, <2>2, <2>3, <2>4, <2>5, <2>6 DEF UplLinked, UplIsUnpinned
<1>4. ASSUME NEW k \in Keys, ReadNoVictim(k)
      PROVE  UplLinked'
  BY <1>4, <1>same, <1>strand DEF ReadNoVictim, mem, WriteBackFails
<1>5. ASSUME NEW c \in Clients, NEW k \in Keys, NEW dirty \in BOOLEAN, NEW loveIt \in BOOLEAN,
             UnPinPage(c, k, dirty, loveIt)
      PROVE  UplLinked'
  <2> DEFINE i == hashTable[k]
  <2>1. /\ i \in Frames /\ bufTable[i].pinCnt > 0 /\ stranded' = stranded
        /\ bufTable' = [bufTable EXCEPT ![i].dirty = bufTable[i].dirty \/ dirty,
                                    ![i].pinCnt = bufTable[i].pinCnt - 1]
        /\ bufTable[i].pinCnt = 1 => upl' \in {LinkFront(upl, i), LinkRear(upl, i)}
        /\ bufTable[i].pinCnt # 1 => upl' = upl
    BY <1>0, <1>5 DEF UnPinPage
  <2> HIDE DEF i
  <2>2. /\ bufTable[i].pinCnt \in Nat /\ bufTable'[i].pinCnt = bufTable[i].pinCnt - 1
        /\ \A j \in Frames : j # i => bufTable'[j] = bufTable[j]
    BY <1>0, <2>1 DEF TableType
  <2>3. i \notin stranded /\ i \notin OnList
    BY <1>0, <2>1, <2>2 DEF OnList
  <2>4. CASE bufTable[i].pinCnt = 1
    <3>0. \A j \in Frames : bufTable'[j].pinCnt = 0 <=> bufTable[j].pinCnt = 0 \/ j = i
      BY <2>2, <2>4
    <3>1. OnList' = OnList \cup {i}
      <4> stranded' = stranded /\ i \in Frames
        BY <2>1
      <4> QED BY <2>3, <3>0 DEF OnList
    <3>2. /\ Ring(upl', OnList \cup {i})
          /\ \A x \in Nodes : x \notin OnList \cup {i, frontUPL}
                => upl'.next[x] = upl.next[x] /\ upl'.prior[x] = upl.prior[x]
      BY <1>0, <2>1, <2>3, <2>4, LinkRing
    <3>3. \A x \in stranded : x \notin OnList \cup {i, frontUPL}
      BY <1>0, <2>3 DEF OnList
    <3> QED BY <1>0, <2>1, <2>2, <2>3, <3>1, <3>2, <3>3 DEF UplLinked, UplIsUnpinned
  <2>5. CASE bufTable[i].pinCnt # 1
    <3>0. \A j \in Frames : bufTable'[j].pinCnt = 0 <=> bufTable[j].pinCnt = 0
      <4>1. bufTable[i].pinCnt > 0
        BY <2>1
      <4>2. bufTable[i].pinCnt # 0 /\ bufTable[i].pinCnt - 1 # 0
        BY <2>2, <2>5, <4>1
      <4> QED BY <2>2, <4>2
    <3>1. OnList' = OnList
      <4> stranded' = stranded
        BY <2>1
      <4> QED BY <3>0 DEF OnList
    <3> QED BY <1>0, <2>1, <2>2, <2>3, <2>5, <3>1 DEF UplLinked, UplIsUnpinned
  <2> QED BY <2>4, <2>5
<1>6. ASSUME NEW k \in Keys, UnPinRefused(k)
      PROVE  UplLinked'
  BY <1>6, <1>same DEF UnPinRefused, mem
<1>7. ASSUME NEW c \in Clients, NEW k \in Keys, NEW d \in Data, WritePinned(c, k, d)
      PROVE  UplLinked'
  BY <1>7, <1>same DEF WritePinned
<1>8. ASSUME NEW f \in Files, FlushFile(f)
      PROVE  UplLinked'
  <2>1. PICK F \in SUBSET Frames :
           /\ \A i \in F : bufTable[i].pinCnt = 0
           /\ bufTable' = [i \in Frames |-> IF i \in F THEN Clear ELSE bufTable[i]]
    BY <1>8 DEF FlushFile
  <2>2. \A i \in Frames : bufTable'[i].pinCnt = bufTable[i].pinCnt
    BY <2>1 DEF Clear
  <2> QED BY <1>8, <2>2, <1>same DEF FlushFile
<1>9. ASSUME NEW k \in Keys, DisposePage(k)
      PROVE  UplLinked'
  <2>1. \A i \in Frames : bufTable'[i].pinCnt = bufTable[i].pinCnt
    <3>1. CASE bufTable' = bufTable
      BY <3>1
    <3>2. CASE bufTable' # bufTable
      <4>1. /\ hashTable[k] \in Frames /\ ~(bufTable[hashTable[k]].pinCnt > 0)
            /\ bufTable' = [bufTable EXCEPT ![hashTable[k]] = Clear]
        BY <1>0, <1>9, <3>2 DEF DisposePage, mem
      <4> QED BY <1>0, <4>1 DEF TableType, Clear
    <3> QED BY <3>1, <3>2
  <2> QED BY <1>9, <2>1, <1>same DEF DisposePage, mem
<1>10. ASSUME NEW c \in Clients, NEW f \in Files, AllocDone(c, f)
       PROVE  UplLinked'
  <2>1. Set(f, <<f, NewPage(f)>>[2]).pinCnt = 1
    BY DEF Set
  <2> QED BY <1>10, <2>1, <1>same, <1>take, <1>strand DEF AllocDone, mem, WriteBackFails
<1>15. ASSUME AllocFails
       PROVE  UplLinked'
  BY <1>15, <1>same DEF AllocFails, mem
<1>11. ASSUME Restart
       PROVE  UplLinked'
  <2>1. bufTable' = FreshTable /\ upl' = FreshUpl /\ stranded' = {}
    BY <1>11 DEF Restart
  <2>2. OnList' = Frames
    BY <2>1 DEF OnList, FreshTable, Clear
  <2> QED BY <2>1, <2>2, FreshRing DEF UplLinked, UplIsUnpinned
<1> QED
  BY <1>1, <1>2, <1>3, <1>4, <1>5, <1>6, <1>7, <1>8, <1>9, <1>10, <1>11, <1>15
     DEF Next, ReadPage, AllocPage

-----------------------------------------------------------------------------
(* Pin counts *)

LEMMA HoldersFinite == \A k \in Keys : IsFiniteSet(Holders(k)) /\ Cardinality(Holders(k)) \in Nat
<1> SUFFICES ASSUME NEW k \in Keys
             PROVE  IsFiniteSet(Holders(k)) /\ Cardinality(Holders(k)) \in Nat
  OBVIOUS
<1>1. Holders(k) \in SUBSET Clients
  BY DEF Holders
<1> QED BY <1>1, ClientsFinite, FS_Subset, FS_CardinalityType

(* One more holder counts one more, one less one less. *)
LEMMA PinCounts ==
  ASSUME NEW c \in Clients, NEW k \in Keys, IsFiniteSet(Holders(k)),
         held \in [Clients -> [Keys -> {"no", "clean", "wrote"}]],
         NEW v \in {"no", "clean", "wrote"}, held' = [held EXCEPT ![c][k] = v]
  PROVE  /\ \A j \in Keys : j # k => Holders(j)' = Holders(j)
         /\ v # "no" => Holders(k)' = Holders(k) \cup {c}
         /\ v = "no" => Holders(k)' = Holders(k) \ {c}
         /\ v # "no" /\ held[c][k] = "no" => Cardinality(Holders(k)') = Cardinality(Holders(k)) + 1
         /\ v = "no" /\ held[c][k] # "no" => Cardinality(Holders(k)') = Cardinality(Holders(k)) - 1
<1>1. \A a \in Clients, j \in Keys :
         held'[a][j] = IF a = c /\ j = k THEN v ELSE held[a][j]
  OBVIOUS
<1>2. \A j \in Keys : j # k => Holders(j)' = Holders(j)
  BY <1>1 DEF Holders
<1>3. v # "no" => Holders(k)' = Holders(k) \cup {c}
  BY <1>1 DEF Holders
<1>4. v = "no" => Holders(k)' = Holders(k) \ {c}
  BY <1>1 DEF Holders
<1>5. c \in Holders(k) <=> held[c][k] # "no"
  BY DEF Holders
<1>6. v # "no" /\ held[c][k] = "no" => Cardinality(Holders(k)') = Cardinality(Holders(k)) + 1
  BY <1>3, <1>5, FS_AddElement
<1>7. v = "no" /\ held[c][k] # "no" => Cardinality(Holders(k)') = Cardinality(Holders(k)) - 1
  BY <1>4, <1>5, FS_RemoveElement
<1> QED BY <1>2, <1>3, <1>4, <1>6, <1>7

LEMMA PinStep ==
  TypeOK /\ UplLinked /\ FreeListSound /\ HashAgrees /\ PinsAccounted /\ Next => PinsAccounted'
<1> SUFFICES ASSUME TypeOK, UplLinked, FreeListSound, HashAgrees, PinsAccounted, Next
             PROVE  PinsAccounted'
  OBVIOUS
<1>0. /\ alive /\ NULL \notin Frames
      /\ bufTable \in TableType
      /\ hashTable \in [Keys -> Frames \cup {NULL}]
      /\ held \in [Clients -> [Keys -> {"no", "clean", "wrote"}]]
      /\ \A k \in Keys, i \in Frames : hashTable[k] = i <=> bufTable[i].valid /\ KeyOf(i) = k
      /\ \A i \in Frames : bufTable[i].valid => KeyOf(i) \in Keys
      /\ \A k \in Keys : Holders(k) # {} => hashTable[k] # NULL
      /\ \A i \in Frames : bufTable[i].pinCnt =
            IF bufTable[i].valid THEN Cardinality(Holders(KeyOf(i))) ELSE 0
  BY NodeFacts DEF TypeOK, TableType, Next, Nodes, HashAgrees, PinsAccounted
<1>held. held \in [Clients -> [Keys -> {"no", "clean", "wrote"}]]
  BY <1>0
<1>h. \A k \in Keys : IsFiniteSet(Holders(k)) /\ Cardinality(Holders(k)) \in Nat
                      /\ (Cardinality(Holders(k)) = 0 <=> Holders(k) = {})
  BY HoldersFinite, FS_EmptySet
<1>none. \A i \in Frames : bufTable[i].valid /\ bufTable[i].pinCnt = 0 => Holders(KeyOf(i)) = {}
  BY <1>0, <1>h
<1>same. ASSUME held' = held, hashTable' = hashTable,
                \A i \in Frames : /\ bufTable'[i].valid = bufTable[i].valid
                                  /\ bufTable'[i].file = bufTable[i].file
                                  /\ bufTable'[i].pageNo = bufTable[i].pageNo
                                  /\ bufTable'[i].pinCnt = bufTable[i].pinCnt
         PROVE  PinsAccounted'
  <2>1. \A k : Holders(k)' = Holders(k)
    BY <1>same DEF Holders
  <2>2. \A i \in Frames : KeyOf(i)' = KeyOf(i)
    BY <1>same DEF KeyOf
  <2> QED BY <1>0, <1>same, <2>1, <2>2 DEF PinsAccounted
(* unpinned frames leave the pool *)
<1>drop. ASSUME held' = held, NEW F \in SUBSET Frames,
                \A i \in F : bufTable[i].pinCnt = 0 /\ bufTable'[i] = Clear,
                \A i \in Frames \ F : bufTable'[i] = bufTable[i],
                \A k \in Keys : hashTable'[k] = IF hashTable[k] \in F THEN NULL ELSE hashTable[k]
         PROVE  PinsAccounted'
  <2>1. \A k : Holders(k)' = Holders(k)
    BY <1>drop DEF Holders
  <2>2. \A k \in Keys : Holders(k) # {} => hashTable[k] \notin F
    BY <1>0, <1>none, <1>drop
  <2>3. \A i \in Frames \ F : KeyOf(i)' = KeyOf(i)
    BY <1>drop DEF KeyOf
  <2>4. \A i \in F : ~bufTable'[i].valid /\ bufTable'[i].pinCnt = 0
    BY <1>drop DEF Clear
  <2> QED BY <1>0, <1>drop, <2>1, <2>2, <2>3, <2>4 DEF PinsAccounted
(* a client gets page k in the frame of an unpinned victim *)
<1>take. ASSUME NEW c \in Clients, NEW k \in Keys, hashTable[k] = NULL, NEW v \in {"clean", "wrote"},
                Victim \in Frames, bufTable[Victim].pinCnt = 0,
                held' = [held EXCEPT ![c][k] = v],
                hashTable' = [HashLessVictim EXCEPT ![k] = Victim],
                bufTable' = [bufTable EXCEPT ![Victim] = Set(k[1], k[2])]
         PROVE  PinsAccounted'
  <2>1. Holders(k) = {}
    BY <1>0, <1>take
  <2>2. /\ \A j \in Keys : j # k => Holders(j)' = Holders(j)
        /\ Holders(k)' = {c}
    <3>1. v \in {"no", "clean", "wrote"} /\ v # "no" /\ IsFiniteSet(Holders(k))
      BY <1>h, <1>take
    <3>2. /\ \A j \in Keys : j # k => Holders(j)' = Holders(j)
          /\ Holders(k)' = Holders(k) \cup {c}
      <4>1. held' = [held EXCEPT ![c][k] = v]
        BY <1>take
      <4> QED BY <1>held, <4>1, <3>1, PinCounts
    <3> QED BY <2>1, <3>2
  <2>3. Cardinality(Holders(k)') = 1
    BY <2>2, FS_Singleton
  <2>4. \A j \in Keys : hashTable'[j] = IF j = k THEN Victim
                                         ELSE IF hashTable[j] = Victim THEN NULL ELSE hashTable[j]
    BY <1>0, <1>take DEF HashLessVictim
  <2>5. \A j \in Keys : Holders(j) # {} => hashTable[j] # Victim
    BY <1>0, <1>none, <1>take
  <2>6. \A j \in Keys : Holders(j)' # {} => hashTable'[j] # NULL
    BY <1>0, <1>take, <2>2, <2>4, <2>5
  <2>7. /\ bufTable'[Victim].valid /\ bufTable'[Victim].pinCnt = 1
        /\ <<bufTable'[Victim].file, bufTable'[Victim].pageNo>> = k
        /\ \A j \in Frames : j # Victim => bufTable'[j] = bufTable[j] /\ KeyOf(j)' = KeyOf(j)
    <3>1. bufTable'[Victim] = Set(k[1], k[2])
          /\ \A j \in Frames : j # Victim => bufTable'[j] = bufTable[j]
      BY <1>0, <1>take DEF TableType
    <3>2. k = <<k[1], k[2]>>
      BY KeyFacts
    <3> QED BY <3>1, <3>2 DEF Set, KeyOf
  <2>8. \A j \in Frames : j # Victim /\ bufTable[j].valid => KeyOf(j) # k
    BY <1>0, <1>take
  <2>9. \A j \in Frames : bufTable'[j].pinCnt =
            IF bufTable'[j].valid THEN Cardinality(Holders(KeyOf(j))') ELSE 0
    <3>1. TAKE j \in Frames
    <3>2. CASE j = Victim
      <4>1. KeyOf(j)' = k
        BY <2>7, <3>2 DEF KeyOf
      <4>2. Holders(KeyOf(j))' = Holders(k)'
        BY <4>1 DEF Holders
      <4> QED BY <2>3, <2>7, <3>2, <4>2
    <3>3. CASE j # Victim /\ bufTable[j].valid
      <4>1. Holders(KeyOf(j))' = Holders(KeyOf(j))
        BY <1>0, <2>2, <2>7, <2>8, <3>3 DEF Holders
      <4> QED BY <1>0, <2>7, <3>3, <4>1
    <3>4. CASE j # Victim /\ ~bufTable[j].valid
      BY <1>0, <2>7, <3>4
    <3> QED BY <3>2, <3>3, <3>4
  <2> QED BY <2>6, <2>9 DEF PinsAccounted
(* the holders of the page of frame i change, and its count with them *)
<1>count. ASSUME NEW k \in Keys, NEW i \in Frames, hashTable[k] = i, hashTable' = hashTable,
                 \A j \in Keys : j # k => Holders(j)' = Holders(j),
                 \A j \in Frames : j # i => bufTable'[j] = bufTable[j],
                 bufTable'[i].valid = bufTable[i].valid,
                 bufTable'[i].file = bufTable[i].file, bufTable'[i].pageNo = bufTable[i].pageNo,
                 bufTable'[i].pinCnt = Cardinality(Holders(k)')
          PROVE  PinsAccounted'
  <2>1. \A j \in Frames : KeyOf(j)' = KeyOf(j) /\ bufTable'[j].valid = bufTable[j].valid
    BY <1>count DEF KeyOf
  <2>2. bufTable[i].valid /\ KeyOf(i) = k
    BY <1>0, <1>count
  <2>3. \A j \in Keys : Holders(j)' # {} => hashTable'[j] # NULL
    BY <1>0, <1>count
  <2>4. \A j \in Frames : bufTable'[j].pinCnt =
            IF bufTable'[j].valid THEN Cardinality(Holders(KeyOf(j))') ELSE 0
    <3>1. TAKE j \in Frames
    <3>2. CASE j = i
      <4>1. KeyOf(j)' = k
        BY <2>1, <2>2, <3>2
      <4>2. Holders(KeyOf(j))' = Holders(k)'
        BY <4>1 DEF Holders
      <4> QED BY <1>count, <2>1, <2>2, <3>2, <4>2
    <3>3. CASE j # i /\ bufTable[j].valid
      <4>1. KeyOf(j) # k /\ KeyOf(j) \in Keys
        BY <1>0, <1>count, <3>3
      <4>2. Holders(KeyOf(j))' = Holders(KeyOf(j))
        BY <1>count, <2>1, <4>1 DEF Holders
      <4> QED BY <1>0, <1>count, <3>3, <4>2
    <3>4. CASE j # i /\ ~bufTable[j].valid
      BY <1>0, <1>count, <3>4
    <3> QED BY <3>2, <3>3, <3>4
  <2> QED BY <2>3, <2>4 DEF PinsAccounted
<1>1. ASSUME NEW c \in Clients, NEW k \in Keys, ReadHit(c, k)
      PROVE  PinsAccounted'
  <2> DEFINE i == hashTable[k]
  <2>1. i \in Frames /\ hashTable' = hashTable /\ held[c][k] = "no"
        /\ held' = [held EXCEPT ![c][k] = "clean"]
        /\ bufTable' = [bufTable EXCEPT ![i].pinCnt = bufTable[i].pinCnt + 1]
    BY <1>0, <1>1 DEF ReadHit
  <2>2. /\ \A j \in Keys : j # k => Holders(j)' = Holders(j)
        /\ Cardinality(Holders(k)') = Cardinality(Holders(k)) + 1
    BY <1>0, <1>h, <2>1, PinCounts, ZenonT(60)
  <2>3. bufTable[i].pinCnt = Cardinality(Holders(k))
    BY <1>0, <2>1
  <2>4. hashTable[k] = i
    OBVIOUS
  <2> HIDE DEF i
  <2>5. /\ \A j \in Frames : j # i => bufTable'[j] = bufTable[j]
        /\ bufTable'[i].valid = bufTable[i].valid
        /\ bufTable'[i].file = bufTable[i].file /\ bufTable'[i].pageNo = bufTable[i].pageNo
        /\ bufTable'[i].pinCnt = bufTable[i].pinCnt + 1
    BY <1>0, <2>1 DEF TableType
  <2> QED BY <1>count, <2>1, <2>2, <2>3, <2>4, <2>5
<1>2. ASSUME NEW c \in Clients, NEW k \in Keys, ReadMiss(c, k)
      PROVE  PinsAccounted'
  BY <1>0, <1>2, <1>take, VictimFacts DEF ReadMiss
<1>3. ASSUME NEW k \in Keys, ReadFails(k)
      PROVE  PinsAccounted'
  <2>1. Victim \in Frames /\ bufTable[Victim].pinCnt = 0
    BY <1>0, <1>3, VictimFacts DEF ReadFails
  <2>2. hashTable' = HashLessVictim /\ bufTable' = [bufTable EXCEPT ![Victim] = Clear] /\ held' = held
    BY <1>3 DEF ReadFails
  <2>3. \A j \in Keys : hashTable'[j] = IF hashTable[j] \in {Victim} THEN NULL ELSE hashTable[j]
    BY <1>0, <2>1, <2>2 DEF HashLessVictim
  <2>4. bufTable'[Victim] = Clear /\ \A j \in Frames \ {Victim} : bufTable'[j] = bufTable[j]
    BY <1>0, <2>1, <2>2 DEF TableType
  <2>5. {Victim} \in SUBSET Frames
    BY <2>1
  <2> QED BY <1>drop, <2>1, <2>2, <2>3, <2>4, <2>5
<1>4. ASSUME NEW k \in Keys, ReadNoVictim(k)
      PROVE  PinsAccounted'
  BY <1>4, <1>same DEF ReadNoVictim, mem, StrandVictim
<1>5. ASSUME NEW c \in Clients, NEW k \in Keys, NEW dirty \in BOOLEAN, NEW loveIt \in BOOLEAN,
             UnPinPage(c, k, dirty, loveIt)
      PROVE  PinsAccounted'
  <2> DEFINE i == hashTable[k]
  <2>1. i \in Frames /\ hashTable' = hashTable /\ held[c][k] # "no"
        /\ held' = [held EXCEPT ![c][k] = "no"]
        /\ bufTable' = [bufTable EXCEPT ![i].dirty = bufTable[i].dirty \/ dirty,
                                    ![i].pinCnt = bufTable[i].pinCnt - 1]
    BY <1>0, <1>5 DEF UnPinPage
  <2>2. /\ \A j \in Keys : j # k => Holders(j)' = Holders(j)
        /\ Cardinality(Holders(k)') = Cardinality(Holders(k)) - 1
    BY <1>0, <1>h, <2>1, PinCounts
  <2>3. bufTable[i].pinCnt = Cardinality(Holders(k))
    BY <1>0, <2>1
  <2>4. hashTable[k] = i
    OBVIOUS
  <2> HIDE DEF i
  <2>5. /\ \A j \in Frames : j # i => bufTable'[j] = bufTable[j]
        /\ bufTable'[i].valid = bufTable[i].valid
        /\ bufTable'[i].file = bufTable[i].file /\ bufTable'[i].pageNo = bufTable[i].pageNo
        /\ bufTable'[i].pinCnt = bufTable[i].pinCnt - 1
    BY <1>0, <2>1 DEF TableType
  <2>6. bufTable'[i].pinCnt = Cardinality(Holders(k)')
    BY <2>2, <2>3, <2>5
  <2>7. i \in Frames /\ hashTable' = hashTable
    BY <2>1
  <2> QED BY <1>count, <2>2, <2>4, <2>5, <2>6, <2>7
<1>6. ASSUME NEW k \in Keys, UnPinRefused(k)
      PROVE  PinsAccounted'
  BY <1>6, <1>same DEF UnPinRefused, mem
<1>7. ASSUME NEW c \in Clients, NEW k \in Keys, NEW d \in Data, WritePinned(c, k, d)
      PROVE  PinsAccounted'
  <2>1. /\ held' = [held EXCEPT ![c][k] = "wrote"] /\ held[c][k] # "no"
        /\ hashTable' = hashTable /\ bufTable' = bufTable
    BY <1>7 DEF WritePinned
  <2>2. c \in Holders(k)
    BY <2>1 DEF Holders
  <2>3. \A j \in Keys : Holders(j)' = Holders(j)
    <3>1. /\ \A j \in Keys : j # k => Holders(j)' = Holders(j)
          /\ Holders(k)' = Holders(k) \cup {c}
      <4>1. held' = [held EXCEPT ![c][k] = "wrote"] /\ IsFiniteSet(Holders(k))
        BY <1>h, <2>1
      <4> QED BY <1>held, <4>1, PinCounts
    <3> QED BY <2>2, <3>1
  <2>4. \A i \in Frames : KeyOf(i)' = KeyOf(i)
    BY <2>1 DEF KeyOf
  <2>5. \A i \in Frames : bufTable[i].valid => Holders(KeyOf(i))' = Holders(KeyOf(i))
    BY <1>0, <2>3, <2>4 DEF Holders
  <2>6. \A i \in Frames : bufTable'[i].pinCnt =
            IF bufTable'[i].valid THEN Cardinality(Holders(KeyOf(i))') ELSE 0
    BY <1>0, <2>1, <2>5
  <2>7. \A j \in Keys : Holders(j)' # {} => hashTable'[j] # NULL
    BY <1>0, <2>1, <2>3
  <2> QED BY <2>6, <2>7 DEF PinsAccounted
<1>8. ASSUME NEW f \in Files, FlushFile(f)
      PROVE  PinsAccounted'
  <2>1. PICK F \in SUBSET Frames :
           /\ \A i \in F : bufTable[i].valid /\ bufTable[i].pinCnt = 0
           /\ hashTable' = [k \in Keys |-> IF k \in {KeyOf(i) : i \in F} THEN NULL ELSE hashTable[k]]
           /\ bufTable' = [i \in Frames |-> IF i \in F THEN Clear ELSE bufTable[i]]
           /\ held' = held
    BY <1>8 DEF FlushFile
  <2>2. \A k \in Keys : hashTable'[k] = IF hashTable[k] \in F THEN NULL ELSE hashTable[k]
    BY <1>0, <2>1
  <2>3. /\ \A i \in F : bufTable'[i] = Clear
        /\ \A i \in Frames \ F : bufTable'[i] = bufTable[i]
    BY <2>1
  <2> QED BY <1>drop, <2>1, <2>2, <2>3
<1>9. ASSUME NEW k \in Keys, DisposePage(k)
      PROVE  PinsAccounted'
  <2> DEFINE i == hashTable[k]
  <2>1. CASE UNCHANGED <<mem, held>>
    BY <2>1, <1>same DEF mem
  <2>2. CASE ~UNCHANGED <<mem, held>>
    <3>1. /\ i \in Frames /\ bufTable[i].pinCnt \in Nat /\ ~(bufTable[i].pinCnt > 0) /\ held' = held
          /\ hashTable' = [hashTable EXCEPT ![k] = NULL]
          /\ bufTable' = [bufTable EXCEPT ![i] = Clear]
      <4>1. /\ i # NULL /\ ~(bufTable[i].pinCnt > 0) /\ held' = held
            /\ hashTable' = [hashTable EXCEPT ![k] = NULL]
            /\ bufTable' = [bufTable EXCEPT ![i] = Clear]
        BY <1>9, <2>2 DEF DisposePage
      <4>2. i \in Frames
        BY <1>0, <4>1
      <4> QED BY <1>0, <4>1, <4>2 DEF TableType
    <3>2. \A j \in Keys : hashTable'[j] = IF hashTable[j] \in {i} THEN NULL ELSE hashTable[j]
      BY <1>0, <3>1
    <3> HIDE DEF i
    <3>3. {i} \in SUBSET Frames /\ bufTable[i].pinCnt = 0
      BY <3>1
    <3>4. bufTable'[i] = Clear /\ \A j \in Frames \ {i} : bufTable'[j] = bufTable[j]
      BY <1>0, <3>1 DEF TableType
    <3> QED BY <1>drop, <3>1, <3>2, <3>3, <3>4
  <2> QED BY <2>1, <2>2
<1>10. ASSUME NEW c \in Clients, NEW f \in Files, AllocDone(c, f)
       PROVE  PinsAccounted'
  <2> DEFINE k == <<f, NewPage(f)>>
  <2>1. CASE UNCHANGED <<hashTable, bufTable, held>>
    BY <2>1, <1>same
  <2>2. CASE ~AllPinned /\ ~UNCHANGED <<hashTable, bufTable, held>>
    <3>1. /\ hashTable' = [HashLessVictim EXCEPT ![k] = Victim]
          /\ bufTable' = [bufTable EXCEPT ![Victim] = Set(k[1], k[2])]
          /\ held' = [held EXCEPT ![c][k] = "wrote"]
      BY <1>10, <2>2 DEF AllocDone, StrandVictim
    <3>2. k \in Keys /\ hashTable[k] = NULL
      BY <1>0, <1>10, NewPageUncached DEF AllocDone
    <3>3. Victim \in Frames /\ bufTable[Victim].pinCnt = 0
      BY <1>0, <2>2, VictimFacts
    <3> QED BY <1>take, <3>1, <3>2, <3>3
  <2> QED BY <1>10, <2>1, <2>2 DEF AllocDone, mem, StrandVictim
<1>15. ASSUME AllocFails
       PROVE  PinsAccounted'
  BY <1>15, <1>same DEF AllocFails, mem
<1>11. ASSUME Restart
       PROVE  PinsAccounted'
  <2>1. bufTable' = FreshTable /\ hashTable' = NoHash /\ held' = NoHolder
    BY <1>11 DEF Restart
  <2>2. \A k \in Keys : Holders(k)' = {}
    BY <2>1 DEF Holders, NoHolder
  <2> QED BY <2>1, <2>2 DEF PinsAccounted, FreshTable, Clear
<1> QED
  BY <1>1, <1>2, <1>3, <1>4, <1>5, <1>6, <1>7, <1>8, <1>9, <1>10, <1>11, <1>15
     DEF Next, ReadPage, AllocPage

-----------------------------------------------------------------------------
(* The inductive invariant *)

LEMMA InitInv == Init => IInv
<1> SUFFICES ASSUME Init PROVE IInv
  OBVIOUS
<1>1. TypeOK
  BY InitType
<1>2. UplLinked
  <2>1. OnList = Frames
    BY DEF Init, OnList, FreshTable, Clear
  <2> QED BY <2>1, FreshRing DEF Init, UplLinked, UplIsUnpinned
<1>3. FreeListSound
  BY DEF Init, FreeListSound, EmptyFile, NoHash
<1>4. HashAgrees
  BY NodeFacts DEF Init, HashAgrees, NoHash, FreshTable, Clear, Nodes
<1>5. PinsAccounted
  BY DEF Init, PinsAccounted, FreshTable, Clear, Holders, NoHolder
<1> QED BY <1>1, <1>2, <1>3, <1>4, <1>5 DEF IInv

LEMMA StutterInv == IInv /\ UNCHANGED vars => IInv'
<1> SUFFICES ASSUME IInv, UNCHANGED vars PROVE IInv'
  OBVIOUS
<1>1. TypeOK'
  BY DEF IInv, vars, TypeOK
<1>2. UplLinked' /\ HashAgrees'
  BY DEF IInv, vars, UplLinked, UplIsUnpinned, OnList, HashAgrees, KeyOf
<1>3. FreeListSound'
  BY DEF IInv, vars, FreeListSound, InUse
<1>4. PinsAccounted'
  BY DEF IInv, vars, PinsAccounted, Holders, KeyOf
<1> QED BY <1>1, <1>2, <1>3, <1>4 DEF IInv

LEMMA NextInv == IInv /\ Next => IInv'
  BY TypeStep, UplStep, FreeStep, HashStep, PinStep DEF IInv

(* The buffer manager keeps its inductive invariant. *)
THEOREM Invariance == Spec => []IInv
<1>1. IInv /\ [Next]_vars => IInv'
  BY NextInv, StutterInv
<1> QED BY InitInv, <1>1, PTL DEF Spec

(* Type correctness: descriptors, links, hash table and file images keep
   their shapes whatever the clients call and whichever Unix call fails. *)
THEOREM TypeCorrect == Spec => []TypeOK
<1>1. IInv => TypeOK
  BY DEF IInv
<1> QED BY <1>1, Invariance, PTL

(* The hash table maps exactly the valid frames (buf.C, bufHash.C). *)
THEOREM HashTableCorrect == Spec => []HashAgrees
<1>1. IInv => HashAgrees
  BY DEF IInv
<1> QED BY <1>1, Invariance, PTL

(* Pinned pages stay cached and every frame's pin count is the number of
   its holders (readPage, unPinPage, flushFile, disposePage, allocPage). *)
THEOREM PinsCorrect == Spec => []PinsAccounted
<1>1. IInv => PinsAccounted
  BY DEF IInv
<1> QED BY <1>1, Invariance, PTL

(* The hand-edited unpinned list stays doubly linked (allocBuf, releaseBuf,
   readPage, unPinPage). *)
THEOREM ListCorrect == Spec => []UplLinked
<1>1. IInv => UplLinked
  BY DEF IInv
<1> QED BY <1>1, Invariance, PTL

(* Free lists name allocated pages once, and never a cached one. *)
THEOREM FreeListsCorrect == Spec => []FreeListSound
<1>1. IInv => FreeListSound
  BY DEF IInv
<1> QED BY <1>1, Invariance, PTL

-----------------------------------------------------------------------------
(* What the invariant is for *)

CInv == IInv /\ CleanIsOnDisk

(* What a file holds after some frames have been written back. *)
LEMMA WriteOutPage ==
  ASSUME IInv, alive, NEW d, NEW S \in SUBSET Frames, \A i \in S : bufTable[i].valid, NEW k \in Keys
  PROVE  OnDisk(WriteOut(d, S), k) =
            IF hashTable[k] \in S THEN bufPool[hashTable[k]] ELSE OnDisk(d, k)
<1>1. k = <<k[1], k[2]>> /\ k[1] \in Files /\ k[2] \in Pages
  BY KeyFacts
<1>2. \A i \in S : KeyOf(i) = k <=> hashTable[k] = i
  BY DEF IInv, HashAgrees
<1>3. OnDisk(WriteOut(d, S), k) =
         IF \E i \in S : KeyOf(i) = k THEN bufPool[CHOOSE i \in S : KeyOf(i) = k] ELSE OnDisk(d, k)
  BY <1>1 DEF WriteOut, OnDisk
<1>4. CASE hashTable[k] \in S
  <2>1. (CHOOSE i \in S : KeyOf(i) = k) = hashTable[k]
    BY <1>2, <1>4
  <2> QED BY <1>2, <1>3, <1>4, <2>1
<1>5. CASE hashTable[k] \notin S
  BY <1>2, <1>3, <1>5
<1> QED BY <1>4, <1>5

(* Allocating a page changes no other page. *)
LEMMA AllocatedPage ==
  ASSUME disk \in DiskType, NEW f \in Files, NewPage(f) \in Pages
  PROVE  \A j \in Keys : j # <<f, NewPage(f)>> => OnDisk(Allocated(f), j) = OnDisk(disk, j)
<1>1. ASSUME NEW j \in Keys, j # <<f, NewPage(f)>>
      PROVE  OnDisk(Allocated(f), j) = OnDisk(disk, j)
  <2>1. j = <<j[1], j[2]>> /\ j[1] \in Files /\ j[2] \in Pages
    BY KeyFacts
  <2>2. j[1] # f \/ j[2] # NewPage(f)
    BY <1>1, <2>1
  <2> QED BY <2>1, <2>2 DEF Allocated, OnDisk, DiskType
<1> QED BY <1>1

(* Frames nobody is writing can leave the pool once the dirty ones among
   them are written back: the file then holds their images. *)
LEMMA Leaving ==
  ASSUME CInv, alive, NEW d, NEW F \in SUBSET Frames, NEW k \in Keys, OnDisk(d, k) = OnDisk(disk, k),
         \A i \in F : bufTable[i].valid,
         hashTable[k] \in F => \A c \in Clients : held[c][k] # "wrote"
  PROVE  OnDisk(WriteOut(d, F \cap Dirty), k) =
            IF hashTable[k] \in F THEN bufPool[hashTable[k]] ELSE OnDisk(disk, k)
<1>1. OnDisk(WriteOut(d, F \cap Dirty), k) =
         IF hashTable[k] \in F \cap Dirty THEN bufPool[hashTable[k]] ELSE OnDisk(d, k)
  <2>1. F \cap Dirty \in SUBSET Frames /\ \A i \in F \cap Dirty : bufTable[i].valid
    OBVIOUS
  <2> QED BY <2>1, WriteOutPage DEF CInv
<1>2. CASE hashTable[k] \in F /\ hashTable[k] \notin Dirty
  <2>1. hashTable[k] # NULL /\ ~bufTable[hashTable[k]].dirty
    BY <1>2, NodeFacts DEF Dirty, Nodes
  <2> QED BY <1>1, <1>2, <2>1 DEF CInv, CleanIsOnDisk
<1>3. CASE ~(hashTable[k] \in F /\ hashTable[k] \notin Dirty)
  BY <1>1, <1>3
<1> QED BY <1>2, <1>3

(* Nobody holds the page of an unpinned frame. *)
LEMMA Unheld ==
  ASSUME IInv, alive, NEW k \in Keys, hashTable[k] # NULL, bufTable[hashTable[k]].pinCnt = 0
  PROVE  Holders(k) = {} /\ \A c \in Clients : held[c][k] # "wrote"
<1>1. hashTable[k] \in Frames
  BY DEF IInv, TypeOK
<1>2. bufTable[hashTable[k]].valid /\ KeyOf(hashTable[k]) = k
  BY <1>1 DEF IInv, HashAgrees
<1>3. Cardinality(Holders(k)) = 0
  BY <1>1, <1>2 DEF IInv, PinsAccounted
<1>4. Holders(k) = {}
  BY <1>3, HoldersFinite, FS_EmptySet
<1> QED BY <1>4 DEF Holders

(* The hash table once allocBuf has evicted its victim. *)
LEMMA HashLess ==
  ASSUME IInv, alive, ~AllPinned, NEW k \in Keys
  PROVE  HashLessVictim[k] = IF hashTable[k] = Victim THEN NULL ELSE hashTable[k]
<1>1. Victim \in Frames
  BY VictimFacts DEF IInv
<1>2. hashTable[k] = Victim <=> bufTable[Victim].valid /\ KeyOf(Victim) = k
  BY <1>1 DEF IInv, HashAgrees
<1>3. hashTable \in [Keys -> Frames \cup {NULL}]
  BY DEF IInv, TypeOK
<1>4. bufTable[Victim].valid => KeyOf(Victim) \in Keys
  BY <1>1 DEF IInv, HashAgrees
<1> QED BY <1>2, <1>3, <1>4 DEF HashLessVictim

(* What the files hold once allocBuf has evicted its victim. *)
LEMMA Evicted ==
  ASSUME CInv, alive, ~AllPinned, NEW d, NEW k \in Keys, OnDisk(d, k) = OnDisk(disk, k)
  PROVE  /\ OnDisk(WrittenBack(d), k) =
               IF hashTable[k] = Victim THEN bufPool[Victim] ELSE OnDisk(disk, k)
         /\ HashLessVictim[k] = IF hashTable[k] = Victim THEN NULL ELSE hashTable[k]
<1>1. Victim \in Frames /\ bufTable[Victim].pinCnt = 0 /\ NULL \notin Frames
  BY VictimFacts, NodeFacts DEF CInv, IInv, Nodes
<1>2. hashTable[k] = Victim <=> bufTable[Victim].valid /\ KeyOf(Victim) = k
  BY <1>1 DEF CInv, IInv, HashAgrees
<1>3. HashLessVictim[k] = IF hashTable[k] = Victim THEN NULL ELSE hashTable[k]
  BY HashLess DEF CInv
<1>4. CASE bufTable[Victim].valid
  <2> DEFINE F == {Victim}
  <2>1. hashTable[k] \in F => \A c \in Clients : held[c][k] # "wrote"
    BY <1>1, Unheld DEF CInv
  <2>2. F \in SUBSET Frames /\ \A i \in F : bufTable[i].valid
    BY <1>1, <1>4
  <2>3. F \cap Dirty = Dirty \cap {Victim} /\ (hashTable[k] \in F <=> hashTable[k] = Victim)
    OBVIOUS
  <2> HIDE DEF F
  <2>4. OnDisk(WriteOut(d, F \cap Dirty), k) =
            IF hashTable[k] \in F THEN bufPool[hashTable[k]] ELSE OnDisk(disk, k)
    BY <2>1, <2>2, Leaving, SMTT(60)
  <2> QED BY <1>3, <2>3, <2>4 DEF WrittenBack
<1>5. CASE ~bufTable[Victim].valid
  <2>1. Dirty \cap {Victim} = {}
    BY <1>5 DEF Dirty
  <2>2. OnDisk(WriteOut(d, {}), k) = OnDisk(d, k)
    BY WriteOutPage DEF CInv
  <2> QED BY <1>2, <1>3, <1>5, <2>1, <2>2 DEF WrittenBack
<1> QED BY <1>4, <1>5

-----------------------------------------------------------------------------
(* Clean frames agree with the file *)

(* the victim's frame is given to page k, on the file images d *)
Comes(k, d) ==
    /\ ~AllPinned /\ hashTable[k] = NULL
    /\ \A j \in Keys : j # k => OnDisk(d, j) = OnDisk(disk, j)
    /\ disk' = WrittenBack(d)
    /\ hashTable' = [HashLessVictim EXCEPT ![k] = Victim]
    /\ bufTable' = [bufTable EXCEPT ![Victim] = Set(k[1], k[2])]
    /\ \A i \in Frames : i # Victim => bufPool'[i] = bufPool[i]
    /\ \A c \in Clients, j \in Keys : j # k => held'[c][j] = held[c][j]
    /\ (\A c \in Clients : held'[c][k] # "wrote") => bufPool'[Victim] = OnDisk(disk', k)

LEMMA CleanStep == CInv /\ Next => CleanIsOnDisk'
<1> SUFFICES ASSUME CInv, Next PROVE CleanIsOnDisk'
  OBVIOUS
<1>0. /\ alive /\ NULL \notin Frames
      /\ bufTable \in TableType /\ bufPool \in [Frames -> Content]
      /\ hashTable \in [Keys -> Frames \cup {NULL}]
      /\ held \in [Clients -> [Keys -> {"no", "clean", "wrote"}]]
      /\ \A k \in Keys : hashTable[k] # NULL /\ ~bufTable[hashTable[k]].dirty
                         /\ (\A c \in Clients : held[c][k] # "wrote")
                         => bufPool[hashTable[k]] = OnDisk(disk, k)
      /\ \A j, k \in Keys : hashTable[j] = hashTable[k] /\ hashTable[k] # NULL => j = k
  BY NodeFacts DEF CInv, IInv, TypeOK, TableType, Next, Nodes, CleanIsOnDisk, HashAgrees
<1>alive. alive
  BY <1>0
(* nothing but descriptors of other frames changes for page k *)
<1>keep. ASSUME NEW k \in Keys, hashTable'[k] = hashTable[k],
                hashTable[k] # NULL => /\ bufTable'[hashTable[k]].dirty = bufTable[hashTable[k]].dirty
                                       /\ bufPool'[hashTable[k]] = bufPool[hashTable[k]],
                OnDisk(disk', k) = OnDisk(disk, k),
                \A c \in Clients : held'[c][k] # "wrote" => held[c][k] # "wrote"
         PROVE  hashTable'[k] # NULL /\ ~bufTable'[hashTable'[k]].dirty
                /\ (\A c \in Clients : held'[c][k] # "wrote")
                => bufPool'[hashTable'[k]] = OnDisk(disk', k)
  BY <1>0, <1>keep
(* the victim leaves, and page k comes in its place *)
<1>take. ASSUME NEW k \in Keys, NEW d, Comes(k, d) PROVE CleanIsOnDisk'
  <2>0. /\ ~AllPinned /\ hashTable[k] = NULL
        /\ \A j \in Keys : j # k => OnDisk(d, j) = OnDisk(disk, j)
        /\ disk' = WrittenBack(d)
        /\ hashTable' = [HashLessVictim EXCEPT ![k] = Victim]
        /\ bufTable' = [bufTable EXCEPT ![Victim] = Set(k[1], k[2])]
        /\ \A i \in Frames : i # Victim => bufPool'[i] = bufPool[i]
        /\ \A c \in Clients, j \in Keys : j # k => held'[c][j] = held[c][j]
        /\ (\A c \in Clients : held'[c][k] # "wrote") => bufPool'[Victim] = OnDisk(disk', k)
    BY <1>take DEF Comes
  <2>1. Victim \in Frames /\ HashLessVictim \in [Keys -> Frames \cup {NULL}]
    <3>1. disk \in DiskType /\ TypeOK /\ UplLinked
      BY DEF CInv, IInv, TypeOK
    <3> QED BY <1>0, <2>0, <3>1, VictimFacts, EvictType
  <2>2. \A j \in Keys : j # k => /\ OnDisk(disk', j) = IF hashTable[j] = Victim THEN bufPool[Victim]
                                                        ELSE OnDisk(disk, j)
                                 /\ hashTable'[j] = IF hashTable[j] = Victim THEN NULL ELSE hashTable[j]
    BY <1>0, <2>0, <2>1, Evicted
  <2>3. hashTable'[k] = Victim
    BY <2>0, <2>1
  <2>4. \A i \in Frames : i # Victim => bufTable'[i] = bufTable[i]
    BY <1>0, <2>0 DEF TableType
  <2>5. ASSUME NEW j \in Keys, j # k
        PROVE  hashTable'[j] # NULL /\ ~bufTable'[hashTable'[j]].dirty
               /\ (\A c \in Clients : held'[c][j] # "wrote")
               => bufPool'[hashTable'[j]] = OnDisk(disk', j)
    <3>1. CASE hashTable[j] = Victim
      BY <2>2, <2>5, <3>1
    <3>2. CASE hashTable[j] # Victim
      BY <1>0, <1>keep, <2>0, <2>2, <2>4, <2>5, <3>2
    <3> QED BY <3>1, <3>2
  <2>6. (\A c \in Clients : held'[c][k] # "wrote") => bufPool'[hashTable'[k]] = OnDisk(disk', k)
    BY <2>0, <2>3
  <2> QED BY <2>5, <2>6 DEF CleanIsOnDisk
(* unwritten frames leave, dirty ones written back first *)
<1>leave. ASSUME NEW F \in SUBSET Frames, \A i \in F : bufTable[i].valid,
                 \A k \in Keys, c \in Clients : hashTable[k] \in F => held[c][k] # "wrote",
                 disk' = WriteOut(disk, F \cap Dirty),
                 \A k \in Keys : hashTable'[k] = IF hashTable[k] \in F THEN NULL ELSE hashTable[k],
                 \A i \in Frames \ F : bufTable'[i] = bufTable[i],
                 bufPool' = bufPool, held' = held
          PROVE  CleanIsOnDisk'
  <2>1. ASSUME NEW k \in Keys
        PROVE  hashTable'[k] # NULL /\ ~bufTable'[hashTable'[k]].dirty
               /\ (\A c \in Clients : held'[c][k] # "wrote")
               => bufPool'[hashTable'[k]] = OnDisk(disk', k)
    <3>1. OnDisk(disk', k) = IF hashTable[k] \in F THEN bufPool[hashTable[k]] ELSE OnDisk(disk, k)
      <4>1. hashTable[k] \in F => \A c \in Clients : held[c][k] # "wrote"
        BY <1>leave
      <4>2. F \in SUBSET Frames /\ \A i \in F : bufTable[i].valid
        BY <1>leave
      <4>3. PICK d : d = disk
        OBVIOUS
      <4>4. OnDisk(d, k) = OnDisk(disk, k)
        BY <4>3
      <4>5. PICK G : G = F
        OBVIOUS
      <4>6. (G \in SUBSET Frames /\ \A i \in G : bufTable[i].valid)
            /\ (hashTable[k] \in G => \A c \in Clients : held[c][k] # "wrote")
        BY <4>1, <4>2, <4>5
      <4>7. OnDisk(WriteOut(d, G \cap Dirty), k) =
               IF hashTable[k] \in G THEN bufPool[hashTable[k]] ELSE OnDisk(disk, k)
        <5>1. CInv /\ alive /\ k \in Keys
          BY <1>alive
        <5>2. ASSUME NEW e, NEW H \in SUBSET Frames, OnDisk(e, k) = OnDisk(disk, k),
                     \A i \in H : bufTable[i].valid,
                     hashTable[k] \in H => \A c \in Clients : held[c][k] # "wrote"
              PROVE  OnDisk(WriteOut(e, H \cap Dirty), k) =
                        IF hashTable[k] \in H THEN bufPool[hashTable[k]] ELSE OnDisk(disk, k)
          BY <5>1, <5>2, Leaving
        <5> QED BY <4>4, <4>6, <5>2
      <4>8. disk' = WriteOut(disk, F \cap Dirty)
        BY <1>leave
      <4> QED BY <4>3, <4>5, <4>7, <4>8
    <3>2. CASE hashTable[k] \in F
      BY <1>leave, <3>2
    <3>3. CASE hashTable[k] \notin F
      BY <1>0, <1>keep, <1>leave, <3>1, <3>3
    <3> QED BY <3>2, <3>3
  <2> QED BY <2>1 DEF CleanIsOnDisk
<1>same. ASSUME hashTable' = hashTable, bufPool' = bufPool, disk' = disk, held' = held,
                bufTable' = bufTable
         PROVE  CleanIsOnDisk'
  BY <1>0, <1>same DEF CleanIsOnDisk
<1>1. ASSUME NEW c \in Clients, NEW k \in Keys, ReadHit(c, k)
      PROVE  CleanIsOnDisk'
  <2>1. /\ hashTable' = hashTable /\ bufPool' = bufPool /\ disk' = disk /\ hashTable[k] \in Frames
        /\ held' = [held EXCEPT ![c][k] = "clean"] /\ held[c][k] = "no"
        /\ bufTable' = [bufTable EXCEPT ![hashTable[k]].pinCnt = bufTable[hashTable[k]].pinCnt + 1]
    BY <1>0, <1>1 DEF ReadHit
  <2>2. \A i \in Frames : bufTable'[i].dirty = bufTable[i].dirty
    BY <1>0, <2>1 DEF TableType
  <2>3. \A a \in Clients, j \in Keys : held'[a][j] # "wrote" => held[a][j] # "wrote"
    BY <1>0, <2>1
  <2> QED BY <1>0, <2>1, <2>2, <2>3 DEF CleanIsOnDisk
<1>2. ASSUME NEW c \in Clients, NEW k \in Keys, ReadMiss(c, k)
      PROVE  CleanIsOnDisk'
  <2>1. /\ ~AllPinned /\ hashTable[k] = NULL /\ disk' = WrittenBack(disk)
        /\ bufPool' = [bufPool EXCEPT ![Victim] = OnDisk(disk', k)]
        /\ hashTable' = [HashLessVictim EXCEPT ![k] = Victim]
        /\ bufTable' = [bufTable EXCEPT ![Victim] = Set(k[1], k[2])]
        /\ held' = [held EXCEPT ![c][k] = "clean"]
    BY <1>2 DEF ReadMiss
  <2>2. Victim \in Frames
    BY <1>0, <2>1, VictimFacts DEF CInv, IInv
  <2>3. \A i \in Frames : bufPool'[i] = IF i = Victim THEN OnDisk(disk', k) ELSE bufPool[i]
    BY <1>0, <2>1, <2>2
  <2>4. \A a \in Clients, j \in Keys : j # k => held'[a][j] = held[a][j]
    BY <1>0, <2>1
  <2>5. bufPool'[Victim] = OnDisk(disk', k)
    BY <2>2, <2>3
  <2>6. \A i \in Frames : i # Victim => bufPool'[i] = bufPool[i]
    BY <2>3
  <2>7. \A j \in Keys : j # k => OnDisk(disk, j) = OnDisk(disk, j)
    OBVIOUS
  <2>8. ~AllPinned /\ hashTable[k] = NULL /\ disk' = WrittenBack(disk)
        /\ hashTable' = [HashLessVictim EXCEPT ![k] = Victim]
        /\ bufTable' = [bufTable EXCEPT ![Victim] = Set(k[1], k[2])]
    BY <2>1
  <2>9. Comes(k, disk)
    BY <2>4, <2>5, <2>6, <2>7, <2>8 DEF Comes
  <2> QED BY <1>take, <2>9
<1>3. ASSUME NEW k \in Keys, ReadFails(k)
      PROVE  CleanIsOnDisk'
  <2>1. /\ ~AllPinned /\ disk' = WrittenBack(disk) /\ hashTable' = HashLessVictim
        /\ bufTable' = [bufTable EXCEPT ![Victim] = Clear] /\ bufPool' = bufPool /\ held' = held
    BY <1>3 DEF ReadFails
  <2>2. Victim \in Frames
    BY <1>0, <2>1, VictimFacts DEF CInv, IInv
  <2>3. \A j \in Keys : /\ OnDisk(disk', j) = IF hashTable[j] = Victim THEN bufPool[Victim]
                                               ELSE OnDisk(disk, j)
                        /\ hashTable'[j] = IF hashTable[j] = Victim THEN NULL ELSE hashTable[j]
    BY <1>0, <2>1, Evicted
  <2>4. \A i \in Frames : i # Victim => bufTable'[i] = bufTable[i]
    BY <1>0, <2>1 DEF TableType
  <2>5. ASSUME NEW j \in Keys
        PROVE  hashTable'[j] # NULL /\ ~bufTable'[hashTable'[j]].dirty
               /\ (\A c \in Clients : held'[c][j] # "wrote")
               => bufPool'[hashTable'[j]] = OnDisk(disk', j)
    BY <1>0, <2>1, <2>3, <2>4
  <2> QED BY <2>5 DEF CleanIsOnDisk
<1>4. ASSUME NEW k \in Keys, ReadNoVictim(k)
      PROVE  CleanIsOnDisk'
  BY <1>4, <1>same DEF ReadNoVictim, mem, StrandVictim
<1>5. ASSUME NEW c \in Clients, NEW k \in Keys, NEW dirty \in BOOLEAN, NEW loveIt \in BOOLEAN,
             UnPinPage(c, k, dirty, loveIt)
      PROVE  CleanIsOnDisk'
  <2> DEFINE i == hashTable[k]
  <2>1. /\ hashTable' = hashTable /\ bufPool' = bufPool /\ disk' = disk /\ i \in Frames
        /\ held' = [held EXCEPT ![c][k] = "no"] /\ (held[c][k] = "wrote" => dirty)
        /\ bufTable' = [bufTable EXCEPT ![i].dirty = bufTable[i].dirty \/ dirty,
                                        ![i].pinCnt = bufTable[i].pinCnt - 1]
    BY <1>0, <1>5 DEF UnPinPage
  <2> HIDE DEF i
  <2>2. /\ bufTable'[i].dirty = (bufTable[i].dirty \/ dirty)
        /\ \A j \in Frames : j # i => bufTable'[j] = bufTable[j]
    BY <1>0, <2>1 DEF TableType
  <2>3. \A a \in Clients, j \in Keys : held'[a][j] = IF a = c /\ j = k THEN "no" ELSE held[a][j]
    BY <1>0, <2>1
  <2>4. hashTable[k] = i
    BY DEF i
  <2>5. ASSUME NEW j \in Keys, hashTable'[j] # NULL, ~bufTable'[hashTable'[j]].dirty,
               \A a \in Clients : held'[a][j] # "wrote"
        PROVE  bufPool'[hashTable'[j]] = OnDisk(disk', j)
    <3>1. hashTable[j] # NULL /\ ~bufTable[hashTable[j]].dirty
      BY <1>0, <2>1, <2>2, <2>5
    <3>2. \A a \in Clients : held[a][j] # "wrote"
      <4>1. CASE j = k
        <5>1. ~dirty
          BY <2>1, <2>2, <2>4, <2>5, <4>1
        <5> QED BY <2>1, <2>3, <2>5, <4>1, <5>1
      <4>2. CASE j # k
        BY <2>3, <2>5, <4>2
      <4> QED BY <4>1, <4>2
    <3> QED BY <1>0, <2>1, <3>1, <3>2
  <2> QED BY <2>5 DEF CleanIsOnDisk
<1>6. ASSUME NEW k \in Keys, UnPinRefused(k)
      PROVE  CleanIsOnDisk'
  BY <1>6, <1>same DEF UnPinRefused, mem
<1>7. ASSUME NEW c \in Clients, NEW k \in Keys, NEW d \in Data, WritePinned(c, k, d)
      PROVE  CleanIsOnDisk'
  <2>1. /\ hashTable' = hashTable /\ bufTable' = bufTable /\ disk' = disk
        /\ held' = [held EXCEPT ![c][k] = "wrote"]
        /\ bufPool' = [bufPool EXCEPT ![hashTable[k]] = d]
    BY <1>7 DEF WritePinned
  <2>2. held'[c][k] = "wrote" /\ \A a \in Clients, j \in Keys : j # k => held'[a][j] = held[a][j]
    BY <1>0, <2>1
  <2>3. ASSUME NEW j \in Keys, hashTable'[j] # NULL, ~bufTable'[hashTable'[j]].dirty,
               \A a \in Clients : held'[a][j] # "wrote"
        PROVE  bufPool'[hashTable'[j]] = OnDisk(disk', j)
    <3>1. j # k /\ hashTable[j] # hashTable[k] /\ hashTable[j] \in Frames
      BY <1>0, <2>1, <2>2, <2>3
    <3>2. bufPool'[hashTable[j]] = bufPool[hashTable[j]]
      BY <1>0, <2>1, <3>1
    <3> QED BY <1>0, <2>1, <2>2, <2>3, <3>1, <3>2
  <2> QED BY <2>3 DEF CleanIsOnDisk
<1>8. ASSUME NEW f \in Files, FlushFile(f)
      PROVE  CleanIsOnDisk'
  <2>1. PICK F \in SUBSET Frames :
           /\ \A i \in F : bufTable[i].valid /\ bufTable[i].pinCnt = 0
           /\ disk' = WriteOut(disk, F \cap Dirty)
           /\ hashTable' = [k \in Keys |-> IF k \in {KeyOf(i) : i \in F} THEN NULL ELSE hashTable[k]]
           /\ bufTable' = [i \in Frames |-> IF i \in F THEN Clear ELSE bufTable[i]]
           /\ held' = held /\ bufPool' = bufPool
    BY <1>8 DEF FlushFile
  <2>2. \A k \in Keys : hashTable'[k] = IF hashTable[k] \in F THEN NULL ELSE hashTable[k]
    BY <1>0, <2>1 DEF CInv, IInv, HashAgrees
  <2>3. \A k \in Keys, c \in Clients : hashTable[k] \in F => held[c][k] # "wrote"
    BY <1>0, <2>1, Unheld DEF CInv
  <2>4. \A i \in Frames \ F : bufTable'[i] = bufTable[i]
    BY <2>1
  <2> QED BY <1>leave, <2>1, <2>2, <2>3, <2>4
<1>9. ASSUME NEW k \in Keys, DisposePage(k)
      PROVE  CleanIsOnDisk'
  <2>1. CASE UNCHANGED <<mem, disk, held>>
    BY <2>1, <1>same DEF mem
  <2>2. CASE ~UNCHANGED <<mem, disk, held>>
    <3>1. /\ hashTable[k] # NULL /\ hashTable' = [hashTable EXCEPT ![k] = NULL]
          /\ bufTable' = [bufTable EXCEPT ![hashTable[k]] = Clear]
          /\ \/ disk' = disk \/ disk' = Disposed(k[1], k[2])
             \/ disk' \in DisposeCutShort(k[1], k[2])
          /\ bufPool' = bufPool /\ held' = held
      BY <1>9, <2>2 DEF DisposePage
    <3>2. \A j \in Keys : j # k => OnDisk(disk', j) = OnDisk(disk, j)
      <4>1. disk \in DiskType
        BY DEF CInv, IInv, TypeOK
      <4>2. ASSUME NEW j \in Keys, j # k PROVE OnDisk(Disposed(k[1], k[2]), j) = OnDisk(disk, j)
        <5>1. j = <<j[1], j[2]>> /\ k = <<k[1], k[2]>> /\ j[1] \in Files /\ j[2] \in Pages
              /\ k[1] \in Files /\ k[2] \in Pages
          BY KeyFacts
        <5>2. j[1] # k[1] \/ j[2] # k[2]
          BY <4>2, <5>1
        <5> QED BY <4>1, <5>1, <5>2 DEF Disposed, OnDisk, DiskType
      <4> QED BY <3>1, <4>1, <4>2, CutShort
    <3>3. \A j \in Keys : hashTable'[j] = IF j = k THEN NULL ELSE hashTable[j]
      BY <1>0, <3>1
    <3>4. \A j \in Keys : j # k /\ hashTable[j] # NULL => bufTable'[hashTable[j]] = bufTable[hashTable[j]]
      BY <1>0, <3>1 DEF TableType
    <3> QED BY <1>0, <3>1, <3>2, <3>3, <3>4 DEF CleanIsOnDisk
  <2> QED BY <2>1, <2>2
<1>10. ASSUME NEW c \in Clients, NEW f \in Files, AllocDone(c, f)
       PROVE  CleanIsOnDisk'
  <2>1. PICK k \in Keys : k = <<f, NewPage(f)>>
    BY <1>0, <1>10, AllocatedType DEF AllocDone, CInv, IInv, TypeOK, Keys
  <2>2. hashTable[k] = NULL /\ NewPage(f) \in Pages /\ disk \in DiskType
    BY <1>0, <1>10, <2>1, NewPageUncached, AllocatedType DEF AllocDone, CInv, IInv, TypeOK
  <2>3. \A j \in Keys : j # k => OnDisk(Allocated(f), j) = OnDisk(disk, j)
    BY <2>1, <2>2, AllocatedPage
  <2>4. CASE disk' = Allocated(f) /\ UNCHANGED <<bufTable, bufPool, hashTable, held>>
    BY <1>0, <2>2, <2>3, <2>4 DEF CleanIsOnDisk
  <2>5. CASE /\ ~AllPinned /\ disk' = WrittenBack(Allocated(f))
             /\ hashTable' = [HashLessVictim EXCEPT ![k] = Victim]
             /\ bufTable' = [bufTable EXCEPT ![Victim] = Set(k[1], k[2])]
             /\ held' = [held EXCEPT ![c][k] = "wrote"] /\ bufPool' = bufPool
    <3>1. held'[c][k] = "wrote"
      BY <1>0, <2>5
    <3>2. \A a \in Clients, j \in Keys : j # k => held'[a][j] = held[a][j]
      BY <1>0, <2>5
    <3>3. (\A a \in Clients : held'[a][k] # "wrote") => bufPool'[Victim] = OnDisk(disk', k)
      BY <3>1
    <3>4. \A i \in Frames : i # Victim => bufPool'[i] = bufPool[i]
      BY <2>5
    <3>5. /\ ~AllPinned /\ hashTable[k] = NULL /\ disk' = WrittenBack(Allocated(f))
          /\ hashTable' = [HashLessVictim EXCEPT ![k] = Victim]
          /\ bufTable' = [bufTable EXCEPT ![Victim] = Set(k[1], k[2])]
      BY <2>2, <2>5
    <3>6. Comes(k, Allocated(f))
      BY <2>3, <3>2, <3>3, <3>4, <3>5 DEF Comes
    <3> QED BY <1>take, <3>6
  <2> QED BY <1>10, <2>1, <2>4, <2>5 DEF AllocDone, mem, StrandVictim
<1>15. ASSUME AllocFails
       PROVE  CleanIsOnDisk'
  BY <1>15, <1>same DEF AllocFails, mem
<1>11. ASSUME Restart
       PROVE  CleanIsOnDisk'
  BY <1>11 DEF Restart, NoHash, CleanIsOnDisk
<1> QED
  BY <1>1, <1>2, <1>3, <1>4, <1>5, <1>6, <1>7, <1>8, <1>9, <1>10, <1>11, <1>15
     DEF Next, ReadPage, AllocPage

LEMMA CleanInit == Init => CleanIsOnDisk
  BY DEF Init, NoHash, CleanIsOnDisk

(* Clean frames agree with the file: whatever the order of reads, writes,
   unpins, evictions and failures, evicting a frame that is not dirty loses
   nothing (buf.C:147-161, 310-325). *)
THEOREM CleanCorrect == Spec => []CleanIsOnDisk
<1>1. Init => CInv
  BY InitInv, CleanInit DEF CInv
<1>2. CInv /\ [Next]_vars => CInv'
  <2>1. CInv /\ Next => CInv'
    BY NextInv, CleanStep DEF CInv
  <2>2. CInv /\ UNCHANGED vars => CleanIsOnDisk'
    BY DEF CInv, vars, CleanIsOnDisk, OnDisk
  <2>3. CInv /\ UNCHANGED vars => CInv'
    BY <2>2, StutterInv DEF CInv
  <2> QED BY <2>1, <2>3
<1>3. CInv => CleanIsOnDisk
  BY DEF CInv
<1> QED BY <1>1, <1>2, <1>3, PTL DEF Spec

-----------------------------------------------------------------------------
(* The ASSERTs *)

(* A step that strands no frame edits a ring into a ring. *)
LEMMA AssertsStep ==
  ASSUME IInv, alive, stranded = {}, "write" \notin Faults, Next
  PROVE  alive' /\ stranded' = {}
<1>0. /\ bufTable \in TableType /\ upl \in UplType /\ TypeOK /\ UplLinked
      /\ hashTable \in [Keys -> Frames \cup {NULL}] /\ NULL \notin Frames
      /\ OnList \in SUBSET Frames /\ Ring(upl, OnList)
  BY NodeFacts DEF IInv, TypeOK, TableType, Nodes, UplLinked, UplIsUnpinned, OnList
<1>take. ~AllPinned => /\ Asserts(Taken(upl))
                       /\ Asserts(LinkRear(Taken(upl), Victim))
  <2> SUFFICES ASSUME ~AllPinned
               PROVE  Asserts(Taken(upl)) /\ Asserts(LinkRear(Taken(upl), Victim))
    OBVIOUS
  <2>1. /\ Victim \in Frames /\ Taken(upl) \in UplType /\ Ring(Taken(upl), OnList \ {Victim})
        /\ OnList \ {Victim} \in SUBSET Frames /\ Victim \notin OnList \ {Victim}
    BY <1>0, VictimFacts
  <2>2. /\ Ring(LinkRear(Taken(upl), Victim), (OnList \ {Victim}) \cup {Victim})
        /\ (OnList \ {Victim}) \cup {Victim} \in SUBSET Frames
    BY <2>1, LinkRing
  <2>3. Asserts(Taken(upl))
    BY <2>1, RingAsserts
  <2>4. Asserts(LinkRear(Taken(upl), Victim))
    BY <2>2, RingAsserts
  <2> QED BY <2>3, <2>4
<1>fail. ~WriteBackFails
  BY DEF WriteBackFails
<1>1. ASSUME NEW c \in Clients, NEW k \in Keys, ReadHit(c, k)
      PROVE  alive' /\ stranded' = {}
  <2> DEFINE i == hashTable[k]
  <2>1. i \in Frames /\ stranded' = {}
    BY <1>0, <1>1 DEF ReadHit
  <2>2. bufTable[i].pinCnt = 0 => alive' = Asserts(Detach(Unlink(upl, i), i))
    BY <1>1 DEF ReadHit
  <2>3. bufTable[i].pinCnt # 0 => alive' = alive
    BY <1>1 DEF ReadHit
  <2> HIDE DEF i
  <2>4. CASE bufTable[i].pinCnt = 0
    <3>1. i \in OnList /\ OnList \ {i} \in SUBSET Frames /\ i \notin OnList \ {i}
      BY <1>0, <2>1, <2>4 DEF OnList
    <3>2. Unlink(upl, i) \in UplType /\ Ring(Unlink(upl, i), OnList \ {i})
      BY <1>0, <3>1, UnlinkRing
    <3>3. Ring(Detach(Unlink(upl, i), i), OnList \ {i})
      BY <2>1, <3>1, <3>2, DetachRing
    <3> QED BY <2>1, <2>2, <2>4, <3>1, <3>3, RingAsserts
  <2> QED BY <2>1, <2>3, <2>4
<1>2. ASSUME NEW c \in Clients, NEW k \in Keys, ReadMiss(c, k)
      PROVE  alive' /\ stranded' = {}
  BY <1>2, <1>take DEF ReadMiss
<1>3. ASSUME NEW k \in Keys, ReadFails(k)
      PROVE  alive' /\ stranded' = {}
  BY <1>3, <1>take DEF ReadFails
<1>4. ASSUME NEW k \in Keys, ReadNoVictim(k)
      PROVE  alive' /\ stranded' = {}
  BY <1>4, <1>fail DEF ReadNoVictim, mem
<1>5. ASSUME NEW c \in Clients, NEW k \in Keys, NEW dirty \in BOOLEAN, NEW loveIt \in BOOLEAN,
             UnPinPage(c, k, dirty, loveIt)
      PROVE  alive' /\ stranded' = {}
  <2> DEFINE i == hashTable[k]
  <2>1. i \in Frames /\ bufTable[i].pinCnt > 0 /\ stranded' = {}
    BY <1>0, <1>5 DEF UnPinPage
  <2>2. \/ alive' = alive
        \/ \E m \in {LinkFront(upl, i), LinkRear(upl, i)} : alive' = Asserts(m)
    BY <1>5 DEF UnPinPage
  <2> HIDE DEF i
  <2>3. i \notin OnList
    BY <1>0, <2>1 DEF OnList, TableType
  <2>4. ASSUME NEW m \in {LinkFront(upl, i), LinkRear(upl, i)} PROVE Asserts(m)
    <3>1. Ring(m, OnList \cup {i}) /\ OnList \cup {i} \in SUBSET Frames
      BY <1>0, <2>1, <2>3, LinkRing
    <3> QED BY <3>1, RingAsserts
  <2> QED BY <2>1, <2>2, <2>4
<1>6. ASSUME NEW k \in Keys, UnPinRefused(k)
      PROVE  alive' /\ stranded' = {}
  BY <1>6 DEF UnPinRefused, mem
<1>7. ASSUME NEW c \in Clients, NEW k \in Keys, NEW d \in Data, WritePinned(c, k, d)
      PROVE  alive' /\ stranded' = {}
  BY <1>7 DEF WritePinned
<1>8. ASSUME NEW f \in Files, FlushFile(f)
      PROVE  alive' /\ stranded' = {}
  BY <1>8 DEF FlushFile
<1>9. ASSUME NEW k \in Keys, DisposePage(k)
      PROVE  alive' /\ stranded' = {}
  BY <1>9 DEF DisposePage, mem
<1>10. ASSUME NEW c \in Clients, NEW f \in Files, AllocDone(c, f)
       PROVE  alive' /\ stranded' = {}
  BY <1>10, <1>take, <1>fail DEF AllocDone, mem
<1>15. ASSUME AllocFails
       PROVE  alive' /\ stranded' = {}
  BY <1>15 DEF AllocFails, mem
<1>11. ASSUME Restart
       PROVE  alive' /\ stranded' = {}
  BY <1>11 DEF Restart
<1> QED
  BY <1>1, <1>2, <1>3, <1>4, <1>5, <1>6, <1>7, <1>8, <1>9, <1>10, <1>11, <1>15
     DEF Next, ReadPage, AllocPage

(* While no Unix write fails, no ASSERT on the unpinned list ever ends the
   process (buf.C:143-145, 183-185, 227-229, 273-275, 287-289). *)
THEOREM AssertsNeverFail ==
  ASSUME "write" \notin Faults
  PROVE  Spec => []AssertsHold
<1> DEFINE AInv == IInv /\ alive /\ stranded = {}
<1>1. Init => AInv
  BY InitInv DEF Init
<1>2. AInv /\ [Next]_vars => AInv'
  BY AssertsStep, NextInv, StutterInv DEF vars
<1>3. AInv => AssertsHold
  BY DEF AssertsHold
<1> QED BY <1>1, <1>2, <1>3, PTL DEF Spec

-----------------------------------------------------------------------------
(* No frame is lost *)

(* An empty circle has no frame off it. *)
LEMMA EmptyList ==
  ASSUME TypeOK, UplLinked, alive, AllPinned
  PROVE  OnList = {}
<1>1. OneCircle(upl, OnList) /\ upl.next[frontUPL] = frontUPL
  BY DEF UplLinked, UplIsUnpinned, Ring, AllPinned
<1>2. PICK T : T = {}
  OBVIOUS
<1>3. T \in SUBSET OnList /\ \A x \in T \cup {frontUPL} : upl.next[x] \in T \cup {frontUPL}
  BY <1>1, <1>2
<1> QED BY <1>1, <1>2, <1>3 DEF OneCircle

LEMMA ExceededStep ==
  ASSUME IInv, alive, stranded = {}, ExceededMeansAllPinned, "write" \notin Faults, Next
  PROVE  ExceededMeansAllPinned'
<1> SUFFICES ASSUME status' = "BUFFEREXCEEDED"
             PROVE  \A i \in Frames : bufTable'[i].pinCnt > 0
  BY DEF ExceededMeansAllPinned
<1>1. ASSUME NEW c \in Clients, NEW k \in Keys, ReadPage(c, k)
      PROVE  bufTable' = bufTable /\ AllPinned
  BY <1>1 DEF ReadPage, ReadHit, ReadMiss, ReadFails, ReadNoVictim, mem
<1>2. ASSUME NEW c \in Clients, NEW f \in Files, AllocDone(c, f)
      PROVE  bufTable' = bufTable /\ AllPinned
  BY <1>2 DEF AllocDone, mem
<1>3. ASSUME NEW c \in Clients, NEW k \in Keys, NEW d \in Data, WritePinned(c, k, d)
      PROVE  bufTable' = bufTable /\ status = "BUFFEREXCEEDED"
  BY <1>3 DEF WritePinned
<1>4. /\ \A c \in Clients, k \in Keys, d, l \in BOOLEAN : ~UnPinPage(c, k, d, l)
      /\ \A k \in Keys : ~UnPinRefused(k)
      /\ \A f \in Files : ~FlushFile(f)
      /\ ~Restart
  BY DEF UnPinPage, UnPinRefused, FlushFile, Restart
<1>5. \A k \in Keys : ~DisposePage(k)
  BY DEF DisposePage
<1>6. bufTable' = bufTable /\ (AllPinned \/ status = "BUFFEREXCEEDED")
  BY <1>1, <1>2, <1>3, <1>4, <1>5 DEF Next, AllocPage, AllocFails
<1>7. CASE AllPinned
  <2>1. OnList = {}
    BY <1>7, EmptyList DEF IInv
  <2>2. \A i \in Frames : bufTable[i].pinCnt \in Nat /\ bufTable[i].pinCnt # 0
    BY <2>1 DEF OnList, IInv, TypeOK
  <2> QED BY <1>6, <2>2
<1>8. CASE status = "BUFFEREXCEEDED"
  BY <1>6, <1>8 DEF ExceededMeansAllPinned
<1> QED BY <1>6, <1>7, <1>8

(* While no Unix write fails, no frame gets lost from the pool: the list is
   one circle of all unpinned frames, and "all pages are pinned" (buf.C:133)
   is said only when they are. *)
THEOREM FramesKept ==
  ASSUME "write" \notin Faults
  PROVE  Spec => []NoFrameLost
<1> DEFINE FInv == IInv /\ alive /\ stranded = {} /\ ExceededMeansAllPinned
<1>1. Init => FInv
  <2>1. Init => ExceededMeansAllPinned
    BY DEF Init, ExceededMeansAllPinned
  <2> QED BY <2>1, InitInv DEF Init
<1>2. FInv /\ [Next]_vars => FInv'
  <2>1. FInv /\ Next => FInv'
    BY AssertsStep, ExceededStep, NextInv
  <2>2. FInv /\ UNCHANGED vars => FInv'
    BY StutterInv DEF vars, ExceededMeansAllPinned
  <2> QED BY <2>1, <2>2
<1>3. FInv => NoFrameLost
  BY DEF NoFrameLost, IInv, UplLinked
<1> QED BY <1>1, <1>2, <1>3, PTL DEF Spec

-----------------------------------------------------------------------------
(* Pinned pages stay where they are *)

(* The frame of a page somebody holds is pinned, so it is no victim. *)
LEMMA HeldFrame ==
  ASSUME IInv, alive, NEW k \in Keys, NEW c \in Clients, held[c][k] # "no"
  PROVE  /\ hashTable[k] \in Frames /\ hashTable[k] # NULL
         /\ bufTable[hashTable[k]].pinCnt > 0
         /\ ~AllPinned => hashTable[k] # Victim
<1>1. Holders(k) # {}
  BY DEF Holders
<1>2. hashTable[k] \in Frames /\ hashTable[k] # NULL
  BY <1>1 DEF IInv, TypeOK, PinsAccounted
<1>3. bufTable[hashTable[k]].valid /\ KeyOf(hashTable[k]) = k
  BY <1>2 DEF IInv, HashAgrees
<1>4. bufTable[hashTable[k]].pinCnt = Cardinality(Holders(k))
  BY <1>2, <1>3 DEF IInv, PinsAccounted
<1>5. Cardinality(Holders(k)) \in Nat /\ Cardinality(Holders(k)) # 0
  BY <1>1, HoldersFinite, FS_EmptySet
<1>6. bufTable[hashTable[k]].pinCnt > 0
  BY <1>4, <1>5
<1>7. ~AllPinned => bufTable[Victim].pinCnt = 0
  BY VictimFacts DEF IInv
<1> QED BY <1>2, <1>6, <1>7

LEMMA PinnedStep ==
  ASSUME IInv, Next, NEW k \in Keys, NEW c \in Clients, held[c][k] # "no", held'[c][k] # "no"
  PROVE  hashTable'[k] = hashTable[k]
<1>0. /\ alive /\ hashTable[k] \in Frames /\ hashTable[k] # NULL
      /\ bufTable[hashTable[k]].pinCnt > 0
      /\ ~AllPinned => hashTable[k] # Victim
      /\ hashTable \in [Keys -> Frames \cup {NULL}] /\ bufTable \in TableType
  <2>1. alive
    BY DEF Next
  <2>2. /\ hashTable[k] \in Frames /\ hashTable[k] # NULL /\ bufTable[hashTable[k]].pinCnt > 0
        /\ ~AllPinned => hashTable[k] # Victim
    BY <2>1, HeldFrame
  <2> QED BY <2>1, <2>2 DEF IInv, TypeOK, TableType
<1>evict. ASSUME ~AllPinned PROVE HashLessVictim[k] = hashTable[k]
  BY <1>0, <1>evict, HashLess
<1>take. ASSUME ~AllPinned, NEW j \in Keys, hashTable[j] = NULL,
                hashTable' = [HashLessVictim EXCEPT ![j] = Victim]
         PROVE  hashTable'[k] = hashTable[k]
  BY <1>0, <1>evict, <1>take
<1>2. ASSUME NEW a \in Clients, NEW j \in Keys, ReadMiss(a, j)
      PROVE  hashTable'[k] = hashTable[k]
  BY <1>2, <1>take DEF ReadMiss
<1>3. ASSUME NEW j \in Keys, ReadFails(j)
      PROVE  hashTable'[k] = hashTable[k]
  BY <1>3, <1>evict DEF ReadFails
<1>8. ASSUME NEW f \in Files, FlushFile(f)
      PROVE  hashTable'[k] = hashTable[k]
  <2>1. PICK F \in SUBSET Frames :
           /\ \A i \in F : bufTable[i].valid /\ bufTable[i].pinCnt = 0
           /\ hashTable' = [j \in Keys |-> IF j \in {KeyOf(i) : i \in F} THEN NULL ELSE hashTable[j]]
    BY <1>8 DEF FlushFile
  <2>2. k \notin {KeyOf(i) : i \in F}
    <3>1. ASSUME NEW i \in F, KeyOf(i) = k PROVE FALSE
      <4>1. hashTable[k] = i
        BY <1>0, <2>1, <3>1 DEF IInv, HashAgrees
      <4>2. bufTable[i].pinCnt = 0
        BY <2>1, <3>1
      <4>3. bufTable[hashTable[k]].pinCnt > 0
        BY <1>0
      <4> QED BY <4>1, <4>2, <4>3
    <3> QED BY <3>1
  <2> QED BY <2>1, <2>2
<1>9. ASSUME NEW j \in Keys, DisposePage(j)
      PROVE  hashTable'[k] = hashTable[k]
  <2>1. CASE hashTable' = hashTable
    BY <2>1
  <2>2. CASE hashTable' # hashTable
    <3>1. hashTable' = [hashTable EXCEPT ![j] = NULL] /\ ~(bufTable[hashTable[j]].pinCnt > 0)
      BY <1>9, <2>2 DEF DisposePage, mem
    <3>2. j # k /\ hashTable \in [Keys -> Frames \cup {NULL}]
      <4>1. bufTable[hashTable[k]].pinCnt > 0
        BY <1>0
      <4> QED BY <1>0, <3>1, <4>1
    <3> QED BY <3>1, <3>2
  <2> QED BY <2>1, <2>2
<1>10. ASSUME NEW a \in Clients, NEW f \in Files, AllocDone(a, f)
       PROVE  hashTable'[k] = hashTable[k]
  <2>1. <<f, NewPage(f)>> \in Keys /\ hashTable[<<f, NewPage(f)>>] = NULL
    BY <1>0, <1>10, NewPageUncached DEF AllocDone, IInv
  <2>2. \/ hashTable' = hashTable
        \/ ~AllPinned /\ hashTable' = [HashLessVictim EXCEPT ![<<f, NewPage(f)>>] = Victim]
    BY <1>10 DEF AllocDone, mem, StrandVictim
  <2> QED BY <1>take, <2>1, <2>2
<1>11. ASSUME Restart
       PROVE  FALSE
  BY <1>11 DEF Restart, NoHolder
<1>12. \/ hashTable' = hashTable
       \/ \E a \in Clients, j \in Keys : ReadMiss(a, j) \/ ReadFails(j)
       \/ \E f \in Files : FlushFile(f)
       \/ \E j \in Keys : DisposePage(j)
       \/ \E a \in Clients, f \in Files : AllocDone(a, f)
       \/ Restart
  BY DEF Next, AllocPage, AllocFails, ReadPage, ReadHit, ReadNoVictim, StrandVictim, mem, UnPinPage, UnPinRefused, WritePinned
<1> QED BY <1>2, <1>3, <1>8, <1>9, <1>10, <1>11, <1>12

(* While somebody holds a page, no call moves it: the Page pointer that
   readPage and allocPage gave out stays good (buf.C:188-245, 302-402). *)
THEOREM PinnedStays == Spec => PinnedPageStays
<1>1. IInv /\ [Next]_vars => [alive' => \A k \in Keys, c \in Clients :
          held[c][k] # "no" /\ held'[c][k] # "no" => hashTable'[k] = hashTable[k]]_vars
  BY PinnedStep
<1> QED BY <1>1, Invariance, PTL DEF Spec, PinnedPageStays

-----------------------------------------------------------------------------
(* The pool is a page store *)

(* The image the clients see of a page. *)
Shown(k) == IF hashTable[k] # NULL THEN bufPool[hashTable[k]] ELSE OnDisk(disk, k)

LEMMA StoreIs ==
  /\ \A k \in Keys : Store[k] = Shown(k) /\ Store'[k] = Shown(k)'
  /\ (\A k \in Keys : Shown(k)' = Shown(k)) => Store' = Store
  /\ \A k \in Keys : \A d : (\A j \in Keys : Shown(j)' = IF j = k THEN d ELSE Shown(j))
                        => Store' = [Store EXCEPT ![k] = d]
<1>1. /\ Store = [k \in Keys |-> Shown(k)]
      /\ Store' = [k \in Keys |-> Shown(k)']
  BY DEF Store, Shown
<1> QED BY <1>1

LEMMA SavedIs ==
  /\ \A k \in Keys : Saved[k] = OnDisk(disk, k) /\ Saved'[k] = OnDisk(disk', k)
  /\ (\A k \in Keys : OnDisk(disk', k) = OnDisk(disk, k)) => Saved' = Saved
<1>1. /\ Saved = [k \in Keys |-> OnDisk(disk, k)]
      /\ Saved' = [k \in Keys |-> OnDisk(disk', k)]
  BY DEF Saved
<1> QED BY <1>1

(* Nothing but the image the clients see is ever written to a file. *)
LEMMA WrittenShown ==
  ASSUME IInv, alive, NEW d, NEW S \in SUBSET Frames, \A i \in S : bufTable[i].valid,
         NEW k \in Keys, OnDisk(d, k) = OnDisk(disk, k), disk' = WriteOut(d, S)
  PROVE  Saved'[k] \in {Saved[k], Store[k]}
<1>1. OnDisk(WriteOut(d, S), k) =
         IF hashTable[k] \in S THEN bufPool[hashTable[k]] ELSE OnDisk(disk, k)
  BY WriteOutPage
<1>2. hashTable[k] \in S => hashTable[k] # NULL
  BY NodeFacts DEF Nodes
<1>3. Saved'[k] = OnDisk(disk', k) /\ Saved[k] = OnDisk(disk, k) /\ Store[k] = Shown(k)
  BY SavedIs, StoreIs
<1>4. OnDisk(disk', k) = OnDisk(WriteOut(d, S), k)
  OBVIOUS
<1> QED BY <1>1, <1>2, <1>3, <1>4 DEF Shown

LEMMA InUseSame ==
  ASSUME \A f \in Files : disk'[f].free = disk[f].free /\ disk'[f].numPages = disk[f].numPages
  PROVE  InUseKeys' = InUseKeys
<1>1. \A f \in Files : InUse(f)' = InUse(f)
  BY DEF InUse
<1> QED BY <1>1, KeyFacts DEF InUseKeys

LEMMA WriteOutInUse ==
  ASSUME disk \in DiskType, NEW S, disk' = WriteOut(disk, S)
  PROVE  InUseKeys' = InUseKeys
  BY WriteOutFree, InUseSame

(* A page allocated is in use from then on, one disposed of no more. *)
LEMMA AllocatedInUse ==
  ASSUME TypeOK, FreeListSound, NEW f \in Files, CanAllocate(f),
         \A g \in Files : /\ disk'[g].free = Allocated(f)[g].free
                          /\ disk'[g].numPages = Allocated(f)[g].numPages
  PROVE  /\ <<f, NewPage(f)>> \in Keys
         /\ <<f, NewPage(f)>> \notin InUseKeys
         /\ InUseKeys' = InUseKeys \cup {<<f, NewPage(f)>>}
<1> DEFINE fl == disk[f].free
           q == NewPage(f)
<1>0. /\ disk \in DiskType /\ q \in Pages /\ fl \in Seq(Pages)
      /\ disk[f].numPages \in 1 .. MaxPages + 1
  BY AllocatedType DEF TypeOK, DiskType
<1>1. \A g \in Files, p \in Pages : g # f => (p \in InUse(g)' <=> p \in InUse(g))
  <2>1. \A g \in Files : g # f => Allocated(f)[g] = disk[g]
    BY <1>0 DEF Allocated, DiskType
  <2> QED BY <2>1 DEF InUse
<1>2. /\ q \notin InUse(f)
      /\ \A p \in Pages : p \in InUse(f)' <=> p \in InUse(f) \/ p = q
  <2>1. CASE HasFree(f)
    <3>1. disk'[f].free = Tail(fl) /\ disk'[f].numPages = disk[f].numPages /\ q = fl[1] /\ fl # <<>>
      BY <1>0, <2>1 DEF Allocated, DiskType, HasFree, NewPage
    <3>2. /\ Len(fl) \in Nat \ {0} /\ Len(Tail(fl)) = Len(fl) - 1
          /\ \A n \in 1 .. Len(fl) - 1 : Tail(fl)[n] = fl[n + 1] /\ n + 1 \in 1 .. Len(fl)
          /\ \A n \in 1 .. Len(fl) : n # 1 => n - 1 \in 1 .. Len(fl) - 1 /\ fl[n] = Tail(fl)[n - 1]
      BY <1>0, <3>1
    <3>3. \A x, y \in 1 .. Len(fl) : fl[x] < disk[f].numPages /\ (fl[x] = fl[y] => x = y)
      BY DEF FreeListSound
    <3> HIDE DEF fl, q
    <3>4. 1 \in 1 .. Len(fl)
      BY <3>2
    <3>5. q \notin InUse(f)
      BY <3>1, <3>4 DEF InUse, fl
    <3>6. ASSUME NEW p \in Pages
          PROVE  p \in InUse(f)' <=> p \in InUse(f) \/ p = q
      <4>1. p \in InUse(f)' <=> p < disk[f].numPages /\ \A n \in 1 .. Len(fl) - 1 : Tail(fl)[n] # p
        BY <3>1, <3>2 DEF InUse
      <4>2. p \in InUse(f) <=> p < disk[f].numPages /\ \A n \in 1 .. Len(fl) : fl[n] # p
        BY DEF InUse, fl
      <4>3. (\A n \in 1 .. Len(fl) - 1 : Tail(fl)[n] # p)
              => \A n \in 1 .. Len(fl) : n # 1 => fl[n] # p
        BY <3>2
      <4>4. p = q => p < disk[f].numPages /\ \A n \in 1 .. Len(fl) - 1 : Tail(fl)[n] # p
        <5> SUFFICES ASSUME p = q, NEW n \in 1 .. Len(fl) - 1 PROVE fl[n + 1] # fl[1]
          BY <3>1, <3>2, <3>3, <3>4
        <5>1. n + 1 # 1 /\ n + 1 \in 1 .. Len(fl)
          BY <3>2
        <5> QED BY <3>3, <3>4, <5>1
      <4>5. (\A n \in 1 .. Len(fl) : fl[n] # p) => \A n \in 1 .. Len(fl) - 1 : Tail(fl)[n] # p
        BY <3>2
      <4> QED BY <3>1, <4>1, <4>2, <4>3, <4>4, <4>5
    <3> QED BY <3>5, <3>6
  <2>2. CASE ~HasFree(f)
    <3>1. disk'[f].free = <<>> /\ disk'[f].numPages = disk[f].numPages + 1
          /\ q = disk[f].numPages /\ fl = <<>>
      BY <1>0, <2>2 DEF Allocated, DiskType, HasFree, NewPage
    <3> QED BY <1>0, <3>1 DEF InUse, Pages
  <2> QED BY <2>1, <2>2
<1>3. \A k \in Keys : k = <<f, q>> <=> k[1] = f /\ k[2] = q
  BY <1>0, KeyFacts
<1>4. <<f, q>> \in Keys
  BY <1>0 DEF Keys
<1> HIDE DEF q
<1>5. \A k \in Keys : k[2] \in InUse(k[1])' <=> k[2] \in InUse(k[1]) \/ k = <<f, q>>
  BY <1>1, <1>2, <1>3, KeyFacts
<1>6. <<f, q>> \notin InUseKeys
  BY <1>2 DEF InUseKeys
<1>7. InUseKeys' = InUseKeys \cup {<<f, q>>}
  BY <1>4, <1>5 DEF InUseKeys
<1> QED BY <1>4, <1>6, <1>7 DEF q

LEMMA DisposedInUse ==
  ASSUME disk \in DiskType, NEW k \in Keys, disk' = Disposed(k[1], k[2])
  PROVE  InUseKeys' = InUseKeys \ {k}
<1> DEFINE fl == disk[k[1]].free
<1>0. k = <<k[1], k[2]>> /\ k[1] \in Files /\ k[2] \in Pages /\ fl \in Seq(Pages)
  BY KeyFacts DEF DiskType
<1>1. /\ disk'[k[1]].free = <<k[2]>> \o fl /\ disk'[k[1]].numPages = disk[k[1]].numPages
      /\ \A f \in Files : f # k[1] => disk'[f] = disk[f]
  BY <1>0 DEF Disposed, DiskType
<1>2. /\ Len(<<k[2]>> \o fl) = Len(fl) + 1 /\ Len(fl) \in Nat
      /\ \A n \in 1 .. Len(fl) + 1 : (<<k[2]>> \o fl)[n] = IF n = 1 THEN k[2] ELSE fl[n - 1]
  BY <1>0
<1>3. ASSUME NEW p \in Pages
      PROVE  p \in InUse(k[1])' <=> p \in InUse(k[1]) /\ p # k[2]
  <2> DEFINE t == <<k[2]>> \o fl
  <2>1. p \in InUse(k[1])' <=> p < disk[k[1]].numPages /\ \A n \in 1 .. Len(fl) + 1 : t[n] # p
    BY <1>1, <1>2 DEF InUse
  <2>2. p \in InUse(k[1]) <=> p < disk[k[1]].numPages /\ \A n \in 1 .. Len(fl) : fl[n] # p
    BY DEF InUse
  <2> HIDE DEF fl, t
  <2>3. \A n \in 1 .. Len(fl) + 1 : t[n] = IF n = 1 THEN k[2] ELSE fl[n - 1]
    BY <1>2 DEF t
  <2>4. (\A n \in 1 .. Len(fl) + 1 : t[n] # p) => p # k[2] /\ \A n \in 1 .. Len(fl) : fl[n] # p
    <3> SUFFICES ASSUME \A n \in 1 .. Len(fl) + 1 : t[n] # p
                 PROVE  p # k[2] /\ \A n \in 1 .. Len(fl) : fl[n] # p
      OBVIOUS
    <3>1. \A n \in 1 .. Len(fl) : n + 1 \in 1 .. Len(fl) + 1 /\ n + 1 # 1 /\ (n + 1) - 1 = n
      BY <1>2
    <3>2. 1 \in 1 .. Len(fl) + 1
      BY <1>2
    <3>3. ASSUME NEW n \in 1 .. Len(fl) PROVE fl[n] # p
      <4>1. t[n + 1] = fl[n]
        BY <2>3, <3>1
      <4> QED BY <3>1, <4>1
    <3> QED BY <2>3, <3>2, <3>3
  <2>5. p # k[2] /\ (\A n \in 1 .. Len(fl) : fl[n] # p) => \A n \in 1 .. Len(fl) + 1 : t[n] # p
    <3>1. \A n \in 1 .. Len(fl) + 1 : n = 1 \/ n - 1 \in 1 .. Len(fl)
      BY <1>2
    <3> QED BY <2>3, <3>1
  <2> QED BY <2>1, <2>2, <2>4, <2>5
<1>4. \A f \in Files, p \in Pages : f # k[1] => (p \in InUse(f)' <=> p \in InUse(f))
  BY <1>1 DEF InUse
<1>5. ASSUME NEW j \in Keys
      PROVE  j[2] \in InUse(j[1])' <=> j[2] \in InUse(j[1]) /\ j # k
  <2>1. j = <<j[1], j[2]>> /\ j[1] \in Files /\ j[2] \in Pages
    BY KeyFacts
  <2>2. CASE j[1] = k[1]
    <3>1. j = k <=> j[2] = k[2]
      BY <1>0, <2>1, <2>2
    <3> QED BY <1>3, <2>1, <2>2, <3>1
  <2>3. CASE j[1] # k[1]
    BY <1>4, <2>1, <2>3
  <2> QED BY <2>2, <2>3
<1> QED BY <1>5 DEF InUseKeys

(* An eviction shows no client another image: what was in the victim's
   frame is in the file now. *)
LEMMA EvictShown ==
  ASSUME CInv, alive, ~AllPinned, NEW d, NEW j \in Keys, OnDisk(d, j) = OnDisk(disk, j),
         disk' = WrittenBack(d), hashTable'[j] = HashLessVictim[j],
         \A i \in Frames : i # Victim => bufPool'[i] = bufPool[i]
  PROVE  Shown(j)' = Shown(j)
<1>1. /\ OnDisk(disk', j) = IF hashTable[j] = Victim THEN bufPool[Victim] ELSE OnDisk(disk, j)
      /\ hashTable'[j] = IF hashTable[j] = Victim THEN NULL ELSE hashTable[j]
  BY Evicted
<1>2. Victim \in Frames /\ NULL \notin Frames /\ hashTable[j] \in Frames \cup {NULL}
  BY VictimFacts, NodeFacts DEF CInv, IInv, TypeOK, Nodes
<1>3. Shown(j)' = IF hashTable'[j] # NULL THEN bufPool'[hashTable'[j]] ELSE OnDisk(disk', j)
  BY DEF Shown
<1>4. CASE hashTable[j] = Victim
  BY <1>1, <1>2, <1>3, <1>4 DEF Shown
<1>5. CASE hashTable[j] # Victim
  BY <1>1, <1>2, <1>3, <1>5 DEF Shown
<1> QED BY <1>4, <1>5

(* Nor do frames that leave by a flush or at the end of the session. *)
LEMMA LeaveShown ==
  ASSUME CInv, alive, NEW F \in SUBSET Frames, \A i \in F : bufTable[i].valid, NEW j \in Keys,
         hashTable[j] \in F => \A c \in Clients : held[c][j] # "wrote",
         disk' = WriteOut(disk, F \cap Dirty),
         hashTable'[j] = IF hashTable[j] \in F THEN NULL ELSE hashTable[j],
         hashTable'[j] # NULL => bufPool' = bufPool
  PROVE  Shown(j)' = Shown(j)
<1>1. PICK d : d = disk
  OBVIOUS
<1>2. OnDisk(d, j) = OnDisk(disk, j)
  BY <1>1
<1>3. OnDisk(WriteOut(d, F \cap Dirty), j) =
         IF hashTable[j] \in F THEN bufPool[hashTable[j]] ELSE OnDisk(disk, j)
  BY <1>2, Leaving
<1>4. hashTable[j] \in Frames \cup {NULL} /\ NULL \notin Frames
  BY NodeFacts DEF CInv, IInv, TypeOK, Nodes
<1>5. Shown(j)' = IF hashTable'[j] # NULL THEN bufPool'[hashTable'[j]] ELSE OnDisk(disk', j)
  BY DEF Shown
<1> QED BY <1>1, <1>3, <1>4, <1>5 DEF Shown

LEMMA InitMapped == Init => Abstract!Init
<1> SUFFICES ASSUME Init PROVE InUseKeys = {} /\ held = NoHolder /\ Store = Saved
  BY DEF Abstract!Init, NoHolder
<1>1. \A f \in Files : InUse(f) = {}
  BY DEF Init, EmptyFile, InUse, Pages
<1>2. Store = Saved
  BY DEF Init, NoHash, Store, Saved
<1> QED BY <1>1, <1>2, KeyFacts DEF Init, InUseKeys

LEMMA StepMapped ==
  ASSUME CInv, Next
  PROVE  Abstract!Next \/ UNCHANGED <<Store, Saved, InUseKeys, held>>
<1>0. /\ alive /\ IInv /\ TypeOK /\ FreeListSound /\ disk \in DiskType
      /\ hashTable \in [Keys -> Frames \cup {NULL}] /\ NULL \notin Frames
      /\ bufPool \in [Frames -> Content] /\ bufTable \in TableType
      /\ held \in [Clients -> [Keys -> {"no", "clean", "wrote"}]]
      /\ \A j, k \in Keys : hashTable[j] = hashTable[k] /\ hashTable[k] # NULL => j = k
  BY NodeFacts DEF CInv, IInv, TypeOK, TableType, Next, Nodes, HashAgrees
<1>free. \A k \in Keys : hashTable[k] = NULL => Holders(k) = {}
  BY <1>0 DEF IInv, PinsAccounted
<1>cached. \A k \in Keys : hashTable[k] # NULL => k \in InUseKeys
  BY <1>0 DEF FreeListSound, InUseKeys
<1>still. ASSUME UNCHANGED <<hashTable, bufPool, disk>>
          PROVE  UNCHANGED <<Store, Saved, InUseKeys>>
  BY <1>still DEF Store, Saved, InUseKeys, InUse, OnDisk
<1>catch. ASSUME NEW S \in SUBSET Frames, \A i \in S : bufTable[i].valid, disk' = WriteOut(disk, S)
          PROVE  Abstract!CatchUp
  <2>1. PICK d : d = disk
    OBVIOUS
  <2>2. \A k \in Keys : OnDisk(d, k) = OnDisk(disk, k)
    BY <2>1
  <2>3. disk' = WriteOut(d, S)
    BY <1>catch, <2>1
  <2>4. \A k \in Keys : Saved'[k] \in {Saved[k], Store[k]}
    BY <1>0, <1>catch, <2>2, <2>3, WrittenShown
  <2> QED BY <2>4 DEF Abstract!CatchUp, Abstract!Saving
<1>back. Dirty \cap {Victim} \in SUBSET Frames /\ \A i \in Dirty \cap {Victim} : bufTable[i].valid
  BY DEF Dirty
<1>idle. UNCHANGED Saved => Abstract!CatchUp
  BY DEF Abstract!CatchUp, Abstract!Saving
<1>evict. ASSUME ~AllPinned, NEW S, disk' = WriteOut(disk, S)
          PROVE  InUseKeys' = InUseKeys
  BY <1>0, <1>evict, WriteOutInUse
<1>1. ASSUME NEW c \in Clients, NEW k \in Keys, ReadHit(c, k)
      PROVE  Abstract!Next
  <2>1. UNCHANGED <<Store, Saved, InUseKeys>> /\ k \in InUseKeys
    BY <1>1, <1>still, <1>cached DEF ReadHit
  <2>2. Abstract!Pin(c, k)
    BY <1>1, <1>idle, <2>1 DEF Abstract!Pin, ReadHit
  <2> QED BY <2>2 DEF Abstract!Next
<1>2. ASSUME NEW c \in Clients, NEW k \in Keys, k[2] \in InUse(k[1]), ReadMiss(c, k)
      PROVE  Abstract!Next
  <2>1. /\ hashTable[k] = NULL /\ ~AllPinned /\ disk' = WrittenBack(disk)
        /\ bufPool' = [bufPool EXCEPT ![Victim] = OnDisk(disk', k)]
        /\ hashTable' = [HashLessVictim EXCEPT ![k] = Victim]
        /\ held' = [held EXCEPT ![c][k] = "clean"]
    BY <1>2 DEF ReadMiss
  <2>2. Victim \in Frames /\ HashLessVictim \in [Keys -> Frames \cup {NULL}]
    BY <1>0, <2>1, VictimFacts, EvictType DEF IInv
  <2>3. \A i \in Frames : bufPool'[i] = IF i = Victim THEN OnDisk(disk', k) ELSE bufPool[i]
    BY <1>0, <2>1, <2>2
  <2>4. ASSUME NEW j \in Keys PROVE Shown(j)' = Shown(j)
    <3>1. CASE j = k
      <4>1. OnDisk(disk', k) = OnDisk(disk, k)
        <5>1. PICK d : d = disk
          OBVIOUS
        <5>2. OnDisk(d, k) = OnDisk(disk, k)
          BY <5>1
        <5>3. OnDisk(WrittenBack(d), k) = OnDisk(disk, k)
          BY <1>0, <2>1, <2>2, <5>2, Evicted
        <5> QED BY <2>1, <5>1, <5>3
      <4>2. hashTable'[k] = Victim /\ Victim # NULL
        BY <1>0, <2>1, <2>2
      <4> QED BY <2>1, <2>2, <2>3, <3>1, <4>1, <4>2 DEF Shown
    <3>2. CASE j # k
      <4>1. hashTable'[j] = HashLessVictim[j]
        BY <2>1, <2>2, <3>2
      <4>2. \A i \in Frames : i # Victim => bufPool'[i] = bufPool[i]
        BY <2>3
      <4>3. PICK d : d = disk
        OBVIOUS
      <4>4. OnDisk(d, j) = OnDisk(disk, j) /\ disk' = WrittenBack(d)
        BY <2>1, <4>3
      <4> HIDE <4>3
      <4> QED BY <1>0, <2>1, <4>1, <4>2, <4>4, EvictShown
    <3> QED BY <3>1, <3>2
  <2>5. Store' = Store
    BY <2>4, StoreIs
  <2>6. InUseKeys' = InUseKeys /\ k \in InUseKeys
    BY <1>2, <1>evict, <2>1 DEF WrittenBack, InUseKeys
  <2>7. held[c][k] = "no"
    BY <1>free, <2>1 DEF Holders
  <2>8. Abstract!CatchUp
    BY <1>back, <1>catch, <2>1 DEF WrittenBack
  <2>9. Abstract!Pin(c, k)
    BY <2>1, <2>5, <2>6, <2>7, <2>8 DEF Abstract!Pin
  <2> QED BY <2>9 DEF Abstract!Next
<1>3. ASSUME NEW k \in Keys, ReadFails(k)
      PROVE  Abstract!Next
  <2>1. /\ ~AllPinned /\ disk' = WrittenBack(disk) /\ hashTable' = HashLessVictim
        /\ bufPool' = bufPool /\ held' = held
    BY <1>3 DEF ReadFails
  <2>2. ASSUME NEW j \in Keys PROVE Shown(j)' = Shown(j)
    <3>1. PICK d : d = disk
      OBVIOUS
    <3>2. OnDisk(d, j) = OnDisk(disk, j) /\ disk' = WrittenBack(d) /\ hashTable'[j] = HashLessVictim[j]
      BY <2>1, <3>1
    <3>3. \A i \in Frames : i # Victim => bufPool'[i] = bufPool[i]
      BY <2>1
    <3> HIDE <3>1
    <3> QED BY <1>0, <2>1, <3>2, <3>3, EvictShown
  <2>3. InUseKeys' = InUseKeys
    BY <1>evict, <2>1 DEF WrittenBack
  <2>4. Abstract!CatchUp
    BY <1>back, <1>catch, <2>1 DEF WrittenBack
  <2>5. Abstract!Save
    BY <2>1, <2>2, <2>3, <2>4, StoreIs DEF Abstract!Save
  <2> QED BY <2>5 DEF Abstract!Next
<1>4. ASSUME NEW k \in Keys, ReadNoVictim(k)
      PROVE  UNCHANGED <<Store, Saved, InUseKeys, held>>
  BY <1>4, <1>still DEF ReadNoVictim, mem, StrandVictim
<1>5. ASSUME NEW c \in Clients, NEW k \in Keys, NEW dirty \in BOOLEAN, NEW loveIt \in BOOLEAN,
             UnPinPage(c, k, dirty, loveIt)
      PROVE  Abstract!Next
  <2>1. UNCHANGED <<Store, Saved, InUseKeys>>
    BY <1>5, <1>still DEF UnPinPage
  <2>2. Abstract!Unpin(c, k)
    BY <1>5, <2>1 DEF UnPinPage, Abstract!Unpin, Abstract!Holders
  <2> QED BY <2>2 DEF Abstract!Next
<1>6. ASSUME NEW k \in Keys, UnPinRefused(k)
      PROVE  UNCHANGED <<Store, Saved, InUseKeys, held>>
  BY <1>6, <1>still DEF UnPinRefused, mem
<1>7. ASSUME NEW c \in Clients, NEW k \in Keys, NEW d \in Data, WritePinned(c, k, d)
      PROVE  Abstract!Next
  <2>1. /\ held[c][k] # "no" /\ held' = [held EXCEPT ![c][k] = "wrote"]
        /\ bufPool' = [bufPool EXCEPT ![hashTable[k]] = d]
        /\ hashTable' = hashTable /\ disk' = disk
    BY <1>7 DEF WritePinned
  <2>2. hashTable[k] # NULL
    BY <1>free, <2>1 DEF Holders
  <2>3. ASSUME NEW j \in Keys PROVE Shown(j)' = IF j = k THEN d ELSE Shown(j)
    BY <1>0, <2>1, <2>2 DEF Shown
  <2>4. Store' = [Store EXCEPT ![k] = d]
    BY <2>3, StoreIs
  <2>5. InUseKeys' = InUseKeys /\ Saved' = Saved
    BY <2>1, InUseSame, SavedIs
  <2>6. Abstract!Write(c, k, d)
    BY <2>1, <2>4, <2>5 DEF Abstract!Write, Abstract!Holders
  <2> QED BY <2>6 DEF Abstract!Next
<1>8. ASSUME NEW f \in Files, FlushFile(f)
      PROVE  Abstract!Next
  <2>1. PICK F \in SUBSET Frames :
           /\ \A i \in F : bufTable[i].valid /\ bufTable[i].pinCnt = 0
           /\ disk' = WriteOut(disk, F \cap Dirty)
           /\ hashTable' = [k \in Keys |-> IF k \in {KeyOf(i) : i \in F} THEN NULL ELSE hashTable[k]]
           /\ bufPool' = bufPool /\ held' = held
    BY <1>8 DEF FlushFile
  <2>2. ASSUME NEW j \in Keys
        PROVE  j \in {KeyOf(i) : i \in F} <=> hashTable[j] \in F
    BY <1>0, <2>1 DEF IInv, HashAgrees
  <2>3. ASSUME NEW j \in Keys PROVE Shown(j)' = Shown(j)
    <3>1. hashTable'[j] = IF hashTable[j] \in F THEN NULL ELSE hashTable[j]
      BY <2>1, <2>2
    <3>2. hashTable[j] \in F => \A c \in Clients : held[c][j] # "wrote"
      BY <1>0, <2>1, Unheld
    <3>3. /\ \A i \in F : bufTable[i].valid
          /\ disk' = WriteOut(disk, F \cap Dirty)
          /\ hashTable'[j] # NULL => bufPool' = bufPool
      BY <2>1
    <3> QED BY <1>0, <3>1, <3>2, <3>3, LeaveShown
  <2>4. InUseKeys' = InUseKeys /\ Store' = Store
    BY <1>0, <2>1, <2>3, StoreIs, WriteOutInUse
  <2>5. F \cap Dirty \in SUBSET Frames /\ \A i \in F \cap Dirty : bufTable[i].valid
    BY <2>1
  <2>6. Abstract!CatchUp
    BY <1>catch, <2>1, <2>5
  <2>7. Abstract!Save
    BY <2>1, <2>4, <2>6 DEF Abstract!Save
  <2> QED BY <2>7 DEF Abstract!Next
<1>9. ASSUME NEW k \in Keys, DisposePage(k)
      PROVE  Abstract!Next \/ UNCHANGED <<Store, Saved, InUseKeys, held>>
  <2>1. CASE hashTable[k] = NULL \/ bufTable[hashTable[k]].pinCnt > 0
    BY <1>9, <1>still, <2>1 DEF DisposePage, mem
  <2>2. CASE ~(hashTable[k] = NULL \/ bufTable[hashTable[k]].pinCnt > 0)
    <3>1. /\ hashTable[k] \in Frames /\ hashTable[k] # NULL /\ bufTable[hashTable[k]].pinCnt = 0
          /\ hashTable' = [hashTable EXCEPT ![k] = NULL] /\ bufPool' = bufPool /\ held' = held
          /\ \/ disk' = Disposed(k[1], k[2]) /\ status' = "OK"
             \/ disk' = disk /\ status' = "BADPAGENO"
             \/ disk' \in DisposeCutShort(k[1], k[2]) /\ status' = "DISPOSEFAILED"
      BY <1>0, <1>9, <2>2 DEF DisposePage, TableType
    <3>2. Holders(k) = {} /\ k \in InUseKeys
      BY <1>0, <1>cached, <3>1, Unheld
    <3>3. ASSUME NEW j \in Keys, j # k PROVE Store'[j] = Store[j] /\ Saved'[j] = Saved[j]
      <4>1. j[1] # k[1] \/ j[2] # k[2]
        <5>1. j = <<j[1], j[2]>> /\ k = <<k[1], k[2]>>
          BY KeyFacts
        <5> QED BY <3>3, <5>1
      <4>2. OnDisk(disk', j) = OnDisk(disk, j)
        <5>1. disk' = Disposed(k[1], k[2]) => OnDisk(disk', j) = OnDisk(disk, j)
          BY <1>0, <4>1, KeyFacts DEF Disposed, OnDisk, DiskType
        <5> QED BY <1>0, <3>1, <3>3, <5>1, CutShort
      <4>3. Shown(j)' = Shown(j)
        BY <1>0, <3>1, <3>3, <4>2 DEF Shown
      <4> QED BY <4>2, <4>3, StoreIs, SavedIs
    <3>k. Store'[k] = Saved'[k]
      <4>1. hashTable'[k] = NULL
        BY <1>0, <3>1
      <4>2. Shown(k)' = OnDisk(disk', k)
        BY <4>1 DEF Shown
      <4> QED BY <4>2, StoreIs, SavedIs
    <3>others. Abstract!OthersKeep(k)
      BY <3>3 DEF Abstract!OthersKeep, Abstract!Saving
    <3>4. CASE disk' = Disposed(k[1], k[2]) /\ status' = "OK"
      <4>1. InUseKeys' = InUseKeys \ {k}
        BY <1>0, <3>4, DisposedInUse
      <4>2. Abstract!Dispose(k)
        BY <3>1, <3>2, <3>others, <3>4, <4>1 DEF Abstract!Dispose, Abstract!Holders, Holders
      <4> QED BY <4>2 DEF Abstract!Next
    <3>5. CASE \/ disk' = disk /\ status' = "BADPAGENO"
               \/ disk' \in DisposeCutShort(k[1], k[2]) /\ status' = "DISPOSEFAILED"
      <4>1. InUseKeys' = InUseKeys
        <5>1. \A f \in Files : disk'[f].free = disk[f].free /\ disk'[f].numPages = disk[f].numPages
          BY <1>0, <3>5, CutShort
        <5> QED BY <5>1, InUseSame
      <4>2. status' = "BADPAGENO" => Saved'[k] = Saved[k]
        BY <3>5, SavedIs
      <4>3. Abstract!DisposeRefused(k)
        BY <3>1, <3>2, <3>k, <3>others, <3>5, <4>1, <4>2
           DEF Abstract!DisposeRefused, Abstract!Holders, Holders
      <4> QED BY <4>3 DEF Abstract!Next
    <3> QED BY <3>1, <3>4, <3>5
  <2> QED BY <2>1, <2>2
<1>10. ASSUME NEW c \in Clients, NEW f \in Files, AllocDone(c, f)
       PROVE  Abstract!Next
  <2>0. CanAllocate(f) /\ (disk' = Allocated(f) \/ disk' = WrittenBack(Allocated(f)))
    BY <1>10 DEF AllocDone
  <2>1. PICK k \in Keys : k = <<f, NewPage(f)>>
    BY <1>0, <2>0, NewPageUncached
  <2>2. /\ hashTable[k] = NULL /\ NewPage(f) \in Pages /\ Allocated(f) \in DiskType
        /\ Holders(k) = {}
    BY <1>0, <1>free, <2>0, <2>1, NewPageUncached, AllocatedType
  <2>3. \A j \in Keys : j # k => OnDisk(Allocated(f), j) = OnDisk(disk, j)
    BY <1>0, <2>1, <2>2, AllocatedPage
  <2>4. \A g \in Files : /\ disk'[g].free = Allocated(f)[g].free
                         /\ disk'[g].numPages = Allocated(f)[g].numPages
    BY <2>0, <2>2, WriteOutFree DEF WrittenBack
  <2>5. k \notin InUseKeys /\ InUseKeys' = InUseKeys \cup {k}
    BY <1>0, <2>0, <2>1, <2>4, AllocatedInUse
  <2>6. CASE /\ disk' = Allocated(f) /\ status' \in {"BUFFEREXCEEDED", "UNIXERR"}
             /\ UNCHANGED <<bufPool, hashTable, held>>
    <3>1. ASSUME NEW j \in Keys, j # k PROVE Store'[j] = Store[j]
      <4>1. Shown(j)' = Shown(j)
        BY <2>3, <2>6, <3>1 DEF Shown
      <4> QED BY <4>1, StoreIs
    <3>s. \A j \in Keys : j # k => Saved'[j] = Saved[j]
      BY <2>3, <2>6, SavedIs
    <3>2. Abstract!AllocateInVain(k)
      BY <2>5, <2>6, <3>1, <3>s DEF Abstract!AllocateInVain, Abstract!OthersKeep, Abstract!Saving
    <3> QED BY <3>2 DEF Abstract!Next
  <2>7. CASE /\ ~AllPinned /\ disk' = WrittenBack(Allocated(f))
             /\ hashTable' = [HashLessVictim EXCEPT ![k] = Victim]
             /\ held' = [held EXCEPT ![c][k] = "wrote"] /\ bufPool' = bufPool
    <3>1. ASSUME NEW j \in Keys, j # k PROVE Store'[j] = Store[j]
      <4>1. hashTable'[j] = HashLessVictim[j]
        BY <1>0, <2>7, <3>1, EvictType
      <4>2. OnDisk(Allocated(f), j) = OnDisk(disk, j)
        BY <2>3, <3>1
      <4>3. \A i \in Frames : i # Victim => bufPool'[i] = bufPool[i]
        BY <2>7
      <4>4. PICK d : d = Allocated(f)
        OBVIOUS
      <4>5. OnDisk(d, j) = OnDisk(disk, j) /\ disk' = WrittenBack(d)
        BY <2>7, <4>2, <4>4
      <4> HIDE <4>4
      <4>6. Shown(j)' = Shown(j)
        BY <1>0, <2>7, <4>1, <4>3, <4>5, EvictShown
      <4> QED BY <4>6, StoreIs
    <3>s. ASSUME NEW j \in Keys, j # k PROVE Saved'[j] \in {Saved[j], Store[j]}
      <4>1. PICK d : d = Allocated(f)
        OBVIOUS
      <4>2. OnDisk(d, j) = OnDisk(disk, j) /\ disk' = WriteOut(d, Dirty \cap {Victim})
        BY <2>3, <2>7, <3>s, <4>1 DEF WrittenBack
      <4> HIDE <4>1
      <4> QED BY <1>0, <1>back, <4>2, WrittenShown
    <3>2. Abstract!Allocate(c, k)
      BY <2>2, <2>5, <2>7, <3>1, <3>s
         DEF Abstract!Allocate, Abstract!OthersKeep, Abstract!Saving, Abstract!Holders, Holders
    <3> QED BY <3>2 DEF Abstract!Next
  <2> QED BY <1>10, <2>1, <2>6, <2>7 DEF AllocDone, mem, StrandVictim
<1>11. ASSUME Restart
       PROVE  Abstract!Next
  <2>1. PICK failed \in SUBSET Dirty :
           ("write" \in Faults \/ failed = {}) /\ disk' = WriteOut(disk, Dirty \ failed)
    BY <1>11 DEF Restart
  <2>2. /\ \A k \in Keys : hashTable'[k] = NULL
        /\ held' = [c \in Clients |-> [k \in Keys |-> "no"]]
        /\ \A c \in Clients, k \in Keys : held[c][k] # "wrote"
        /\ status' = "started"
    BY <1>11 DEF Restart, NoHash, NoHolder
  <2>3. InUseKeys' = InUseKeys
    BY <1>0, <2>1, WriteOutInUse
  <2>4. ASSUME "write" \notin Faults, NEW j \in Keys PROVE Shown(j)' = Shown(j)
    <3>1. PICK F \in SUBSET Frames : F = {i \in Frames : bufTable[i].valid}
      OBVIOUS
    <3>2. F \cap Dirty = Dirty \ failed
      BY <2>1, <2>4, <3>1 DEF Dirty
    <3>3. disk' = WriteOut(disk, F \cap Dirty) /\ \A i \in F : bufTable[i].valid
      BY <2>1, <3>1, <3>2
    <3>4. hashTable[j] # NULL => hashTable[j] \in F
      BY <1>0, <3>1 DEF IInv, HashAgrees
    <3>5. hashTable'[j] = IF hashTable[j] \in F THEN NULL ELSE hashTable[j]
      BY <2>2, <3>4
    <3>6. hashTable[j] \in F => \A c \in Clients : held[c][j] # "wrote"
      BY <2>2
    <3>7. hashTable'[j] # NULL => bufPool' = bufPool
      BY <2>2
    <3> QED BY <1>0, <3>3, <3>5, <3>6, <3>7, LeaveShown
  <2>5. "write" \notin Faults => Store' = Store
    BY <2>4, StoreIs
  <2>6. Abstract!CatchUp
    <3>1. Dirty \ failed \in SUBSET Frames /\ \A i \in Dirty \ failed : bufTable[i].valid
      BY DEF Dirty
    <3> QED BY <1>catch, <2>1, <3>1
  <2>7. Store' = Saved'
    <3>1. \A j \in Keys : Shown(j)' = OnDisk(disk', j)
      BY <2>2 DEF Shown
    <3>2. Store' = [j \in Keys |-> Shown(j)'] /\ Saved' = [j \in Keys |-> OnDisk(disk', j)]
      BY DEF Store, Shown, Saved
    <3> QED BY <3>1, <3>2
  <2>8. Abstract!Restart
    BY <2>2, <2>3, <2>5, <2>6, <2>7 DEF Abstract!Restart
  <2> QED BY <2>8 DEF Abstract!Next
<1>12. ASSUME NEW c \in Clients, NEW k \in Keys, ReadPage(c, k)
       PROVE  Abstract!Next \/ UNCHANGED <<Store, Saved, InUseKeys, held>>
  <2>1. ReadMiss(c, k) => k[2] \in InUse(k[1])
    <3>1. k[2] \in Nat /\ disk[k[1]].numPages \in Nat
      BY <1>0, KeyFacts DEF DiskType, Pages
    <3> QED BY <1>12, <3>1 DEF ReadPage, ReadMiss, Readable
  <2> QED BY <1>1, <1>2, <1>3, <1>4, <1>12, <2>1 DEF ReadPage
<1>15. ASSUME AllocFails
       PROVE  UNCHANGED <<Store, Saved, InUseKeys, held>>
  BY <1>15, <1>still DEF AllocFails, mem
<1> QED BY <1>5, <1>6, <1>7, <1>8, <1>9, <1>10, <1>11, <1>12, <1>15 DEF Next, AllocPage

(* The pool with its evictions, write-backs, flushes and restarts (buf.C) is
   one shared page store, whichever Unix calls fail: a file is only ever given
   the image its clients see, and an update of a client is lost only at a
   shutdown whose write of the page fails, or by a refused disposePage of a
   page that was not saved. *)
THEOREM PageStoreImplemented == Spec => ImplementsPageStore
<1>1. Init => CInv
  BY InitInv, CleanInit DEF CInv
<1>2. CInv /\ [Next]_vars => CInv'
  <2>1. CInv /\ Next => CInv'
    BY NextInv, CleanStep DEF CInv
  <2>2. CInv /\ UNCHANGED vars => CInv'
    BY StutterInv DEF CInv, vars, CleanIsOnDisk, OnDisk
  <2> QED BY <2>1, <2>2
<1>3. CInv /\ [Next]_vars => [Abstract!Next]_<<Store, Saved, InUseKeys, held>>
  <2>1. UNCHANGED vars => UNCHANGED <<Store, Saved, InUseKeys, held>>
    BY DEF vars, Store, Saved, InUseKeys, InUse, OnDisk
  <2> QED BY <2>1, StepMapped
<1> QED BY <1>1, <1>2, <1>3, InitMapped, PTL DEF Spec, ImplementsPageStore, Abstract!Spec, Abstract!vars

=============================================================================
