-------------------------------- MODULE UPL --------------------------------
(***************************************************************************)
(* The unpinned page list of the buffer manager (buf.h: BufDesc::next and  *)
(* prior, BufMgr::frontUPL and rearUPL): a circle of frames through a      *)
(* sentinel.  A list is a record of its next and prior links and its rear. *)
(***************************************************************************)
EXTENDS Integers

CONSTANT NumBufs   \* frames in the pool (numBufs)

ASSUME NumBufsAssumption == NumBufs \in Nat \ {0}

Frames   == 0 .. NumBufs - 1
frontUPL == NumBufs                \* the sentinel BufDesc
NULL     == -1
Nodes    == Frames \cup {frontUPL}
Links    == Nodes \cup {NULL}

(* the list the constructor threads: frame 0 at the rear *)
FreshUpl == [next  |-> [i \in Nodes |-> IF i = frontUPL THEN 0 ELSE i + 1],
             prior |-> [i \in Nodes |-> IF i = 0 THEN frontUPL ELSE i - 1],
             rear  |-> 0]

(* The edits of the unpinned list.  Unlink is the removal of allocBuf and  *)
(* of a hit in readPage; both trust the links of the frame they remove.    *)
Unlink_KeepsRear(l, i) ==   \* mutant: rearUPL still points at the frame
    [next  |-> [l.next  EXCEPT ![l.prior[i]] = l.next[i]],
     prior |-> [l.prior EXCEPT ![l.next[i]]  = l.prior[i]],
     rear  |-> l.rear]

Unlink(l, i) ==
    [next  |-> [l.next  EXCEPT ![l.prior[i]] = l.next[i]],
     prior |-> [l.prior EXCEPT ![l.next[i]]  = l.prior[i]],
     rear  |-> IF l.rear = i THEN l.next[i] ELSE l.rear]

(* next = prior = NULL, by Clear, Set or readPage *)
Detach(l, i) ==
    [next  |-> [l.next  EXCEPT ![i] = NULL],
     prior |-> [l.prior EXCEPT ![i] = NULL],
     rear  |-> l.rear]

LinkFront_OneWay(l, i) ==   \* mutant: the frame behind is not told
    [next  |-> [l.next  EXCEPT ![i] = frontUPL],
     prior |-> [l.prior EXCEPT ![i] = l.prior[frontUPL], ![frontUPL] = i],
     rear  |-> IF l.rear = frontUPL THEN i ELSE l.rear]

LinkFront(l, i) ==
    [next  |-> [l.next  EXCEPT ![i] = frontUPL, ![l.prior[frontUPL]] = i],
     prior |-> [l.prior EXCEPT ![i] = l.prior[frontUPL], ![frontUPL] = i],
     rear  |-> IF l.rear = frontUPL THEN i ELSE l.rear]

LinkRear(l, i) ==
    [next  |-> [l.next  EXCEPT ![i] = l.rear, ![l.prior[l.rear]] = i],
     prior |-> [l.prior EXCEPT ![i] = l.prior[l.rear], ![l.rear] = i],
     rear  |-> i]

(* the three ASSERTs that follow every edit *)
Asserts(l) ==
    /\ l.next[l.rear] # NULL
    /\ l.prior[l.rear] = frontUPL
    /\ l.next[frontUPL] = l.rear

UplType == [next : [Nodes -> Links], prior : [Nodes -> Links], rear : Nodes]

(* From the sentinel next leads through all of S: no fewer frames are closed
   under it *)
OneCircle(l, S) ==
    \A T \in SUBSET S :
       (\A x \in T \cup {frontUPL} : l.next[x] \in T \cup {frontUPL}) => T = S

(* l links the sentinel and the frames of S into one circle, next and prior
   each undoing the other *)
Ring(l, S) ==
    /\ \A x \in S \cup {frontUPL} :
          /\ l.next[x] \in S \cup {frontUPL} /\ l.prior[x] \in S \cup {frontUPL}
          /\ l.prior[l.next[x]] = x /\ l.next[l.prior[x]] = x
    /\ l.next[frontUPL] = l.rear
    /\ OneCircle(l, S)
=============================================================================
