-------------------------- MODULE OpenFiles_proofs --------------------------
(***************************************************************************)
(* Theorems about the table of open files.  The invariant counts: a lost   *)
(* client leaves at least as many opens behind as pins, so that a file has *)
(* no pinned page left when its last user closes it.                       *)
(***************************************************************************)
EXTENDS OpenFiles, FiniteSetTheorems, TLAPS

Users(a)   == {c \in Clients : handle[c] = a}
Pinning(a) == {c \in Clients : handle[c] = a /\ pins[c]}
U(a) == Cardinality(Users(a))
P(a) == Cardinality(Pinning(a))

(* open counts cover the users, pin counts those who pinned, and there are
   no more lost pins than lost opens *)
Counts ==
    \A a \in Addrs : /\ obj[a].openCnt >= U(a)
                     /\ frame[a].pinCnt >= P(a)
                     /\ frame[a].pinCnt - P(a) <= obj[a].openCnt - U(a)

PinsOpen == \A c \in Clients : pins[c] => handle[c] # NoFile

IInv == TypeOK /\ TableSound /\ Counts /\ PinsOpen

ObjType   == {NoObj} \cup [name : Names, openCnt : 1 .. MaxOpen]
FrameType == {NoFrame} \cup [of : Names, pinCnt : 0 .. MaxOpen, dirty : BOOLEAN]

(* what an object or a frame is, told by one field *)
LEMMA ObjFacts ==
  ASSUME NEW o \in ObjType
  PROVE  /\ o.openCnt \in 0 .. MaxOpen
         /\ o = NoObj <=> o.openCnt = 0
         /\ o = NoObj <=> o.name \notin Names
         /\ o # NoObj => o \in [name : Names, openCnt : 1 .. MaxOpen]
<1>1. CASE o = NoObj
  BY <1>1, NamesAssumption, MaxOpenAssumption DEF NoObj
<1>2. CASE o \in [name : Names, openCnt : 1 .. MaxOpen]
  BY <1>2, NamesAssumption, MaxOpenAssumption DEF NoObj
<1> QED BY <1>1, <1>2 DEF ObjType

LEMMA FrameFacts ==
  ASSUME NEW f \in FrameType
  PROVE  /\ f.pinCnt \in 0 .. MaxOpen /\ f.dirty \in BOOLEAN
         /\ f = NoFrame <=> f.of \notin Names
         /\ f = NoFrame => f.pinCnt = 0 /\ ~f.dirty
         /\ f # NoFrame => f \in [of : Names, pinCnt : 0 .. MaxOpen, dirty : BOOLEAN]
<1>1. CASE f = NoFrame
  BY <1>1, NamesAssumption, MaxOpenAssumption DEF NoFrame
<1>2. CASE f \in [of : Names, pinCnt : 0 .. MaxOpen, dirty : BOOLEAN]
  BY <1>2, NamesAssumption, MaxOpenAssumption DEF NoFrame
<1> QED BY <1>1, <1>2 DEF FrameType

LEMMA Finite ==
  ASSUME NEW a
  PROVE  IsFiniteSet(Users(a)) /\ IsFiniteSet(Pinning(a)) /\ U(a) \in Nat /\ P(a) \in Nat
<1>1. Users(a) \in SUBSET Clients /\ Pinning(a) \in SUBSET Clients
  BY DEF Users, Pinning
<1>2. IsFiniteSet(Users(a)) /\ IsFiniteSet(Pinning(a))
  BY <1>1, ClientsAssumption, FS_Subset
<1> QED BY <1>2, FS_CardinalityType DEF U, P

-----------------------------------------------------------------------------
(* How the users of a file and those who pinned it are counted *)

LEMMA Opened ==
  ASSUME handle \in [Clients -> Addrs \cup {NoFile}],
         NEW c \in Clients, NEW a \in Addrs, handle[c] = NoFile, ~pins[c],
         handle' = [handle EXCEPT ![c] = a], pins' = pins, NEW b \in Addrs
  PROVE  U(b)' = (IF b = a THEN U(b) + 1 ELSE U(b)) /\ P(b)' = P(b)
<1>1. c \notin Users(b) /\ Users(b)' = IF b = a THEN Users(b) \cup {c} ELSE Users(b)
  BY NoFileAssumption DEF Users
<1>2. Pinning(b)' = Pinning(b)
  BY NoFileAssumption DEF Pinning
<1> QED BY <1>1, <1>2, Finite, FS_AddElement DEF U, P

LEMMA Lost ==
  ASSUME handle \in [Clients -> Addrs \cup {NoFile}], pins \in [Clients -> BOOLEAN],
         NEW c \in Clients, NEW a \in Addrs, handle[c] = a,
         handle' = [handle EXCEPT ![c] = NoFile], pins' = [pins EXCEPT ![c] = FALSE],
         NEW b \in Addrs
  PROVE  /\ U(b)' = IF b = a THEN U(b) - 1 ELSE U(b)
         /\ P(b)' = IF b = a /\ pins[c] THEN P(b) - 1 ELSE P(b)
         /\ b = a => U(b) >= 1
         /\ b = a /\ pins[c] => P(b) >= 1
<1>1. (c \in Users(b) <=> b = a) /\ Users(b)' = Users(b) \ {c}
  BY NoFileAssumption DEF Users
<1>2. (c \in Pinning(b) <=> b = a /\ pins[c]) /\ Pinning(b)' = Pinning(b) \ {c}
  BY NoFileAssumption DEF Pinning
<1>3. /\ c \in Users(b) => U(b) # 0
      /\ c \in Pinning(b) => P(b) # 0
  BY Finite, FS_EmptySet DEF U, P
<1>4. /\ U(b)' = IF c \in Users(b) THEN U(b) - 1 ELSE U(b)
      /\ P(b)' = IF c \in Pinning(b) THEN P(b) - 1 ELSE P(b)
  <2>1. Cardinality(Users(b) \ {c}) = IF c \in Users(b) THEN U(b) - 1 ELSE U(b)
    BY Finite, FS_RemoveElement DEF U
  <2>2. Cardinality(Pinning(b) \ {c}) = IF c \in Pinning(b) THEN P(b) - 1 ELSE P(b)
    BY Finite, FS_RemoveElement DEF P
  <2>3. U(b)' = Cardinality(Users(b) \ {c}) /\ P(b)' = Cardinality(Pinning(b) \ {c})
    BY <1>1, <1>2 DEF U, P
  <2> QED BY <2>1, <2>2, <2>3
<1> QED BY <1>1, <1>2, <1>3, <1>4, Finite

LEMMA Repinned ==
  ASSUME handle \in [Clients -> Addrs \cup {NoFile}], pins \in [Clients -> BOOLEAN],
         NEW c \in Clients, NEW a \in Addrs, handle[c] = a, NEW v \in BOOLEAN, pins[c] = ~v,
         handle' = handle, pins' = [pins EXCEPT ![c] = v], NEW b \in Addrs
  PROVE  /\ U(b)' = U(b)
         /\ P(b)' = IF b = a THEN (IF v THEN P(b) + 1 ELSE P(b) - 1) ELSE P(b)
         /\ b = a /\ ~v => P(b) >= 1
<1>1. Users(b)' = Users(b)
  BY DEF Users
<1>2. (c \in Pinning(b) <=> b = a /\ ~v)
  BY DEF Pinning
<1>3. CASE b # a
  <2>1. Pinning(b)' = Pinning(b)
    BY <1>3 DEF Pinning
  <2> QED BY <1>1, <1>3, <2>1 DEF U, P
<1>4. CASE b = a /\ v
  <2>1. Pinning(b)' = Pinning(b) \cup {c}
    BY <1>4 DEF Pinning
  <2>2. Cardinality(Pinning(b) \cup {c}) = P(b) + 1
    BY <1>2, <1>4, Finite, FS_AddElement DEF P
  <2>3. P(b)' = P(b) + 1
    BY <2>1, <2>2 DEF P
  <2> QED BY <1>1, <1>4, <2>3 DEF U
<1>5. CASE b = a /\ ~v
  <2>1. Pinning(b)' = Pinning(b) \ {c}
    BY <1>5 DEF Pinning
  <2>2. P(b) # 0
    BY <1>2, <1>5, Finite, FS_EmptySet DEF P
  <2>3. P(b) >= 1
    BY <2>2, Finite
  <2>4. P(b)' = P(b) - 1
    BY <1>2, <1>5, <2>1, Finite, FS_RemoveElement, ZenonT(60) DEF P
  <2> QED BY <1>1, <1>5, <2>3, <2>4 DEF U
<1> QED BY <1>3, <1>4, <1>5

(* a user of a file that has not pinned it is one more than those who have *)
LEMMA NotPinning ==
  ASSUME NEW c \in Clients, NEW a \in Addrs, handle[c] = a, ~pins[c]
  PROVE  U(a) >= 1 /\ P(a) <= U(a) - 1
<1>1. c \in Users(a) /\ Pinning(a) \in SUBSET (Users(a) \ {c})
  BY DEF Users, Pinning
<1>2. U(a) # 0 /\ Cardinality(Users(a) \ {c}) = U(a) - 1 /\ IsFiniteSet(Users(a) \ {c})
  BY <1>1, Finite, FS_RemoveElement, FS_EmptySet DEF U
<1>3. P(a) <= Cardinality(Users(a) \ {c})
  BY <1>1, <1>2, FS_Subset DEF P
<1> QED BY <1>2, <1>3, Finite

(* who has a file open has a live object *)
LEMMA Live ==
  ASSUME IInv, NEW c \in Clients, handle[c] # NoFile
  PROVE  handle[c] \in Addrs /\ obj[handle[c]] # NoObj /\ U(handle[c]) >= 1
<1> DEFINE a == handle[c]
<1>1. a \in Addrs /\ c \in Users(a) /\ obj[a] \in ObjType
  BY DEF IInv, TypeOK, ObjType, Users
<1>2. U(a) # 0 /\ U(a) \in Nat
  BY <1>1, Finite, FS_EmptySet DEF U
<1>3. obj[a].openCnt >= U(a)
  BY <1>1 DEF IInv, Counts
<1> HIDE DEF a
<1>4. obj[a].openCnt # 0
  BY <1>1, <1>2, <1>3, ObjFacts
<1> QED BY <1>1, <1>2, <1>4, ObjFacts DEF a

-----------------------------------------------------------------------------
(* The invariant *)

LEMMA InitInv == Init => IInv
<1> SUFFICES ASSUME Init PROVE IInv
  OBVIOUS
<1>1. TypeOK /\ PinsOpen
  BY DEF Init, TypeOK, PinsOpen, NoTable, NoObjs, NoHandle, NoPins, NoFrames
<1>2. TableSound
  BY NoFileAssumption DEF Init, TableSound, NoTable, NoObjs
<1>3. ASSUME NEW a \in Addrs
      PROVE  U(a) = 0 /\ P(a) = 0 /\ obj[a].openCnt = 0 /\ frame[a].pinCnt = 0
  <2>1. Users(a) = {} /\ Pinning(a) = {}
    BY NoFileAssumption DEF Init, Users, Pinning, NoHandle, NoPins
  <2>2. U(a) = 0 /\ P(a) = 0
    BY <2>1, FS_EmptySet DEF U, P
  <2> QED BY <2>2 DEF Init, NoObjs, NoFrames, NoObj, NoFrame
<1> QED BY <1>1, <1>2, <1>3 DEF IInv, Counts

(* steps that open and pin nothing leave the counts alone *)
LEMMA SameCounts ==
  ASSUME IInv, UNCHANGED <<obj, handle, pins, frame>> PROVE Counts' /\ PinsOpen'
BY DEF IInv, Counts, PinsOpen, U, P, Users, Pinning

LEMMA CreateFileInv == ASSUME IInv, phase = "running", NEW n \in Names, CreateFile(n) PROVE IInv'
<1>1. UNCHANGED <<table, obj, handle, pins, frame, phase>> /\ exists' = exists \cup {n}
  BY DEF CreateFile
<1>2. TypeOK' /\ TableSound'
  BY <1>1 DEF IInv, TypeOK, TableSound
<1> QED BY <1>1, <1>2, SameCounts DEF IInv

LEMMA DestroyFileInv == ASSUME IInv, phase = "running", NEW n \in Names, DestroyFile(n) PROVE IInv'
<1>1. UNCHANGED <<table, obj, handle, pins, frame, phase>> /\ exists' = exists \ {n} /\ table[n] = NoFile
  BY DEF DestroyFile, IsOpen
<1>2. TypeOK' /\ TableSound'
  BY <1>1, NoFileAssumption DEF IInv, TypeOK, TableSound
<1> QED BY <1>1, <1>2, SameCounts DEF IInv

LEMMA OpenAgainInv ==
  ASSUME IInv, phase = "running", NEW c \in Clients, NEW n \in Names, OpenAgain(c, n) PROVE IInv'
<1> DEFINE a == table[n]
<1>1. /\ handle[c] = NoFile /\ a \in Addrs /\ obj[a].openCnt < MaxOpen
      /\ obj' = [obj EXCEPT ![a].openCnt = obj[a].openCnt + 1]
      /\ handle' = [handle EXCEPT ![c] = a]
      /\ UNCHANGED <<exists, table, pins, frame, phase>>
  BY DEF OpenAgain, IsOpen, IInv, TypeOK
<1>2. obj[a] # NoObj /\ obj[a] \in ObjType
  BY <1>1 DEF IInv, TableSound, TypeOK, ObjType
<1> HIDE DEF a
<1>3. obj[a] \in [name : Names, openCnt : 1 .. MaxOpen]
  BY <1>2, ObjFacts
<1>4. /\ obj'[a] \in [name : Names, openCnt : 1 .. MaxOpen]
      /\ obj'[a].name = obj[a].name /\ obj'[a].openCnt = obj[a].openCnt + 1
      /\ obj'[a] # NoObj
      /\ \A b \in Addrs : b # a => obj'[b] = obj[b]
  <2>1. obj'[a] = [obj[a] EXCEPT !.openCnt = obj[a].openCnt + 1]
    BY <1>1 DEF IInv, TypeOK
  <2>2. obj'[a] \in [name : Names, openCnt : 1 .. MaxOpen]
    BY <1>1, <1>3, <2>1, MaxOpenAssumption
  <2>3. obj'[a].openCnt # 0 /\ obj'[a] \in ObjType
    BY <2>2 DEF ObjType
  <2> QED BY <1>1, <1>3, <2>1, <2>2, <2>3, ObjFacts
<1>5. TypeOK'
  <2>1. obj' \in [Addrs -> ObjType]
    BY <1>1, <1>4 DEF IInv, TypeOK, ObjType
  <2> QED BY <1>1, <2>1 DEF IInv, TypeOK, ObjType
<1>6. TableSound'
  BY <1>1, <1>2, <1>4 DEF IInv, TableSound
<1>7. Counts'
  <2> SUFFICES ASSUME NEW b \in Addrs
               PROVE  /\ obj'[b].openCnt >= U(b)' /\ frame'[b].pinCnt >= P(b)'
                      /\ frame'[b].pinCnt - P(b)' <= obj'[b].openCnt - U(b)'
    BY DEF Counts
  <2>1. U(b)' = (IF b = a THEN U(b) + 1 ELSE U(b)) /\ P(b)' = P(b)
    BY <1>1, Opened DEF IInv, TypeOK, PinsOpen
  <2>2. obj'[b].openCnt = IF b = a THEN obj[b].openCnt + 1 ELSE obj[b].openCnt
    BY <1>4
  <2>3. obj[b].openCnt \in Nat /\ frame[b].pinCnt \in Nat
    BY ObjFacts, FrameFacts DEF IInv, TypeOK, ObjType, FrameType
  <2> QED BY <1>1, <2>1, <2>2, <2>3, Finite DEF IInv, Counts
<1>8. PinsOpen'
  BY <1>1, NoFileAssumption DEF IInv, PinsOpen, TypeOK
<1> QED BY <1>5, <1>6, <1>7, <1>8 DEF IInv

LEMMA OpenNewInv ==
  ASSUME IInv, phase = "running", NEW c \in Clients, NEW n \in Names, OpenNew(c, n) PROVE IInv'
<1>1. PICK a \in Addrs : /\ obj[a] = NoObj
                         /\ obj' = [obj EXCEPT ![a] = [name |-> n, openCnt |-> 1]]
                         /\ table' = Inserted(n, a)
                         /\ handle' = [handle EXCEPT ![c] = a]
  BY DEF OpenNew
<1>2. handle[c] = NoFile /\ table[n] = NoFile /\ n \in exists /\ UNCHANGED <<exists, pins, frame, phase>>
  BY DEF OpenNew, IsOpen
<1>3. [name |-> n, openCnt |-> 1] \in [name : Names, openCnt : 1 .. MaxOpen]
  BY MaxOpenAssumption
<1>4. [name |-> n, openCnt |-> 1] # NoObj
  BY <1>3, ObjFacts DEF ObjType
<1>5. TypeOK'
  BY <1>1, <1>2, <1>3 DEF IInv, TypeOK, Inserted
<1>6. TableSound'
  <2> SUFFICES ASSUME NEW m \in Names, NEW b \in Addrs
               PROVE  /\ table'[m] = b <=> obj'[b] # NoObj /\ obj'[b].name = m
                      /\ table'[m] = b => m \in exists'
    BY DEF TableSound
  <2>1. /\ table[m] = b <=> obj[b] # NoObj /\ obj[b].name = m
        /\ table[m] = b => m \in exists
    BY DEF IInv, TableSound
  <2>2. /\ table'[m] = IF m = n THEN a ELSE table[m]
        /\ obj'[b] = IF b = a THEN [name |-> n, openCnt |-> 1] ELSE obj[b]
    BY <1>1 DEF IInv, TypeOK, Inserted
  <2> QED BY <1>1, <1>2, <1>4, <2>1, <2>2, NoFileAssumption
<1>7. Counts'
  <2> SUFFICES ASSUME NEW b \in Addrs
               PROVE  /\ obj'[b].openCnt >= U(b)' /\ frame'[b].pinCnt >= P(b)'
                      /\ frame'[b].pinCnt - P(b)' <= obj'[b].openCnt - U(b)'
    BY DEF Counts
  <2>1. U(b)' = (IF b = a THEN U(b) + 1 ELSE U(b)) /\ P(b)' = P(b)
    BY <1>1, <1>2, Opened DEF IInv, TypeOK, PinsOpen
  <2>2. obj'[b].openCnt = IF b = a THEN obj[b].openCnt + 1 ELSE obj[b].openCnt
    BY <1>1 DEF IInv, TypeOK, NoObj
  <2>3. obj[b].openCnt \in Nat /\ frame[b].pinCnt \in Nat
    BY ObjFacts, FrameFacts DEF IInv, TypeOK, ObjType, FrameType
  <2> QED BY <1>2, <2>1, <2>2, <2>3, Finite DEF IInv, Counts
<1>8. PinsOpen'
  BY <1>1, <1>2, NoFileAssumption DEF IInv, PinsOpen, TypeOK
<1> QED BY <1>5, <1>6, <1>7, <1>8 DEF IInv

LEMMA PinInv ==
  ASSUME IInv, phase = "running", NEW c \in Clients, Pin(c) PROVE IInv'
<1> DEFINE a == handle[c]
<1>1. /\ a \in Addrs /\ ~pins[c] /\ frame[a].pinCnt < MaxOpen
      /\ frame' = [frame EXCEPT ![a] = IF frame[a] = NoFrame
                                       THEN [of |-> obj[a].name, pinCnt |-> 1, dirty |-> FALSE]
                                       ELSE [frame[a] EXCEPT !.pinCnt = frame[a].pinCnt + 1]]
      /\ pins' = [pins EXCEPT ![c] = TRUE]
      /\ UNCHANGED <<exists, table, obj, handle, phase>>
  BY Live DEF Pin
<1>2. obj[a].name \in Names /\ frame[a] \in FrameType /\ U(a) >= 1
  BY <1>1, Live, ObjFacts, NoFileAssumption DEF IInv, TypeOK, ObjType, FrameType
<1> HIDE DEF a
<1>3. frame'[a] \in FrameType /\ frame'[a].pinCnt = frame[a].pinCnt + 1
  <2>1. CASE frame[a] = NoFrame
    <3>1. frame'[a] = [of |-> obj[a].name, pinCnt |-> 1, dirty |-> FALSE]
      BY <1>1, <2>1 DEF IInv, TypeOK
    <3> QED BY <1>2, <2>1, <3>1, MaxOpenAssumption DEF FrameType, NoFrame
  <2>2. CASE frame[a] # NoFrame
    <3>1. frame'[a] = [frame[a] EXCEPT !.pinCnt = frame[a].pinCnt + 1]
      BY <1>1, <2>2 DEF IInv, TypeOK
    <3>2. frame[a] \in [of : Names, pinCnt : 0 .. MaxOpen, dirty : BOOLEAN]
      BY <1>2, <2>2, FrameFacts
    <3> QED BY <1>1, <3>1, <3>2, MaxOpenAssumption DEF FrameType
  <2> QED BY <2>1, <2>2
<1>4. \A b \in Addrs : b # a => frame'[b] = frame[b]
  BY <1>1 DEF IInv, TypeOK
<1>5. TypeOK'
  <2>1. frame' \in [Addrs -> FrameType]
    BY <1>1, <1>3 DEF IInv, TypeOK, FrameType
  <2>2. pins' \in [Clients -> BOOLEAN]
    BY <1>1 DEF IInv, TypeOK
  <2> QED BY <1>1, <2>1, <2>2 DEF IInv, TypeOK, FrameType
<1>6. TableSound'
  BY <1>1 DEF IInv, TableSound
<1>7. Counts'
  <2> SUFFICES ASSUME NEW b \in Addrs
               PROVE  /\ obj'[b].openCnt >= U(b)' /\ frame'[b].pinCnt >= P(b)'
                      /\ frame'[b].pinCnt - P(b)' <= obj'[b].openCnt - U(b)'
    BY DEF Counts
  <2>1. U(b)' = U(b) /\ P(b)' = IF b = a THEN P(b) + 1 ELSE P(b)
    BY <1>1, Repinned DEF IInv, TypeOK, a
  <2>2. frame'[b].pinCnt = IF b = a THEN frame[b].pinCnt + 1 ELSE frame[b].pinCnt
    BY <1>3, <1>4
  <2>3. obj[b].openCnt \in Nat /\ frame[b].pinCnt \in Nat
    BY ObjFacts, FrameFacts DEF IInv, TypeOK, ObjType, FrameType
  <2> QED BY <1>1, <2>1, <2>2, <2>3, Finite DEF IInv, Counts
<1>8. PinsOpen'
  BY <1>1, NoFileAssumption DEF IInv, PinsOpen, TypeOK, a
<1> QED BY <1>5, <1>6, <1>7, <1>8 DEF IInv

(* a page somebody has pinned is there to be unpinned *)
LEMMA UnpinInv ==
  ASSUME IInv, phase = "running", NEW c \in Clients, NEW d \in BOOLEAN, Unpin(c, d) PROVE IInv'
<1> DEFINE a == handle[c]
<1>1. /\ a \in Addrs /\ pins[c] = TRUE
      /\ frame' = [frame EXCEPT ![a] = [of |-> frame[a].of, pinCnt |-> frame[a].pinCnt - 1,
                                        dirty |-> frame[a].dirty \/ d]]
      /\ pins' = [pins EXCEPT ![c] = FALSE]
      /\ UNCHANGED <<exists, table, obj, handle, phase>>
  BY DEF Unpin, IInv, PinsOpen, TypeOK
<1>2. ASSUME NEW b \in Addrs
      PROVE  /\ U(b)' = U(b) /\ P(b)' = IF b = a THEN P(b) - 1 ELSE P(b)
             /\ b = a => P(b) >= 1
  BY <1>1, Repinned DEF IInv, TypeOK
<1> HIDE DEF a
<1>3. frame[a] \in FrameType /\ frame[a].pinCnt >= P(a) /\ P(a) >= 1
  BY <1>1, <1>2 DEF IInv, TypeOK, FrameType, Counts
<1>4. frame[a] \in [of : Names, pinCnt : 0 .. MaxOpen, dirty : BOOLEAN] /\ frame[a].pinCnt >= 1
  BY <1>3, FrameFacts, Finite
<1>5. frame'[a] \in FrameType /\ frame'[a].pinCnt = frame[a].pinCnt - 1
  BY <1>1, <1>4, MaxOpenAssumption DEF IInv, TypeOK, FrameType
<1>6. \A b \in Addrs : b # a => frame'[b] = frame[b]
  BY <1>1 DEF IInv, TypeOK
<1>7. TypeOK'
  <2>1. frame' \in [Addrs -> FrameType]
    BY <1>1, <1>5 DEF IInv, TypeOK, FrameType
  <2>2. pins' \in [Clients -> BOOLEAN]
    BY <1>1 DEF IInv, TypeOK
  <2> QED BY <1>1, <2>1, <2>2 DEF IInv, TypeOK, FrameType
<1>8. TableSound'
  BY <1>1 DEF IInv, TableSound
<1>9. Counts'
  <2> SUFFICES ASSUME NEW b \in Addrs
               PROVE  /\ obj'[b].openCnt >= U(b)' /\ frame'[b].pinCnt >= P(b)'
                      /\ frame'[b].pinCnt - P(b)' <= obj'[b].openCnt - U(b)'
    BY DEF Counts
  <2>1. frame'[b].pinCnt = IF b = a THEN frame[b].pinCnt - 1 ELSE frame[b].pinCnt
    BY <1>5, <1>6
  <2>2. obj[b].openCnt \in Nat /\ frame[b].pinCnt \in Nat
    BY ObjFacts, FrameFacts DEF IInv, TypeOK, ObjType, FrameType
  <2> QED BY <1>1, <1>2, <2>1, <2>2, Finite DEF IInv, Counts
<1>10. PinsOpen'
  BY <1>1 DEF IInv, PinsOpen, TypeOK
<1> QED BY <1>7, <1>8, <1>9, <1>10 DEF IInv

LEMMA EvictInv ==
  ASSUME IInv, phase = "running", NEW a \in Addrs, Evict(a) PROVE IInv'
<1>1. /\ frame[a].pinCnt = 0 /\ frame' = [frame EXCEPT ![a] = NoFrame]
      /\ phase' \in {"running", "undefined"}
      /\ UNCHANGED <<exists, table, obj, handle, pins>>
  BY DEF Evict, IInv, TypeOK
<1>2. TypeOK' /\ TableSound' /\ PinsOpen'
  BY <1>1 DEF IInv, TypeOK, TableSound, PinsOpen
<1>3. \A b \in Addrs : frame'[b].pinCnt = frame[b].pinCnt
  BY <1>1 DEF IInv, TypeOK, NoFrame
<1>4. Counts'
  BY <1>1, <1>3 DEF IInv, Counts, U, P, Users, Pinning
<1> QED BY <1>2, <1>4 DEF IInv

LEMMA CloseSharedInv ==
  ASSUME IInv, phase = "running", NEW c \in Clients, CloseShared(c) PROVE IInv'
<1> DEFINE a == handle[c]
<1>1. /\ a \in Addrs /\ ~pins[c] /\ obj[a].openCnt > 1
      /\ obj' = [obj EXCEPT ![a].openCnt = obj[a].openCnt - 1]
      /\ handle' = [handle EXCEPT ![c] = NoFile]
      /\ UNCHANGED <<exists, table, pins, frame, phase>>
  BY Live DEF CloseShared
<1>2. pins' = [pins EXCEPT ![c] = FALSE]
  BY <1>1 DEF IInv, TypeOK
<1>3. ASSUME NEW b \in Addrs
      PROVE  U(b)' = (IF b = a THEN U(b) - 1 ELSE U(b)) /\ P(b)' = P(b)
  BY <1>1, <1>2, Lost DEF IInv, TypeOK
<1>4. obj[a] \in [name : Names, openCnt : 1 .. MaxOpen]
  BY <1>1, Live, ObjFacts, NoFileAssumption DEF IInv, TypeOK, ObjType
<1> HIDE DEF a
<1>5. /\ obj'[a] \in ObjType /\ obj'[a] # NoObj /\ obj[a] # NoObj
      /\ obj'[a].name = obj[a].name /\ obj'[a].openCnt = obj[a].openCnt - 1
  <2>1. obj'[a] = [obj[a] EXCEPT !.openCnt = obj[a].openCnt - 1]
    BY <1>1 DEF IInv, TypeOK
  <2>2. obj'[a] \in [name : Names, openCnt : 1 .. MaxOpen]
    BY <1>1, <1>4, <2>1, MaxOpenAssumption
  <2> QED BY <1>4, <2>1, <2>2, ObjFacts DEF ObjType
<1>6. \A b \in Addrs : b # a => obj'[b] = obj[b]
  BY <1>1 DEF IInv, TypeOK
<1>7. TypeOK'
  <2>1. obj' \in [Addrs -> ObjType]
    BY <1>1, <1>5 DEF IInv, TypeOK, ObjType
  <2> QED BY <1>1, <2>1 DEF IInv, TypeOK, ObjType
<1>8. TableSound'
  BY <1>1, <1>5, <1>6 DEF IInv, TableSound
<1>9. Counts'
  <2> SUFFICES ASSUME NEW b \in Addrs
               PROVE  /\ obj'[b].openCnt >= U(b)' /\ frame'[b].pinCnt >= P(b)'
                      /\ frame'[b].pinCnt - P(b)' <= obj'[b].openCnt - U(b)'
    BY DEF Counts
  <2>1. obj'[b].openCnt = IF b = a THEN obj[b].openCnt - 1 ELSE obj[b].openCnt
    BY <1>5, <1>6
  <2>2. obj[b].openCnt \in Nat /\ frame[b].pinCnt \in Nat
    BY ObjFacts, FrameFacts DEF IInv, TypeOK, ObjType, FrameType
  <2> QED BY <1>1, <1>3, <2>1, <2>2, Finite DEF IInv, Counts
<1>10. PinsOpen'
  BY <1>1 DEF IInv, PinsOpen, TypeOK
<1> QED BY <1>7, <1>8, <1>9, <1>10 DEF IInv

(* the last user to close a file leaves no page of it pinned *)
LEMMA LastClose ==
  ASSUME IInv, NEW c \in Clients, CloseLast(c)
  PROVE  /\ handle[c] \in Addrs /\ frame[handle[c]].pinCnt = 0
         /\ U(handle[c]) = 1 /\ P(handle[c]) = 0
<1> DEFINE a == handle[c]
<1>1. a \in Addrs /\ ~pins[c] /\ obj[a].openCnt = 1
  BY Live DEF CloseLast
<1>2. U(a) >= 1 /\ P(a) <= U(a) - 1
  BY <1>1, NotPinning
<1>3. obj[a].openCnt >= U(a) /\ frame[a].pinCnt >= P(a)
      /\ frame[a].pinCnt - P(a) <= obj[a].openCnt - U(a)
  BY <1>1 DEF IInv, Counts
<1>4. frame[a].pinCnt \in Nat
  BY <1>1, FrameFacts DEF IInv, TypeOK, FrameType
<1> HIDE DEF a
<1> QED BY <1>1, <1>2, <1>3, <1>4, Finite DEF a

LEMMA CloseLastInv ==
  ASSUME IInv, phase = "running", NEW c \in Clients, CloseLast(c) PROVE IInv'
<1> DEFINE a == handle[c]
<1>1. /\ a \in Addrs /\ ~pins[c] /\ obj[a].openCnt = 1
      /\ frame' = [frame EXCEPT ![a] = NoFrame] \/ frame' = frame
      /\ table' = Erased(obj[a].name)
      /\ obj' = [obj EXCEPT ![a] = NoObj]
      /\ handle' = [handle EXCEPT ![c] = NoFile]
      /\ UNCHANGED <<exists, pins, phase>>
  BY Live DEF CloseLast
<1>2. pins' = [pins EXCEPT ![c] = FALSE]
  BY <1>1 DEF IInv, TypeOK
<1>3. ASSUME NEW b \in Addrs
      PROVE  U(b)' = (IF b = a THEN U(b) - 1 ELSE U(b)) /\ P(b)' = P(b)
  BY <1>1, <1>2, Lost DEF IInv, TypeOK
<1>4. frame[a].pinCnt = 0 /\ U(a) = 1 /\ P(a) = 0 /\ obj[a] # NoObj
  BY <1>1, LastClose, Live, NoFileAssumption
<1> HIDE DEF a
<1>5. \A b \in Addrs : frame'[b].pinCnt = frame[b].pinCnt
  BY <1>1, <1>4 DEF IInv, TypeOK, NoFrame
<1>6. TypeOK'
  <2>1. frame' \in [Addrs -> FrameType] /\ obj' \in [Addrs -> ObjType]
    BY <1>1 DEF IInv, TypeOK, FrameType, ObjType
  <2>2. table' \in [Names -> Addrs \cup {NoFile}] /\ handle' \in [Clients -> Addrs \cup {NoFile}]
    BY <1>1 DEF IInv, TypeOK, Erased
  <2> QED BY <1>1, <2>1, <2>2 DEF IInv, TypeOK, FrameType, ObjType
<1>7. TableSound'
  <2> SUFFICES ASSUME NEW m \in Names, NEW b \in Addrs
               PROVE  /\ table'[m] = b <=> obj'[b] # NoObj /\ obj'[b].name = m
                      /\ table'[m] = b => m \in exists'
    BY DEF TableSound
  <2>1. \A x \in Addrs : table[m] = x <=> obj[x] # NoObj /\ obj[x].name = m
    BY DEF IInv, TableSound
  <2>2. table[m] = b => m \in exists
    BY DEF IInv, TableSound
  <2>3. /\ table'[m] = IF m = obj[a].name THEN NoFile ELSE table[m]
        /\ obj'[b] = IF b = a THEN NoObj ELSE obj[b]
    BY <1>1 DEF IInv, TypeOK, Erased
  <2> QED BY <1>1, <1>4, <2>1, <2>2, <2>3, NoFileAssumption
<1>8. Counts'
  <2> SUFFICES ASSUME NEW b \in Addrs
               PROVE  /\ obj'[b].openCnt >= U(b)' /\ frame'[b].pinCnt >= P(b)'
                      /\ frame'[b].pinCnt - P(b)' <= obj'[b].openCnt - U(b)'
    BY DEF Counts
  <2>1. obj'[b].openCnt = IF b = a THEN 0 ELSE obj[b].openCnt
    BY <1>1 DEF IInv, TypeOK, NoObj
  <2>2. obj[b].openCnt \in Nat /\ frame[b].pinCnt \in Nat
    BY ObjFacts, FrameFacts DEF IInv, TypeOK, ObjType, FrameType
  <2> QED BY <1>3, <1>4, <1>5, <2>1, <2>2, Finite, SMTT(60) DEF IInv, Counts
<1>9. PinsOpen'
  BY <1>1 DEF IInv, PinsOpen, TypeOK
<1> QED BY <1>6, <1>7, <1>8, <1>9 DEF IInv

LEMMA LeakInv ==
  ASSUME IInv, phase = "running", NEW c \in Clients, Leak(c) PROVE IInv'
<1> DEFINE a == handle[c]
<1>1. /\ a \in Addrs
      /\ handle' = [handle EXCEPT ![c] = NoFile]
      /\ pins' = [pins EXCEPT ![c] = FALSE]
      /\ UNCHANGED <<exists, table, obj, frame, phase>>
  BY Live DEF Leak
<1>2. ASSUME NEW b \in Addrs
      PROVE  /\ U(b)' = IF b = a THEN U(b) - 1 ELSE U(b)
             /\ P(b)' = IF b = a /\ pins[c] THEN P(b) - 1 ELSE P(b)
             /\ b = a => U(b) >= 1
             /\ b = a /\ pins[c] => P(b) >= 1
  BY <1>1, Lost DEF IInv, TypeOK
<1>3. ~pins[c] => P(a) <= U(a) - 1
  BY <1>1, NotPinning
<1> HIDE DEF a
<1>4. TypeOK'
  BY <1>1 DEF IInv, TypeOK
<1>5. TableSound'
  BY <1>1 DEF IInv, TableSound
<1>6. Counts'
  <2> SUFFICES ASSUME NEW b \in Addrs
               PROVE  /\ obj[b].openCnt >= U(b)' /\ frame[b].pinCnt >= P(b)'
                      /\ frame[b].pinCnt - P(b)' <= obj[b].openCnt - U(b)'
    BY <1>1 DEF Counts
  <2>1. obj[b].openCnt \in Nat /\ frame[b].pinCnt \in Nat
    BY ObjFacts, FrameFacts DEF IInv, TypeOK, ObjType, FrameType
  <2>2. /\ obj[b].openCnt >= U(b) /\ frame[b].pinCnt >= P(b)
        /\ frame[b].pinCnt - P(b) <= obj[b].openCnt - U(b)
    BY DEF IInv, Counts
  <2>3. pins[c] \in BOOLEAN /\ U(b) \in Nat /\ P(b) \in Nat
    BY Finite DEF IInv, TypeOK
  <2>4. CASE b = a /\ pins[c]
    BY <1>2, <2>1, <2>2, <2>3, <2>4
  <2>5. CASE b = a /\ ~pins[c]
    BY <1>2, <2>1, <2>2, <2>3, <2>5
  <2>6. CASE b # a
    BY <1>2, <2>1, <2>2, <2>3, <2>6
  <2> QED BY <2>3, <2>4, <2>5, <2>6
<1>7. PinsOpen'
  BY <1>1 DEF IInv, PinsOpen, TypeOK
<1> QED BY <1>4, <1>5, <1>6, <1>7 DEF IInv

(* at the end nobody uses anything *)
LEMMA NoUsers ==
  ASSUME handle = NoHandle, NEW a \in Addrs
  PROVE  Users(a) = {} /\ U(a) = 0 /\ P(a) = 0
<1>1. Users(a) = {} /\ Pinning(a) = {}
  BY NoFileAssumption DEF Users, Pinning, NoHandle
<1> QED BY <1>1, FS_EmptySet DEF U, P

LEMMA QuitInv ==
  ASSUME IInv, phase = "running", Quit PROVE IInv'
<1>1. handle = NoHandle /\ UNCHANGED <<exists, handle, pins>>
  BY DEF Quit
<1>2. CASE UNCHANGED <<table, obj, frame>> /\ phase' = "undefined"
  <2>1. TypeOK' /\ TableSound'
    BY <1>1, <1>2 DEF IInv, TypeOK, TableSound
  <2> QED BY <1>1, <1>2, <2>1, SameCounts DEF IInv
<1>3. CASE table' = NoTable /\ obj' = NoObjs /\ frame' = NoFrames /\ UNCHANGED phase
  <2>1. TypeOK' /\ TableSound' /\ PinsOpen'
    BY <1>1, <1>3, NoFileAssumption
       DEF IInv, TypeOK, TableSound, PinsOpen, NoTable, NoObjs, NoFrames
  <2>2. \A a \in Addrs : U(a)' = 0 /\ P(a)' = 0
    BY <1>1, NoUsers DEF U, P, Users, Pinning
  <2>3. Counts'
    BY <1>3, <2>2 DEF Counts, NoObjs, NoFrames, NoObj, NoFrame
  <2> QED BY <2>1, <2>3 DEF IInv
<1> QED BY <1>2, <1>3 DEF Quit

LEMMA StepInv == IInv /\ [Next]_vars => IInv'
<1> SUFFICES ASSUME IInv, [Next]_vars PROVE IInv'
  OBVIOUS
<1>1. CASE UNCHANGED vars
  <2>1. UNCHANGED <<obj, handle, pins, frame>> /\ TypeOK' /\ TableSound'
    BY <1>1 DEF vars, IInv, TypeOK, TableSound
  <2> QED BY <2>1, SameCounts DEF IInv
<1> QED BY <1>1, CreateFileInv, DestroyFileInv, OpenAgainInv, OpenNewInv, PinInv, UnpinInv, EvictInv,
           CloseSharedInv, CloseLastInv, LeakInv, QuitInv DEF Next

(* The table, the objects, the open counts and the pin counts agree, for any
   number of files, addresses and clients, and whatever fails or is lost. *)
THEOREM Invariance == Spec => []IInv
BY InitInv, StepInv, PTL DEF Spec

(* No object is lost from the table or doubled in it (db.C:523). *)
THEOREM RegistryCorrect == Spec => []RegistrySound
<1>1. IInv => RegistrySound
  BY DEF IInv, RegistrySound
<1> QED BY <1>1, Invariance, PTL

(* Nobody is left with a deleted File object (db.C:555). *)
THEOREM HandlesCorrect == Spec => []HandlesLive
<1>1. IInv => HandlesLive
  <2> SUFFICES ASSUME IInv, NEW c \in Clients, handle[c] # NoFile
               PROVE  /\ obj[handle[c]] # NoObj
                      /\ obj[handle[c]].openCnt >= Cardinality({b \in Clients : handle[b] = handle[c]})
    BY DEF HandlesLive
  <2>1. handle[c] \in Addrs /\ obj[handle[c]] # NoObj
    BY Live
  <2> QED BY <2>1 DEF IInv, Counts, U, Users
<1> QED BY <1>1, Invariance, PTL

-----------------------------------------------------------------------------
(* While writes do not fail, a file that goes away takes its pages along.  *)

LEMMA FramesStep ==
  ASSUME "write" \notin Faults, IInv, FramesOfOpenFiles, [Next]_vars
  PROVE  FramesOfOpenFiles'
<1> SUFFICES ASSUME phase' = "running", NEW b \in Addrs, frame'[b] # NoFrame
             PROVE  frame'[b].of = obj'[b].name
  BY DEF FramesOfOpenFiles
<1>t. obj[b] \in ObjType /\ frame[b] \in FrameType /\ phase \in {"running", "undefined"}
  BY DEF IInv, TypeOK, ObjType, FrameType
<1>1. CASE UNCHANGED vars
  BY <1>1 DEF vars, FramesOfOpenFiles
<1>2. CASE Next
  <2>r. phase = "running"
    BY <1>2 DEF Next
  <2>f. /\ frame[b] # NoFrame => frame[b].of = obj[b].name
        /\ obj[b] = NoObj => frame[b] = NoFrame
    BY <1>t, <2>r, ObjFacts, FrameFacts DEF FramesOfOpenFiles
  <2>1. ASSUME NEW n \in Names, CreateFile(n) \/ DestroyFile(n) PROVE frame'[b].of = obj'[b].name
    BY <2>1, <2>f DEF CreateFile, DestroyFile
  <2>2. ASSUME NEW c \in Clients, NEW n \in Names, OpenAgain(c, n) PROVE frame'[b].of = obj'[b].name
    <3>1. frame' = frame /\ obj'[b].name = obj[b].name
      BY <2>2, <1>t DEF OpenAgain, IInv, TypeOK, ObjType, NoObj
    <3> QED BY <3>1, <2>f
  <2>3. ASSUME NEW c \in Clients, NEW n \in Names, OpenNew(c, n) PROVE frame'[b].of = obj'[b].name
    BY <2>3, <2>f DEF OpenNew, IInv, TypeOK
  <2>4. ASSUME NEW c \in Clients, Pin(c) PROVE frame'[b].of = obj'[b].name
    <3>1. CASE b = handle[c]
      <4>1. frame'[b] = IF frame[b] = NoFrame
                        THEN [of |-> obj[b].name, pinCnt |-> 1, dirty |-> FALSE]
                        ELSE [frame[b] EXCEPT !.pinCnt = frame[b].pinCnt + 1]
        BY <2>4, <3>1 DEF Pin, IInv, TypeOK
      <4>2. frame'[b].of = obj[b].name
        BY <1>t, <2>f, <4>1, FrameFacts
      <4> QED BY <2>4, <4>2 DEF Pin
    <3>2. CASE b # handle[c]
      BY <2>4, <2>f, <3>2 DEF Pin, IInv, TypeOK
    <3> QED BY <3>1, <3>2
  <2>5. ASSUME NEW c \in Clients, NEW d \in BOOLEAN, Unpin(c, d) PROVE frame'[b].of = obj'[b].name
    <3>1. CASE b = handle[c]
      <4>1. frame'[b].of = frame[b].of
        BY <2>5, <3>1 DEF Unpin, IInv, TypeOK
      <4>2. frame[b] # NoFrame
        <5>1. c \in Pinning(b) /\ P(b) # 0
          <6>1. c \in Pinning(b)
            BY <2>5, <3>1 DEF Unpin, Pinning
          <6> QED BY <6>1, Finite, FS_EmptySet DEF P
        <5>2. frame[b].pinCnt >= P(b) /\ frame[b].pinCnt # 0
          BY <5>1, <1>t, FrameFacts, Finite DEF IInv, Counts
        <5> QED BY <5>2 DEF NoFrame
      <4> QED BY <2>5, <2>f, <4>1, <4>2 DEF Unpin
    <3>2. CASE b # handle[c]
      BY <2>5, <2>f, <3>2 DEF Unpin, IInv, TypeOK
    <3> QED BY <3>1, <3>2
  <2>6. ASSUME NEW a \in Addrs, Evict(a) PROVE frame'[b].of = obj'[b].name
    BY <2>6, <2>f DEF Evict, IInv, TypeOK
  <2>7. ASSUME NEW c \in Clients, CloseShared(c) PROVE frame'[b].of = obj'[b].name
    <3>1. frame' = frame /\ obj'[b].name = obj[b].name
      BY <2>7, <1>t DEF CloseShared, IInv, TypeOK, ObjType, NoObj
    <3> QED BY <3>1, <2>f
  <2>8. ASSUME NEW c \in Clients, CloseLast(c) PROVE frame'[b].of = obj'[b].name
    <3>1. frame' = [frame EXCEPT ![handle[c]] = NoFrame]
      <4>1. handle[c] \in Addrs /\ frame[handle[c]].pinCnt = 0
        BY <2>8, LastClose
      <4>2. ~(frame[handle[c]].pinCnt > 0)
        BY <4>1
      <4> QED BY <2>8, <4>2 DEF CloseLast
    <3>2. b # handle[c]
      BY <3>1 DEF IInv, TypeOK
    <3> QED BY <2>8, <2>f, <3>1, <3>2 DEF CloseLast, IInv, TypeOK
  <2>9. ASSUME NEW c \in Clients, Leak(c) PROVE frame'[b].of = obj'[b].name
    BY <2>9, <2>f DEF Leak
  <2>10. CASE Quit
    BY <2>10, <2>f DEF Quit, NoFrames
  <2> QED BY <1>2, <2>1, <2>2, <2>3, <2>4, <2>5, <2>6, <2>7, <2>8, <2>9, <2>10 DEF Next
<1> QED BY <1>1, <1>2

(* If no write fails, the pool's frames under the address of an object are
   pages of its file: an address used again finds nothing left (db.C:563). *)
THEOREM FramesCorrect ==
  ASSUME "write" \notin Faults
  PROVE  Spec => []FramesOfOpenFiles
<1>1. Init => FramesOfOpenFiles
  BY DEF Init, FramesOfOpenFiles, NoFrames
<1>2. IInv /\ FramesOfOpenFiles /\ [Next]_vars => FramesOfOpenFiles'
  BY FramesStep
<1> QED BY <1>1, <1>2, Invariance, PTL DEF Spec
=============================================================================
