--------------------------- MODULE Catalog_proofs ---------------------------
(***************************************************************************)
(* Theorems about the catalogs, for any relation names, attributes and     *)
(* faults: commands that fail half way and crashes leave other relations   *)
(* alone, and createRel and destroyRel implement the atomic operations of  *)
(* Relations.  They hold while no relation has a name that begins with     *)
(* another's, which removeInfo does not tell apart.                        *)
(***************************************************************************)
EXTENDS Catalog, FunctionTheorems, FiniteSetTheorems, TLAPS

NamesApart == \A n \in Names, m \in AllNames : BeginsWith(m, n) => m = n

Support(rows) == {a \in Attrs : rows[a] > 0}
OneEach(rows) == \A a \in Attrs : rows[a] <= 1

-----------------------------------------------------------------------------
(* The inductive invariant: what holds of a relation that no crash caught,
   between commands on it and within one. *)

Resting(n) ==
    /\ n \in files => Described(n)
    /\ past[n] = "sound" => IF n \in files THEN n \notin broken ELSE Absent(n)
    /\ past[n] = "failed" => relcat[n] # 0

(* the attributes that have their rows already, and those that will *)
Creating(n) ==
    /\ past[n] = "sound" /\ n \notin files /\ relcat[n] # 0
    /\ OneEach(attrcat[n]) /\ OneEach(op.rows)
    /\ Support(attrcat[n]) \cap Support(op.rows) = {}
    /\ Cardinality(Support(attrcat[n]) \cup Support(op.rows)) = relcat[n]

Dropping(n) ==
    /\ relcat[n] # 0 /\ OneEach(attrcat[n])
    /\ op.at = "lookup" => Described(n)

State(n) ==
    past[n] # "crashed" =>
        /\ op.rel # n => Resting(n)
        /\ op.rel = n /\ op.kind = "create" => Creating(n)
        /\ op.rel = n /\ op.kind = "drop" => Dropping(n)

(* of relations a crash caught, too: a drop removes exactly the rows it found *)
Command ==
    /\ op.kind = "none" => op = Idle
    /\ op.kind # "none" => op.rel \in Names
    /\ op.kind = "create" => op.at = "attrcat"
    /\ op.kind = "drop" => /\ op.rel \notin files
                           /\ op.at = "attrcat" => op.rows = attrcat[op.rel]

Own == /\ relcat[RelCatName] = 2 /\ relcat[AttrCatName] = 5
       /\ relDisk[RelCatName] = 2 /\ relDisk[AttrCatName] = 5

IInv == TypeOK /\ Command /\ Own /\ (\A n \in Names : State(n)) /\ UndefinedOnlyAfterCrash

-----------------------------------------------------------------------------
(* Rows *)

RowsType == [Attrs -> 0 .. MaxRows]

LEMMA NoRowsFacts == /\ NoRows \in RowsType /\ Support(NoRows) = {} /\ OneEach(NoRows)
                     /\ \A R \in RowsType : Support(R) = {} => R = NoRows
<1>1. NoRows \in RowsType /\ Support(NoRows) = {} /\ OneEach(NoRows)
  BY BoundsAssumption DEF NoRows, RowsType, Support, OneEach
<1>2. ASSUME NEW R \in RowsType, Support(R) = {} PROVE R = NoRows
  <2>1. \A a \in Attrs : R[a] = 0
    BY <1>2 DEF RowsType, Support
  <2> QED BY <2>1 DEF RowsType, NoRows
<1> QED BY <1>1, <1>2

LEMMA RowsOfFacts ==
  ASSUME NEW A \in SUBSET Attrs
  PROVE  RowsOf(A) \in RowsType /\ Support(RowsOf(A)) = A /\ OneEach(RowsOf(A))
BY BoundsAssumption DEF RowsOf, RowsType, Support, OneEach

LEMMA SupportFinite ==
  ASSUME NEW A \in SUBSET Attrs
  PROVE  IsFiniteSet(A) /\ Cardinality(A) \in Nat /\ (Cardinality(A) = 0 <=> A = {})
BY AttrsAssumption, FS_Subset, FS_CardinalityType, FS_EmptySet

(* Rows each of which is there once are counted by counting attributes. *)
LEMMA RowCountOfOnes ==
  ASSUME NEW R \in RowsType, OneEach(R)
  PROVE  RowCount(R) = Cardinality(Support(R))
<1> DEFINE T == {r \in Attrs \X (1 .. MaxRows) : r[2] <= R[r[1]]}
           f == [a \in Support(R) |-> <<a, 1>>]
<1>1. T = {<<a, 1>> : a \in Support(R)}
  <2>1. ASSUME NEW r \in T PROVE r \in {<<a, 1>> : a \in Support(R)}
    <3>1. r[1] \in Attrs /\ r[2] \in 1 .. MaxRows /\ r[2] <= R[r[1]] /\ r = <<r[1], r[2]>>
      BY <2>1
    <3>2. R[r[1]] <= 1 /\ R[r[1]] \in 0 .. MaxRows
      BY <3>1 DEF OneEach, RowsType
    <3>3. r[2] = 1 /\ r[1] \in Support(R)
      BY <3>1, <3>2, BoundsAssumption DEF Support
    <3> QED BY <3>1, <3>3
  <2>2. ASSUME NEW a \in Support(R) PROVE <<a, 1>> \in T
    BY <2>2, BoundsAssumption DEF Support, RowsType
  <2> QED BY <2>1, <2>2
<1>2. f \in Bijection(Support(R), T)
  <2>1. f \in [Support(R) -> T]
    BY <1>1
  <2>2. \A a, b \in Support(R) : f[a] = f[b] => a = b
    OBVIOUS
  <2>3. \A t \in T : \E a \in Support(R) : f[a] = t
    BY <1>1
  <2> QED BY <2>1, <2>2, <2>3, Fun_IsBij
<1>3. IsFiniteSet(Support(R))
  BY SupportFinite DEF Support
<1>4. Cardinality(T) = Cardinality(Support(R))
  BY <1>2, <1>3, FS_Bijection DEF ExistsBijection
<1> QED BY <1>4 DEF RowCount

LEMMA DescribedIs ==
  ASSUME TypeOK, NEW n \in Names
  PROVE  Described(n) <=> /\ relcat[n] # 0 /\ OneEach(attrcat[n])
                          /\ Cardinality(Support(attrcat[n])) = relcat[n]
<1>1. attrcat[n] \in RowsType
  BY DEF TypeOK, RowsType
<1>2. CASE OneEach(attrcat[n])
  BY <1>1, <1>2, RowCountOfOnes DEF Described, OneEach
<1> QED BY <1>2 DEF Described, OneEach

-----------------------------------------------------------------------------
(* Frames: what no action touches stays as it is. *)

Same(n) == /\ relcat'[n] = relcat[n] /\ attrcat'[n] = attrcat[n]
           /\ (n \in files' <=> n \in files) /\ (n \in broken' <=> n \in broken)
           /\ past'[n] = past[n]

LEMMA SameResting ==
  ASSUME NEW n \in Names, Same(n), Resting(n)
  PROVE  Resting(n)'
BY DEF Same, Resting, Described, Absent, RowCount, NoRows

LEMMA SameState ==
  ASSUME NEW n \in Names, Same(n), State(n), op.rel # n, op'.rel # n
  PROVE  State(n)'
BY SameResting DEF Same, State

LEMMA IdleRel == Idle.kind = "none" /\ Idle.rel \notin Names /\ \A n \in Names : Idle.rel # n
BY NamesAssumption DEF Idle

LEMMA IdleType == Idle \in [kind : {"none", "create", "drop"}, rel : AllNames,
                            rows : [Attrs -> 0 .. MaxRows], at : {"end", "lookup", "attrcat"}]
BY NoRowsFacts DEF Idle, AllNames, RowsType

LEMMA EndedFacts ==
  ASSUME TypeOK, NEW n \in Names, NEW how \in {"sound", "failed"}
  PROVE  /\ Ended(n, how) \in [Names -> {"sound", "failed", "crashed"}]
         /\ Ended(n, how)[n] = IF past[n] = "crashed" THEN "crashed" ELSE how
         /\ \A m \in Names : m # n => Ended(n, how)[m] = past[m]
BY DEF Ended, TypeOK

(* no step of IInv starts in the undefined phase *)
Running == IInv /\ phase = "running"

LEMMA InitInv == Init => IInv
<1> SUFFICES ASSUME Init PROVE IInv
  OBVIOUS
<1>1. TypeOK
  BY IdleType, NoRowsFacts DEF Init, TypeOK, RowsType, AllNames
<1>2. Command
  BY IdleRel DEF Init, Command
<1>3. Own
  <2>1. {RelCatName, AttrCatName} \subseteq AllNames /\ AttrCatName # RelCatName
    BY NamesAssumption DEF AllNames
  <2>2. relcat[RelCatName] = 2 /\ relcat[AttrCatName] = 5
    BY <2>1 DEF Init
  <2>3. relDisk = relcat
    BY DEF Init
  <2> QED BY <2>2, <2>3 DEF Own
<1>4. \A n \in Names : State(n)
  BY NamesAssumption, IdleRel DEF Init, State, Resting, Absent, AllNames
<1>5. UndefinedOnlyAfterCrash
  BY DEF Init, UndefinedOnlyAfterCrash
<1> QED BY <1>1, <1>2, <1>3, <1>4, <1>5 DEF IInv

LEMMA StutterInv == IInv /\ UNCHANGED vars => IInv'
<1> SUFFICES ASSUME IInv, UNCHANGED vars PROVE IInv'
  OBVIOUS
<1> USE DEF IInv, vars
<1>1. TypeOK'
  BY DEF TypeOK
<1>2. Command'
  BY DEF Command
<1>3. Own'
  BY DEF Own
<1>4. ASSUME NEW n \in Names PROVE State(n)'
  BY <1>4 DEF State, Resting, Described, Absent, RowCount, NoRows, Creating, Dropping, OneEach, Support
<1>5. UndefinedOnlyAfterCrash'
  BY DEF UndefinedOnlyAfterCrash
<1> QED BY <1>1, <1>2, <1>3, <1>4, <1>5

-----------------------------------------------------------------------------
(* createRel *)

LEMMA CreateRelInv ==
  ASSUME Running, NEW n \in Names, NEW A \in (SUBSET Attrs) \ {{}}, CreateRel(n, A)
  PROVE  IInv'
<1> USE DEF Running, IInv
<1>0. /\ op = Idle /\ relcat[n] = 0 /\ op'.kind = "create" /\ op'.rel = n
      /\ op'.rows = RowsOf(A) /\ op'.at = "attrcat"
      /\ relcat' = [relcat EXCEPT ![n] = Cardinality(A)]
      /\ UNCHANGED <<attrcat, relDisk, attrDisk, files, broken, leftOpen, past, phase>>
  BY DEF CreateRel, AddRelRow
<1>a. n \in AllNames /\ n # RelCatName /\ n # AttrCatName
  BY NamesAssumption DEF AllNames
<1>b. Cardinality(A) \in Nat /\ Cardinality(A) # 0 /\ RowsOf(A) \in RowsType
      /\ Support(RowsOf(A)) = A /\ OneEach(RowsOf(A))
  BY SupportFinite, RowsOfFacts
<1>1. TypeOK'
  <2>1. relcat' \in [AllNames -> Nat]
    BY <1>0, <1>a, <1>b DEF TypeOK
  <2>2. op' \in [kind : {"none", "create", "drop"}, rel : AllNames,
                 rows : [Attrs -> 0 .. MaxRows], at : {"end", "lookup", "attrcat"}]
    BY <1>a, <1>b DEF CreateRel, AddRelRow, RowsType
  <2> QED BY <1>0, <2>1, <2>2 DEF TypeOK
<1>2. Command'
  BY <1>0 DEF Command
<1>3. Own'
  BY <1>0, <1>a DEF Own, TypeOK
<1>4. ASSUME NEW m \in Names PROVE State(m)'
  <2>1. CASE m # n
    <3>1. Same(m)
      BY <1>0, <2>1 DEF Same, TypeOK, AllNames
    <3> QED BY <3>1, <2>1, <1>0, IdleRel, SameState
  <2>2. CASE m = n
    <3> SUFFICES ASSUME past[n] # "crashed" PROVE Creating(n)'
      BY <2>2, <1>0 DEF State
    <3>1. Resting(n)
      BY <1>0, IdleRel DEF State
    <3>2. past[n] = "sound" /\ n \notin files /\ attrcat[n] = NoRows
      BY <3>1, <1>0 DEF Resting, Described, Absent, TypeOK
    <3>3. relcat'[n] = Cardinality(A)
      BY <1>0, <1>a DEF TypeOK
    <3>4. Support(attrcat[n]) = {} /\ OneEach(attrcat[n])
      BY <3>2, NoRowsFacts
    <3>5. Support(attrcat[n]) \cup A = A
      BY <3>4
    <3>6. OneEach(attrcat'[n]) /\ OneEach(op'.rows) /\ Support(attrcat'[n]) = {} /\ Support(op'.rows) = A
      BY <1>0, <1>b, <3>4
    <3> QED BY <1>0, <1>b, <3>2, <3>3, <3>5, <3>6 DEF Creating, OneEach, Support
  <2> QED BY <2>1, <2>2
<1>5. UndefinedOnlyAfterCrash'
  BY <1>0 DEF UndefinedOnlyAfterCrash
<1> QED BY <1>1, <1>2, <1>3, <1>4, <1>5

LEMMA CreateAttrInv ==
  ASSUME Running, NEW a \in Attrs, CreateAttr(a)
  PROVE  IInv'
<1> USE DEF Running, IInv
<1> DEFINE n == op.rel
<1>0. /\ op.kind = "create" /\ op.rows[a] > 0 /\ n \in Names /\ op.at = "attrcat"
      /\ op'.kind = "create" /\ op'.rel = n /\ op'.at = "attrcat"
      /\ op'.rows = [op.rows EXCEPT ![a] = 0]
      /\ attrcat[n][a] < MaxRows
      /\ attrcat' = [attrcat EXCEPT ![n] = [attrcat[n] EXCEPT ![a] = attrcat[n][a] + 1]]
      /\ UNCHANGED <<relcat, relDisk, attrDisk, files, broken, leftOpen, past, phase>>
  BY DEF CreateAttr, Command, TypeOK
<1>b. op.rows \in RowsType /\ attrcat[n] \in RowsType /\ op'.rows \in RowsType
      /\ attrcat'[n] = [attrcat[n] EXCEPT ![a] = attrcat[n][a] + 1] /\ attrcat'[n] \in RowsType
  BY <1>0, BoundsAssumption DEF TypeOK, RowsType
<1>1. TypeOK'
  <2>1. attrcat' \in [Names -> [Attrs -> 0 .. MaxRows]]
    BY <1>0, <1>b DEF TypeOK, RowsType
  <2>2. op' \in [kind : {"none", "create", "drop"}, rel : AllNames,
                 rows : [Attrs -> 0 .. MaxRows], at : {"end", "lookup", "attrcat"}]
    BY <1>b DEF CreateAttr, TypeOK, RowsType
  <2> QED BY <1>0, <2>1, <2>2 DEF TypeOK
<1>2. Command'
  BY <1>0 DEF Command
<1>3. Own'
  BY <1>0 DEF Own
<1>4. ASSUME NEW m \in Names PROVE State(m)'
  <2>1. CASE m # n
    <3>1. Same(m)
      BY <1>0, <2>1 DEF Same, TypeOK
    <3> QED BY <3>1, <2>1, <1>0, SameState
  <2>2. CASE m = n
    <3> SUFFICES ASSUME past[n] # "crashed" PROVE Creating(n)'
      BY <2>2, <1>0 DEF State
    <3>1. Creating(n)
      BY <1>0 DEF State
    <3>2. a \in Support(op.rows) /\ a \notin Support(attrcat[n]) /\ attrcat[n][a] = 0
      BY <1>0, <1>b, <3>1 DEF Creating, Support, RowsType
    <3>3. /\ Support(op'.rows) = Support(op.rows) \ {a} /\ OneEach(op'.rows)
          /\ Support(attrcat'[n]) = Support(attrcat[n]) \cup {a} /\ OneEach(attrcat'[n])
      BY <1>0, <1>b, <3>1, <3>2 DEF Creating, Support, OneEach, RowsType
    <3>4. Support(attrcat'[n]) \cup Support(op'.rows) = Support(attrcat[n]) \cup Support(op.rows)
          /\ Support(attrcat'[n]) \cap Support(op'.rows) = {}
      BY <3>1, <3>2, <3>3 DEF Creating
    <3> QED BY <1>0, <3>1, <3>3, <3>4, SMTT(60) DEF Creating, OneEach, Support
  <2> QED BY <2>1, <2>2
<1>5. UndefinedOnlyAfterCrash'
  BY <1>0 DEF UndefinedOnlyAfterCrash
<1> QED BY <1>1, <1>2, <1>3, <1>4, <1>5

(* The rows are all there when the file comes. *)
LEMMA CreatedDescribed ==
  ASSUME TypeOK, NEW n \in Names, Creating(n), op.rows = NoRows
  PROVE  Described(n)
<1>1. Support(attrcat[n]) \cup Support(op.rows) = Support(attrcat[n])
  BY NoRowsFacts
<1> QED BY <1>1, DescribedIs DEF Creating

(* CreateFile and CreateHalfFile *)
LEMMA FileMade ==
  ASSUME Running, op.kind = "create", op.rows = NoRows, op.rel \notin files,
         NEW how \in {"sound", "failed"}, files' = files \cup {op.rel}, op' = Idle,
         past' = Ended(op.rel, how), UNCHANGED <<relcat, attrcat, relDisk, attrDisk, phase>>,
         \/ how = "sound" /\ UNCHANGED <<broken, leftOpen>>
         \/ how = "failed" /\ broken' = broken \cup {op.rel} /\ leftOpen' = leftOpen \cup {op.rel}
  PROVE  IInv'
<1> USE DEF Running, IInv
<1> DEFINE n == op.rel
<1>0. n \in Names /\ n \notin broken
  BY DEF Command, TypeOK
<1>e. /\ past' \in [Names -> {"sound", "failed", "crashed"}]
      /\ past'[n] = IF past[n] = "crashed" THEN "crashed" ELSE how
      /\ \A m \in Names : m # n => past'[m] = past[m]
  BY <1>0, EndedFacts
<1>1. TypeOK'
  BY <1>0, <1>e, IdleType DEF TypeOK
<1>2. Command'
  BY IdleRel DEF Command
<1>3. Own'
  BY DEF Own
<1>4. ASSUME NEW m \in Names PROVE State(m)'
  <2>1. CASE m # n
    <3>1. Same(m)
      BY <1>e, <2>1 DEF Same
    <3> QED BY <3>1, <2>1, IdleRel, SameState
  <2>2. CASE m = n
    <3> SUFFICES ASSUME past'[m] # "crashed" PROVE Resting(m)'
      BY <2>2, <1>1, <1>0, IdleRel DEF State
    <3>1. Creating(n)
      BY <2>2, <1>e, <1>0 DEF State
    <3>2. Described(n)
      BY <3>1, <1>0, CreatedDescribed
    <3>3. Described(m)'
      BY <3>2, <2>2 DEF Described, RowCount
    <3>4. m \in files' /\ relcat'[m] # 0
      BY <3>2, <2>2 DEF Described
    <3> QED BY <3>3, <3>4, <2>2, <1>0, <1>e DEF Resting
  <2> QED BY <2>1, <2>2
<1>5. UndefinedOnlyAfterCrash'
  BY DEF UndefinedOnlyAfterCrash
<1> QED BY <1>1, <1>2, <1>3, <1>4, <1>5

LEMMA CreateFileInv == Running /\ CreateFile => IInv'
BY FileMade DEF CreateFile

LEMMA CreateHalfFileInv == Running /\ CreateHalfFile => IInv'
BY FileMade DEF CreateHalfFile

(* Wherever a command fails, the row of its relation is in relcat. *)
LEMMA FailInv ==
  ASSUME Running, Fail
  PROVE  IInv'
<1> USE DEF Running, IInv
<1> DEFINE n == op.rel
<1>0. /\ op.kind # "none" /\ n \in Names /\ op' = Idle /\ past' = Ended(n, "failed")
      /\ UNCHANGED <<relcat, attrcat, relDisk, attrDisk, files, broken, leftOpen, phase>>
  BY DEF Fail, Command, TypeOK
<1>e. /\ past' \in [Names -> {"sound", "failed", "crashed"}]
      /\ past'[n] = IF past[n] = "crashed" THEN "crashed" ELSE "failed"
      /\ \A m \in Names : m # n => past'[m] = past[m]
  BY <1>0, EndedFacts
<1>1. TypeOK'
  BY <1>0, <1>e, IdleType DEF TypeOK
<1>2. Command'
  BY <1>0, IdleRel DEF Command
<1>3. Own'
  BY <1>0 DEF Own
<1>4. ASSUME NEW m \in Names PROVE State(m)'
  <2>1. CASE m # n
    <3>1. Same(m)
      BY <1>0, <1>e, <2>1 DEF Same
    <3> QED BY <1>0, <3>1, <2>1, IdleRel, SameState
  <2>2. CASE m = n
    <3> SUFFICES ASSUME past'[m] # "crashed" PROVE Resting(m)'
      BY <2>2, <1>1, <1>0, IdleRel DEF State
    <3>1. relcat[n] # 0 /\ n \notin files
      BY <2>2, <1>0, <1>e DEF State, Creating, Dropping, Command, TypeOK
    <3> QED BY <3>1, <2>2, <1>0, <1>e DEF Resting
  <2> QED BY <2>1, <2>2
<1>5. UndefinedOnlyAfterCrash'
  BY <1>0 DEF UndefinedOnlyAfterCrash
<1> QED BY <1>1, <1>2, <1>3, <1>4, <1>5

-----------------------------------------------------------------------------
(* destroyRel *)

LEMMA DropRelInv ==
  ASSUME Running, NEW n \in Names, DropRel(n)
  PROVE  IInv'
<1> USE DEF Running, IInv
<1>0. /\ op = Idle /\ n \in files /\ files' = files \ {n} /\ broken' = broken \ {n} /\ n \notin leftOpen
      /\ op'.kind = "drop" /\ op'.rel = n /\ op'.rows = NoRows /\ op'.at = "lookup"
      /\ UNCHANGED <<relcat, attrcat, relDisk, attrDisk, leftOpen, past, phase>>
  BY DEF DropRel
<1>1. TypeOK'
  <2>1. op' \in [kind : {"none", "create", "drop"}, rel : AllNames,
                 rows : [Attrs -> 0 .. MaxRows], at : {"end", "lookup", "attrcat"}]
    BY NoRowsFacts DEF DropRel, RowsType, AllNames
  <2> QED BY <1>0, <2>1 DEF TypeOK
<1>2. Command'
  BY <1>0 DEF Command
<1>3. Own'
  BY <1>0 DEF Own
<1>4. ASSUME NEW m \in Names PROVE State(m)'
  <2>1. CASE m # n
    <3>1. Same(m)
      BY <1>0, <2>1 DEF Same
    <3> QED BY <3>1, <2>1, <1>0, IdleRel, SameState
  <2>2. CASE m = n
    <3> SUFFICES ASSUME past[n] # "crashed" PROVE Dropping(n)'
      BY <2>2, <1>0 DEF State
    <3>1. Described(n)
      BY <1>0, IdleRel DEF State, Resting
    <3>2. Described(n)' /\ relcat[n] # 0 /\ OneEach(attrcat[n])
      BY <1>0, <3>1 DEF Described, RowCount, OneEach
    <3> QED BY <1>0, <3>2 DEF Dropping, OneEach
  <2> QED BY <2>1, <2>2
<1>5. UndefinedOnlyAfterCrash'
  BY <1>0 DEF UndefinedOnlyAfterCrash
<1> QED BY <1>1, <1>2, <1>3, <1>4, <1>5

LEMMA DropLookupInv ==
  ASSUME Running, DropLookup
  PROVE  IInv'
<1> USE DEF Running, IInv
<1> DEFINE n == op.rel
<1>0. /\ op.kind = "drop" /\ op.at = "lookup" /\ n \in Names /\ n \notin files
      /\ UNCHANGED <<relcat, attrcat, relDisk, attrDisk, files, broken, leftOpen, past>>
  BY DEF DropLookup, Command
<1>d. past[n] = "crashed" \/ Described(n)
  BY <1>0 DEF State, Dropping
<1>f. attrcat[n] \in RowsType
  BY <1>0 DEF TypeOK, RowsType
<1>a. CASE RowCount(attrcat[n]) > AttrArray
  <2>0. op' = op /\ phase' = "undefined"
    BY <1>a DEF DropLookup
  <2>1. TypeOK' /\ Command' /\ Own'
    BY <2>0, <1>0 DEF TypeOK, Command, Own
  <2>2. ASSUME NEW m \in Names PROVE State(m)'
    BY <2>0, <1>0 DEF State, Resting, Creating, Dropping, Described, Absent, RowCount, OneEach, Support, NoRows
  <2>3. UndefinedOnlyAfterCrash'
    BY <2>0, <1>0, <1>a, <1>d DEF UndefinedOnlyAfterCrash, Described
  <2> QED BY <2>1, <2>2, <2>3
<1>b. CASE ~(RowCount(attrcat[n]) > AttrArray)
  <2>0. /\ phase' = phase /\ op'.kind = "drop" /\ op'.rel = n /\ op'.at = "attrcat"
        /\ op'.rows = attrcat[n] /\ op' = [op EXCEPT !.rows = attrcat[n], !.at = "attrcat"]
    BY <1>b, <1>0, ZenonT(60) DEF DropLookup, TypeOK
  <2>1. TypeOK'
    <3>1. op' \in [kind : {"none", "create", "drop"}, rel : AllNames,
                   rows : [Attrs -> 0 .. MaxRows], at : {"end", "lookup", "attrcat"}]
      BY <2>0, <1>f DEF TypeOK, RowsType
    <3> QED BY <3>1, <2>0, <1>0 DEF TypeOK
  <2>2. Command'
    BY <2>0, <1>0 DEF Command
  <2>3. Own'
    BY <1>0 DEF Own
  <2>4. ASSUME NEW m \in Names PROVE State(m)'
    <3>1. CASE m # n
      <4>1. Same(m)
        BY <1>0 DEF Same
      <4> QED BY <4>1, <3>1, <2>0, SameState
    <3>2. CASE m = n
      BY <3>2, <2>0, <1>0 DEF State, Dropping, OneEach
    <3> QED BY <3>1, <3>2
  <2>5. UndefinedOnlyAfterCrash'
    BY <2>0 DEF UndefinedOnlyAfterCrash
  <2> QED BY <2>1, <2>2, <2>3, <2>4, <2>5
<1> QED BY <1>a, <1>b

LEMMA DropAttrInv ==
  ASSUME Running, NEW a \in Attrs, DropAttr(a)
  PROVE  IInv'
<1> USE DEF Running, IInv
<1> DEFINE n == op.rel
           less == [attrcat[n] EXCEPT ![a] = attrcat[n][a] - 1]
<1>0. /\ op.kind = "drop" /\ op.at = "attrcat" /\ n \in Names /\ n \notin files
      /\ op.rows = attrcat[n] /\ attrcat[n][a] > 0 /\ attrcat[n] \in RowsType
      /\ op'.kind = "drop" /\ op'.rel = n /\ op'.at = "attrcat" /\ op'.rows = less
      /\ attrcat' = [attrcat EXCEPT ![n] = less]
      /\ UNCHANGED <<relcat, relDisk, attrDisk, files, broken, leftOpen, past, phase>>
  BY DEF DropAttr, Command, TypeOK, RowsType
<1>b. less \in RowsType /\ attrcat'[n] = less
  <2>1. attrcat[n][a] - 1 \in 0 .. MaxRows
    BY <1>0, BoundsAssumption DEF RowsType
  <2>2. less \in RowsType
    BY <1>0, <2>1 DEF RowsType
  <2> QED BY <1>0, <2>2 DEF TypeOK
<1>1. TypeOK'
  <2>1. attrcat' \in [Names -> [Attrs -> 0 .. MaxRows]]
    BY <1>0, <1>b DEF TypeOK, RowsType
  <2>2. op' \in [kind : {"none", "create", "drop"}, rel : AllNames,
                 rows : [Attrs -> 0 .. MaxRows], at : {"end", "lookup", "attrcat"}]
    BY <1>0, <1>b DEF DropAttr, TypeOK, RowsType
  <2> QED BY <1>0, <2>1, <2>2 DEF TypeOK
<1>2. Command'
  BY <1>0, <1>b DEF Command
<1>3. Own'
  BY <1>0 DEF Own
<1>4. ASSUME NEW m \in Names PROVE State(m)'
  <2>1. CASE m # n
    <3>1. Same(m)
      BY <1>0, <2>1 DEF Same, TypeOK
    <3> QED BY <3>1, <2>1, <1>0, SameState
  <2>2. CASE m = n
    <3> SUFFICES ASSUME past[n] # "crashed" PROVE Dropping(n)'
      BY <2>2, <1>0 DEF State
    <3>1. Dropping(n)
      BY <1>0 DEF State
    <3>2. \A b \in Attrs : less[b] <= attrcat[n][b] /\ less[b] \in 0 .. MaxRows /\ attrcat[n][b] \in 0 .. MaxRows
      BY <1>0, <1>b DEF RowsType
    <3>3. OneEach(less)
      BY <3>1, <3>2, BoundsAssumption DEF Dropping, OneEach
    <3> QED BY <1>0, <1>b, <3>1, <3>3 DEF Dropping, OneEach
  <2> QED BY <2>1, <2>2
<1>5. UndefinedOnlyAfterCrash'
  BY <1>0 DEF UndefinedOnlyAfterCrash
<1> QED BY <1>1, <1>2, <1>3, <1>4, <1>5

(* Only here do names matter: another relation whose name begins with n. *)
LEMMA DropRowInv ==
  ASSUME NamesApart, Running, DropRow
  PROVE  IInv'
<1> USE DEF Running, IInv
<1> DEFINE n == op.rel
<1>0. /\ op.kind = "drop" /\ op.at = "attrcat" /\ n \in Names /\ n \notin files
      /\ attrcat[n] = NoRows /\ op' = Idle /\ past' = [past EXCEPT ![n] = "sound"]
      /\ UNCHANGED <<attrcat, relDisk, attrDisk, files, broken, leftOpen, phase>>
  BY DEF DropRow, Command
<1>a. relcat' = [relcat EXCEPT ![n] = 0]
  BY <1>0 DEF DropRow, NamesApart
<1>b. n \in AllNames /\ n # RelCatName /\ n # AttrCatName
  BY <1>0, NamesAssumption DEF AllNames
<1>1. TypeOK'
  BY <1>0, <1>a, IdleType DEF TypeOK
<1>2. Command'
  BY <1>0, IdleRel DEF Command
<1>3. Own'
  BY <1>0, <1>a, <1>b DEF Own, TypeOK
<1>4. ASSUME NEW m \in Names PROVE State(m)'
  <2>1. CASE m # n
    <3>1. Same(m)
      BY <1>0, <1>a, <2>1 DEF Same, TypeOK, AllNames
    <3> QED BY <1>0, <3>1, <2>1, IdleRel, SameState
  <2>2. CASE m = n
    <3>1. /\ relcat'[m] = 0 /\ m \notin files' /\ attrcat'[m] = NoRows /\ past'[m] = "sound"
          /\ op'.rel # m /\ op'.kind = "none"
      BY <1>0, <1>a, <1>b, <2>2, IdleRel DEF TypeOK
    <3>2. Absent(m)'
      BY <3>1 DEF Absent, NoRows
    <3> QED BY <3>1, <3>2 DEF State, Resting
  <2> QED BY <2>1, <2>2
<1>5. UndefinedOnlyAfterCrash'
  BY <1>0 DEF UndefinedOnlyAfterCrash
<1> QED BY <1>1, <1>2, <1>3, <1>4, <1>5

-----------------------------------------------------------------------------
(* The disk *)

LEMMA WriteBackInv ==
  ASSUME Running, NEW n \in Names, WriteBack(n)
  PROVE  IInv'
<1> USE DEF Running, IInv
<1>0. UNCHANGED <<relcat, attrcat, files, broken, leftOpen, op, past, phase>>
  BY DEF WriteBack
<1>a. n \in AllNames /\ n # RelCatName /\ n # AttrCatName
  BY NamesAssumption DEF AllNames
<1>1. TypeOK'
  <2>1. relDisk' \in [AllNames -> Nat]
    BY <1>a DEF WriteBack, TypeOK
  <2>2. attrDisk' \in [Names -> [Attrs -> 0 .. MaxRows]]
    <3>1. CASE UNCHANGED attrDisk
      BY <3>1 DEF TypeOK
    <3>2. CASE \E a \in Attrs : attrDisk' = [attrDisk EXCEPT ![n][a] = attrcat[n][a]]
      BY <3>2 DEF TypeOK
    <3> QED BY <3>1, <3>2 DEF WriteBack
  <2> QED BY <1>0, <2>1, <2>2 DEF TypeOK
<1>2. Command'
  BY <1>0 DEF Command
<1>3. Own'
  <2>1. relDisk'[RelCatName] = relDisk[RelCatName] /\ relDisk'[AttrCatName] = relDisk[AttrCatName]
    <3>1. CASE UNCHANGED relDisk
      BY <3>1
    <3>2. CASE relDisk' = [relDisk EXCEPT ![n] = relcat[n]]
      BY <3>2, <1>a DEF TypeOK, AllNames
    <3> QED BY <3>1, <3>2 DEF WriteBack
  <2> QED BY <1>0, <2>1 DEF Own
<1>4. ASSUME NEW m \in Names PROVE State(m)'
  BY <1>0 DEF State, Resting, Described, Absent, RowCount, NoRows, Creating, Dropping, OneEach, Support
<1>5. UndefinedOnlyAfterCrash'
  BY <1>0 DEF UndefinedOnlyAfterCrash
<1> QED BY <1>1, <1>2, <1>3, <1>4, <1>5

LEMMA QuitInv ==
  ASSUME Running, Quit
  PROVE  IInv'
<1> USE DEF Running, IInv, Quit
<1>1. TypeOK'
  BY DEF TypeOK
<1>2. Command' /\ Own' /\ UndefinedOnlyAfterCrash'
  BY DEF Command, Own, UndefinedOnlyAfterCrash
<1>4. ASSUME NEW m \in Names PROVE State(m)'
  BY DEF State, Resting, Described, Absent, RowCount, NoRows, Creating, Dropping, OneEach, Support
<1> QED BY <1>1, <1>2, <1>4

(* What a crash does not catch is on the disk as it was in memory. *)
LEMMA CrashInv ==
  ASSUME Running, Crash
  PROVE  IInv'
<1> USE DEF Running, IInv
<1>0. /\ relcat' = relDisk /\ attrcat' = attrDisk /\ leftOpen' = {} /\ op' = Idle
      /\ past' = [n \in Names |-> IF Caught(n) THEN "crashed" ELSE past[n]]
      /\ UNCHANGED <<relDisk, attrDisk, files, broken, phase>>
  BY DEF Crash
<1>1. TypeOK'
  BY <1>0, IdleType DEF TypeOK
<1>2. Command'
  BY <1>0, IdleRel DEF Command
<1>3. Own'
  BY <1>0 DEF Own
<1>4. ASSUME NEW m \in Names PROVE State(m)'
  <2>1. CASE Caught(m)
    BY <1>0, <2>1 DEF State
  <2>2. CASE ~Caught(m)
    <3>1. Same(m)
      BY <1>0, <2>2 DEF Same, Caught
    <3>2. op.rel # m
      BY <2>2, IdleRel DEF Caught
    <3> QED BY <3>1, <3>2, <1>0, IdleRel, SameState
  <2> QED BY <2>1, <2>2
<1>5. UndefinedOnlyAfterCrash'
  BY <1>0 DEF UndefinedOnlyAfterCrash
<1> QED BY <1>1, <1>2, <1>3, <1>4, <1>5

-----------------------------------------------------------------------------
(* The theorems *)

LEMMA NextInv == NamesApart /\ IInv /\ [Next]_vars => IInv'
<1> SUFFICES ASSUME NamesApart, IInv, [Next]_vars PROVE IInv'
  OBVIOUS
<1>1. CASE UNCHANGED vars
  BY <1>1, StutterInv
<1>2. CASE Next
  <2> Running
    BY <1>2 DEF Running, Next
  <2> QED
    BY <1>2, CreateRelInv, CreateAttrInv, CreateFileInv, CreateHalfFileInv, FailInv, DropRelInv,
       DropLookupInv, DropAttrInv, DropRowInv, WriteBackInv, QuitInv, CrashInv DEF Next
<1> QED BY <1>1, <1>2

(* A create and a drop may stop anywhere, and a crash come at any time: what
   is between the steps of the two commands is what IInv says. *)
THEOREM Invariance == NamesApart /\ Spec => []IInv
<1> SUFFICES ASSUME NamesApart PROVE Spec => []IInv
  OBVIOUS
<1>1. IInv /\ [Next]_vars => IInv'
  BY NextInv
<1> QED BY <1>1, InitInv, PTL DEF Spec

(* A relation whose last create or drop worked is whole or absent. *)
THEOREM IsolationCorrect == NamesApart /\ Spec => []Isolation
<1>1. IInv => Isolation
  <2> SUFFICES ASSUME IInv, op = Idle PROVE Isolation
    BY DEF Isolation
  <2>1. ASSUME NEW n \in Names, past[n] = "sound" PROVE Whole(n) \/ Absent(n)
    BY <2>1, IdleRel DEF IInv, State, Resting, Whole
  <2> QED BY <2>1 DEF IInv, Own, Isolation
<1> QED BY <1>1, Invariance, PTL

(* Where a relation's file is found, its row is in relcat and each of its
   attributes in attrcat: no command runs on half a description. *)
THEOREM CatalogCorrect == NamesApart /\ Spec => []CatalogSound
<1>1. IInv => CatalogSound
  <2> SUFFICES ASSUME IInv, NEW n \in files, past[n] # "crashed" PROVE Described(n)
    BY DEF CatalogSound, FileImpliesRows, IInv
  <2>1. n \in Names
    BY DEF IInv, TypeOK
  <2>2. op.rel # n \/ op.kind # "none"
    BY <2>1, IdleRel DEF IInv, Command
  <2>3. op.rel = n => op.kind = "create" \/ op.kind = "drop"
    BY <2>2 DEF IInv, TypeOK
  <2>4. op.rel # n
    BY <2>1, <2>3 DEF IInv, State, Creating, Command
  <2> QED BY <2>1, <2>4 DEF IInv, State, Resting
<1> QED BY <1>1, Invariance, PTL

(* No relation has more attributes than there are: createRel adds one row of
   attrcat for each. *)
Fit ==
    /\ \A n \in Names : relcat[n] <= Cardinality(Attrs) /\ relDisk[n] <= Cardinality(Attrs)
    /\ phase = "undefined" => op.rel \in Names

LEMMA FitInv == IInv /\ Fit /\ [Next]_vars => Fit'
<1> SUFFICES ASSUME IInv, Fit, [Next]_vars PROVE Fit'
  OBVIOUS
<1> USE DEF Fit, IInv
<1>0. TypeOK /\ Cardinality(Attrs) \in Nat
  BY AttrsAssumption, FS_CardinalityType
<1>1. CASE UNCHANGED <<relcat, relDisk, op, phase>>
  BY <1>1
<1>r. CASE phase = "running" /\ phase' = phase /\ UNCHANGED <<relcat, relDisk>>
  BY <1>r
<1>l. CASE DropLookup
  <2>1. op.rel \in Names /\ UNCHANGED <<relcat, relDisk>>
    BY <1>l DEF DropLookup, Command
  <2>2. op'.rel = op.rel
    BY <1>0, <1>l DEF DropLookup, TypeOK
  <2> QED BY <2>1, <2>2
<1>2. ASSUME NEW n \in Names, NEW A \in (SUBSET Attrs) \ {{}}, CreateRel(n, A), phase = "running"
     PROVE  Fit'
  <2>1. Cardinality(A) <= Cardinality(Attrs)
    BY AttrsAssumption, FS_Subset
  <2>2. relcat' = [relcat EXCEPT ![n] = Cardinality(A)] /\ relDisk' = relDisk /\ phase' = phase
    BY <1>2 DEF CreateRel, AddRelRow
  <2> QED BY <1>0, <1>2, <2>1, <2>2 DEF TypeOK, AllNames
<1>3. CASE DropRow /\ phase = "running"
  BY <1>0, <1>3 DEF DropRow, TypeOK, AllNames, Command
<1>4. ASSUME NEW n \in Names, WriteBack(n), phase = "running" PROVE Fit'
  BY <1>0, <1>4 DEF WriteBack, TypeOK, AllNames
<1>5. CASE Quit /\ phase = "running"
  BY <1>5 DEF Quit
<1>6. CASE Crash /\ phase = "running"
  BY <1>6 DEF Crash
<1> QED
  BY <1>1, <1>r, <1>l, <1>2, <1>3, <1>4, <1>5, <1>6
  DEF Next, vars, CreateAttr, DropAttr, CreateFile, CreateHalfFile, Fail, DropRel

(* getRelInfo writes past its array only for a relation that has more
   attributes than the array, as the parser allows (forty), or one a crash
   damaged; and where no relation can have that many, only for the latter. *)
OverflowOnlyAfterCrash == phase = "undefined" => past[op.rel] = "crashed"

THEOREM OverflowCorrect ==
  NamesApart /\ Spec =>
    /\ []UndefinedOnlyAfterCrash
    /\ Cardinality(Attrs) <= AttrArray => []OverflowOnlyAfterCrash
<1>1. IInv => UndefinedOnlyAfterCrash
  BY DEF IInv
<1>2. Init => Fit
  <2> SUFFICES ASSUME Init PROVE Fit
    OBVIOUS
  <2>1. Cardinality(Attrs) \in Nat
    BY AttrsAssumption, FS_CardinalityType
  <2>2. \A n \in Names : relcat[n] = 0 /\ relDisk[n] = 0
    BY NamesAssumption DEF Init, AllNames
  <2>3. phase # "undefined"
    BY DEF Init
  <2> QED BY <2>1, <2>2, <2>3 DEF Fit
<1>3. IInv /\ Fit /\ Cardinality(Attrs) <= AttrArray => OverflowOnlyAfterCrash
  <2> SUFFICES ASSUME IInv, Fit, Cardinality(Attrs) <= AttrArray,
                      phase = "undefined", past[op.rel] # "crashed"
               PROVE  FALSE
    BY DEF OverflowOnlyAfterCrash
  <2>1. relcat[op.rel] > AttrArray
    BY DEF IInv, UndefinedOnlyAfterCrash
  <2>2. op.rel \in Names
    BY DEF Fit
  <2> QED
    BY <2>1, <2>2, AttrsAssumption, FS_CardinalityType, BoundsAssumption DEF IInv, TypeOK, Fit, AllNames
<1>4. CASE Cardinality(Attrs) <= AttrArray
  <2>1. IInv /\ Fit => OverflowOnlyAfterCrash
    BY <1>3, <1>4
  <2> QED BY <1>1, <1>2, <2>1, FitInv, Invariance, PTL DEF Spec
<1>5. CASE ~(Cardinality(Attrs) <= AttrArray)
  BY <1>1, <1>5, Invariance, PTL
<1> QED BY <1>4, <1>5

-----------------------------------------------------------------------------
(* The refinement: the file decides. *)

schemaOf(n) == IF n \in files \ broken THEN Support(attrcat[n]) ELSE {}
Schemas == [n \in Names |-> schemaOf(n)]
Damaged == {n \in Names : past[n] = "crashed"}

LEMMA MappedInit == Init => Abstract!Init
<1> SUFFICES ASSUME Init PROVE Schemas = [n \in Names |-> {}] /\ Damaged = {}
  BY DEF Abstract!Init, Schemas, Damaged, schemaOf, Support
<1>1. \A n \in Names : schemaOf(n) = {} /\ past[n] # "crashed"
  BY DEF Init, schemaOf
<1> QED BY <1>1 DEF Schemas, Damaged

Kept(m) == schemaOf(m)' = schemaOf(m) /\ (past'[m] = "crashed" <=> past[m] = "crashed")

LEMMA SameKept == \A m \in Names : Same(m) => Kept(m)
BY DEF Same, Kept, schemaOf, Support

LEMMA MappedStutter ==
  ASSUME \A m \in Names : Kept(m)
  PROVE  UNCHANGED Abstract!vars
<1>1. Schemas' = Schemas /\ Damaged' = Damaged
  BY DEF Schemas, Damaged, Kept
<1> QED BY <1>1 DEF Abstract!vars, Schemas, Damaged, schemaOf, Support

(* a step on a name that a crash caught and no drop has repaired *)
LEMMA MappedDamage ==
  ASSUME NEW n \in Names, past[n] = "crashed", \A m \in Names \ {n} : Kept(m),
         past'[n] = "crashed" \/ schemaOf(n)' = {}
  PROVE  Abstract!Damage(n)
<1>1. Damaged' = Damaged \/ (Damaged' = Damaged \ {n} /\ Schemas'[n] = {})
  <2>1. CASE past'[n] = "crashed"
    BY <2>1 DEF Damaged, Kept
  <2>2. CASE past'[n] # "crashed" /\ schemaOf(n)' = {}
    BY <2>2 DEF Damaged, Schemas, Kept
  <2> QED BY <2>1, <2>2
<1>2. \A m \in Names \ {n} : Schemas'[m] = Schemas[m]
  BY DEF Kept, Schemas
<1>3. n \in Damaged
  BY DEF Damaged
<1> QED BY <1>1, <1>2, <1>3 DEF Abstract!Damage, Abstract!Others, Schemas, Damaged, schemaOf, Support

(* a step that changes what a name n is that no crash caught *)
LEMMA MappedChange ==
  ASSUME NEW n \in Names, NEW A, past[n] # "crashed", past'[n] # "crashed",
         \A m \in Names \ {n} : Kept(m), schemaOf(n)' = A
  PROVE  /\ Schemas' = [Schemas EXCEPT ![n] = A] /\ Damaged' = Damaged /\ n \notin Damaged
         /\ Schemas[n] = schemaOf(n)
BY DEF Schemas, Damaged, Kept

LEMMA CreateMapped ==
  ASSUME Running, CreateFile
  PROVE  \E n \in Names : Abstract!Damage(n) \/ \E A \in (SUBSET Attrs) \ {{}} : Abstract!Create(n, A)
<1> USE DEF Running, IInv
<1>1. PICK n \in Names : n = op.rel
  BY DEF CreateFile, Command, TypeOK
<1>2. /\ op.kind = "create" /\ op.rows = NoRows /\ n \notin files /\ n \notin broken
      /\ files' = files \cup {n} /\ UNCHANGED <<attrcat, broken>> /\ past' = Ended(n, "sound")
  BY <1>1 DEF CreateFile, TypeOK
<1>3. /\ past'[n] = IF past[n] = "crashed" THEN "crashed" ELSE "sound"
      /\ \A m \in Names \ {n} : past'[m] = past[m]
  BY <1>2, EndedFacts
<1>4. \A m \in Names \ {n} : Kept(m)
  BY <1>2, <1>3 DEF Kept, schemaOf, Support
<1>5. CASE past[n] = "crashed"
  BY <1>3, <1>4, <1>5, MappedDamage
<1>6. CASE past[n] # "crashed"
  <2>1. Described(n)
    BY <1>1, <1>2, <1>6, CreatedDescribed DEF State
  <2>2. PICK A \in (SUBSET Attrs) \ {{}} : A = Support(attrcat[n])
    <3>1. Support(attrcat[n]) \in SUBSET Attrs
      BY DEF Support
    <3>2. Cardinality(Support(attrcat[n])) = relcat[n] /\ relcat[n] # 0
      BY <2>1, DescribedIs
    <3> QED BY <3>1, <3>2, SupportFinite
  <2>3. schemaOf(n) = {} /\ schemaOf(n)' = A
    BY <1>2, <2>2 DEF schemaOf, Support
  <2>4. Schemas' = [Schemas EXCEPT ![n] = A] /\ Damaged' = Damaged /\ n \notin Damaged /\ Schemas[n] = {}
    BY <1>3, <1>4, <1>6, <2>3, MappedChange
  <2>5. Abstract!Create(n, A)
    BY <1>2, <2>4 DEF Abstract!Create, Schemas, Damaged, schemaOf, Support
  <2> QED BY <2>5
<1> QED BY <1>5, <1>6

LEMMA DropMapped ==
  ASSUME Running, NEW n \in Names, DropRel(n)
  PROVE  Abstract!Damage(n) \/ Abstract!Drop(n)
<1>1. /\ files' = files \ {n} /\ broken' = broken \ {n} /\ UNCHANGED <<attrcat, past>>
  BY DEF DropRel
<1>2. \A m \in Names \ {n} : Kept(m)
  BY <1>1 DEF Kept, schemaOf, Support
<1>3. schemaOf(n)' = {}
  BY <1>1 DEF schemaOf
<1>4. CASE past[n] = "crashed"
  BY <1>2, <1>3, <1>4, MappedDamage
<1>5. CASE past[n] # "crashed"
  <2>1. Schemas' = [Schemas EXCEPT ![n] = {}] /\ Damaged' = Damaged /\ n \notin Damaged
    BY <1>1, <1>2, <1>3, <1>5, MappedChange
  <2> QED BY <2>1 DEF Abstract!Drop, Schemas, Damaged, schemaOf, Support
<1> QED BY <1>4, <1>5

(* Rows come and go of a relation without a file, which has no schema, or of
   one that a crash damaged. *)
LEMMA RowsMapped ==
  ASSUME Running, NEW a \in Attrs, CreateAttr(a) \/ DropAttr(a)
  PROVE  UNCHANGED Abstract!vars \/ \E n \in Names : Abstract!Damage(n)
<1> USE DEF Running, IInv
<1>0. op.kind = "create" \/ op.kind = "drop"
  BY DEF CreateAttr, DropAttr
<1>1. PICK n \in Names : n = op.rel
  BY <1>0 DEF Command
<1>2. /\ UNCHANGED <<files, broken, past>>
      /\ \A m \in Names \ {n} : attrcat'[m] = attrcat[m]
  BY <1>1 DEF CreateAttr, DropAttr, TypeOK
<1>3. \A m \in Names \ {n} : Kept(m)
  BY <1>2 DEF Kept, schemaOf, Support
<1>4. CASE past[n] = "crashed"
  BY <1>2, <1>3, <1>4, MappedDamage
<1>5. CASE past[n] # "crashed"
  <2>1. n \notin files
    BY <1>0, <1>1, <1>5 DEF State, Creating, Command
  <2>2. Kept(n)
    BY <1>2, <2>1 DEF Kept, schemaOf
  <2> QED BY <1>3, <2>2, MappedStutter
<1> QED BY <1>4, <1>5

LEMMA DropRowMapped ==
  ASSUME Running, DropRow
  PROVE  UNCHANGED Abstract!vars \/ \E n \in Names : Abstract!Damage(n)
<1> USE DEF Running, IInv
<1>1. PICK n \in Names : n = op.rel
  BY DEF DropRow, Command
<1>2. /\ n \notin files /\ UNCHANGED <<attrcat, files, broken>> /\ past' = [past EXCEPT ![n] = "sound"]
  BY <1>1 DEF DropRow, Command
<1>3. (\A m \in Names \ {n} : Kept(m)) /\ schemaOf(n) = {} /\ schemaOf(n)' = {} /\ past'[n] = "sound"
  BY <1>2 DEF Kept, schemaOf, Support, TypeOK
<1>4. CASE past[n] = "crashed"
  BY <1>3, <1>4, MappedDamage
<1>5. CASE past[n] # "crashed"
  <2>1. Kept(n)
    BY <1>3, <1>5 DEF Kept
  <2> QED BY <1>3, <2>1, MappedStutter
<1> QED BY <1>4, <1>5

(* createHeapFile or any other call fails: there is no relation, and there
   was none *)
LEMMA FailMapped ==
  ASSUME Running, CreateHalfFile \/ Fail
  PROVE  UNCHANGED Abstract!vars
<1> USE DEF Running, IInv
<1>1. PICK n \in Names : n = op.rel
  BY DEF CreateHalfFile, Fail, Command, TypeOK
<1>2. past' = Ended(n, "failed") /\ UNCHANGED attrcat
  BY <1>1 DEF CreateHalfFile, Fail
<1>3. \A m \in Names : past'[m] = "crashed" <=> past[m] = "crashed"
  BY <1>2, EndedFacts
<1>4. \A m \in Names : m \in files' \ broken' <=> m \in files \ broken
  BY <1>1 DEF CreateHalfFile, Fail
<1>5. \A m \in Names : Kept(m)
  BY <1>2, <1>3, <1>4 DEF Kept, schemaOf, Support
<1> QED BY <1>5, MappedStutter

LEMMA CrashMapped ==
  ASSUME Running, Crash
  PROVE  Abstract!Crash
<1>1. UNCHANGED <<files, broken>> /\ attrcat' = attrDisk
      /\ past' = [n \in Names |-> IF Caught(n) THEN "crashed" ELSE past[n]]
  BY DEF Crash
<1>2. Damaged \subseteq Damaged' /\ Damaged' \subseteq Names
  BY <1>1 DEF Damaged
<1>3. ASSUME NEW m \in Names \ Damaged' PROVE schemaOf(m)' = schemaOf(m)
  BY <1>1, <1>3 DEF Damaged, Caught, schemaOf, Support
<1>4. \A m \in Names \ Damaged' : Schemas'[m] = Schemas[m]
  BY <1>3 DEF Schemas
<1> QED BY <1>2, <1>4 DEF Abstract!Crash, Abstract!Others, Schemas, Damaged, schemaOf, Support

LEMMA MappedNext == IInv /\ [Next]_vars => [Abstract!Next]_(Abstract!vars)
<1> SUFFICES ASSUME IInv, [Next]_vars PROVE Abstract!Next \/ UNCHANGED Abstract!vars
  OBVIOUS
<1>1. CASE UNCHANGED <<attrcat, files, broken, past>>
  <2>1. \A m \in Names : Kept(m)
    BY <1>1 DEF Kept, schemaOf, Support
  <2> QED BY <2>1, MappedStutter
<1>2. CASE Next
  <2> Running
    BY <1>2 DEF Running, Next
  <2>1. ASSUME NEW n \in Names, NEW A \in (SUBSET Attrs) \ {{}}, CreateRel(n, A)
        PROVE  UNCHANGED <<attrcat, files, broken, past>>
    BY <2>1 DEF CreateRel, AddRelRow
  <2>2. DropLookup \/ Quit \/ (\E n \in Names : WriteBack(n)) => UNCHANGED <<attrcat, files, broken, past>>
    BY DEF DropLookup, Quit, WriteBack
  <2> QED
    BY <1>1, <1>2, <2>1, <2>2, CreateMapped, DropMapped, RowsMapped, DropRowMapped, FailMapped,
       CrashMapped DEF Next, Abstract!Next
<1>3. CASE UNCHANGED vars
  BY <1>1, <1>3 DEF vars
<1> QED BY <1>2, <1>3

(* createRel and destroyRel, with all their steps and failures, are the
   atomic operations of Relations: a relation is there with all its
   attributes or not at all, except what a crash damaged. *)
THEOREM RelationsImplemented == NamesApart /\ Spec => ImplementsRelations
<1> SUFFICES ASSUME NamesApart PROVE Spec => ImplementsRelations
  OBVIOUS
<1> QED BY Invariance, MappedInit, MappedNext, PTL DEF Spec, ImplementsRelations, Abstract!Spec
=============================================================================
