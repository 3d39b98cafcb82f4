------------------------------ MODULE Catalog ------------------------------
(***************************************************************************)
(* The two catalogs of part5/part5 (catalog.C), and createRel and          *)
(* destroyRel (create.C, destroy.C), which change a row of relcat, several *)
(* rows of attrcat and a Unix file one after the other, each of which may  *)
(* fail.  Files come and go at once; rows reach the disk when the pool     *)
(* writes their page, or at the end of the session, or never (a crash).    *)
(*                                                                         *)
(* attrcat is a bag of rows: its scans do not depend on their order.  The  *)
(* order of relcat matters to removeInfo only, which takes the first row   *)
(* that matches; here, any of them.                                        *)
(***************************************************************************)
EXTENDS Integers, FiniteSets

CONSTANTS
    Names,                     \* names of relations users create
    RelCatName, AttrCatName,   \* RELCATNAME, ATTRCATNAME
    Attrs,                     \* attribute names
    Short, Longer,             \* a name, and the names that begin with it
    AttrArray,                 \* size of the array getRelInfo fills
    MaxRows,                   \* bound: equal rows of attrcat
    Faults                     \* "call": any call may fail; "crash": the process may die

ASSUME NamesAssumption == RelCatName # AttrCatName /\ {RelCatName, AttrCatName} \cap Names = {}
ASSUME AttrsAssumption == IsFiniteSet(Attrs)
ASSUME BoundsAssumption == AttrArray \in Nat /\ MaxRows \in Nat \ {0}

AllNames == Names \cup {RelCatName, AttrCatName}

VARIABLES
    relcat,     \* AllNames -> attrCnt of the relation's row, 0 if it has none
    attrcat,    \* Names -> Attrs -> how many rows
    relDisk, attrDisk,   \* the same, as the catalogs' files have them
    files,      \* relations whose Unix file exists
    broken,     \* files whose createHeapFile failed half way
    leftOpen,   \* files it left open
    op,         \* the command under way, and the rows it has yet to treat
    past,       \* history of each name: "sound" if its last command worked
    phase       \* "running", or "undefined" once an array has overflowed

vars == <<relcat, attrcat, relDisk, attrDisk, files, broken, leftOpen, op, past, phase>>

NoRows == [a \in Attrs |-> 0]
RowsOf(A) == [a \in Attrs |-> IF a \in A THEN 1 ELSE 0]
RowCount(rows) == Cardinality({r \in Attrs \X (1 .. MaxRows) : r[2] <= rows[r[1]]})

Idle == [kind |-> "none", rel |-> RelCatName, rows |-> NoRows, at |-> "end"]

(* dbcreate: the catalogs describe themselves and nothing else.  Their own *)
(* rows of attrcat are left out: no command matches them.                  *)
Init ==
    /\ relcat = [n \in AllNames |-> IF n = RelCatName THEN 2 ELSE IF n = AttrCatName THEN 5 ELSE 0]
    /\ attrcat = [n \in Names |-> NoRows]
    /\ relDisk = relcat /\ attrDisk = attrcat
    /\ files = {} /\ broken = {} /\ leftOpen = {}
    /\ op = Idle /\ past = [n \in Names |-> "sound"]
    /\ phase = "running"

(* how a command on n ended; what a crash damaged only a drop repairs *)
Ended(n, how) == [past EXCEPT ![n] = IF past[n] = "crashed" THEN "crashed" ELSE how]

-----------------------------------------------------------------------------
(* RelCatalog::createRel *)

AddRelRow(n, A) ==
    /\ relcat' = [relcat EXCEPT ![n] = Cardinality(A)]
    /\ op' = [kind |-> "create", rel |-> n, rows |-> RowsOf(A), at |-> "attrcat"]
    /\ UNCHANGED <<attrcat, relDisk, attrDisk, files, broken, leftOpen, past, phase>>

CreateRel_Again(n, A) == op = Idle /\ AddRelRow(n, A)     \* mutant: no RELEXISTS

(* getInfo: RELEXISTS if there is a row of that very name *)
CreateRel(n, A) == op = Idle /\ relcat[n] = 0 /\ AddRelRow(n, A)

CreateAttr(a) ==
    LET n == op.rel IN
    /\ op.kind = "create" /\ op.rows[a] > 0
    /\ attrcat[n][a] < MaxRows
    /\ attrcat' = [attrcat EXCEPT ![n][a] = attrcat[n][a] + 1]
    /\ op' = [op EXCEPT !.rows[a] = 0]
    /\ UNCHANGED <<relcat, relDisk, attrDisk, files, broken, leftOpen, past, phase>>

CreateFile_Early ==     \* mutant: the file is created before the rows of attrcat
    LET n == op.rel IN
    /\ op.kind = "create" /\ n \notin files
    /\ files' = files \cup {n}
    /\ IF op.rows = NoRows THEN op' = Idle /\ past' = Ended(n, "sound")
       ELSE UNCHANGED <<op, past>>
    /\ UNCHANGED <<relcat, attrcat, relDisk, attrDisk, broken, leftOpen, phase>>

CreateFile ==
    LET n == op.rel IN
    /\ op.kind = "create" /\ op.rows = NoRows
    /\ n \notin files
    /\ files' = files \cup {n}
    /\ op' = Idle /\ past' = Ended(n, "sound")
    /\ UNCHANGED <<relcat, attrcat, relDisk, attrDisk, broken, leftOpen, phase>>

(* createHeapFile gets no frame for the first pages: it returns the error  *)
(* and leaves the file there and open                                      *)
CreateHalfFile ==
    LET n == op.rel IN
    /\ op.kind = "create" /\ op.rows = NoRows
    /\ n \notin files /\ "call" \in Faults
    /\ files' = files \cup {n} /\ broken' = broken \cup {n}
    /\ leftOpen' = leftOpen \cup {n}
    /\ op' = Idle /\ past' = Ended(n, "failed")
    /\ UNCHANGED <<relcat, attrcat, relDisk, attrDisk, phase>>

(* A call that must fail, or does: the command returns, and what it has    *)
(* done stays done.                                                        *)
MustFail ==
    \/ op.kind = "create" /\ op.rows = NoRows /\ op.rel \in files
    \/ op.kind = "drop" /\ op.at # "attrcat" /\ relcat[op.rel] = 0

Fail ==
    /\ op # Idle
    /\ MustFail \/ "call" \in Faults
    /\ op' = Idle /\ past' = Ended(op.rel, "failed")
    /\ UNCHANGED <<relcat, attrcat, relDisk, attrDisk, files, broken, leftOpen, phase>>

-----------------------------------------------------------------------------
(* RelCatalog::destroyRel: the file, the rows of attrcat, the row of relcat *)

DropRel(n) ==
    /\ op = Idle
    /\ n \in files /\ n \notin leftOpen
    /\ files' = files \ {n} /\ broken' = broken \ {n}
    /\ op' = [kind |-> "drop", rel |-> n, rows |-> NoRows, at |-> "lookup"]
    /\ UNCHANGED <<relcat, attrcat, relDisk, attrDisk, leftOpen, past, phase>>

(* AttrCatalog::getRelInfo copies the rows it finds into an array *)
DropLookup ==
    LET rows == attrcat[op.rel] IN
    /\ op.kind = "drop" /\ op.at = "lookup" /\ relcat[op.rel] # 0
    /\ IF RowCount(rows) > AttrArray
       THEN phase' = "undefined" /\ op' = op
       ELSE phase' = phase /\ op' = [op EXCEPT !.rows = rows, !.at = "attrcat"]
    /\ UNCHANGED <<relcat, attrcat, relDisk, attrDisk, files, broken, leftOpen, past>>

(* AttrCatalog::removeInfo, once for each row found *)
DropAttr_Once(a) ==     \* mutant: one call for rows of the same name
    LET n == op.rel IN
    /\ op.kind = "drop" /\ op.at = "attrcat" /\ op.rows[a] > 0
    /\ attrcat' = [attrcat EXCEPT ![n][a] = attrcat[n][a] - 1]
    /\ op' = [op EXCEPT !.rows[a] = 0]
    /\ UNCHANGED <<relcat, relDisk, attrDisk, files, broken, leftOpen, past, phase>>

DropAttr(a) ==
    LET n == op.rel IN
    /\ op.kind = "drop" /\ op.at = "attrcat" /\ op.rows[a] > 0
    /\ attrcat' = [attrcat EXCEPT ![n][a] = attrcat[n][a] - 1]
    /\ op' = [op EXCEPT !.rows[a] = op.rows[a] - 1]
    /\ UNCHANGED <<relcat, relDisk, attrDisk, files, broken, leftOpen, past, phase>>

(* RelCatalog::removeInfo compares as many bytes as n has *)
BeginsWith(m, n) == m = n \/ (n = Short /\ m \in Longer)

DropRow ==
    LET n == op.rel IN
    /\ op.kind = "drop" /\ op.at = "attrcat" /\ op.rows = NoRows
    /\ \E m \in AllNames :
          /\ relcat[m] # 0 /\ BeginsWith(m, n)
          /\ relcat' = [relcat EXCEPT ![m] = 0]
    /\ op' = Idle /\ past' = [past EXCEPT ![n] = "sound"]
    /\ UNCHANGED <<attrcat, relDisk, attrDisk, files, broken, leftOpen, phase>>

-----------------------------------------------------------------------------
(* What of the catalogs reaches the disk, and what a crash leaves *)

WriteBack(n) ==
    /\ "crash" \in Faults
    /\ \/ /\ relDisk' = [relDisk EXCEPT ![n] = relcat[n]]
          /\ UNCHANGED attrDisk
       \/ \E a \in Attrs : /\ attrDisk' = [attrDisk EXCEPT ![n][a] = attrcat[n][a]]
                           /\ UNCHANGED relDisk
    /\ UNCHANGED <<relcat, attrcat, files, broken, leftOpen, op, past, phase>>

(* the end of a session and the next one *)
Quit ==
    /\ op = Idle
    /\ relDisk' = relcat /\ attrDisk' = attrcat
    /\ leftOpen' = {}
    /\ UNCHANGED <<relcat, attrcat, files, broken, op, past, phase>>

Caught(n) == relDisk[n] # relcat[n] \/ attrDisk[n] # attrcat[n] \/ (op # Idle /\ op.rel = n)

Crash ==
    /\ "crash" \in Faults
    /\ relcat' = relDisk /\ attrcat' = attrDisk
    /\ leftOpen' = {} /\ op' = Idle
    /\ past' = [n \in Names |-> IF Caught(n) THEN "crashed" ELSE past[n]]
    /\ UNCHANGED <<relDisk, attrDisk, files, broken, phase>>

Next ==
    /\ phase = "running"
    /\ \/ \E n \in Names, A \in (SUBSET Attrs) \ {{}} : CreateRel(n, A)
       \/ \E a \in Attrs : CreateAttr(a) \/ DropAttr(a)
       \/ CreateFile \/ CreateHalfFile \/ Fail
       \/ \E n \in Names : DropRel(n) \/ WriteBack(n)
       \/ DropLookup \/ DropRow
       \/ Quit \/ Crash

Spec == Init /\ [][Next]_vars

-----------------------------------------------------------------------------
(* Properties *)

(* The variables keep their shapes: no row is removed that is not there, and
   only what createHeapFile began can be left open. *)
TypeOK ==
    /\ relcat \in [AllNames -> Nat] /\ relDisk \in [AllNames -> Nat]
    /\ attrcat \in [Names -> [Attrs -> 0 .. MaxRows]]
    /\ attrDisk \in [Names -> [Attrs -> 0 .. MaxRows]]
    /\ leftOpen \subseteq broken /\ broken \subseteq files /\ files \subseteq Names
    /\ op \in [kind : {"none", "create", "drop"}, rel : AllNames,
               rows : [Attrs -> 0 .. MaxRows], at : {"end", "lookup", "attrcat"}]
    /\ past \in [Names -> {"sound", "failed", "crashed"}]
    /\ phase \in {"running", "undefined"}

(* All of the relation or nothing: the file, its row, and as many rows of
   attributes as that row says, each of them once. *)
Described(n) == /\ relcat[n] # 0
                /\ \A a \in Attrs : attrcat[n][a] <= 1
                /\ RowCount(attrcat[n]) = relcat[n]
Whole(n)  == n \in files /\ n \notin broken /\ Described(n)
Absent(n) == n \notin files /\ relcat[n] = 0 /\ attrcat[n] = NoRows

(* Between commands a relation whose last create or drop worked is whole or
   absent, whatever commands on other relations failed half way, and
   whatever a crash did to those. *)
Isolation ==
    op = Idle => /\ \A n \in Names : past[n] = "sound" => Whole(n) \/ Absent(n)
                 /\ relcat[RelCatName] = 2 /\ relcat[AttrCatName] = 5

(* Who finds the file of a relation finds its description complete: the file
   is created last and destroyed first.  No command ever runs on a relation
   with some of its attributes. *)
FileImpliesRows == \A n \in files : past[n] # "crashed" => Described(n)

(* No file is without its description, and none is open or broken that is
   not there. *)
CatalogSound == TypeOK /\ FileImpliesRows

(* The array of getRelInfo overflows only on a relation with more attributes
   than it has room for, which the parser lets in and nothing else refuses,
   or on one that a crash left rows of and that was created again. *)
UndefinedOnlyAfterCrash ==
    phase = "undefined" => past[op.rel] = "crashed" \/ relcat[op.rel] > AttrArray

(* "removes the catalog entry for the relation" (destroy.C:8), and no other
   relation's. *)
OnlyItsOwnRow ==
    [][DropRow => \A m \in AllNames \ {op.rel} : relcat'[m] = relcat[m]]_vars

Abstract ==
    INSTANCE Relations WITH
        schema  <- [n \in Names |-> IF n \in files \ broken
                                    THEN {a \in Attrs : attrcat[n][a] > 0} ELSE {}],
        damaged <- {n \in Names : past[n] = "crashed"}

(* createRel and destroyRel with all of their failures are the two atomic
   operations of Relations: the file decides. *)
ImplementsRelations == Abstract!Spec
=============================================================================
