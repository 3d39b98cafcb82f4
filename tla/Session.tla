------------------------------ MODULE Session ------------------------------
(***************************************************************************)
(* A session of part5/part5: the statements interp (parser/interp.C)       *)
(* dispatches, and what QU_Select, QU_NL_Join, QU_Insert, QU_Delete,       *)
(* QU_Update, UT_Load and UT_Print do with the scans they open.  Relations *)
(* are created and dropped in one step (Relations, which Catalog           *)
(* implements).  A relation is a bag of records, and a scan the records it *)
(* has yet to pass (HeapFile): a record inserted under a scan may go to a  *)
(* page ahead of it or behind.                                             *)
(*                                                                         *)
(* One loop iteration is one step.  Statements name attributes there are,  *)
(* with values of their type, unless an action says otherwise.             *)
(***************************************************************************)
EXTENDS Integers, FiniteSets, FiniteSetsExt

CONSTANTS
    Names,      \* names of relations users create
    Tmp,        \* "Tmp_Ubase_Result", which holds the result of a query without one
    Cat,        \* the catalog files
    Vals,       \* records of the one integer attribute every relation has
    Filters,    \* where clauses of one relation: sets of records
    Ops,        \* operators of joins, of "EQ", "NE", "LT"
    Sides,      \* whose attribute joins select: of "outer", "inner"
    Methods,    \* join methods a session may be started with, of "NL", "SM", "HJ"
    Cap,        \* bound: equal records of a relation (more count as Cap)
    MaxRecs,    \* bound: records users put into a relation, and of one a query adds to,
                \* or reads beside it
    MaxScan,    \* bound: records of a relation a statement scans
    MaxBad      \* bound: names of users that statements have left something of,
                \* when another does (0: no frame is ever lacking for a page)

ASSUME SessionAssumption == /\ IsFiniteSet(Vals) /\ Vals \subseteq Nat \ {0}
                            /\ Cap \in Nat \ {0}
                            /\ Tmp \notin Names /\ Cat \notin Names \cup {Tmp}

AllNames == Names \cup {Tmp}
Bag      == [Vals -> 0 .. Cap]
Empty    == [v \in Vals |-> 0]

VARIABLES
    rels,       \* relations there are
    stuck,      \* names with catalog rows but no file
    data,       \* AllNames -> Bag
    leftOpen,   \* files that a scan nobody deletes has open
    risk,       \* records whose page entries only such a scan knows of
    erred,      \* history: names in statements that returned an error
    method,     \* JoinMethod
    stmt,       \* the statement under way
    phase       \* "running", or "undefined" after the use of an unset pointer or a
                \* deleted object

vars == <<rels, stuck, data, leftOpen, risk, erred, method, stmt, phase>>

Capped(n)  == IF n > Cap THEN Cap ELSE n
Plus(b, v) == [b EXCEPT ![v] = Capped(b[v] + 1)]
Less(b, v) == [b EXCEPT ![v] = b[v] - 1]
Size(b)    == MapThenSumSet(LAMBDA v : b[v], Vals)
In(b)      == {v \in Vals : b[v] > 0}

(* st: what comes next; ahead, inner: what the scans of the statement have *)
(* yet to pass; cur: the outer record of a join, or the one loaded for     *)
(* ever; op, side: the operator of a join and the relation, of the two,    *)
(* whose attribute is selected; before: the result relation at the start;  *)
(* odd: whether a loop that data does not bound has inserted an odd number *)
(* of records, as not all of these are counted.                            *)
Idle == [kind |-> "idle", st |-> "none", src |-> Tmp, src2 |-> Tmp, res |-> Tmp,
         flt |-> {}, op |-> "EQ", side |-> "inner", cur |-> 0,
         ahead |-> Empty, inner |-> Empty, before |-> Empty, odd |-> FALSE]

Init ==
    /\ rels = {} /\ stuck = {} /\ leftOpen = {} /\ erred = {}
    /\ data = [n \in AllNames |-> Empty] /\ risk = [n \in AllNames |-> Empty]
    /\ method \in Methods
    /\ stmt = Idle /\ phase = "running"

Stmt(S) == stmt' = S /\ UNCHANGED <<method, phase>>
Fails   == Cardinality((leftOpen \cup stuck) \ {Cat}) < MaxBad

Added == [v \in Vals |-> data[stmt.res][v] - stmt.before[v]]

(* The statement returns an error; its scans on the relations of S, and    *)
(* perhaps one on a catalog, are never deleted, and the pages of R unsaved *)
(* as they were when it stopped.                                           *)
Abandon(S, R) ==
    /\ \E C \in SUBSET {Cat} : leftOpen' = leftOpen \cup S \cup C
    /\ erred' = erred \cup S
    /\ risk' = [n \in AllNames |-> IF n \in R THEN [v \in Vals |-> Capped(risk[n][v] + Added[v])]
                                   ELSE risk[n]]

Ending(S) == IF S.kind \in {"select", "join"} /\ S.res = Tmp
             THEN [Idle EXCEPT !.kind = "show", !.st = "print"] ELSE Idle

-----------------------------------------------------------------------------
(* CREATE TABLE, DROP TABLE.  getInfo does not delete its scan of relcat   *)
(* when it finds no row: every relation that is created leaves one open.   *)

Create(n) ==
    /\ stmt = Idle /\ n \notin rels \cup stuck
    /\ rels' = rels \cup {n}
    /\ data' = [data EXCEPT ![n] = Empty]
    /\ leftOpen' = leftOpen \cup {Cat}
    /\ Stmt(stmt)
    /\ UNCHANGED <<stuck, risk, erred>>

(* createRel or destroyRel stops half way: catalog rows without a file *)
HalfDone(n) ==
    /\ Fails /\ stmt = Idle /\ n \notin leftOpen \cup stuck
    /\ rels' = rels \ {n} /\ stuck' = stuck \cup {n}
    /\ data' = [data EXCEPT ![n] = Empty]
    /\ erred' = erred \cup {n}
    /\ leftOpen' = leftOpen \cup {Cat}
    /\ Stmt(stmt)
    /\ UNCHANGED risk

Drop_Open(n) ==             \* mutant: destroyFile does not ask whether it is open
    /\ stmt = Idle /\ n \in rels
    /\ rels' = rels \ {n}
    /\ data' = [data EXCEPT ![n] = Empty]
    /\ erred' = erred \ {n}
    /\ Stmt(stmt)
    /\ UNCHANGED <<stuck, leftOpen, risk>>

Drop_Rows(n) ==             \* mutant: only the catalog rows are removed
    /\ stmt = Idle /\ n \in rels \ leftOpen
    /\ rels' = rels \ {n}
    /\ erred' = erred \ {n}
    /\ Stmt(stmt)
    /\ UNCHANGED <<stuck, data, leftOpen, risk>>

Drop(n) ==
    /\ stmt = Idle /\ n \in rels \ leftOpen
    /\ rels' = rels \ {n}
    /\ data' = [data EXCEPT ![n] = Empty]
    /\ erred' = erred \ {n}
    /\ Stmt(stmt)
    /\ UNCHANGED <<stuck, leftOpen, risk>>

(* A statement on a relation without a file goes on with a pointer to      *)
(* nothing (HeapFile::HeapFile, after File::open failed).                  *)
OpensNothing(n) ==
    /\ stmt = Idle /\ n \notin rels
    /\ phase' = "undefined"
    /\ UNCHANGED <<rels, stuck, data, leftOpen, risk, erred, method, stmt>>

(* LOAD and PRINT ask the catalog first: RELNOTFOUND *)
NotFound(n) ==
    /\ stmt = Idle /\ n \notin rels \cup stuck
    /\ leftOpen' = leftOpen \cup {Cat}
    /\ Stmt(stmt)
    /\ UNCHANGED <<rels, stuck, data, risk, erred>>

-----------------------------------------------------------------------------
(* INSERT: QU_Insert opens the scan and then counts the attributes *)

Insert(n, v) ==
    /\ stmt = Idle /\ n \in rels \cap Names /\ Size(data[n]) < MaxRecs
    /\ data' = [data EXCEPT ![n] = Plus(data[n], v)]
    /\ Stmt(stmt)
    /\ UNCHANGED <<rels, stuck, leftOpen, risk, erred>>

(* ATTRIBUTELACK, BADSCANPARM of a DELETE, or no page: the scan is lost *)
Refused(n) ==
    /\ stmt = Idle /\ n \in rels /\ Fails
    /\ Abandon({n}, {})
    /\ Stmt(stmt)
    /\ UNCHANGED <<rels, stuck, data>>

-----------------------------------------------------------------------------
(* LOAD: records are read from a Unix file and inserted until read answers *)
(* 0.  An error of read is not 0: what is in the buffer is inserted for    *)
(* ever.                                                                   *)

LoadBegin(n) ==
    /\ stmt = Idle /\ n \in rels \cap Names
    /\ Stmt([Idle EXCEPT !.kind = "load", !.st = "insert", !.res = n, !.before = data[n]])
    /\ UNCHANGED <<rels, stuck, data, leftOpen, risk, erred>>

Scanned(s) == CASE s = "ahead" -> stmt.src
                [] s = "inner" /\ stmt.st = "inner" -> stmt.src2
                [] OTHER -> "none"

FeedsItself == stmt.kind \in {"select", "join"} /\ stmt.res \in {stmt.src, stmt.src2}

(* v goes to the result relation; a scan of that may come to it *)
Put(v, S) ==
    /\ data' = [data EXCEPT ![stmt.res] = Plus(data[stmt.res], v)]
    /\ \E A \in SUBSET {s \in {"ahead", "inner"} : stmt.st # "again" /\ Scanned(s) = stmt.res} :
          Stmt([S EXCEPT !.odd = ~S.odd /\ (FeedsItself \/ S.st = "again"),
                         !.ahead = IF "ahead" \in A THEN Plus(S.ahead, v) ELSE S.ahead,
                         !.inner = IF "inner" \in A THEN Plus(S.inner, v) ELSE S.inner])
    /\ UNCHANGED <<rels, stuck, leftOpen, risk, erred>>

LoadNext(v) ==
    /\ stmt.kind = "load" /\ stmt.st = "insert"
    /\ Size(data[stmt.res]) < MaxRecs
    /\ \E S \in {stmt, [stmt EXCEPT !.st = "again", !.cur = v]} : Put(v, S)

LoadAgain == stmt.kind = "load" /\ stmt.st = "again" /\ Put(stmt.cur, stmt)

LoadEnd ==
    /\ stmt.kind = "load" /\ stmt.st = "insert"
    /\ Stmt(Idle)
    /\ UNCHANGED <<rels, stuck, data, leftOpen, risk, erred>>

LoadFails ==
    /\ Fails /\ stmt.kind = "load"
    /\ Abandon({stmt.res}, {stmt.res})
    /\ Stmt(Idle)
    /\ UNCHANGED <<rels, stuck, data>>

-----------------------------------------------------------------------------
(* DELETE, and UPDATE, which deletes what it finds and inserts nothing     *)
(* instead; it has two scans open.  PRINT reads and deletes nothing.       *)

PassBegin(kind, n, F) ==
    /\ stmt = Idle /\ n \in rels /\ Size(data[n]) <= MaxScan
    /\ Stmt([Idle EXCEPT !.kind = kind, !.st = "next", !.src = n, !.res = n, !.flt = F,
                         !.ahead = data[n], !.before = data[n]])
    /\ UNCHANGED <<rels, stuck, data, leftOpen, risk, erred>>

(* For an attribute there is not, getInfo leaves the descriptor unset.  If *)
(* startScan refuses it as an INTEGER, QU_Update returns OK.               *)
UpdateNothing(n) ==
    /\ stmt = Idle /\ n \in rels /\ Fails
    /\ leftOpen' = leftOpen \cup {n}
    /\ Stmt(stmt)
    /\ UNCHANGED <<rels, stuck, data, risk, erred>>

DeleteBegin(n, F) == PassBegin("delete", n, F)
UpdateBegin(n, F) == PassBegin("delete", n, F) \/ UpdateNothing(n)
PrintBegin(n) == PassBegin("print", n, Vals)

DeleteNext_Skips(v) ==      \* mutant: the scan steps over what moved to the freed slot
    /\ stmt.kind = "delete" /\ v \in In(stmt.ahead) \cap stmt.flt
    /\ data' = [data EXCEPT ![stmt.src] = Less(data[stmt.src], v)]
    /\ Stmt([stmt EXCEPT !.ahead[v] = 0])
    /\ UNCHANGED <<rels, stuck, leftOpen, risk, erred>>

DeleteNext(v) ==
    /\ stmt.kind = "delete" /\ v \in In(stmt.ahead) \cap stmt.flt
    /\ data' = [data EXCEPT ![stmt.src] = Less(data[stmt.src], v)]
    /\ Stmt([stmt EXCEPT !.ahead = Less(stmt.ahead, v)])
    /\ UNCHANGED <<rels, stuck, leftOpen, risk, erred>>

DeleteEnd ==
    /\ stmt.kind = "delete" /\ In(stmt.ahead) \cap stmt.flt = {}
    /\ Stmt(Idle)
    /\ UNCHANGED <<rels, stuck, data, leftOpen, risk, erred>>

(* The loop goes on after a failed scanNext; deleteRecord then finds the   *)
(* current record on another page than the current one and refuses.        *)
DeleteFails ==
    /\ Fails /\ stmt.kind \in {"delete", "print"}
    /\ Abandon({stmt.src}, {})
    /\ Stmt(Idle)
    /\ UNCHANGED <<rels, stuck, data>>

PrintEnd ==
    /\ stmt.kind = "print"
    /\ Stmt(Idle)
    /\ UNCHANGED <<rels, stuck, data, leftOpen, risk, erred>>

-----------------------------------------------------------------------------
(* SELECT ... INTO res: the relation must match, or is created; without    *)
(* INTO the result goes to Tmp, which must not be there.  Looking for a    *)
(* relation that is not there leaves a scan of relcat open.                *)

(* QU_Join: there is no code for the other methods *)
NestedLoops(op) == method = "NL" \/ (method = "HJ" /\ op # "EQ")

QueryBegin(S) ==
    /\ stmt = Idle /\ {S.src, S.src2} \subseteq rels
    /\ S.res \notin stuck /\ (S.res = Tmp => Tmp \notin rels)
    /\ rels' = rels \cup {S.res}
    /\ LET was == IF S.res \in rels THEN data[S.res] ELSE Empty IN
       /\ Size(was) <= MaxRecs
       /\ \A n \in {S.src, S.src2} :
             Size(data[n]) <= IF S.res \in {S.src, S.src2} THEN MaxRecs ELSE MaxScan
       /\ data' = [data EXCEPT ![S.res] = was]
       /\ Stmt([S EXCEPT !.before = was])
    /\ leftOpen' = IF S.res \in rels THEN leftOpen ELSE leftOpen \cup {Cat}
    /\ UNCHANGED <<stuck, risk, erred>>

SelectBegin(res, n, F) ==
    QueryBegin([Idle EXCEPT !.kind = "select", !.st = "next", !.src = n, !.src2 = n,
                            !.res = res, !.flt = F, !.ahead = data[n]])

(* the two relations of a join with itself have one name *)
JoinBegin(res, n, m, op, side) ==
    LET S == [Idle EXCEPT !.kind = "join", !.src = n, !.src2 = m, !.res = res] IN
    QueryBegin(IF NestedLoops(op)
               THEN [S EXCEPT !.st = "next", !.op = op, !.ahead = data[n],
                              !.side = IF n = m THEN "inner" ELSE side]
               ELSE [S EXCEPT !.st = "empty"])

SelectNext_Any(v) ==        \* mutant: the filter is not applied
    /\ stmt.kind = "select" /\ stmt.st = "next" /\ v \in In(stmt.ahead)
    /\ Put(v, [stmt EXCEPT !.ahead = Less(stmt.ahead, v)])

SelectNext(v) ==
    /\ stmt.kind = "select" /\ stmt.st = "next"
    /\ v \in In(stmt.ahead) \cap stmt.flt
    /\ Put(v, [stmt EXCEPT !.ahead = Less(stmt.ahead, v)])

SelectEnd ==
    /\ stmt.kind = "select" /\ stmt.st = "next" /\ In(stmt.ahead) \cap stmt.flt = {}
    /\ Stmt(Ending(stmt))
    /\ UNCHANGED <<rels, stuck, data, leftOpen, risk, erred>>

Compare(a, op, b) == CASE op = "EQ" -> a = b [] op = "NE" -> a # b [] op = "LT" -> a < b

(* The inner scan of the outer record v: HeapFileScan::matchRec has the    *)
(* record it looks at, an inner one, to the left of the operator.          *)
InnerScan(v) == [w \in Vals |-> IF Compare(w, stmt.op, v) THEN data[stmt.src2][w] ELSE 0]

JoinOuter_Same(v) ==        \* mutant: the outer scan is started again, too
    /\ stmt.kind = "join" /\ stmt.st = "next" /\ v \in In(stmt.ahead)
    /\ Stmt([stmt EXCEPT !.st = "inner", !.cur = v, !.inner = InnerScan(v)])
    /\ UNCHANGED <<rels, stuck, data, leftOpen, risk, erred>>

(* nested loops: an inner scan for each outer record *)
JoinOuter(v) ==
    /\ stmt.kind = "join" /\ stmt.st = "next" /\ v \in In(stmt.ahead)
    /\ Stmt([stmt EXCEPT !.ahead = Less(stmt.ahead, v), !.st = "inner", !.cur = v,
                         !.inner = InnerScan(v)])
    /\ UNCHANGED <<rels, stuck, data, leftOpen, risk, erred>>

(* The attributes of either relation are copied, those of the inner record *)
(* last: with itself, a relation's join shows only these.                  *)
Projected(a, b) == IF stmt.side = "outer" THEN a ELSE b

JoinInner(w) ==
    /\ stmt.kind = "join" /\ stmt.st = "inner" /\ w \in In(stmt.inner)
    /\ Put(Projected(stmt.cur, w), [stmt EXCEPT !.inner = Less(stmt.inner, w)])

JoinInnerEnd_Stops ==       \* mutant: the outer scan is not gone on with
    /\ stmt.kind = "join" /\ stmt.st = "inner" /\ stmt.inner = Empty
    /\ Stmt([stmt EXCEPT !.st = "next", !.cur = 0, !.ahead = Empty])
    /\ UNCHANGED <<rels, stuck, data, leftOpen, risk, erred>>

JoinInnerEnd ==
    /\ stmt.kind = "join" /\ stmt.st = "inner" /\ stmt.inner = Empty
    /\ Stmt([stmt EXCEPT !.st = "next", !.cur = 0])
    /\ UNCHANGED <<rels, stuck, data, leftOpen, risk, erred>>

JoinEnd ==
    /\ stmt.kind = "join"
    /\ stmt.st = "empty" \/ (stmt.st = "next" /\ stmt.ahead = Empty)
    /\ Stmt(Ending(stmt))
    /\ UNCHANGED <<rels, stuck, data, leftOpen, risk, erred>>

Querying == stmt.kind \in {"select", "join"} /\ stmt.st \in {"next", "inner", "again"}

(* A scan cannot read its next page: scanNext answers neither OK nor       *)
(* FILEEOF, and the loop takes whatever the frame it has lost holds now.   *)
ReadFails ==
    /\ Fails /\ Querying /\ stmt.st # "again"
    /\ Stmt([stmt EXCEPT !.st = "again", !.cur = 0, !.flt = {}, !.op = "EQ", !.side = "inner",
                         !.ahead = Empty, !.inner = Empty])
    /\ UNCHANGED <<rels, stuck, data, leftOpen, risk, erred>>

Again(v) == Querying /\ stmt.st = "again" /\ Put(v, [stmt EXCEPT !.ahead = Empty])

(* the error of any other call is returned *)
QueryFails ==
    /\ Fails /\ Querying
    /\ \E S \in {{}, {stmt.src}, {stmt.src, stmt.res}, {stmt.src, stmt.res, stmt.src2}} :
          /\ Added # Empty => stmt.res \in S
          /\ Abandon(S, {stmt.res})
    /\ Stmt(Ending(stmt))
    /\ UNCHANGED <<rels, stuck, data>>

(* interp prints Tmp and destroys it, whatever the query returned *)
ShowPrint ==
    /\ stmt.kind = "show" /\ stmt.st = "print"
    /\ \/ UNCHANGED <<leftOpen, erred, risk>>
       \/ Fails /\ Abandon({Tmp}, {})
    /\ Stmt([stmt EXCEPT !.st = "drop"])
    /\ UNCHANGED <<rels, stuck, data>>

ShowDrop_Kept ==            \* mutant: the result relation is not destroyed
    /\ stmt.kind = "show" /\ stmt.st = "drop"
    /\ Stmt(Idle)
    /\ UNCHANGED <<rels, stuck, data, leftOpen, risk, erred>>

ShowDrop ==
    /\ stmt.kind = "show" /\ stmt.st = "drop"
    /\ IF Tmp \in leftOpen THEN UNCHANGED <<rels, stuck, data, leftOpen, erred>>
       ELSE /\ rels' = rels \ {Tmp} /\ data' = [data EXCEPT ![Tmp] = Empty]
            /\ \/ UNCHANGED <<stuck, leftOpen, erred>>
               \/ /\ Fails /\ stuck' = stuck \cup {Tmp} /\ erred' = erred \cup {Tmp}
                  /\ leftOpen' = leftOpen \cup {Cat}
    /\ Stmt(Idle)
    /\ UNCHANGED risk

-----------------------------------------------------------------------------
(* QUIT and the next session, which may name another join method.  What    *)
(* only a lost scan knew of is lost with it.                               *)
NextSession ==
    /\ data' \in {d \in [AllNames -> Bag] :
                    \A n \in AllNames, v \in Vals :
                        /\ d[n][v] <= data[n][v]
                        /\ d[n][v] >= data[n][v] - risk[n][v]}
    /\ leftOpen' = {} /\ risk' = [n \in AllNames |-> Empty]
    /\ erred' = erred \cap (stuck \cup {Tmp})
    /\ method' \in Methods
    /\ UNCHANGED <<rels, stuck, stmt, phase>>

(* A file that a lost scan has open is still there at exit, and flushes    *)
(* itself through the deleted buffer manager.  If nothing has overwritten  *)
(* that, it answers PAGEPINNED, and all is as if it had not been asked.    *)
Quit ==
    /\ stmt = Idle
    /\ \/ NextSession
       \/ /\ leftOpen # {} /\ phase' = "undefined"
          /\ UNCHANGED <<rels, stuck, data, leftOpen, risk, erred, method, stmt>>

(* a step of the program's own, given a statement *)
Step ==
    \/ \E v \in Vals : LoadNext(v) \/ DeleteNext(v) \/ SelectNext(v) \/ Again(v)
                       \/ JoinOuter(v) \/ JoinInner(v)
    \/ LoadAgain \/ LoadEnd \/ LoadFails \/ DeleteEnd \/ DeleteFails \/ PrintEnd
    \/ SelectEnd \/ JoinInnerEnd \/ JoinEnd \/ ReadFails \/ QueryFails
    \/ ShowPrint \/ ShowDrop

Next ==
    /\ phase = "running"
    /\ \/ Step
       \/ \E n \in Names : Create(n)
       \/ \E n \in AllNames : Drop(n) \/ HalfDone(n) \/ Refused(n)
                                \/ OpensNothing(n) \/ NotFound(n)
       \/ \E n \in Names, v \in Vals : Insert(n, v)
       \/ \E n \in Names : LoadBegin(n)
       \/ \E n \in AllNames, F \in Filters : DeleteBegin(n, F) \/ UpdateBegin(n, F)
       \/ \E n \in AllNames : PrintBegin(n)
       \/ \E r, n \in AllNames, F \in Filters : SelectBegin(r, n, F)
       \/ \E r \in AllNames, n, m \in Names, op \in Ops, side \in Sides :
             JoinBegin(r, n, m, op, side)
       \/ Quit

Spec == Init /\ [][Next]_vars
(* the program runs: whatever its calls answer, the loop goes on *)
FairSpec == Spec /\ WF_vars(phase = "running" /\ Step)

-----------------------------------------------------------------------------
(* Properties *)

(* The variables keep their shapes; a relation without a file has no
   records, and no statement is under way on one that is not there. *)
TypeOK ==
    /\ stmt.cur # 0 <=> stmt.st = "inner" \/ (stmt.kind = "load" /\ stmt.st = "again")
    /\ rels \cup stuck \cup erred \subseteq AllNames /\ leftOpen \subseteq AllNames \cup {Cat}
    /\ rels \cap stuck = {}
    /\ data \in [AllNames -> Bag] /\ risk \in [AllNames -> Bag]
    /\ \A n \in AllNames \ rels : data[n] = Empty
    /\ {stmt.ahead, stmt.inner, stmt.before} \subseteq Bag
    /\ stmt.kind \notin {"idle", "show"} => {stmt.src, stmt.src2, stmt.res} \ {Tmp} \subseteq rels
    /\ method \in Methods /\ phase \in {"running", "undefined"}

(* A restart loses no record of a relation, unless a statement on it has
   returned an error since it was created: whatever scans are left open, on
   this relation or another, only an insert that was not gone through with
   leaves a directory page that nobody says has changed (HeapFile!Fail), and
   a relation in that state cannot be dropped and created anew. *)
RestartKeeps == [][Quit => \A n \in AllNames \ erred : data'[n] = data[n]]_vars

(* The result relation of a query without one outlives the query, and so
   bars every later one, only if a call on it returned an error. *)
TmpOnlyAfterError == stmt = Idle /\ Tmp \in rels \cup stuck => Tmp \in erred

(* A select that returns OK has added the records that match, each as often
   as its source has it, to the result relation, unless that is its source. *)
SelectExact ==
    [][SelectEnd /\ stmt.src # stmt.res =>
          \A v \in Vals : data[stmt.res][v] =
              Capped(stmt.before[v] + IF v \in stmt.flt THEN data[stmt.src][v] ELSE 0)]_vars

(* a record, and which of its equals it is *)
Records == Vals \X (1 .. Cap)

(* how many of the pairs `attr1 op attr2' asks for (interp.C:333) add v *)
Asked(v) ==
    Cardinality({p \in Records \X Records :
        /\ p[1][2] <= data[stmt.src][p[1][1]] /\ p[2][2] <= data[stmt.src2][p[2][1]]
        /\ Compare(p[1][1], stmt.op, p[2][1])
        /\ v = IF stmt.side = "outer" THEN p[1][1] ELSE p[2][1]})

JoinDone == JoinEnd /\ stmt.st = "next" /\ stmt.res \notin {stmt.src, stmt.src2}
JoinAdds == \A v \in Vals : data[stmt.res][v] = Capped(stmt.before[v] + Asked(v))

(* A join of two relations that returns OK has added every pair that
   matches, if the operator reads the same from both sides and the method is
   one there is code for. *)
JoinExact ==
    [][JoinDone /\ stmt.op \in {"EQ", "NE"} /\ stmt.src # stmt.src2 => JoinAdds]_vars

(* "if qual is `attr1 op attr2' then this is a join" (interp.C:333): of those
   pairs, whatever the operator. *)
JoinAsAsked == [][JoinDone /\ stmt.src # stmt.src2 => JoinAdds]_vars

(* A delete that returns OK has deleted what matches and nothing else. *)
DeleteExact ==
    [][DeleteEnd => data[stmt.src] =
          [v \in Vals |-> IF v \in stmt.flt THEN 0 ELSE stmt.before[v]]]_vars

(* Every statement ends, whatever its calls answer, but for three: a query
   into a relation it reads, a query that lost a page it scans, and a load
   from a file that cannot be read.  (That is, "stmt # Idle leads to one of
   these": where it is Idle it is there already.) *)
StatementEnds ==
    []<>(stmt = Idle \/ FeedsItself \/ stmt.st = "again")
=============================================================================
