--------------------------- MODULE Session_proofs ---------------------------
(***************************************************************************)
(* Theorems about a session, for any relations, values and filters and     *)
(* whatever the calls answer: what statements leave behind, and what a     *)
(* select, a join and a delete have done when they return OK.              *)
(***************************************************************************)
EXTENDS Session, FiniteSetTheorems, TLAPS

-----------------------------------------------------------------------------
(* The inductive invariant *)

Kinds == {"idle", "load", "delete", "print", "select", "join", "show"}
Steps == {"none", "insert", "again", "next", "inner", "empty", "print", "drop"}

StmtType == [kind : Kinds, st : Steps, src : AllNames, src2 : AllNames, res : AllNames,
             flt : Filters \cup {{}, Vals}, op : Ops \cup {"EQ"}, side : Sides \cup {"inner"},
             cur : Vals \cup {0}, ahead : Bag, inner : Bag, before : Bag, odd : BOOLEAN]

(* how far a statement of each kind may be *)
Shaped(s) ==
    /\ s \in StmtType
    /\ s.kind = "idle" => s = Idle
    /\ s.kind = "load" => s.st \in {"insert", "again"} /\ s.src = Tmp /\ s.src2 = Tmp
    /\ s.kind \in {"delete", "print"} => s.st = "next" /\ s.res = s.src /\ s.src2 = Tmp
    /\ s.kind = "select" => s.st \in {"next", "again"}
    /\ s.kind = "join" => s.st \in {"next", "inner", "empty", "again"}
    /\ s.kind = "show" => s.st \in {"print", "drop"}
    /\ s.cur # 0 <=> s.st = "inner" \/ (s.kind = "load" /\ s.st = "again")

Sets ==
    /\ rels \subseteq AllNames /\ stuck \subseteq AllNames
    /\ leftOpen \subseteq AllNames \cup {Cat} /\ erred \subseteq AllNames
    /\ rels \cap stuck = {}
    /\ method \in Methods /\ phase \in {"running", "undefined"}

Bags ==
    /\ data \in [AllNames -> Bag] /\ risk \in [AllNames -> Bag]
    /\ \A n \in AllNames \ rels : data[n] = Empty

(* A relation of a statement is there as long as the statement is. *)
Present ==
    /\ stmt.kind \in {"load", "delete", "print", "select", "join"} => stmt.res \in rels
    /\ stmt.kind \in {"delete", "print", "select", "join"} => stmt.src \in rels
    /\ stmt.kind \in {"select", "join"} => stmt.src2 \in rels
    /\ stmt.kind = "show" => Tmp \in rels

Growing ==
    stmt.kind \in {"load", "select", "join"} =>
        \A v \in Vals : stmt.before[v] <= data[stmt.res][v]

(* half way through a delete: what matches is what its scan has yet to pass *)
Deleting ==
    stmt.kind = "delete" =>
        \A v \in Vals : data[stmt.src][v] = IF v \in stmt.flt THEN stmt.ahead[v] ELSE stmt.before[v]

(* half way through a select: what matches of what its scan has passed *)
Selecting ==
    stmt.kind = "select" /\ stmt.st = "next" /\ stmt.src # stmt.res =>
        \A v \in Vals :
           /\ stmt.ahead[v] <= data[stmt.src][v]
           /\ data[stmt.res][v] =
                 IF v \in stmt.flt THEN Capped(stmt.before[v] + (data[stmt.src][v] - stmt.ahead[v]))
                 ELSE stmt.before[v]

(* What a restart may lose is of a relation that is open, and so stays, and
   that a failed statement named.  The temporary result is left open only by
   one of these. *)
LeftKnown ==
    /\ \A n \in AllNames : risk[n] # Empty => n \in leftOpen \cap erred
    /\ Tmp \in leftOpen => Tmp \in erred

TmpKept ==
    Tmp \in rels \cup stuck =>
        \/ Tmp \in erred \/ stmt.kind = "show"
        \/ stmt.kind \in {"select", "join"} /\ stmt.res = Tmp

IInv == /\ Shaped(stmt) /\ Sets /\ Bags /\ Present /\ LeftKnown /\ TmpKept
        /\ Growing /\ Deleting /\ Selecting

-----------------------------------------------------------------------------
(* Bags *)

LEMMA ValsFacts == 0 \notin Vals /\ Vals \subseteq Nat /\ Cap \in Nat /\ Cap >= 1
BY SessionAssumption

LEMMA CappedFacts == \A n \in Nat : Capped(n) \in 0 .. Cap /\ (n <= Cap => Capped(n) = n)
                                    /\ Capped(Capped(n) + 1) = Capped(n + 1)
BY ValsFacts DEF Capped

LEMMA EmptyBag == Empty \in Bag /\ \A v \in Vals : Empty[v] = 0
BY ValsFacts DEF Empty, Bag

LEMMA BagOf == \A b \in Bag, v \in Vals : b[v] \in 0 .. Cap /\ b[v] \in Nat
BY ValsFacts DEF Bag

LEMMA PlusFacts ==
  ASSUME NEW b \in Bag, NEW v \in Vals
  PROVE  /\ Plus(b, v) \in Bag /\ Plus(b, v)[v] = Capped(b[v] + 1) /\ b[v] <= Plus(b, v)[v]
         /\ \A w \in Vals : w # v => Plus(b, v)[w] = b[w]
<1>1. Capped(b[v] + 1) \in 0 .. Cap /\ b[v] <= Capped(b[v] + 1)
  BY BagOf, ValsFacts DEF Capped
<1> QED BY <1>1 DEF Plus, Bag

LEMMA LessFacts ==
  ASSUME NEW b \in Bag, NEW v \in Vals, b[v] > 0
  PROVE  /\ Less(b, v) \in Bag /\ Less(b, v)[v] = b[v] - 1
         /\ \A w \in Vals : w # v => Less(b, v)[w] = b[w]
<1>1. b[v] - 1 \in 0 .. Cap
  BY BagOf, ValsFacts
<1> QED BY <1>1 DEF Less, Bag

LEMMA SameBag == \A b, c \in Bag : (\A v \in Vals : b[v] = c[v]) => b = c
BY DEF Bag

LEMMA IdleShaped == Shaped(Idle) /\ Idle.kind = "idle"
BY EmptyBag, ValsFacts DEF Shaped, StmtType, Idle, Kinds, Steps, AllNames

LEMMA CatApart == Tmp \in AllNames /\ Tmp # Cat
BY SessionAssumption DEF AllNames

(* Between statements the invariants of a statement say nothing. *)
LEMMA RestingFacts ==
  ASSUME stmt' = Idle
  PROVE  Shaped(stmt)' /\ Present' /\ Growing' /\ Deleting' /\ Selecting'
BY IdleShaped DEF Present, Growing, Deleting, Selecting

LEMMA InitInv == Init => IInv
<1> SUFFICES ASSUME Init PROVE IInv
  OBVIOUS
<1>1. Shaped(stmt) /\ stmt.kind = "idle"
  BY IdleShaped DEF Init
<1>2. Bags
  BY EmptyBag DEF Init, Bags
<1>3. LeftKnown
  BY DEF Init, LeftKnown
<1> QED BY <1>1, <1>2, <1>3 DEF IInv, Init, Sets, Present, TmpKept, Growing, Deleting, Selecting

LEMMA StutterInv == IInv /\ UNCHANGED vars => IInv'
BY DEF IInv, vars, Sets, Bags, Present, TmpKept, Growing, Deleting, Selecting, LeftKnown, Shaped

-----------------------------------------------------------------------------
(* Statements of one step *)

LEMMA CreateInv ==
  ASSUME IInv, NEW n \in Names, Create(n)
  PROVE  IInv'
<1> USE DEF IInv, Create, Stmt
<1>0. stmt' = Idle /\ n \in AllNames /\ n # Tmp
  BY SessionAssumption DEF AllNames
<1>1. Sets'
  BY <1>0 DEF Sets
<1>2. Bags'
  BY <1>0, EmptyBag DEF Bags
<1>3. LeftKnown'
  BY CatApart DEF LeftKnown
<1>4. TmpKept'
  BY <1>0, IdleShaped DEF TmpKept
<1> QED BY <1>0, <1>1, <1>2, <1>3, <1>4, RestingFacts

LEMMA HalfDoneInv ==
  ASSUME IInv, NEW n \in AllNames, HalfDone(n)
  PROVE  IInv'
<1> USE DEF IInv, HalfDone, Stmt
<1>0. stmt' = Idle
  OBVIOUS
<1>1. Sets'
  BY DEF Sets
<1>2. Bags'
  BY EmptyBag DEF Bags
<1>3. LeftKnown'
  BY CatApart DEF LeftKnown
<1>4. TmpKept'
  BY <1>0, IdleShaped DEF TmpKept
<1> QED BY <1>0, <1>1, <1>2, <1>3, <1>4, RestingFacts

LEMMA DropInv ==
  ASSUME IInv, NEW n \in AllNames, Drop(n)
  PROVE  IInv'
<1> USE DEF IInv, Drop, Stmt
<1>0. stmt' = Idle
  OBVIOUS
<1>1. Sets'
  BY DEF Sets
<1>2. Bags'
  BY EmptyBag DEF Bags
<1>3. LeftKnown'
  BY DEF LeftKnown
<1>4. TmpKept'
  BY <1>0, IdleShaped DEF TmpKept, Sets
<1> QED BY <1>0, <1>1, <1>2, <1>3, <1>4, RestingFacts

LEMMA OpensNothingInv ==
  ASSUME IInv, NEW n \in AllNames, OpensNothing(n)
  PROVE  IInv'
<1> USE DEF IInv, OpensNothing
<1>0. stmt' = Idle
  OBVIOUS
<1>1. Sets' /\ Bags' /\ LeftKnown' /\ TmpKept'
  BY DEF Sets, Bags, LeftKnown, TmpKept
<1> QED BY <1>0, <1>1, RestingFacts

LEMMA NotFoundInv ==
  ASSUME IInv, NEW n \in AllNames, NotFound(n)
  PROVE  IInv'
<1> USE DEF IInv, NotFound, Stmt
<1>0. stmt' = Idle
  OBVIOUS
<1>1. Sets' /\ Bags' /\ TmpKept'
  BY DEF Sets, Bags, TmpKept
<1>2. LeftKnown'
  BY CatApart DEF LeftKnown
<1> QED BY <1>0, <1>1, <1>2, RestingFacts

(* The temporary result is there between statements only after an error. *)
LEMMA UpdateNothingInv ==
  ASSUME IInv, NEW n \in AllNames, UpdateNothing(n)
  PROVE  IInv'
<1> USE DEF IInv, UpdateNothing, Stmt
<1>0. stmt' = Idle /\ stmt.kind = "idle"
  BY IdleShaped
<1>1. Sets' /\ Bags' /\ TmpKept'
  BY DEF Sets, Bags, TmpKept
<1>2. n = Tmp => Tmp \in erred
  BY <1>0 DEF TmpKept
<1>3. LeftKnown'
  BY <1>2 DEF LeftKnown
<1> QED BY <1>0, <1>1, <1>3, RestingFacts

LEMMA InsertInv ==
  ASSUME IInv, NEW n \in Names, NEW v \in Vals, Insert(n, v)
  PROVE  IInv'
<1> USE DEF IInv, Insert, Stmt
<1>0. stmt' = Idle /\ n \in AllNames /\ data[n] \in Bag
  BY DEF AllNames, Bags
<1>1. Sets' /\ LeftKnown' /\ TmpKept'
  BY DEF Sets, LeftKnown, TmpKept
<1>2. Bags'
  BY <1>0, PlusFacts DEF Bags
<1> QED BY <1>0, <1>1, <1>2, RestingFacts

(* What Abandon leaves open and unsaved is in the names that erred. *)
LEMMA AbandonFacts ==
  ASSUME IInv, NEW S \in SUBSET AllNames, NEW R \in SUBSET AllNames, Abandon(S, R),
         \A n \in R : n = stmt.res /\ stmt.kind \in {"load", "select", "join"}
                      /\ (n \in S \/ \A v \in Vals : Added[v] = 0)
  PROVE  /\ risk' \in [AllNames -> Bag] /\ LeftKnown'
         /\ leftOpen' \subseteq AllNames \cup {Cat} /\ erred' \subseteq AllNames /\ erred \subseteq erred'
<1> USE DEF IInv
<1>1. \A n \in R, v \in Vals : Added[v] \in Nat
  <2> SUFFICES ASSUME NEW n \in R, NEW v \in Vals PROVE Added[v] \in Nat
    OBVIOUS
  <2>1. stmt.before \in Bag /\ data[stmt.res] \in Bag /\ stmt.before[v] <= data[stmt.res][v]
    BY DEF Shaped, StmtType, Bags, Growing
  <2> QED BY <2>1, BagOf DEF Added
<1>2. \A n \in R : [v \in Vals |-> Capped(risk[n][v] + Added[v])] \in Bag
  <2> SUFFICES ASSUME NEW n \in R, NEW v \in Vals PROVE Capped(risk[n][v] + Added[v]) \in 0 .. Cap
    BY DEF Bag
  <2>1. risk[n] \in Bag
    BY DEF Bags
  <2>2. risk[n][v] + Added[v] \in Nat
    BY <1>1, <2>1, BagOf
  <2> QED BY <2>2, CappedFacts
<1>3. risk' \in [AllNames -> Bag]
  BY <1>2 DEF Abandon, Bags
<1>4. ASSUME NEW n \in AllNames, risk'[n] # Empty PROVE n \in leftOpen' \cap erred'
  <2>1. CASE risk'[n] = risk[n]
    BY <1>4, <2>1 DEF Abandon, LeftKnown
  <2>2. CASE risk'[n] # risk[n]
    <3>1. n \in R /\ risk'[n] = [v \in Vals |-> Capped(risk[n][v] + Added[v])]
      BY <2>2 DEF Abandon
    <3>2. CASE \A v \in Vals : Added[v] = 0
      <4>1. \A v \in Vals : risk'[n][v] = risk[n][v]
        BY <3>1, <3>2, BagOf, CappedFacts, ValsFacts DEF Bags
      <4> QED BY <4>1, <2>2, <1>3, SameBag DEF Bags
    <3>3. CASE n \in S
      BY <3>3 DEF Abandon
    <3> QED BY <3>1, <3>2, <3>3
  <2> QED BY <2>1, <2>2
<1>5. Tmp \in leftOpen' => Tmp \in erred'
  BY CatApart DEF Abandon, LeftKnown
<1>6. LeftKnown'
  BY <1>4, <1>5 DEF LeftKnown
<1>7. leftOpen' \subseteq AllNames \cup {Cat} /\ erred' \subseteq AllNames /\ erred \subseteq erred'
  BY DEF Abandon, Sets
<1> QED BY <1>3, <1>6, <1>7

LEMMA RefusedInv ==
  ASSUME IInv, NEW n \in AllNames, Refused(n)
  PROVE  IInv'
<1>0. stmt' = Idle /\ stmt = Idle /\ Abandon({n}, {}) /\ UNCHANGED <<rels, stuck, data, method, phase>>
  BY DEF Refused, Stmt
<1>s. {n} \in SUBSET AllNames /\ {} \in SUBSET AllNames
  OBVIOUS
<1>1. /\ risk' \in [AllNames -> Bag] /\ LeftKnown'
      /\ leftOpen' \subseteq AllNames \cup {Cat} /\ erred' \subseteq AllNames /\ erred \subseteq erred'
  BY <1>0, <1>s, AbandonFacts
<1> USE DEF IInv
<1>2. Sets' /\ Bags'
  BY <1>0, <1>1 DEF Sets, Bags
<1>3. TmpKept'
  BY <1>0, <1>1, IdleShaped DEF TmpKept
<1> QED BY <1>0, <1>1, <1>2, <1>3, RestingFacts

LEMMA NextSessionInv ==
  ASSUME IInv, stmt = Idle, NextSession
  PROVE  IInv'
<1> USE DEF IInv
<1>0. /\ stmt' = Idle /\ stmt = Idle /\ leftOpen' = {} /\ risk' = [n \in AllNames |-> Empty]
      /\ erred' = erred \cap (stuck \cup {Tmp}) /\ method' \in Methods
      /\ data' \in [AllNames -> Bag] /\ \A n \in AllNames, v \in Vals : data'[n][v] <= data[n][v]
      /\ UNCHANGED <<rels, stuck, phase>>
  BY DEF NextSession
<1>1. Sets'
  BY <1>0 DEF Sets
<1>2. Bags'
  <2>1. ASSUME NEW n \in AllNames \ rels PROVE data'[n] = Empty
    <3>1. \A v \in Vals : data'[n][v] = Empty[v]
      BY <1>0, EmptyBag, BagOf DEF Bags
    <3> QED BY <1>0, <3>1, SameBag, EmptyBag
  <2> QED BY <1>0, <2>1, EmptyBag DEF Bags
<1>3. LeftKnown'
  BY <1>0 DEF LeftKnown
<1>4. TmpKept'
  BY <1>0, IdleShaped DEF TmpKept
<1> QED BY <1>0, <1>1, <1>2, <1>3, <1>4, RestingFacts

LEMMA QuitInv ==
  ASSUME IInv, Quit
  PROVE  IInv'
<1>1. CASE NextSession
  BY <1>1, NextSessionInv DEF Quit
<1>2. CASE phase' = "undefined" /\ UNCHANGED <<rels, stuck, data, leftOpen, risk, erred, method, stmt>>
  <2>1. stmt' = Idle
    BY <1>2 DEF Quit
  <2>2. Sets' /\ Bags' /\ LeftKnown' /\ TmpKept'
    BY <1>2 DEF IInv, Sets, Bags, LeftKnown, TmpKept
  <2> QED BY <2>1, <2>2, RestingFacts DEF IInv
<1> QED BY <1>1, <1>2 DEF Quit

-----------------------------------------------------------------------------
(* Statements begin *)

LEMMA LoadBeginInv ==
  ASSUME IInv, NEW n \in Names, LoadBegin(n)
  PROVE  IInv'
<1> USE DEF IInv
<1>0. /\ stmt' = [Idle EXCEPT !.kind = "load", !.st = "insert", !.res = n, !.before = data[n]]
      /\ n \in AllNames /\ n \in rels /\ data[n] \in Bag /\ stmt = Idle
      /\ UNCHANGED <<rels, stuck, data, leftOpen, risk, erred, method, phase>>
  BY DEF LoadBegin, Stmt, Bags, AllNames
<1>1. Shaped(stmt')
  <2>1. stmt' \in StmtType
    BY <1>0, EmptyBag, ValsFacts DEF StmtType, Idle, Kinds, Steps, AllNames
  <2>2. /\ stmt'.kind = "load" /\ stmt'.st = "insert" /\ stmt'.cur = 0
        /\ stmt'.src = Tmp /\ stmt'.src2 = Tmp
    BY <1>0 DEF Idle
  <2> QED BY <2>1, <2>2, ValsFacts DEF Shaped
<1>2. stmt'.kind = "load" /\ stmt'.res = n /\ stmt'.before = data[n]
  BY <1>0 DEF Idle
<1>3. Sets' /\ Bags' /\ LeftKnown' /\ TmpKept'
  BY <1>0, IdleShaped DEF Sets, Bags, LeftKnown, TmpKept
<1>4. Growing'
  BY <1>0, <1>2, BagOf DEF Growing
<1>5. Present' /\ Deleting' /\ Selecting'
  BY <1>0, <1>2 DEF Present, Deleting, Selecting
<1> QED BY <1>1, <1>3, <1>4, <1>5

LEMMA PassBeginInv ==
  ASSUME IInv, NEW kind \in {"delete", "print"}, NEW n \in AllNames,
         NEW F \in Filters \cup {Vals}, PassBegin(kind, n, F)
  PROVE  IInv'
<1> USE DEF IInv
<1>0. /\ stmt' = [Idle EXCEPT !.kind = kind, !.st = "next", !.src = n, !.res = n, !.flt = F,
                              !.ahead = data[n], !.before = data[n]]
      /\ n \in rels /\ data[n] \in Bag /\ stmt = Idle
      /\ UNCHANGED <<rels, stuck, data, leftOpen, risk, erred, method, phase>>
  BY DEF PassBegin, Stmt, Bags
<1>1. Shaped(stmt')
  <2>1. stmt' \in StmtType
    BY <1>0, EmptyBag, ValsFacts DEF StmtType, Idle, Kinds, Steps, AllNames
  <2>2. /\ stmt'.kind = kind /\ stmt'.st = "next" /\ stmt'.cur = 0
        /\ stmt'.src = n /\ stmt'.res = n /\ stmt'.src2 = Tmp
    BY <1>0 DEF Idle
  <2> QED BY <2>1, <2>2, ValsFacts DEF Shaped
<1>2. stmt'.kind = kind /\ stmt'.src = n /\ stmt'.res = n /\ stmt'.ahead = data[n] /\ stmt'.before = data[n]
  BY <1>0 DEF Idle
<1>3. Sets' /\ Bags' /\ LeftKnown' /\ TmpKept'
  BY <1>0, IdleShaped DEF Sets, Bags, LeftKnown, TmpKept
<1>4. Present' /\ Growing' /\ Deleting' /\ Selecting'
  BY <1>0, <1>2 DEF Present, Growing, Deleting, Selecting
<1> QED BY <1>1, <1>3, <1>4

(* a query: S is the statement before QueryBegin notes what the result was *)
LEMMA QueryBeginInv ==
  ASSUME IInv, NEW S \in StmtType, S.kind \in {"select", "join"}, QueryBegin(S),
         Shaped(S), S.kind = "select" => S.ahead = data[S.src]
  PROVE  IInv'
<1> USE DEF IInv
<1> DEFINE was == IF S.res \in rels THEN data[S.res] ELSE Empty
<1>0. /\ stmt' = [S EXCEPT !.before = was] /\ stmt = Idle
      /\ rels' = rels \cup {S.res} /\ S.res \notin stuck /\ S.src \in rels /\ S.src2 \in rels
      /\ data' = [data EXCEPT ![S.res] = was]
      /\ leftOpen' \in {leftOpen, leftOpen \cup {Cat}}
      /\ UNCHANGED <<stuck, risk, erred, method, phase>>
  BY DEF QueryBegin, Stmt
<1>1. S.res \in AllNames /\ S.src \in AllNames /\ S.ahead \in Bag /\ was \in Bag /\ was = data[S.res]
  BY EmptyBag DEF StmtType, Bags
<1>2. data' = data
  BY <1>0, <1>1 DEF Bags
<1>3. /\ stmt'.kind = S.kind /\ stmt'.st = S.st /\ stmt'.src = S.src /\ stmt'.src2 = S.src2
      /\ stmt'.res = S.res /\ stmt'.before = was /\ stmt'.flt = S.flt /\ stmt'.ahead = S.ahead
  BY <1>0 DEF StmtType
<1>4. Shaped(stmt')
  BY <1>0, <1>1 DEF Shaped, StmtType
<1>5. Sets' /\ Bags'
  BY <1>0, <1>1, <1>2 DEF Sets, Bags
<1>10. LeftKnown'
  BY <1>0, CatApart DEF LeftKnown
<1>6. TmpKept'
  BY <1>0, <1>3, IdleShaped DEF TmpKept
<1>7. Present' /\ Deleting'
  BY <1>0, <1>3 DEF Present, Deleting
<1>8. Growing'
  BY <1>1, <1>2, <1>3, BagOf DEF Growing
<1>9. Selecting'
  <2> SUFFICES ASSUME S.kind = "select", NEW v \in Vals
               PROVE  /\ S.ahead[v] <= data[S.src][v]
                      /\ was[v] = IF v \in S.flt THEN Capped(was[v] + (data[S.src][v] - S.ahead[v])) ELSE was[v]
    BY <1>1, <1>2, <1>3 DEF Selecting
  <2>1. S.ahead = data[S.src] /\ S.ahead[v] \in Nat /\ was[v] \in 0 .. Cap
    BY <1>1, BagOf
  <2> QED BY <2>1, ValsFacts DEF Capped
<1> QED BY <1>4, <1>5, <1>6, <1>7, <1>8, <1>9, <1>10

LEMMA SelectBeginInv ==
  ASSUME IInv, NEW res \in AllNames, NEW n \in AllNames, NEW F \in Filters, SelectBegin(res, n, F)
  PROVE  IInv'
<1> DEFINE S == [Idle EXCEPT !.kind = "select", !.st = "next", !.src = n, !.src2 = n,
                             !.res = res, !.flt = F, !.ahead = data[n]]
<1>1. data[n] \in Bag
  BY DEF IInv, Bags
<1>2. S \in StmtType /\ S.kind = "select" /\ S.ahead = data[S.src] /\ Shaped(S)
  BY <1>1, EmptyBag, ValsFacts DEF Shaped, StmtType, Idle, Kinds, Steps, AllNames
<1>3. QueryBegin(S)
  BY DEF SelectBegin
<1> HIDE DEF S
<1> QED BY <1>2, <1>3, QueryBeginInv

LEMMA JoinBeginInv ==
  ASSUME IInv, NEW res \in AllNames, NEW n \in Names, NEW m \in Names, NEW op \in Ops,
         NEW side \in Sides, JoinBegin(res, n, m, op, side)
  PROVE  IInv'
<1> DEFINE S == [Idle EXCEPT !.kind = "join", !.src = n, !.src2 = m, !.res = res]
           T == IF NestedLoops(op)
                THEN [S EXCEPT !.st = "next", !.op = op, !.ahead = data[n],
                               !.side = IF n = m THEN "inner" ELSE side]
                ELSE [S EXCEPT !.st = "empty"]
<1>1. data[n] \in Bag /\ n \in AllNames /\ m \in AllNames
  BY DEF IInv, Bags, AllNames
<1>2. T \in StmtType /\ T.kind = "join" /\ Shaped(T)
  <2>1. CASE NestedLoops(op)
    BY <1>1, <2>1, EmptyBag, ValsFacts DEF Shaped, StmtType, Idle, Kinds, Steps, AllNames
  <2>2. CASE ~NestedLoops(op)
    BY <1>1, <2>2, EmptyBag, ValsFacts DEF Shaped, StmtType, Idle, Kinds, Steps, AllNames
  <2> QED BY <2>1, <2>2
<1>3. QueryBegin(T)
  BY DEF JoinBegin
<1> HIDE DEF T
<1> QED BY <1>2, <1>3, QueryBeginInv

-----------------------------------------------------------------------------
(* Steps of a statement that change nothing else *)

LEMMA StmtOnly ==
  ASSUME IInv, UNCHANGED <<rels, stuck, data, leftOpen, risk, erred, method, phase>>
  PROVE  Sets' /\ Bags' /\ LeftKnown'
BY DEF IInv, Sets, Bags, LeftKnown

(* LoadEnd, DeleteEnd, PrintEnd *)
LEMMA EndInv ==
  ASSUME IInv, stmt' = Idle, stmt.kind \in {"load", "delete", "print"},
         UNCHANGED <<rels, stuck, data, leftOpen, risk, erred, method, phase>>
  PROVE  IInv'
<1>1. TmpKept'
  BY DEF IInv, TmpKept
<1> QED BY <1>1, StmtOnly, RestingFacts DEF IInv

LEMMA EndingFacts ==
  ASSUME Shaped(stmt), stmt.kind \in {"select", "join"}, stmt' = Ending(stmt),
         Tmp \in rels' \/ stmt.res # Tmp
  PROVE  /\ Shaped(stmt)' /\ Present' /\ Growing' /\ Deleting' /\ Selecting'
         /\ stmt.res = Tmp => stmt'.kind = "show"
<1>1. CASE stmt.res = Tmp
  <2>1. stmt' = [Idle EXCEPT !.kind = "show", !.st = "print"]
    BY <1>1 DEF Ending
  <2>2. stmt' \in StmtType /\ stmt'.kind = "show" /\ stmt'.st = "print" /\ stmt'.cur = 0
    BY <2>1, EmptyBag, ZenonT(60) DEF StmtType, Idle, Kinds, Steps, AllNames
  <2>3. Shaped(stmt')
    BY <2>2 DEF Shaped
  <2> QED BY <1>1, <2>2, <2>3 DEF Present, Growing, Deleting, Selecting
<1>2. CASE stmt.res # Tmp
  <2>1. stmt' = Idle
    BY <1>2 DEF Ending
  <2> QED BY <1>2, <2>1, RestingFacts
<1> QED BY <1>1, <1>2

(* SelectEnd, JoinEnd *)
LEMMA QueryEndInv ==
  ASSUME IInv, stmt' = Ending(stmt), stmt.kind \in {"select", "join"},
         UNCHANGED <<rels, stuck, data, leftOpen, risk, erred, method, phase>>
  PROVE  IInv'
<1>1. Tmp \in rels' \/ stmt.res # Tmp
  BY DEF IInv, Present
<1>2. /\ Shaped(stmt)' /\ Present' /\ Growing' /\ Deleting' /\ Selecting'
      /\ stmt.res = Tmp => stmt'.kind = "show"
  BY <1>1, EndingFacts DEF IInv
<1>3. TmpKept'
  BY <1>2 DEF IInv, TmpKept
<1> QED BY <1>2, <1>3, StmtOnly DEF IInv

(* JoinOuter, JoinInnerEnd, ReadFails: the statement goes on elsewhere. *)
LEMMA GoesOn ==
  ASSUME IInv, Shaped(stmt'), stmt.kind \in {"select", "join"},
         stmt'.kind = stmt.kind, stmt'.src = stmt.src, stmt'.src2 = stmt.src2, stmt'.res = stmt.res,
         stmt'.before = stmt.before, stmt.kind = "join" \/ stmt'.st = "again",
         UNCHANGED <<rels, stuck, data, leftOpen, risk, erred, method, phase>>
  PROVE  IInv'
<1>1. Present' /\ Growing' /\ Deleting' /\ Selecting'
  BY DEF IInv, Present, Growing, Deleting, Selecting
<1>2. TmpKept'
  BY DEF IInv, TmpKept
<1> QED BY <1>1, <1>2, StmtOnly DEF IInv

LEMMA JoinOuterInv ==
  ASSUME IInv, NEW v \in Vals, JoinOuter(v)
  PROVE  IInv'
<1>0. /\ stmt' = [stmt EXCEPT !.ahead = Less(stmt.ahead, v), !.st = "inner", !.cur = v,
                              !.inner = InnerScan(v)]
      /\ stmt.kind = "join" /\ stmt.ahead[v] > 0 /\ stmt \in StmtType
      /\ UNCHANGED <<rels, stuck, data, leftOpen, risk, erred, method, phase>>
  BY DEF JoinOuter, Stmt, In, IInv, Shaped
<1>1. Less(stmt.ahead, v) \in Bag
  BY <1>0, LessFacts DEF StmtType
<1>2. InnerScan(v) \in Bag
  <2>1. data[stmt.src2] \in Bag
    BY <1>0 DEF StmtType, IInv, Bags
  <2>2. \A w \in Vals : data[stmt.src2][w] \in 0 .. Cap /\ 0 \in 0 .. Cap
    BY <2>1, BagOf, ValsFacts
  <2>3. \A w \in Vals : (IF Compare(w, stmt.op, v) THEN data[stmt.src2][w] ELSE 0) \in 0 .. Cap
    BY <2>2
  <2> QED BY <2>3 DEF InnerScan, Bag
<1>3. Shaped(stmt') /\ stmt'.kind = stmt.kind /\ stmt'.src = stmt.src /\ stmt'.src2 = stmt.src2
      /\ stmt'.res = stmt.res /\ stmt'.before = stmt.before
  BY <1>0, <1>1, <1>2, ValsFacts DEF Shaped, StmtType, Steps
<1> QED BY <1>0, <1>3, GoesOn

LEMMA JoinInnerEndInv ==
  ASSUME IInv, JoinInnerEnd
  PROVE  IInv'
<1>0. /\ stmt' = [stmt EXCEPT !.st = "next", !.cur = 0]
      /\ stmt.kind = "join" /\ stmt \in StmtType
      /\ UNCHANGED <<rels, stuck, data, leftOpen, risk, erred, method, phase>>
  BY DEF JoinInnerEnd, Stmt, IInv, Shaped
<1>3. Shaped(stmt') /\ stmt'.kind = stmt.kind /\ stmt'.src = stmt.src /\ stmt'.src2 = stmt.src2
      /\ stmt'.res = stmt.res /\ stmt'.before = stmt.before
  BY <1>0 DEF Shaped, StmtType, Steps
<1> QED BY <1>0, <1>3, GoesOn

LEMMA ReadFailsInv ==
  ASSUME IInv, ReadFails
  PROVE  IInv'
<1>0. /\ stmt' = [stmt EXCEPT !.st = "again", !.cur = 0, !.flt = {}, !.op = "EQ", !.side = "inner",
                              !.ahead = Empty, !.inner = Empty]
      /\ stmt.kind \in {"select", "join"} /\ stmt \in StmtType
      /\ UNCHANGED <<rels, stuck, data, leftOpen, risk, erred, method, phase>>
  BY DEF ReadFails, Querying, Stmt, IInv, Shaped
<1>3. Shaped(stmt') /\ stmt'.kind = stmt.kind /\ stmt'.src = stmt.src /\ stmt'.src2 = stmt.src2
      /\ stmt'.res = stmt.res /\ stmt'.before = stmt.before /\ stmt'.st = "again"
  BY <1>0, EmptyBag DEF Shaped, StmtType, Steps
<1> QED BY <1>0, <1>3, GoesOn

-----------------------------------------------------------------------------
(* Records go to the result relation *)

LEMMA PutFacts ==
  ASSUME IInv, NEW v \in Vals, NEW S \in StmtType, Put(v, S)
  PROVE  /\ stmt' \in StmtType
         /\ stmt'.kind = S.kind /\ stmt'.st = S.st /\ stmt'.src = S.src /\ stmt'.src2 = S.src2
         /\ stmt'.res = S.res /\ stmt'.flt = S.flt /\ stmt'.cur = S.cur /\ stmt'.before = S.before
         /\ stmt.src # stmt.res => stmt'.ahead = S.ahead
         /\ data' = [data EXCEPT ![stmt.res] = Plus(data[stmt.res], v)]
         /\ UNCHANGED <<rels, stuck, leftOpen, risk, erred, method, phase>>
<1>1. PICK A \in SUBSET {s \in {"ahead", "inner"} : stmt.st # "again" /\ Scanned(s) = stmt.res} :
          stmt' = [S EXCEPT !.odd = ~S.odd /\ (FeedsItself \/ S.st = "again"),
                            !.ahead = IF "ahead" \in A THEN Plus(S.ahead, v) ELSE S.ahead,
                            !.inner = IF "inner" \in A THEN Plus(S.inner, v) ELSE S.inner]
  BY DEF Put, Stmt
<1>2. Plus(S.ahead, v) \in Bag /\ Plus(S.inner, v) \in Bag
  BY PlusFacts DEF StmtType
<1>3. "ahead" \in A => stmt.src = stmt.res
  BY DEF Scanned
<1>4. stmt' \in StmtType
  BY <1>1, <1>2, ZenonT(60) DEF StmtType
<1>5. /\ stmt'.kind = S.kind /\ stmt'.st = S.st /\ stmt'.src = S.src /\ stmt'.src2 = S.src2
      /\ stmt'.res = S.res /\ stmt'.flt = S.flt /\ stmt'.cur = S.cur /\ stmt'.before = S.before
      /\ stmt'.ahead = IF "ahead" \in A THEN Plus(S.ahead, v) ELSE S.ahead
  BY <1>1 DEF StmtType
<1> QED BY <1>3, <1>4, <1>5 DEF Put, Stmt

LEMMA PutInv ==
  ASSUME IInv, NEW v \in Vals, NEW S \in StmtType, Put(v, S), Shaped(S),
         stmt.kind \in {"load", "select", "join"}, S.kind = stmt.kind, S.src = stmt.src,
         S.src2 = stmt.src2, S.res = stmt.res, S.before = stmt.before,
         \/ S.kind # "select" \/ S.st = "again"
         \/ S.flt = stmt.flt /\ stmt.st = "next" /\ v \in stmt.flt /\ stmt.ahead[v] > 0
            /\ S.ahead = Less(stmt.ahead, v)
  PROVE  IInv'
<1> USE DEF IInv
<1> DEFINE n == stmt.res
<1>0. /\ stmt' \in StmtType
      /\ stmt'.kind = S.kind /\ stmt'.st = S.st /\ stmt'.src = S.src /\ stmt'.src2 = S.src2
      /\ stmt'.res = S.res /\ stmt'.flt = S.flt /\ stmt'.cur = S.cur /\ stmt'.before = S.before
      /\ stmt.src # stmt.res => stmt'.ahead = S.ahead
      /\ data' = [data EXCEPT ![n] = Plus(data[n], v)]
      /\ UNCHANGED <<rels, stuck, leftOpen, risk, erred, method, phase>>
  BY PutFacts
<1>1. n \in AllNames /\ n \in rels /\ data[n] \in Bag /\ stmt.src \in AllNames /\ stmt.ahead \in Bag
      /\ stmt.before \in Bag
  BY DEF Shaped, StmtType, Bags, Present
<1>p. /\ Plus(data[n], v) \in Bag /\ Plus(data[n], v)[v] = Capped(data[n][v] + 1)
      /\ data[n][v] <= Plus(data[n], v)[v] /\ \A w \in Vals : w # v => Plus(data[n], v)[w] = data[n][w]
  BY <1>1, PlusFacts
<1>2. Shaped(stmt')
  BY <1>0 DEF Shaped
<1>3. Sets' /\ LeftKnown' /\ TmpKept'
  BY <1>0 DEF Sets, LeftKnown, TmpKept
<1>4. data'[n] = Plus(data[n], v) /\ \A m \in AllNames : m # n => data'[m] = data[m]
  BY <1>0, <1>1 DEF Bags
<1>5. Bags'
  BY <1>0, <1>1, <1>p DEF Bags
<1>6. Present' /\ Deleting'
  BY <1>0 DEF Present, Deleting
<1>7. Growing'
  <2> SUFFICES ASSUME NEW w \in Vals PROVE stmt.before[w] <= data'[n][w]
    BY <1>0 DEF Growing
  <2>1. stmt.before[w] <= data[n][w] /\ stmt.before[w] \in Nat /\ data[n][w] \in Nat /\ data'[n][w] \in Nat
    BY <1>1, <1>4, <1>p, BagOf DEF Growing
  <2> QED BY <2>1, <1>4, <1>p
<1>8. Selecting'
  <2> SUFFICES ASSUME S.kind = "select", S.st = "next", stmt.src # n, NEW w \in Vals
               PROVE  /\ stmt'.ahead[w] <= data'[stmt.src][w]
                      /\ data'[n][w] = IF w \in stmt.flt
                            THEN Capped(stmt.before[w] + (data'[stmt.src][w] - stmt'.ahead[w]))
                            ELSE stmt.before[w]
    BY <1>0 DEF Selecting
  <2>1. /\ stmt.st = "next" /\ v \in stmt.flt /\ stmt.ahead[v] > 0 /\ stmt'.ahead = Less(stmt.ahead, v)
        /\ data'[stmt.src] = data[stmt.src] /\ data[stmt.src] \in Bag
    BY <1>0, <1>1, <1>4 DEF Bags
  <2>2. /\ stmt.ahead[w] <= data[stmt.src][w]
        /\ data[n][w] = IF w \in stmt.flt
              THEN Capped(stmt.before[w] + (data[stmt.src][w] - stmt.ahead[w])) ELSE stmt.before[w]
    BY <2>1 DEF Selecting
  <2>3. /\ stmt.ahead[w] \in Nat /\ data[stmt.src][w] \in Nat /\ stmt.before[w] \in Nat
        /\ Less(stmt.ahead, v)[v] = stmt.ahead[v] - 1
        /\ w # v => Less(stmt.ahead, v)[w] = stmt.ahead[w]
    BY <1>1, <2>1, BagOf, LessFacts
  <2>4. CASE w = v
    <3> DEFINE k == stmt.before[v] + (data[stmt.src][v] - stmt.ahead[v])
    <3>1. k \in Nat /\ data[n][v] = Capped(k)
      BY <2>1, <2>2, <2>3, <2>4
    <3>2. data'[n][v] = Capped(k + 1)
      BY <3>1, <1>4, <1>p, CappedFacts
    <3>3. stmt.before[v] + (data[stmt.src][v] - (stmt.ahead[v] - 1)) = k + 1
      <4>1. stmt.before[v] \in Int /\ data[stmt.src][v] \in Int /\ stmt.ahead[v] \in Int
        BY <2>3, <2>4
      <4>2. \A a, b, c \in Int : a + (b - (c - 1)) = (a + (b - c)) + 1
        OBVIOUS
      <4> QED BY <4>1, <4>2
    <3> QED BY <2>1, <2>2, <2>3, <2>4, <3>2, <3>3
  <2>5. CASE w # v
    BY <1>4, <1>p, <2>1, <2>2, <2>3, <2>5
  <2> QED BY <2>4, <2>5
<1> QED BY <1>2, <1>3, <1>5, <1>6, <1>7, <1>8

LEMMA LoadNextInv ==
  ASSUME IInv, NEW v \in Vals, LoadNext(v)
  PROVE  IInv'
<1>1. PICK S \in {stmt, [stmt EXCEPT !.st = "again", !.cur = v]} : Put(v, S)
  BY DEF LoadNext
<1>2. stmt.kind = "load" /\ Shaped(stmt) /\ stmt \in StmtType
  BY DEF LoadNext, IInv, Shaped
<1>3. S \in StmtType /\ Shaped(S) /\ S.kind = stmt.kind /\ S.src = stmt.src
      /\ S.src2 = stmt.src2 /\ S.res = stmt.res /\ S.before = stmt.before
  BY <1>2, ValsFacts, ZenonT(60) DEF Shaped, StmtType, Steps
<1> QED BY <1>1, <1>2, <1>3, PutInv

LEMMA LoadAgainInv ==
  ASSUME IInv, LoadAgain
  PROVE  IInv'
<1>1. stmt.kind = "load" /\ Shaped(stmt) /\ stmt \in StmtType /\ Put(stmt.cur, stmt) /\ stmt.st = "again"
  BY DEF LoadAgain, IInv, Shaped
<1>2. PICK v \in Vals : v = stmt.cur
  BY <1>1 DEF Shaped, StmtType
<1>3. PICK S : S = stmt
  OBVIOUS
<1>4. Put(v, S)
  BY <1>1, <1>2, <1>3
<1> QED BY <1>1, <1>3, <1>4, PutInv

LEMMA SelectNextInv ==
  ASSUME IInv, NEW v \in Vals, SelectNext(v)
  PROVE  IInv'
<1>1. PICK S : S = [stmt EXCEPT !.ahead = Less(stmt.ahead, v)]
  OBVIOUS
<1>2. stmt.kind = "select" /\ Shaped(stmt) /\ stmt \in StmtType /\ v \in stmt.flt
      /\ stmt.ahead[v] > 0 /\ stmt.st = "next" /\ Put(v, S)
  BY <1>1 DEF SelectNext, IInv, Shaped, In
<1>3. Less(stmt.ahead, v) \in Bag
  BY <1>2, LessFacts DEF StmtType
<1>4. S \in StmtType /\ Shaped(S) /\ S.kind = stmt.kind /\ S.src = stmt.src /\ S.flt = stmt.flt
      /\ S.src2 = stmt.src2 /\ S.res = stmt.res /\ S.before = stmt.before /\ S.ahead = Less(stmt.ahead, v)
  BY <1>1, <1>2, <1>3 DEF Shaped, StmtType
<1> QED BY <1>2, <1>4, PutInv

LEMMA AgainInv ==
  ASSUME IInv, NEW v \in Vals, Again(v)
  PROVE  IInv'
<1>1. PICK S : S = [stmt EXCEPT !.ahead = Empty]
  OBVIOUS
<1>2. stmt.kind \in {"select", "join"} /\ Shaped(stmt) /\ stmt \in StmtType /\ stmt.st = "again" /\ Put(v, S)
  BY <1>1 DEF Again, Querying, IInv, Shaped
<1>3. S \in StmtType /\ Shaped(S) /\ S.kind = stmt.kind /\ S.src = stmt.src /\ S.st = "again"
      /\ S.src2 = stmt.src2 /\ S.res = stmt.res /\ S.before = stmt.before
  BY <1>1, <1>2, EmptyBag DEF Shaped, StmtType
<1> QED BY <1>2, <1>3, PutInv

LEMMA JoinInnerInv ==
  ASSUME IInv, NEW w \in Vals, JoinInner(w)
  PROVE  IInv'
<1>1. PICK S : S = [stmt EXCEPT !.inner = Less(stmt.inner, w)]
  OBVIOUS
<1>2. stmt.kind = "join" /\ Shaped(stmt) /\ stmt \in StmtType
      /\ stmt.inner[w] > 0 /\ stmt.st = "inner" /\ Put(Projected(stmt.cur, w), S)
  BY <1>1 DEF JoinInner, IInv, Shaped, In
<1>3. Less(stmt.inner, w) \in Bag
  BY <1>2, LessFacts DEF StmtType
<1>4. PICK v \in Vals : v = Projected(stmt.cur, w)
  BY <1>2 DEF Projected, Shaped, StmtType
<1>5. S \in StmtType /\ Shaped(S) /\ S.kind = stmt.kind /\ S.src = stmt.src
      /\ S.src2 = stmt.src2 /\ S.res = stmt.res /\ S.before = stmt.before
  BY <1>1, <1>2, <1>3 DEF Shaped, StmtType
<1>6. Put(v, S)
  BY <1>2, <1>4
<1> QED BY <1>2, <1>5, <1>6, PutInv

-----------------------------------------------------------------------------
(* Records go, and statements fail *)

LEMMA DeleteNextInv ==
  ASSUME IInv, NEW v \in Vals, DeleteNext(v)
  PROVE  IInv'
<1> USE DEF IInv
<1> DEFINE n == stmt.src
<1>0. /\ stmt.kind = "delete" /\ v \in stmt.flt /\ stmt.ahead[v] > 0 /\ stmt \in StmtType
      /\ data' = [data EXCEPT ![n] = Less(data[n], v)]
      /\ stmt' = [stmt EXCEPT !.ahead = Less(stmt.ahead, v)]
      /\ UNCHANGED <<rels, stuck, leftOpen, risk, erred, method, phase>>
  BY DEF DeleteNext, Stmt, In, Shaped
<1>1. n \in AllNames /\ n \in rels /\ data[n] \in Bag /\ stmt.ahead \in Bag
  BY <1>0 DEF StmtType, Bags, Present
<1>2. data[n][v] = stmt.ahead[v]
  BY <1>0 DEF Deleting
<1>3. /\ Less(data[n], v) \in Bag /\ Less(data[n], v)[v] = data[n][v] - 1
      /\ \A w \in Vals : w # v => Less(data[n], v)[w] = data[n][w]
      /\ Less(stmt.ahead, v) \in Bag /\ Less(stmt.ahead, v)[v] = stmt.ahead[v] - 1
      /\ \A w \in Vals : w # v => Less(stmt.ahead, v)[w] = stmt.ahead[w]
  BY <1>0, <1>1, <1>2, LessFacts
<1>4. /\ stmt' \in StmtType /\ stmt'.kind = "delete" /\ stmt'.st = stmt.st /\ stmt'.src = n
      /\ stmt'.res = stmt.res /\ stmt'.flt = stmt.flt /\ stmt'.cur = stmt.cur /\ stmt'.src2 = stmt.src2
      /\ stmt'.before = stmt.before /\ stmt'.ahead = Less(stmt.ahead, v)
  BY <1>0, <1>3 DEF StmtType
<1>5. Shaped(stmt')
  BY <1>0, <1>4 DEF Shaped
<1>6. Sets' /\ LeftKnown' /\ TmpKept'
  BY <1>0, <1>4 DEF Sets, LeftKnown, TmpKept
<1>7. data'[n] = Less(data[n], v) /\ data' \in [AllNames -> Bag]
      /\ \A m \in AllNames : m # n => data'[m] = data[m]
  BY <1>0, <1>1, <1>3 DEF Bags
<1>8. Bags'
  BY <1>0, <1>1, <1>7 DEF Bags
<1>9. Deleting'
  BY <1>0, <1>2, <1>3, <1>4, <1>7 DEF Deleting
<1>10. Present' /\ Growing' /\ Selecting'
  BY <1>0, <1>4 DEF Present, Growing, Selecting
<1> QED BY <1>5, <1>6, <1>8, <1>9, <1>10

(* LoadFails, DeleteFails *)
LEMMA FailsInv ==
  ASSUME IInv, stmt.kind \in {"load", "delete", "print"}, stmt' = Idle,
         NEW S \in SUBSET AllNames, NEW R \in SUBSET AllNames, Abandon(S, R),
         \A n \in R : n = stmt.res /\ stmt.kind = "load" /\ n \in S,
         UNCHANGED <<rels, stuck, data, method, phase>>
  PROVE  IInv'
<1>1. /\ risk' \in [AllNames -> Bag] /\ LeftKnown'
      /\ leftOpen' \subseteq AllNames \cup {Cat} /\ erred' \subseteq AllNames /\ erred \subseteq erred'
  BY AbandonFacts
<1>2. Sets' /\ Bags' /\ TmpKept'
  BY <1>1 DEF IInv, Sets, Bags, TmpKept
<1> QED BY <1>1, <1>2, RestingFacts DEF IInv

LEMMA LoadFailsInv == IInv /\ LoadFails => IInv'
<1> SUFFICES ASSUME IInv, LoadFails PROVE IInv'
  OBVIOUS
<1>1. PICK S \in SUBSET AllNames : S = {stmt.res}
  BY DEF IInv, Shaped, StmtType
<1>2. /\ stmt.kind = "load" /\ stmt' = Idle /\ Abandon(S, S)
      /\ UNCHANGED <<rels, stuck, data, method, phase>>
  BY <1>1 DEF LoadFails, Stmt
<1> QED BY <1>1, <1>2, FailsInv

LEMMA DeleteFailsInv == IInv /\ DeleteFails => IInv'
<1> SUFFICES ASSUME IInv, DeleteFails PROVE IInv'
  OBVIOUS
<1>1. PICK S \in SUBSET AllNames : S = {stmt.src}
  BY DEF IInv, Shaped, StmtType
<1>2. /\ stmt.kind \in {"delete", "print"} /\ stmt' = Idle /\ Abandon(S, {})
      /\ UNCHANGED <<rels, stuck, data, method, phase>>
  BY <1>1 DEF DeleteFails, Stmt
<1>3. {} \in SUBSET AllNames
  OBVIOUS
<1> QED BY <1>2, <1>3, FailsInv

LEMMA QueryFailsInv ==
  ASSUME IInv, QueryFails
  PROVE  IInv'
<1>0. /\ stmt.kind \in {"select", "join"} /\ stmt' = Ending(stmt)
      /\ UNCHANGED <<rels, stuck, data, method, phase>>
  BY DEF QueryFails, Querying, Stmt
<1>1. stmt.src \in AllNames /\ stmt.src2 \in AllNames /\ stmt.res \in AllNames /\ stmt.before \in Bag
      /\ data[stmt.res] \in Bag
  BY DEF IInv, Shaped, StmtType, Bags
<1>2. PICK S \in SUBSET AllNames : (Added # Empty => stmt.res \in S) /\ Abandon(S, {stmt.res})
  BY <1>1 DEF QueryFails
<1>3. PICK R \in SUBSET AllNames : R = {stmt.res}
  BY <1>1
<1>4. Abandon(S, R)
  BY <1>2, <1>3
<1>5. \A n \in R : n = stmt.res /\ stmt.kind \in {"load", "select", "join"}
                   /\ (n \in S \/ \A v \in Vals : Added[v] = 0)
  BY <1>0, <1>2, <1>3, EmptyBag
<1>6. /\ risk' \in [AllNames -> Bag] /\ LeftKnown'
      /\ leftOpen' \subseteq AllNames \cup {Cat} /\ erred' \subseteq AllNames /\ erred \subseteq erred'
  BY <1>4, <1>5, AbandonFacts
<1>7. Tmp \in rels' \/ stmt.res # Tmp
  BY <1>0 DEF IInv, Present
<1>8. /\ Shaped(stmt)' /\ Present' /\ Growing' /\ Deleting' /\ Selecting'
      /\ stmt.res = Tmp => stmt'.kind = "show"
  BY <1>0, <1>7, EndingFacts DEF IInv
<1>9. Sets' /\ Bags' /\ TmpKept'
  BY <1>0, <1>6, <1>8 DEF IInv, Sets, Bags, TmpKept
<1> QED BY <1>6, <1>8, <1>9 DEF IInv

LEMMA ShowPrintInv ==
  ASSUME IInv, ShowPrint
  PROVE  IInv'
<1>0. /\ stmt.kind = "show" /\ stmt' = [stmt EXCEPT !.st = "drop"] /\ stmt \in StmtType
      /\ stmt.st = "print" /\ UNCHANGED <<rels, stuck, data, method, phase>>
  BY DEF ShowPrint, Stmt, IInv, Shaped
<1>1. stmt' \in StmtType /\ stmt'.kind = "show" /\ stmt'.st = "drop" /\ stmt'.cur = stmt.cur
  BY <1>0 DEF StmtType, Steps
<1>2. Shaped(stmt')
  BY <1>0, <1>1 DEF IInv, Shaped
<1>3. Present' /\ Growing' /\ Deleting' /\ Selecting' /\ TmpKept'
  BY <1>0, <1>1 DEF IInv, Present, Growing, Deleting, Selecting, TmpKept
<1>4. CASE UNCHANGED <<leftOpen, erred, risk>>
  BY <1>0, <1>2, <1>3, <1>4, StmtOnly DEF IInv
<1>5. CASE Abandon({Tmp}, {})
  <2>1. {Tmp} \in SUBSET AllNames /\ {} \in SUBSET AllNames
    BY DEF AllNames
  <2>2. /\ risk' \in [AllNames -> Bag] /\ LeftKnown'
        /\ leftOpen' \subseteq AllNames \cup {Cat} /\ erred' \subseteq AllNames
    BY <1>5, <2>1, AbandonFacts
  <2>3. Sets' /\ Bags'
    BY <1>0, <2>2 DEF IInv, Sets, Bags
  <2> QED BY <1>2, <1>3, <2>2, <2>3 DEF IInv
<1> QED BY <1>4, <1>5 DEF ShowPrint

(* Tmp is there when it is shown, and so it has no stuck rows. *)
LEMMA ShowDropInv ==
  ASSUME IInv, ShowDrop
  PROVE  IInv'
<1> USE DEF IInv
<1>0. stmt.kind = "show" /\ stmt' = Idle /\ UNCHANGED <<risk, method, phase>>
      /\ Tmp \in rels /\ Tmp \notin stuck /\ Tmp \in AllNames
  BY DEF ShowDrop, Stmt, Present, Sets, AllNames
<1>1. CASE Tmp \in leftOpen
  <2>1. UNCHANGED <<rels, stuck, data, leftOpen, erred>>
    BY <1>1 DEF ShowDrop
  <2>2. Sets' /\ Bags' /\ LeftKnown'
    BY <1>0, <2>1 DEF Sets, Bags, LeftKnown
  <2>3. TmpKept'
    BY <1>1, <2>1 DEF TmpKept, LeftKnown
  <2> QED BY <1>0, <2>2, <2>3, RestingFacts
<1>2. CASE Tmp \notin leftOpen
  <2>1. /\ rels' = rels \ {Tmp} /\ data' = [data EXCEPT ![Tmp] = Empty]
        /\ \/ UNCHANGED <<stuck, leftOpen, erred>>
           \/ /\ stuck' = stuck \cup {Tmp} /\ erred' = erred \cup {Tmp}
              /\ leftOpen' = leftOpen \cup {Cat}
    BY <1>2 DEF ShowDrop
  <2>2. Sets'
    BY <1>0, <2>1 DEF Sets
  <2>3. Bags'
    BY <1>0, <2>1, EmptyBag DEF Bags
  <2>4. LeftKnown'
    BY <1>0, <2>1, CatApart DEF LeftKnown
  <2>5. TmpKept'
    BY <1>0, <2>1 DEF TmpKept
  <2> QED BY <1>0, <2>2, <2>3, <2>4, <2>5, RestingFacts
<1> QED BY <1>1, <1>2

-----------------------------------------------------------------------------
(* The theorems *)

LEMMA StepInv == IInv /\ Step => IInv'
<1> SUFFICES ASSUME IInv, Step PROVE IInv'
  OBVIOUS
<1>1. LoadEnd \/ DeleteEnd \/ PrintEnd => IInv'
  BY EndInv DEF LoadEnd, DeleteEnd, PrintEnd, Stmt
<1>2. SelectEnd \/ JoinEnd => IInv'
  BY QueryEndInv DEF SelectEnd, JoinEnd, Stmt
<1> QED
  BY <1>1, <1>2, LoadNextInv, LoadAgainInv, LoadFailsInv, DeleteNextInv, DeleteFailsInv,
     SelectNextInv, AgainInv, JoinOuterInv, JoinInnerInv, JoinInnerEndInv, ReadFailsInv,
     QueryFailsInv, ShowPrintInv, ShowDropInv DEF Step

LEMMA NextInv == IInv /\ [Next]_vars => IInv'
<1> SUFFICES ASSUME IInv, Next PROVE IInv'
  BY StutterInv
<1>1. ASSUME NEW n \in AllNames, NEW F \in Filters, DeleteBegin(n, F) \/ UpdateBegin(n, F) PROVE IInv'
  BY <1>1, PassBeginInv, UpdateNothingInv DEF DeleteBegin, UpdateBegin
<1>2. ASSUME NEW n \in AllNames, PrintBegin(n) PROVE IInv'
  BY <1>2, PassBeginInv DEF PrintBegin
<1> QED
  BY <1>1, <1>2, StepInv, CreateInv, DropInv, HalfDoneInv, OpensNothingInv, NotFoundInv,
     RefusedInv, InsertInv,
     LoadBeginInv, SelectBeginInv, JoinBeginInv, QuitInv DEF Next

(* Whatever the calls of a statement answer, and wherever it stops, relations,
   scans and records are as IInv says. *)
THEOREM Invariance == Spec => []IInv
BY InitInv, NextInv, PTL DEF Spec

(* What statements leave behind: no records without a relation, and no
   statement under way on a relation that is gone. *)
THEOREM SessionCorrect == Spec => []TypeOK
<1>1. IInv => TypeOK
  <2> SUFFICES ASSUME IInv PROVE TypeOK
    OBVIOUS
  <2>1. {stmt.ahead, stmt.inner, stmt.before} \subseteq Bag
    BY DEF IInv, Shaped, StmtType
  <2>2. stmt.kind \notin {"idle", "show"} => {stmt.src, stmt.src2, stmt.res} \ {Tmp} \subseteq rels
    BY DEF IInv, Shaped, StmtType, Kinds, Present
  <2> QED BY <2>1, <2>2 DEF TypeOK, IInv, Shaped, Sets, Bags
<1> QED BY <1>1, Invariance, PTL

(* A restart loses no record of a relation no failed statement named: what
   it may lose belongs to one that such a statement has kept open, and that
   therefore was not dropped since. *)
THEOREM RestartCorrect == Spec => RestartKeeps
<1>1. IInv /\ [Next]_vars => [Quit => \A n \in AllNames \ erred : data'[n] = data[n]]_vars
  <2> SUFFICES ASSUME IInv, Quit, NEW n \in AllNames \ erred PROVE data'[n] = data[n]
    OBVIOUS
  <2>1. CASE NextSession
    <3>1. data'[n] \in Bag /\ data[n] \in Bag
      BY <2>1 DEF NextSession, IInv, Bags
    <3>2. risk[n] = Empty
      BY DEF IInv, LeftKnown
    <3>3. ASSUME NEW v \in Vals PROVE data'[n][v] = data[n][v]
      <4>1. data'[n][v] <= data[n][v] /\ data'[n][v] >= data[n][v] - 0
        BY <2>1, <3>2, EmptyBag DEF NextSession
      <4>2. data'[n][v] \in Nat /\ data[n][v] \in Nat
        BY <3>1, BagOf
      <4> QED BY <4>1, <4>2
    <3> QED BY <3>1, <3>3, SameBag
  <2>2. CASE data' = data
    BY <2>2
  <2> QED BY <2>1, <2>2 DEF Quit
<1> QED BY <1>1, Invariance, PTL DEF Spec, RestartKeeps

(* The result relation of a query outlives it only if a call on it failed. *)
THEOREM TmpCorrect == Spec => []TmpOnlyAfterError
<1>1. IInv => TmpOnlyAfterError
  BY IdleShaped DEF IInv, TmpKept, TmpOnlyAfterError
<1> QED BY <1>1, Invariance, PTL

(* A select that returns OK has added what matches, each record as often as
   its source has it. *)
THEOREM SelectCorrect == Spec => SelectExact
<1>1. IInv /\ [Next]_vars =>
         [SelectEnd /\ stmt.src # stmt.res =>
            \A v \in Vals : data[stmt.res][v] =
                Capped(stmt.before[v] + IF v \in stmt.flt THEN data[stmt.src][v] ELSE 0)]_vars
  <2> SUFFICES ASSUME IInv, SelectEnd, stmt.src # stmt.res, NEW v \in Vals
               PROVE  data[stmt.res][v] =
                         Capped(stmt.before[v] + IF v \in stmt.flt THEN data[stmt.src][v] ELSE 0)
    OBVIOUS
  <2>1. /\ stmt.before \in Bag /\ stmt.ahead \in Bag /\ stmt.src \in AllNames /\ data[stmt.src] \in Bag
    BY DEF IInv, Shaped, StmtType, Bags
  <2>2. stmt.before[v] \in 0 .. Cap /\ stmt.ahead[v] \in Nat /\ data[stmt.src][v] \in Nat
    BY <2>1, BagOf
  <2>3. data[stmt.res][v] = IF v \in stmt.flt
           THEN Capped(stmt.before[v] + (data[stmt.src][v] - stmt.ahead[v])) ELSE stmt.before[v]
    BY DEF SelectEnd, IInv, Selecting
  <2>4. v \in stmt.flt => stmt.ahead[v] = 0
    BY <2>2 DEF SelectEnd, In
  <2> QED BY <2>2, <2>3, <2>4, CappedFacts, ValsFacts
<1> QED BY <1>1, Invariance, PTL DEF Spec, SelectExact

(* A delete that returns OK has deleted what matches and nothing else. *)
THEOREM DeleteCorrect == Spec => DeleteExact
<1>1. IInv /\ [Next]_vars =>
         [DeleteEnd => data[stmt.src] =
            [v \in Vals |-> IF v \in stmt.flt THEN 0 ELSE stmt.before[v]]]_vars
  <2> SUFFICES ASSUME IInv, DeleteEnd
               PROVE  data[stmt.src] = [v \in Vals |-> IF v \in stmt.flt THEN 0 ELSE stmt.before[v]]
    OBVIOUS
  <2>1. stmt.ahead \in Bag /\ data[stmt.src] \in Bag
    BY DEF IInv, Shaped, StmtType, Bags
  <2>2. \A v \in Vals : v \in stmt.flt => stmt.ahead[v] = 0
    BY <2>1, BagOf DEF DeleteEnd, In
  <2>3. \A v \in Vals : data[stmt.src][v] = IF v \in stmt.flt THEN 0 ELSE stmt.before[v]
    BY <2>2 DEF DeleteEnd, IInv, Deleting
  <2> QED BY <2>1, <2>3 DEF Bag
<1> QED BY <1>1, Invariance, PTL DEF Spec, DeleteExact

-----------------------------------------------------------------------------
(* What a join has added *)

Proj(s, a, b) == IF s.side = "outer" THEN a ELSE b

(* The pairs of records of d1 and d2 that match and that the loops of the
   statement s have passed, if they add v: those of outer records passed, of
   the current one only with inner records passed. *)
Passed(d1, d2, s, v) ==
    {p \in Records \X Records :
        /\ p[1][2] <= d1[p[1][1]] /\ p[2][2] <= d2[p[2][1]]
        /\ Compare(p[2][1], s.op, p[1][1])
        /\ v = Proj(s, p[1][1], p[2][1])
        /\ s.ahead[p[1][1]] < p[1][2]
        /\ s.st = "inner" /\ p[1] = <<s.cur, s.ahead[s.cur] + 1>> => s.inner[p[2][1]] < p[2][2]}

Joining ==
    stmt.kind = "join" /\ stmt.st \in {"next", "inner"} /\ stmt.res \notin {stmt.src, stmt.src2} =>
        /\ \A a \in Vals : stmt.ahead[a] <= data[stmt.src][a]
        /\ stmt.st = "inner" =>
              /\ stmt.ahead[stmt.cur] < data[stmt.src][stmt.cur]
              /\ \A b \in Vals : stmt.inner[b] <= InnerScan(stmt.cur)[b]
        /\ \A v \in Vals : data[stmt.res][v] =
              Capped(stmt.before[v] + Cardinality(Passed(data[stmt.src], data[stmt.src2], stmt, v)))

LEMMA RecordFacts ==
  /\ IsFiniteSet(Records \X Records)
  /\ \A r \in Records : r = <<r[1], r[2]>> /\ r[1] \in Vals /\ r[2] \in 1 .. Cap
  /\ \A p \in Records \X Records : p = <<p[1], p[2]>> /\ p[1] \in Records /\ p[2] \in Records
  /\ \A a, b \in Vals, i, j \in 1 .. Cap : <<<<a, i>>, <<b, j>>>> \in Records \X Records
<1>1. IsFiniteSet(1 .. Cap) /\ IsFiniteSet(Vals)
  BY FS_Interval, SessionAssumption
<1>2. IsFiniteSet(Records)
  BY <1>1, FS_Product DEF Records
<1>3. IsFiniteSet(Records \X Records)
  BY <1>2, FS_Product
<1> QED BY <1>3 DEF Records

LEMMA PassedFinite ==
  ASSUME NEW d1, NEW d2, NEW s, NEW v
  PROVE  IsFiniteSet(Passed(d1, d2, s, v)) /\ Cardinality(Passed(d1, d2, s, v)) \in Nat
<1>1. Passed(d1, d2, s, v) \subseteq Records \X Records
  BY DEF Passed
<1> QED BY <1>1, RecordFacts, FS_Subset, FS_CardinalityType

(* at the start of the outer scan nothing is passed *)
LEMMA NonePassed ==
  ASSUME NEW d1 \in Bag, NEW d2, NEW s, s.ahead = d1, NEW v
  PROVE  Cardinality(Passed(d1, d2, s, v)) = 0
<1>1. ASSUME NEW p \in Passed(d1, d2, s, v) PROVE FALSE
  <2>1. p[1] \in Records /\ p[1][2] <= d1[p[1][1]] /\ d1[p[1][1]] < p[1][2]
    BY <1>1, RecordFacts DEF Passed
  <2>2. p[1][1] \in Vals /\ p[1][2] \in Int /\ d1[p[1][1]] \in Int
    BY <2>1, RecordFacts, BagOf
  <2> QED BY <2>1, <2>2
<1>2. Passed(d1, d2, s, v) = {}
  BY <1>1
<1> QED BY <1>2, FS_EmptySet

(* the outer scan comes to a record a, or is done with it: no pair is passed by that *)
LEMMA OuterPassed ==
  ASSUME NEW d1 \in Bag, NEW d2 \in Bag, NEW s \in StmtType, NEW t \in StmtType, NEW a \in Vals,
         s.st = "next", s.ahead[a] > 0, s.ahead[a] <= d1[a],
         t.st = "inner", t.cur = a, t.ahead = Less(s.ahead, a), t.op = s.op, t.side = s.side,
         \A b \in Vals : t.inner[b] = IF Compare(b, s.op, a) THEN d2[b] ELSE 0,
         NEW v
  PROVE  Passed(d1, d2, t, v) = Passed(d1, d2, s, v)
<1>1. /\ s.ahead \in Bag /\ t.ahead \in Bag /\ s.ahead[a] \in Nat /\ t.ahead[a] + 1 = s.ahead[a]
      /\ \A c \in Vals : c # a => t.ahead[c] = s.ahead[c]
  BY LessFacts, BagOf DEF StmtType
<1>2. ASSUME NEW p \in Records \X Records,
             p[2][2] <= d2[p[2][1]], Compare(p[2][1], s.op, p[1][1])
      PROVE  (s.ahead[p[1][1]] < p[1][2])
             <=> /\ t.ahead[p[1][1]] < p[1][2]
                 /\ p[1] = <<a, t.ahead[a] + 1>> => t.inner[p[2][1]] < p[2][2]
  <2>1. /\ p[1] = <<p[1][1], p[1][2]>> /\ p[1][1] \in Vals /\ p[1][2] \in Int
        /\ p[2][1] \in Vals /\ p[2][2] \in Int /\ d2[p[2][1]] \in Int
        /\ s.ahead[p[1][1]] \in Int /\ t.ahead[p[1][1]] \in Int
    BY <1>1, RecordFacts, BagOf
  <2>2. CASE p[1][1] # a
    BY <1>1, <2>1, <2>2
  <2>3. CASE p[1][1] = a
    <3>1. t.inner[p[2][1]] = d2[p[2][1]]
      BY <1>2, <2>1, <2>3
    <3>2. p[1] = <<a, t.ahead[a] + 1>> <=> p[1][2] = s.ahead[a]
      BY <1>1, <2>1, <2>3
    <3>3. ~(t.inner[p[2][1]] < p[2][2])
      BY <1>2, <2>1, <3>1
    <3> QED BY <1>1, <2>1, <2>3, <3>2, <3>3
  <2> QED BY <2>2, <2>3
<1> QED BY <1>2 DEF Passed, Proj

LEMMA InnerEndPassed ==
  ASSUME NEW d1 \in Bag, NEW d2 \in Bag, NEW s \in StmtType, NEW t \in StmtType,
         s.st = "inner", s.inner = Empty, t.st = "next", t.ahead = s.ahead, t.op = s.op, t.side = s.side,
         NEW v
  PROVE  Passed(d1, d2, t, v) = Passed(d1, d2, s, v)
<1>1. \A p \in Records \X Records : s.inner[p[2][1]] < p[2][2]
  BY RecordFacts, EmptyBag
<1> QED BY <1>1 DEF Passed, Proj

(* the inner scan comes to w: one pair more *)
LEMMA InnerPassed ==
  ASSUME NEW d1 \in Bag, NEW d2 \in Bag, NEW s \in StmtType, NEW t \in StmtType, NEW w \in Vals,
         s.st = "inner", s.cur \in Vals, s.ahead[s.cur] < d1[s.cur], s.inner[w] > 0,
         s.inner[w] <= IF Compare(w, s.op, s.cur) THEN d2[w] ELSE 0,
         t.st = "inner", t.cur = s.cur, t.ahead = s.ahead, t.op = s.op, t.side = s.side,
         t.inner = Less(s.inner, w), NEW v
  PROVE  Cardinality(Passed(d1, d2, t, v)) =
            Cardinality(Passed(d1, d2, s, v)) + IF v = Proj(s, s.cur, w) THEN 1 ELSE 0
<1> DEFINE c == s.cur
           e == <<<<c, s.ahead[c] + 1>>, <<w, s.inner[w]>>>>
<1>1. /\ s.ahead \in Bag /\ s.inner \in Bag /\ s.inner[w] \in 0 .. Cap /\ s.ahead[c] \in Nat
      /\ d1[c] \in 0 .. Cap /\ d2[w] \in 0 .. Cap /\ Cap \in Nat
      /\ t.inner[w] = s.inner[w] - 1 /\ \A b \in Vals : b # w => t.inner[b] = s.inner[b]
  <2>1. s.ahead \in Bag /\ s.inner \in Bag
    BY DEF StmtType
  <2>2. /\ t.inner[w] = s.inner[w] - 1 /\ \A b \in Vals : b # w => t.inner[b] = s.inner[b]
    BY <2>1, LessFacts
  <2>3. s.inner[w] \in 0 .. Cap /\ s.ahead[c] \in Nat /\ d1[c] \in 0 .. Cap /\ d2[w] \in 0 .. Cap
    BY <2>1, BagOf
  <2> QED BY <2>1, <2>2, <2>3, ValsFacts
<1>2. Compare(w, s.op, c) /\ s.inner[w] <= d2[w]
  BY <1>1
<1>3. s.ahead[c] + 1 \in 1 .. Cap /\ s.inner[w] \in 1 .. Cap
  BY <1>1
<1>4. e \in Records \X Records /\ e[1] = <<c, s.ahead[c] + 1>> /\ e[2][1] = w /\ e[2][2] = s.inner[w]
      /\ e[1][1] = c /\ e[1][2] = s.ahead[c] + 1
  BY <1>3, RecordFacts
<1>5. PICK x : x = e
  OBVIOUS
<1> HIDE DEF e
<1>6. x \notin Passed(d1, d2, s, v)
  BY <1>1, <1>4, <1>5 DEF Passed
<1>7. x \in Passed(d1, d2, t, v) <=> v = Proj(s, c, w)
  BY <1>1, <1>2, <1>3, <1>4, <1>5 DEF Passed, Proj
<1>8. ASSUME NEW p \in Records \X Records, p # x
      PROVE  p \in Passed(d1, d2, t, v) <=> p \in Passed(d1, d2, s, v)
  <2>1. /\ p = <<p[1], p[2]>> /\ p[2] = <<p[2][1], p[2][2]>> /\ p[2][1] \in Vals /\ p[2][2] \in Int
    BY RecordFacts
  <2>2. ASSUME p[1] = <<c, s.ahead[c] + 1>>
        PROVE  t.inner[p[2][1]] < p[2][2] <=> s.inner[p[2][1]] < p[2][2]
    <3>1. p[2] # <<w, s.inner[w]>>
      BY <1>5, <1>8, <2>1, <2>2 DEF e
    <3>2. CASE p[2][1] # w
      BY <1>1, <3>2, <2>1
    <3>3. CASE p[2][1] = w
      BY <1>1, <3>1, <3>3, <2>1
    <3> QED BY <3>2, <3>3
  <2> QED BY <2>2 DEF Passed, Proj
<1>9. IsFiniteSet(Passed(d1, d2, s, v)) /\ Cardinality(Passed(d1, d2, s, v)) \in Nat
  BY PassedFinite
<1>10. CASE v = Proj(s, c, w)
  <2>1. Passed(d1, d2, t, v) = Passed(d1, d2, s, v) \cup {x}
    BY <1>4, <1>5, <1>7, <1>8, <1>10 DEF Passed
  <2> QED BY <1>6, <1>9, <1>10, <2>1, FS_AddElement
<1>11. CASE v # Proj(s, c, w)
  <2>1. Passed(d1, d2, t, v) = Passed(d1, d2, s, v)
    BY <1>4, <1>5, <1>6, <1>7, <1>8, <1>11 DEF Passed
  <2> QED BY <1>9, <1>11, <2>1
<1> QED BY <1>10, <1>11

LEMMA JoiningInit == Init => Joining
BY IdleShaped DEF Init, Joining

(* steps that neither begin nor go on with a join *)
LEMMA NoJoin ==
  ASSUME stmt'.kind # "join" \/ stmt'.st \notin {"next", "inner"}
  PROVE  Joining'
BY DEF Joining

LEMMA JoinBeginJoining ==
  ASSUME IInv, NEW res \in AllNames, NEW n \in Names, NEW m \in Names, NEW op \in Ops,
         NEW side \in Sides, JoinBegin(res, n, m, op, side)
  PROVE  Joining'
<1> SUFFICES ASSUME stmt'.kind = "join", stmt'.st \in {"next", "inner"},
                    stmt'.res \notin {stmt'.src, stmt'.src2}
             PROVE  Joining'
  BY DEF Joining
<1> DEFINE was == IF res \in rels THEN data[res] ELSE Empty
           S == [Idle EXCEPT !.kind = "join", !.src = n, !.src2 = m, !.res = res]
           T == [S EXCEPT !.st = "next", !.op = op, !.ahead = data[n],
                          !.side = IF n = m THEN "inner" ELSE side]
           E == [S EXCEPT !.st = "empty"]
<1>1. PICK Q \in {T, E} : QueryBegin(Q)
  BY DEF JoinBegin
<1>2. stmt' = [Q EXCEPT !.before = IF Q.res \in rels THEN data[Q.res] ELSE Empty]
      /\ data' = [data EXCEPT ![Q.res] = IF Q.res \in rels THEN data[Q.res] ELSE Empty]
  BY <1>1 DEF QueryBegin, Stmt
<1>3. Q = T
  BY <1>1, <1>2 DEF Idle
<1>4. /\ stmt'.src = n /\ stmt'.src2 = m /\ stmt'.res = res /\ stmt'.st = "next" /\ stmt'.ahead = data[n]
      /\ stmt'.before = was /\ data' = [data EXCEPT ![res] = was]
  BY <1>2, <1>3 DEF Idle
<1>5. n \in AllNames /\ m \in AllNames /\ data[n] \in Bag /\ was \in Bag
  BY EmptyBag DEF AllNames, IInv, Bags
<1> HIDE DEF was
<1>6. data'[n] = data[n] /\ data'[res] = was
  BY <1>4, <1>5 DEF IInv, Bags
<1>7. \A a \in Vals : stmt'.ahead[a] <= data'[n][a]
  BY <1>4, <1>5, <1>6, BagOf
<1>8. ASSUME NEW v \in Vals
      PROVE  data'[res][v] = Capped(was[v] + Cardinality(Passed(data'[n], data'[m], stmt', v)))
  <2>1. PICK d1 \in Bag : d1 = data'[n]
    BY <1>5, <1>6
  <2>2. PICK s, d2 : s = stmt' /\ d2 = data'[m]
    OBVIOUS
  <2>3. Cardinality(Passed(d1, d2, s, v)) = 0
    BY <1>4, <1>6, <2>1, <2>2, NonePassed
  <2>4. was[v] \in 0 .. Cap
    BY <1>5, BagOf
  <2> QED BY <1>6, <2>1, <2>2, <2>3, <2>4, CappedFacts, ValsFacts
<1> QED BY <1>4, <1>7, <1>8 DEF Joining

LEMMA JoinOuterJoining ==
  ASSUME IInv, IInv', Joining, NEW a \in Vals, JoinOuter(a)
  PROVE  Joining'
<1>1. /\ stmt.kind = "join" /\ stmt.st = "next" /\ stmt.ahead[a] > 0 /\ data' = data
      /\ stmt' = [stmt EXCEPT !.ahead = Less(stmt.ahead, a), !.st = "inner", !.cur = a,
                              !.inner = InnerScan(a)]
  BY DEF JoinOuter, Stmt, In
<1>2. /\ stmt \in StmtType /\ stmt' \in StmtType /\ data[stmt.src] \in Bag /\ data[stmt.src2] \in Bag
  BY DEF IInv, Shaped, StmtType, Bags
<1>3. /\ stmt'.st = "inner" /\ stmt'.cur = a /\ stmt'.ahead = Less(stmt.ahead, a)
      /\ stmt'.inner = InnerScan(a) /\ stmt'.src = stmt.src /\ stmt'.src2 = stmt.src2
      /\ stmt'.res = stmt.res /\ stmt'.op = stmt.op /\ stmt'.side = stmt.side /\ stmt'.before = stmt.before
  BY <1>1, <1>2 DEF StmtType
<1> SUFFICES ASSUME stmt.res \notin {stmt.src, stmt.src2} PROVE Joining'
  BY <1>3 DEF Joining
<1>4. /\ \A b \in Vals : stmt.ahead[b] <= data[stmt.src][b]
      /\ \A v \in Vals : data[stmt.res][v] =
            Capped(stmt.before[v] + Cardinality(Passed(data[stmt.src], data[stmt.src2], stmt, v)))
  BY <1>1 DEF Joining
<1>5. /\ stmt.ahead \in Bag /\ Less(stmt.ahead, a)[a] = stmt.ahead[a] - 1
      /\ \A b \in Vals : b # a => Less(stmt.ahead, a)[b] = stmt.ahead[b]
  BY <1>1, <1>2, LessFacts DEF StmtType
<1>6. \A b \in Vals : stmt'.ahead[b] <= data[stmt.src][b]
  BY <1>2, <1>3, <1>4, <1>5, BagOf
<1>7. stmt'.ahead[a] < data[stmt.src][a]
  BY <1>2, <1>3, <1>4, <1>5, BagOf
<1>8. InnerScan(a)' = InnerScan(a) /\ \A b \in Vals : InnerScan(a)[b] \in Nat
      /\ InnerScan(a)[b] = IF Compare(b, stmt.op, a) THEN data[stmt.src2][b] ELSE 0
  BY <1>1, <1>2, <1>3, BagOf DEF InnerScan
<1>9. \A b \in Vals : stmt'.inner[b] <= InnerScan(a)'[b]
  BY <1>3, <1>8
<1>10. ASSUME NEW v PROVE Passed(data[stmt.src], data[stmt.src2], stmt', v)
                          = Passed(data[stmt.src], data[stmt.src2], stmt, v)
  <2>1. PICK d1 \in Bag, d2 \in Bag, s \in StmtType, t \in StmtType :
           d1 = data[stmt.src] /\ d2 = data[stmt.src2] /\ s = stmt /\ t = stmt'
    BY <1>2
  <2>2. \A b \in Vals : t.inner[b] = IF Compare(b, s.op, a) THEN d2[b] ELSE 0
    BY <1>3, <1>8, <2>1
  <2>3. Passed(d1, d2, t, v) = Passed(d1, d2, s, v)
    <3>1. /\ s.st = "next" /\ s.ahead[a] > 0 /\ s.ahead[a] <= d1[a]
          /\ t.st = "inner" /\ t.cur = a /\ t.ahead = Less(s.ahead, a) /\ t.op = s.op /\ t.side = s.side
      BY <1>1, <1>3, <1>4, <2>1
    <3> QED BY <2>2, <3>1, OuterPassed
  <2> QED BY <2>1, <2>3
<1> QED BY <1>1, <1>3, <1>4, <1>6, <1>7, <1>9, <1>10 DEF Joining

LEMMA JoinInnerEndJoining ==
  ASSUME IInv, IInv', Joining, JoinInnerEnd
  PROVE  Joining'
<1>1. /\ stmt.kind = "join" /\ stmt.st = "inner" /\ stmt.inner = Empty /\ data' = data
      /\ stmt' = [stmt EXCEPT !.st = "next", !.cur = 0]
  BY DEF JoinInnerEnd, Stmt
<1>2. /\ stmt \in StmtType /\ stmt' \in StmtType /\ data[stmt.src] \in Bag /\ data[stmt.src2] \in Bag
  BY DEF IInv, Shaped, StmtType, Bags
<1>3. /\ stmt'.st = "next" /\ stmt'.ahead = stmt.ahead /\ stmt'.src = stmt.src /\ stmt'.src2 = stmt.src2
      /\ stmt'.res = stmt.res /\ stmt'.op = stmt.op /\ stmt'.side = stmt.side /\ stmt'.before = stmt.before
  BY <1>1, <1>2 DEF StmtType
<1>4. ASSUME NEW v PROVE Passed(data[stmt.src], data[stmt.src2], stmt', v)
                         = Passed(data[stmt.src], data[stmt.src2], stmt, v)
  <2>1. PICK d1 \in Bag, d2 \in Bag, s \in StmtType, t \in StmtType :
           d1 = data[stmt.src] /\ d2 = data[stmt.src2] /\ s = stmt /\ t = stmt'
    BY <1>2
  <2>2. Passed(d1, d2, t, v) = Passed(d1, d2, s, v)
    <3>1. /\ s.st = "inner" /\ s.inner = Empty /\ t.st = "next" /\ t.ahead = s.ahead
          /\ t.op = s.op /\ t.side = s.side
      BY <1>1, <1>3, <2>1
    <3> QED BY <3>1, InnerEndPassed
  <2> QED BY <2>1, <2>2
<1> QED BY <1>1, <1>3, <1>4 DEF Joining

LEMMA JoinInnerJoining ==
  ASSUME IInv, IInv', Joining, NEW w \in Vals, JoinInner(w)
  PROVE  Joining'
<1>1. PICK S : S = [stmt EXCEPT !.inner = Less(stmt.inner, w)]
  OBVIOUS
<1>2. /\ stmt.kind = "join" /\ stmt.st = "inner" /\ stmt.inner[w] > 0
      /\ Put(Projected(stmt.cur, w), S)
  BY <1>1 DEF JoinInner, In
<1>3. /\ stmt \in StmtType /\ stmt' \in StmtType /\ data[stmt.src] \in Bag /\ data[stmt.src2] \in Bag
      /\ data[stmt.res] \in Bag /\ stmt.src \in AllNames /\ stmt.src2 \in AllNames /\ stmt.res \in AllNames
      /\ stmt.before \in Bag /\ stmt.inner \in Bag /\ stmt.ahead \in Bag
      /\ stmt.cur \in Vals /\ data \in [AllNames -> Bag]
  BY <1>2 DEF IInv, Shaped, StmtType, Bags
<1>4. PICK u \in Vals : u = Projected(stmt.cur, w)
  BY <1>3 DEF Projected
<1>5. Less(stmt.inner, w) \in Bag /\ S \in StmtType
  <2>1. Less(stmt.inner, w) \in Bag
    BY <1>2, <1>3, LessFacts
  <2> QED BY <1>1, <1>3, <2>1 DEF StmtType
<1>6. PICK A \in SUBSET {s \in {"ahead", "inner"} : stmt.st # "again" /\ Scanned(s) = stmt.res} :
         stmt' = [S EXCEPT !.odd = ~S.odd /\ (FeedsItself \/ S.st = "again"),
                           !.ahead = IF "ahead" \in A THEN Plus(S.ahead, u) ELSE S.ahead,
                           !.inner = IF "inner" \in A THEN Plus(S.inner, u) ELSE S.inner]
  BY <1>2, <1>4 DEF Put, Stmt
<1>7. data' = [data EXCEPT ![stmt.res] = Plus(data[stmt.res], u)]
  BY <1>2, <1>4 DEF Put
<1>8. /\ stmt'.st = "inner" /\ stmt'.cur = stmt.cur /\ stmt'.src = stmt.src /\ stmt'.src2 = stmt.src2
      /\ stmt'.res = stmt.res /\ stmt'.op = stmt.op /\ stmt'.side = stmt.side /\ stmt'.before = stmt.before
  BY <1>1, <1>2, <1>3, <1>6 DEF StmtType
<1> SUFFICES ASSUME stmt.res \notin {stmt.src, stmt.src2} PROVE Joining'
  BY <1>8 DEF Joining
<1>9. "ahead" \notin A /\ "inner" \notin A
  BY <1>2 DEF Scanned
<1>10. stmt'.ahead = stmt.ahead /\ stmt'.inner = Less(stmt.inner, w)
  BY <1>1, <1>3, <1>5, <1>6, <1>9 DEF StmtType
<1>11. data'[stmt.src] = data[stmt.src] /\ data'[stmt.src2] = data[stmt.src2]
       /\ data'[stmt.res] = Plus(data[stmt.res], u)
  BY <1>3, <1>7
<1>12. /\ \A b \in Vals : stmt.ahead[b] <= data[stmt.src][b]
       /\ stmt.ahead[stmt.cur] < data[stmt.src][stmt.cur]
       /\ \A b \in Vals : stmt.inner[b] <= InnerScan(stmt.cur)[b]
       /\ \A v \in Vals : data[stmt.res][v] =
            Capped(stmt.before[v] + Cardinality(Passed(data[stmt.src], data[stmt.src2], stmt, v)))
  BY <1>2 DEF Joining
<1>13. InnerScan(stmt.cur)' = InnerScan(stmt.cur) /\ \A b \in Vals : InnerScan(stmt.cur)[b] \in Nat
       /\ InnerScan(stmt.cur)[b] = IF Compare(b, stmt.op, stmt.cur) THEN data[stmt.src2][b] ELSE 0
  BY <1>3, <1>8, <1>11, BagOf DEF InnerScan
<1>14. \A b \in Vals : stmt'.inner[b] <= InnerScan(stmt.cur)'[b]
  <2>1. /\ Less(stmt.inner, w)[w] = stmt.inner[w] - 1
        /\ \A b \in Vals : b # w => Less(stmt.inner, w)[b] = stmt.inner[b]
    BY <1>2, <1>3, LessFacts
  <2>2. \A b \in Vals : stmt.inner[b] \in Nat
    BY <1>3, BagOf
  <2> QED BY <1>10, <1>12, <1>13, <2>1, <2>2
<1>15. ASSUME NEW v \in Vals
       PROVE  data'[stmt.res][v] =
                Capped(stmt.before[v] + Cardinality(Passed(data[stmt.src], data[stmt.src2], stmt', v)))
  <2>1. PICK d1 \in Bag, d2 \in Bag, s \in StmtType, t \in StmtType :
           d1 = data[stmt.src] /\ d2 = data[stmt.src2] /\ s = stmt /\ t = stmt'
    BY <1>3
  <2>2. s.inner[w] <= IF Compare(w, s.op, s.cur) THEN d2[w] ELSE 0
    BY <1>12, <1>13, <2>1
  <2>3. Cardinality(Passed(d1, d2, t, v)) =
          Cardinality(Passed(d1, d2, s, v)) + IF v = Proj(s, s.cur, w) THEN 1 ELSE 0
    <3>1. /\ s.st = "inner" /\ s.cur \in Vals /\ s.ahead[s.cur] < d1[s.cur] /\ s.inner[w] > 0
          /\ t.st = "inner" /\ t.cur = s.cur /\ t.ahead = s.ahead /\ t.op = s.op /\ t.side = s.side
          /\ t.inner = Less(s.inner, w)
      BY <1>2, <1>3, <1>8, <1>10, <1>12, <2>1
    <3> QED BY <2>2, <3>1, InnerPassed
  <2>4. Proj(s, s.cur, w) = u
    BY <1>4, <2>1 DEF Proj, Projected
  <2>5. PICK k \in Nat : k = Cardinality(Passed(d1, d2, s, v))
    BY PassedFinite
  <2>6. data[stmt.res][v] = Capped(stmt.before[v] + k) /\ stmt.before[v] \in Nat
    BY <1>3, <1>12, <2>1, <2>5, BagOf
  <2>7. /\ data'[stmt.res][u] = Capped(data[stmt.res][u] + 1)
        /\ v # u => data'[stmt.res][v] = data[stmt.res][v]
    <3>1. PICK b \in Bag : b = data[stmt.res]
      BY <1>3
    <3>2. Plus(b, u)[u] = Capped(b[u] + 1) /\ \A x \in Vals : x # u => Plus(b, u)[x] = b[x]
      BY PlusFacts
    <3> QED BY <1>11, <3>1, <3>2
  <2>8. CASE v = u
    <3>1. Cardinality(Passed(d1, d2, t, v)) = k + 1
      BY <2>3, <2>4, <2>5, <2>8
    <3>2. data'[stmt.res][v] = Capped((stmt.before[v] + k) + 1)
      BY <2>6, <2>7, <2>8, CappedFacts
    <3>3. (stmt.before[v] + k) + 1 = stmt.before[v] + (k + 1)
      BY <2>6
    <3> QED BY <2>1, <3>1, <3>2, <3>3
  <2>9. CASE v # u
    BY <2>1, <2>3, <2>4, <2>5, <2>6, <2>7, <2>9
  <2> QED BY <2>8, <2>9
<1> QED BY <1>8, <1>10, <1>11, <1>12, <1>14, <1>15 DEF Joining

LEMMA JoiningStep == IInv /\ IInv' /\ Joining /\ [Next]_vars => Joining'
<1> SUFFICES ASSUME IInv, IInv', Joining, [Next]_vars PROVE Joining'
  OBVIOUS
<1>1. ASSUME stmt' = Idle \/ stmt'.kind # "join" \/ stmt'.st = "again" PROVE Joining'
  <2>1. stmt'.kind # "join" \/ stmt'.st \notin {"next", "inner"}
    BY <1>1, IdleShaped
  <2> QED BY <2>1, NoJoin
<1>2. UNCHANGED vars => Joining'
  BY DEF vars, Joining, InnerScan
<1>3. stmt.kind \in {"select", "join"} /\ stmt' = Ending(stmt) => Joining'
  <2>1. Ending(stmt).kind # "join"
    BY IdleShaped DEF Ending, Idle
  <2> QED BY <2>1, NoJoin
<1>4. ASSUME Step PROVE Joining'
  <2>1. ASSUME NEW v \in Vals,
               LoadNext(v) \/ DeleteNext(v) \/ SelectNext(v) \/ Again(v)
        PROVE  Joining'
    <3>1. CASE stmt.kind # "join"
      <4>1. LoadNext(v) \/ DeleteNext(v) \/ SelectNext(v) \/ Again(v) => stmt'.kind # "join"
        <5>1. ASSUME NEW S \in StmtType, S.kind # "join", Put(v, S) PROVE stmt'.kind # "join"
          BY <5>1, PutFacts
        <5>2. stmt \in StmtType
          BY DEF IInv, Shaped
        <5>3. ASSUME LoadNext(v) PROVE stmt'.kind # "join"
          <6>1. PICK S \in {stmt, [stmt EXCEPT !.st = "again", !.cur = v]} : Put(v, S)
            BY <5>3 DEF LoadNext
          <6>2. S \in StmtType /\ S.kind # "join"
            BY <3>1, <5>2, <6>1 DEF StmtType, Steps
          <6> QED BY <5>1, <6>1, <6>2
        <5>4. ASSUME DeleteNext(v) PROVE stmt'.kind # "join"
          BY <3>1, <5>2, <5>4 DEF DeleteNext, Stmt, StmtType
        <5>5. ASSUME SelectNext(v) PROVE stmt'.kind # "join"
          <6>1. PICK S : S = [stmt EXCEPT !.ahead = Less(stmt.ahead, v)]
            OBVIOUS
          <6>2. Put(v, S) /\ stmt.ahead[v] > 0
            BY <5>5, <6>1 DEF SelectNext, In
          <6>3. S \in StmtType /\ S.kind # "join"
            BY <3>1, <5>2, <6>1, <6>2, LessFacts DEF StmtType
          <6> QED BY <5>1, <6>2, <6>3
        <5>6. ASSUME Again(v) PROVE stmt'.kind # "join"
          <6>1. PICK S : S = [stmt EXCEPT !.ahead = Empty]
            OBVIOUS
          <6>2. Put(v, S)
            BY <5>6, <6>1 DEF Again
          <6>3. S \in StmtType /\ S.kind # "join"
            BY <3>1, <5>2, <6>1, EmptyBag DEF StmtType
          <6> QED BY <5>1, <6>2, <6>3
        <5> QED BY <5>3, <5>4, <5>5, <5>6
      <4> QED BY <2>1, <4>1, NoJoin
    <3>2. CASE stmt.kind = "join"
      <4>1. Again(v) /\ stmt.st = "again"
        BY <2>1, <3>2 DEF LoadNext, DeleteNext, SelectNext, Again
      <4>2. PICK S : S = [stmt EXCEPT !.ahead = Empty]
        OBVIOUS
      <4>3. S \in StmtType /\ S.st = "again" /\ Put(v, S)
        BY <4>1, <4>2, EmptyBag DEF IInv, Shaped, StmtType, Again
      <4>4. stmt'.st = "again"
        BY <4>3, PutFacts
      <4> QED BY <1>1, <4>4
    <3> QED BY <3>1, <3>2
  <2>2. LoadAgain => Joining'
    <3> SUFFICES ASSUME LoadAgain PROVE Joining'
      OBVIOUS
    <3>1. stmt \in StmtType /\ stmt.kind = "load" /\ stmt.cur \in Vals /\ Put(stmt.cur, stmt)
      BY DEF LoadAgain, IInv, Shaped, StmtType
    <3>2. PICK v \in Vals, S \in StmtType : v = stmt.cur /\ S = stmt
      BY <3>1
    <3>3. Put(v, S) /\ S.kind = "load"
      BY <3>1, <3>2
    <3>4. stmt'.kind = "load"
      BY <3>3, PutFacts
    <3> QED BY <1>1, <3>4
  <2>3. LoadEnd \/ LoadFails \/ DeleteEnd \/ DeleteFails \/ PrintEnd \/ ShowDrop => Joining'
    BY <1>1 DEF LoadEnd, LoadFails, DeleteEnd, DeleteFails, PrintEnd, ShowDrop, Stmt
  <2>4. SelectEnd \/ JoinEnd \/ QueryFails => Joining'
    BY <1>3 DEF SelectEnd, JoinEnd, QueryFails, Querying, Stmt
  <2>5. ReadFails \/ ShowPrint => Joining'
    <3>1. stmt \in StmtType
      BY DEF IInv, Shaped
    <3>2. ReadFails \/ ShowPrint => stmt'.st = "again" \/ stmt'.kind # "join"
      BY <3>1 DEF ReadFails, ShowPrint, Stmt, StmtType
    <3> QED BY <1>1, <3>2
  <2> QED BY <1>4, <2>1, <2>2, <2>3, <2>4, <2>5,
             JoinOuterJoining, JoinInnerJoining, JoinInnerEndJoining DEF Step
<1>5. ASSUME NEW n \in AllNames, Create(n) \/ Drop(n) \/ HalfDone(n) \/ Refused(n)
                             \/ OpensNothing(n) \/ NotFound(n)
      PROVE  Joining'
  BY <1>1, <1>5 DEF Create, Drop, HalfDone, OpensNothing, NotFound, Refused, Stmt
<1>6. ASSUME NEW n \in Names, NEW v \in Vals, Insert(n, v) PROVE Joining'
  BY <1>1, <1>6 DEF Insert, Stmt
<1>7. ASSUME NEW n \in AllNames, NEW F, LoadBegin(n) \/ DeleteBegin(n, F) \/ UpdateBegin(n, F) \/ PrintBegin(n)
      PROVE  Joining'
  <2>1. CASE UpdateNothing(n)
    BY <1>1, <2>1 DEF UpdateNothing, Stmt
  <2>2. ASSUME LoadBegin(n) \/ PassBegin("delete", n, F) \/ PassBegin("print", n, Vals)
        PROVE  stmt'.kind # "join"
    BY <2>2 DEF LoadBegin, PassBegin, Stmt, Idle
  <2> QED BY <1>1, <1>7, <2>1, <2>2 DEF DeleteBegin, UpdateBegin, PrintBegin
<1>8. ASSUME NEW r \in AllNames, NEW n \in AllNames, NEW F \in Filters, SelectBegin(r, n, F)
      PROVE  Joining'
  <2>1. stmt'.kind # "join"
    BY <1>8 DEF SelectBegin, QueryBegin, Stmt, Idle
  <2> QED BY <1>1, <2>1
<1>9. Quit => Joining'
  BY <1>1 DEF Quit, NextSession
<1>10. \A n \in Names : n \in AllNames
  BY DEF AllNames
<1> QED BY <1>2, <1>4, <1>5, <1>6, <1>7, <1>8, <1>9, <1>10, JoinBeginJoining DEF Next

(* A join of two relations that returns OK has added every pair that matches,
   if the operator reads the same from both sides (join.C:91). *)
THEOREM JoinCorrect == Spec => JoinExact
<1>1. IInv /\ Joining /\ [Next]_vars =>
        [JoinDone /\ stmt.op \in {"EQ", "NE"} /\ stmt.src # stmt.src2 => JoinAdds]_vars
  <2> SUFFICES ASSUME IInv, Joining, JoinDone, stmt.op \in {"EQ", "NE"} PROVE JoinAdds
    OBVIOUS
  <2>1. /\ stmt.kind = "join" /\ stmt.st = "next" /\ stmt.ahead = Empty
        /\ stmt.res \notin {stmt.src, stmt.src2}
    BY DEF JoinDone, JoinEnd
  <2>2. ASSUME NEW v \in Vals
        PROVE  Asked(v) = Cardinality(Passed(data[stmt.src], data[stmt.src2], stmt, v))
    <3>1. \A p \in Records \X Records : stmt.ahead[p[1][1]] < p[1][2]
      BY <2>1, RecordFacts, EmptyBag
    <3>2. \A a, b : Compare(a, stmt.op, b) <=> Compare(b, stmt.op, a)
      BY DEF Compare
    <3> QED BY <2>1, <3>1, <3>2 DEF Asked, Passed, Proj
  <2> QED BY <2>1, <2>2 DEF Joining, JoinAdds
<1> QED BY <1>1, JoiningInit, JoiningStep, Invariance, PTL DEF Spec, JoinExact
=============================================================================
