--------------------------- MODULE DBFile_proofs ---------------------------
(***************************************************************************)
(* Theorems about a database file.  The free list is described without     *)
(* following it: every page that is not somebody's links to such a page or *)
(* to none, and no two of them, the header included, to the same.          *)
(***************************************************************************)
EXTENDS DBFile, SequenceTheorems, FiniteSetTheorems, WellFoundedInduction, TLAPS

Counted == 1 .. header.numPages - 1
NotOwned == {p \in Counted : p \notin owned}

(* the free list as links, header and pages *)
Links ==
    /\ owned \subseteq Counted
    /\ header.nextFree # Nil => header.nextFree \in NotOwned
    /\ \A p \in NotOwned : image[p].nextFree # Nil =>
          /\ image[p].nextFree \in NotOwned
          /\ image[p].nextFree # header.nextFree
    /\ \A p, q \in NotOwned :
          image[p].nextFree = image[q].nextFree /\ image[p].nextFree # Nil => p = q

(* the first page is the first one *)
FirstIsFirst == header.firstPage = Nil => header.numPages = 1

(* what a call has between its two writes *)
Extending ==
    /\ op.page = header.numPages /\ op.page \in Pages /\ op.page < length
    /\ header.nextFree = Nil
    /\ op.header = [header EXCEPT !.numPages = op.page + 1,
                                  !.firstPage = IF header.firstPage = Nil THEN op.page
                                                ELSE header.firstPage]

Disposing ==
    /\ op.page \in owned /\ op.page # header.firstPage
    /\ image[op.page].nextFree = header.nextFree
    /\ op.header = [header EXCEPT !.nextFree = op.page]

InMid ==
    /\ op.call = "none" => op = Idle
    /\ op.call = "extend" => Extending
    /\ op.call = "dispose" => Disposing

IInv == HeaderSound /\ Links /\ FirstIsFirst /\ InMid

LEMMA InitInv == Init => IInv
<1> SUFFICES ASSUME Init PROVE IInv
  OBVIOUS
<1> USE MaxPagesAssumption
<1>1. TypeOK
  BY DEF Init, TypeOK, Headers, Pages, Nil, Word, Zeros, Idle
<1>2. PagesExist /\ FirstPageInUse /\ Links /\ FirstIsFirst
  BY DEF Init, PagesExist, FirstPageInUse, Links, FirstIsFirst, NotOwned, Counted, Nil
<1>3. InMid
  BY DEF Init, InMid, Idle
<1> QED BY <1>1, <1>2, <1>3 DEF IInv, HeaderSound

LEMMA StepInv == IInv /\ [Next]_vars => IInv'
<1> SUFFICES ASSUME IInv, [Next]_vars PROVE IInv'
  OBVIOUS
<1> USE MaxPagesAssumption
<1>t. TypeOK /\ header.numPages <= length
  BY DEF IInv, HeaderSound, PagesExist
<1>f. FirstPageInUse /\ FirstIsFirst
  BY DEF IInv, HeaderSound
<1>l. Links
  BY DEF IInv
<1>m. InMid
  BY DEF IInv
<1>i. /\ Idle.call = "none" /\ Idle.page = Nil
      /\ Idle \in [call : {"none", "extend", "dispose"}, page : Pages \cup {Nil}, header : Headers]
  BY DEF Idle, Headers, Nil, Pages
<1>1. CASE Reuse
  <2> DEFINE p == header.nextFree
  <2>1. /\ p \in NotOwned /\ p \in Pages /\ op = Idle /\ p < header.numPages
        /\ header' = [header EXCEPT !.nextFree = image[p].nextFree]
        /\ owned' = owned \cup {p}
        /\ UNCHANGED <<image, length, op>>
    <3>1. p \in NotOwned /\ p \in Pages /\ op = Idle
      BY <1>1, <1>l DEF Reuse, Links, Readable
    <3>2. p < header.numPages
      BY <3>1, <1>t DEF NotOwned, Counted, TypeOK, Headers
    <3> QED BY <1>1, <3>1, <3>2 DEF Reuse
  <2>2. image[p].nextFree # Nil => image[p].nextFree \in NotOwned /\ image[p].nextFree # p
    BY <2>1, <1>l DEF Links
  <2>3. NotOwned \subseteq Pages
    BY <1>t DEF TypeOK, Headers, NotOwned, Counted, Pages
  <2>4. header' \in Headers /\ image[p].nextFree \in Pages \cup {Nil}
    BY <1>t, <2>1, <2>2, <2>3 DEF TypeOK, Headers
  <2>5. header'.numPages = header.numPages /\ header'.firstPage = header.firstPage
        /\ header'.nextFree = image[p].nextFree
    BY <1>t, <2>1 DEF TypeOK, Headers
  <2>6. TypeOK'
    BY <1>1, <1>t, <2>1, <2>4 DEF Reuse, TypeOK
  <2>7. NotOwned' = NotOwned \ {p}
    BY <2>1, <2>5 DEF NotOwned, Counted
  <2>8. Links'
    <3>1. owned' \subseteq Counted'
      BY <1>l, <2>1, <2>5 DEF Links, NotOwned, Counted
    <3>2. header'.nextFree # Nil => header'.nextFree \in NotOwned'
      BY <2>2, <2>5, <2>7
    <3>3. \A q \in NotOwned : q # p /\ image[q].nextFree # Nil =>
             image[q].nextFree # image[p].nextFree /\ image[q].nextFree # p
      BY <1>l, <2>1 DEF Links
    <3> QED BY <1>l, <2>1, <2>5, <2>7, <3>1, <3>2, <3>3 DEF Links
  <2>9. (PagesExist /\ FirstPageInUse /\ FirstIsFirst)'
    BY <1>t, <1>f, <2>1, <2>5 DEF PagesExist, FirstPageInUse, FirstIsFirst
  <2>10. InMid'
    BY <2>1, <1>i DEF InMid
  <2> QED BY <2>6, <2>8, <2>9, <2>10 DEF IInv, HeaderSound
<1>2. CASE ExtendPage
  <2> DEFINE p == header.numPages
  <2>1. /\ op = Idle /\ header.nextFree = Nil /\ p \in Pages
        /\ image' = [image EXCEPT ![p] = Zeros]
        /\ length' = IF p >= length THEN p + 1 ELSE length
        /\ op' = [call |-> "extend", page |-> p,
              header |-> [header EXCEPT !.numPages = p + 1,
                                        !.firstPage = IF header.firstPage = Nil THEN p
                                                      ELSE header.firstPage]]
        /\ UNCHANGED <<header, owned, wrote>>
    BY <1>2 DEF ExtendPage
  <2>2. op'.header \in Headers
    <3>1. p + 1 \in 1 .. MaxPages + 1
      BY <2>1 DEF Pages
    <3>2. (IF header.firstPage = Nil THEN p ELSE header.firstPage) \in {Nil, 1}
      BY <1>t, <1>f DEF TypeOK, Headers, FirstIsFirst
    <3> HIDE DEF p
    <3> QED BY <1>t, <2>1, <3>1, <3>2 DEF TypeOK, Headers
  <2>3. TypeOK' /\ p < length'
    <3>1. Zeros \in [nextFree : Pages \cup {Nil, Word, 0}, data : Data \cup {"zeros"}]
      BY DEF Zeros
    <3> QED BY <1>t, <2>1, <2>2, <3>1 DEF TypeOK, Pages, Headers
  <2>4. Links'
    <3>1. p \notin Counted
      BY <1>t DEF Counted, TypeOK, Headers
    <3>2. \A q \in NotOwned : image'[q] = image[q]
      BY <2>1, <3>1, <1>t DEF NotOwned, Counted, TypeOK, Pages, Headers
    <3> QED BY <2>1, <1>l, <3>2 DEF Links, NotOwned, Counted
  <2>5. (PagesExist /\ FirstPageInUse /\ FirstIsFirst)'
    BY <1>t, <1>f, <2>1 DEF PagesExist, FirstPageInUse, FirstIsFirst, TypeOK, Headers
  <2>6. InMid'
    BY <2>1, <2>3 DEF InMid, Extending
  <2> QED BY <2>3, <2>4, <2>5, <2>6 DEF IInv, HeaderSound
<1>3. CASE ExtendHeader
  <2> DEFINE p == op.page
  <2>1. /\ p = header.numPages /\ p \in Pages /\ p < length /\ header.nextFree = Nil
        /\ header' = [header EXCEPT !.numPages = p + 1,
                                    !.firstPage = IF header.firstPage = Nil THEN p
                                                  ELSE header.firstPage]
        /\ owned' = owned \cup {p} /\ op' = Idle /\ UNCHANGED <<image, length>>
    BY <1>3, <1>m DEF ExtendHeader, InMid, Extending
  <2>2. /\ header'.numPages = p + 1 /\ header'.nextFree = Nil
        /\ header'.firstPage = IF header.firstPage = Nil THEN p ELSE header.firstPage
    BY <1>t, <2>1 DEF TypeOK, Headers
  <2>3. TypeOK'
    <3>1. header' \in Headers
      BY <1>t, <1>3 DEF TypeOK, ExtendHeader
    <3> QED BY <1>3, <1>t, <2>1, <1>i, <3>1 DEF ExtendHeader, TypeOK
  <2>4. NotOwned' = NotOwned
    BY <2>1, <2>2, <1>t DEF NotOwned, Counted, Pages
  <2>5. owned' \subseteq Counted'
    BY <2>1, <2>2, <1>l DEF Links, Counted, Pages
  <2>6. Links'
    BY <2>1, <2>2, <2>4, <2>5, <1>l DEF Links
  <2>7. (PagesExist /\ FirstPageInUse /\ FirstIsFirst)'
    BY <1>t, <1>f, <2>1, <2>2 DEF PagesExist, FirstPageInUse, FirstIsFirst, TypeOK, Headers, Pages, Nil
  <2>8. InMid'
    BY <2>1, <1>i DEF InMid
  <2> QED BY <2>3, <2>6, <2>7, <2>8 DEF IInv, HeaderSound
<1>4. ASSUME NEW p \in Pages, DisposePage(p) PROVE IInv'
  <2>1. /\ op = Idle /\ p \in owned /\ p # header.firstPage
        /\ image' = [image EXCEPT ![p] = [Zeros EXCEPT !.nextFree = header.nextFree]]
        /\ op' = [call |-> "dispose", page |-> p, header |-> [header EXCEPT !.nextFree = p]]
        /\ UNCHANGED <<header, length, owned, wrote>>
    BY <1>4 DEF DisposePage
  <2>2. [Zeros EXCEPT !.nextFree = header.nextFree] \in
           [nextFree : Pages \cup {Nil, Word, 0}, data : Data \cup {"zeros"}]
    BY <1>t DEF Zeros, TypeOK, Headers
  <2>3. TypeOK'
    BY <1>t, <2>1, <2>2 DEF TypeOK, Headers
  <2>4. \A q \in NotOwned : image'[q] = image[q]
    BY <1>t, <2>1 DEF NotOwned, Counted, TypeOK, Headers, Pages
  <2>5. Links'
    BY <1>l, <2>1, <2>4 DEF Links, NotOwned, Counted
  <2>6. (PagesExist /\ FirstPageInUse /\ FirstIsFirst)'
    BY <1>t, <1>f, <2>1 DEF PagesExist, FirstPageInUse, FirstIsFirst
  <2>7. InMid'
    BY <1>t, <2>1 DEF InMid, Disposing, Zeros, TypeOK
  <2> QED BY <2>3, <2>5, <2>6, <2>7 DEF IInv, HeaderSound
<1>5. CASE DisposeHeader
  <2> DEFINE p == op.page
  <2>1. /\ p \in owned /\ p # header.firstPage /\ image[p].nextFree = header.nextFree
        /\ header' = [header EXCEPT !.nextFree = p]
        /\ owned' = owned \ {p} /\ op' = Idle /\ UNCHANGED <<image, length, wrote>>
    BY <1>5, <1>m DEF DisposeHeader, InMid, Disposing
  <2>2. /\ header'.numPages = header.numPages /\ header'.firstPage = header.firstPage
        /\ header'.nextFree = p
    BY <1>t, <2>1 DEF TypeOK, Headers
  <2>3. TypeOK'
    <3>1. header' \in Headers
      BY <1>t, <1>5 DEF TypeOK, DisposeHeader
    <3> QED BY <1>t, <2>1, <1>i, <3>1 DEF TypeOK
  <2>4. NotOwned' = NotOwned \cup {p} /\ p \notin NotOwned /\ p \in Counted
    BY <1>l, <2>1, <2>2 DEF NotOwned, Counted, Links
  <2>5. owned' \subseteq Counted'
    BY <1>l, <2>1, <2>2 DEF Links, Counted
  <2>6. \A q \in NotOwned' : image'[q].nextFree # Nil =>
           image'[q].nextFree \in NotOwned /\ image'[q].nextFree # p
    BY <1>l, <2>1, <2>4 DEF Links
  <2>7. \A q, r \in NotOwned' :
           image'[q].nextFree = image'[r].nextFree /\ image'[q].nextFree # Nil => q = r
    BY <1>l, <2>1, <2>4 DEF Links
  <2>8. Links'
    BY <2>2, <2>4, <2>5, <2>6, <2>7 DEF Links
  <2>9. (PagesExist /\ FirstPageInUse /\ FirstIsFirst)'
    BY <1>t, <1>f, <2>1, <2>2 DEF PagesExist, FirstPageInUse, FirstIsFirst
  <2>10. InMid'
    BY <2>1, <1>i DEF InMid
  <2> QED BY <2>3, <2>8, <2>9, <2>10 DEF IInv, HeaderSound
<1>6. CASE Fail
  <2>1. op' = Idle /\ UNCHANGED <<header, image, length, owned>>
    BY <1>6 DEF Fail
  <2>2. TypeOK'
    BY <1>6, <1>t, <2>1, <1>i DEF Fail, TypeOK
  <2> QED BY <1>l, <1>t, <1>f, <1>i, <2>1, <2>2
          DEF IInv, HeaderSound, Links, NotOwned, Counted, PagesExist, FirstPageInUse, FirstIsFirst, InMid
<1>7. ASSUME NEW p \in Pages, NEW d \in Data, WritePage(p, d) PROVE IInv'
  <2>1. /\ op = Idle /\ p \in owned /\ op' = op /\ UNCHANGED <<header, length, owned>>
        /\ image' = [image EXCEPT ![p] = [nextFree |-> Word, data |-> d]]
    BY <1>7 DEF WritePage
  <2>2. TypeOK'
    BY <1>7, <1>t, <2>1 DEF TypeOK, WritePage
  <2>3. \A q \in NotOwned : image'[q] = image[q]
    BY <1>t, <2>1 DEF NotOwned, Counted, TypeOK, Headers, Pages
  <2>4. Links'
    BY <1>l, <2>1, <2>3 DEF Links, NotOwned, Counted
  <2> QED BY <1>t, <1>f, <1>i, <2>1, <2>2, <2>4
          DEF IInv, HeaderSound, PagesExist, FirstPageInUse, FirstIsFirst, InMid
<1>8. CASE UNCHANGED vars
  BY <1>8 DEF vars, IInv, HeaderSound, TypeOK, PagesExist, FirstPageInUse, Links, NotOwned, Counted,
              FirstIsFirst, InMid, Extending, Disposing
<1> QED BY <1>1, <1>2, <1>3, <1>4, <1>5, <1>6, <1>7, <1>8 DEF Next

(* The header, the links and a call's half-done state together are an
   invariant of the file, however many pages it grows to. *)
THEOREM Invariance == Spec => []IInv
BY InitInv, StepInv, PTL DEF Spec

(* Its header never says more than the file has (db.C:277, db.C:320), and the
   first page is never free. *)
THEOREM HeaderCorrect == Spec => []HeaderSound
<1>1. IInv => HeaderSound
  BY DEF IInv
<1> QED BY <1>1, Invariance, PTL

(* No page is lost or handed out twice: the head of the free list is a page
   of the file that nobody owns. *)
THEOREM ReuseIsFree ==
  Spec => []((header.nextFree # Nil) => (header.nextFree \in 1 .. header.numPages - 1 /\ header.nextFree \notin owned))
<1>1. IInv => ((header.nextFree # Nil) => (header.nextFree \in 1 .. header.numPages - 1 /\ header.nextFree \notin owned))
  BY DEF IInv, Links, NotOwned, Counted
<1> QED BY <1>1, Invariance, PTL

-----------------------------------------------------------------------------

LEMMA ImagesInit == Init => OwnersKeepImages
BY DEF Init, OwnersKeepImages

LEMMA ImagesStep == IInv /\ OwnersKeepImages /\ [Next]_vars => OwnersKeepImages'
<1> SUFFICES ASSUME IInv, OwnersKeepImages, [Next]_vars,
                    NEW p \in owned', wrote'[p] \in Data, op'.page # p
             PROVE  image'[p].data = wrote'[p]
  BY DEF OwnersKeepImages
<1>t. TypeOK /\ owned \subseteq Counted /\ InMid
  BY DEF IInv, HeaderSound, Links
<1>c. Counted \subseteq Pages /\ header.numPages \notin Counted /\ Nil \notin Pages
  BY <1>t, MaxPagesAssumption DEF TypeOK, Headers, Counted, Pages, Nil
<1>o. p \in owned /\ wrote[p] \in Data /\ op.page # p => image[p].data = wrote[p]
  BY DEF OwnersKeepImages
<1>1. CASE Reuse
  <2>1. header.nextFree \in Pages
    BY <1>1 DEF Reuse, Readable
  <2>2. wrote' = [wrote EXCEPT ![header.nextFree] = "none"] /\ UNCHANGED <<image, op>>
    BY <1>1 DEF Reuse
  <2> QED BY <1>1, <1>t, <1>o, <2>1, <2>2, DataAssumption DEF Reuse, TypeOK
<1>2. CASE ExtendPage
  <2>1. p \in owned /\ p # header.numPages /\ wrote' = wrote /\ op = Idle
    BY <1>2, <1>t, <1>c DEF ExtendPage
  <2>2. op.page # p
    BY <2>1, <1>t, <1>c DEF Idle
  <2>3. image'[p] = image[p]
    BY <1>2, <1>t, <1>c, <2>1 DEF ExtendPage, TypeOK
  <2> QED BY <1>o, <2>1, <2>2, <2>3
<1>3. CASE ExtendHeader
  <2>1. op.page \in Pages /\ wrote' = [wrote EXCEPT ![op.page] = "none"] /\ image' = image
        /\ owned' = owned \cup {op.page}
    BY <1>3, <1>t DEF ExtendHeader, InMid, Extending
  <2> QED BY <1>t, <1>o, <2>1, DataAssumption DEF TypeOK
<1>4. ASSUME NEW q \in Pages, DisposePage(q) PROVE image'[p].data = wrote'[p]
  <2>1. p # q /\ p \in owned /\ wrote' = wrote /\ op = Idle
    BY <1>4 DEF DisposePage
  <2>2. op.page # p
    BY <2>1, <1>t, <1>c DEF Idle
  <2>3. image'[p] = image[p]
    BY <1>4, <1>t, <1>c, <2>1 DEF DisposePage, TypeOK
  <2> QED BY <1>o, <2>1, <2>2, <2>3
<1>5. CASE DisposeHeader
  BY <1>5, <1>o DEF DisposeHeader
<1>6. CASE Fail
  <2>1. image' = image /\ owned' = owned
    BY <1>6 DEF Fail
  <2>2. CASE op.call = "dispose"
    <3>1. wrote' = [wrote EXCEPT ![op.page] = "none"] /\ op.page \in Pages
      BY <1>6, <2>2, <1>t, <1>c DEF Fail, InMid, Disposing
    <3> QED BY <1>t, <1>o, <2>1, <3>1, DataAssumption DEF TypeOK
  <2>3. CASE op.call # "dispose"
    <3>1. wrote' = wrote /\ op.call = "extend"
      BY <1>6, <2>3, <1>t DEF Fail, TypeOK, InMid
    <3>2. op.page = header.numPages
      BY <3>1, <1>t DEF InMid, Extending
    <3> QED BY <1>t, <1>c, <1>o, <2>1, <3>1, <3>2
  <2> QED BY <2>2, <2>3
<1>7. ASSUME NEW q \in Pages, NEW d \in Data, WritePage(q, d) PROVE image'[p].data = wrote'[p]
  <2>1. /\ image' = [image EXCEPT ![q] = [nextFree |-> Word, data |-> d]]
        /\ wrote' = [wrote EXCEPT ![q] = d] /\ owned' = owned /\ op' = op
    BY <1>7 DEF WritePage
  <2>2. p \in Pages
    BY <1>t, <1>c, <2>1
  <2> QED BY <1>t, <1>o, <2>1, <2>2 DEF TypeOK
<1>8. CASE UNCHANGED vars
  BY <1>8, <1>o DEF vars
<1> QED BY <1>1, <1>2, <1>3, <1>4, <1>5, <1>6, <1>7, <1>8 DEF Next

(* A page keeps what its owner wrote until it is disposed of, wherever the
   calls on other pages stop. *)
THEOREM ImagesKept == Spec => []OwnersKeepImages
BY Invariance, ImagesInit, ImagesStep, PTL DEF Spec

-----------------------------------------------------------------------------
(* The free list as a sequence *)

(* header and links spell s, which has every page that is nobody's, once *)
Spells(n, s) ==
    /\ header.nextFree = IF n = 0 THEN Nil ELSE s[1]
    /\ \A i \in 1 .. n : image[s[i]].nextFree = IF i = n THEN Nil ELSE s[i + 1]
    /\ \A i, j \in 1 .. n : s[i] = s[j] => i = j
    /\ {s[i] : i \in 1 .. n} = NotOwned

Chain == \E n \in Nat : \E s \in [1 .. n -> Pages] : Spells(n, s)

LEMMA LeastOne ==
  ASSUME NEW T, T \subseteq Nat, T # {} PROVE \E x \in T : \A y \in T : x <= y
<1> DEFINE R == {ss \in Nat \X Nat : ss[1] < ss[2]}
<1>1. IsWellFoundedOn(R, Nat)
  BY NatLessThanWellFounded DEF OpToRel
<1>2. PICK x \in T : \A y \in T : <<y, x>> \notin R
  BY <1>1, WFMin
<1>3. ASSUME NEW y \in T PROVE x <= y
  <2>1. x \in Nat /\ y \in Nat
    OBVIOUS
  <2>2. y < x => <<y, x>> \in R
    BY <2>1
  <2> QED BY <1>2, <2>1, <2>2
<1> QED BY <1>3

(* a walk along the links of img from h: what it finds, if they spell s *)
Walks(w, h, img) ==
    w = [k \in 0 .. MaxPages |->
           IF k = 0 THEN h ELSE IF w[k - 1] \in Pages THEN img[w[k - 1]].nextFree ELSE w[k - 1]]

(* the pages a walk finds, and those of s *)
Found(w) == {w[k] : k \in 0 .. MaxPages} \ {Nil}
Members(n, s) == {s[i] : i \in 1 .. n}

(* the links of img spell s from h *)
Spelt(n, s, h, img) ==
    /\ n \in Nat /\ s \in [1 .. n -> Pages]
    /\ h = IF n = 0 THEN Nil ELSE s[1]
    /\ \A i \in 1 .. n : img[s[i]].nextFree = IF i = n THEN Nil ELSE s[i + 1]
    /\ \A i, j \in 1 .. n : s[i] = s[j] => i = j

LEMMA WalkIs ==
  ASSUME NEW n, NEW s, NEW h, NEW img, NEW w, Walks(w, h, img), Spelt(n, s, h, img)
  PROVE  \A k \in 0 .. MaxPages : w[k] = IF k < n THEN s[k + 1] ELSE Nil
<1>h. /\ n \in Nat /\ s \in [1 .. n -> Pages] /\ h = IF n = 0 THEN Nil ELSE s[1]
      /\ \A i \in 1 .. n : img[s[i]].nextFree = IF i = n THEN Nil ELSE s[i + 1]
  BY DEF Spelt
<1> DEFINE T == {k \in 0 .. MaxPages : w[k] # IF k < n THEN s[k + 1] ELSE Nil}
<1>1. SUFFICES ASSUME T # {} PROVE FALSE
  OBVIOUS
<1>2. T \subseteq Nat
  OBVIOUS
<1>3. PICK k \in T : \A j \in T : k <= j
  <2> HIDE DEF T
  <2> QED BY <1>1, <1>2, LeastOne
<1>4. k \in 0 .. MaxPages /\ w[k] # IF k < n THEN s[k + 1] ELSE Nil
  OBVIOUS
<1>5. k # 0
  <2>1. w[0] = h
    BY MaxPagesAssumption DEF Walks
  <2> QED BY <1>4, <1>h, <2>1
<1>6. k - 1 \in 0 .. MaxPages /\ k - 1 \notin T
  BY <1>3, <1>4, <1>5, MaxPagesAssumption
<1>7. w[k - 1] = IF k - 1 < n THEN s[k] ELSE Nil
  BY <1>4, <1>5, <1>6
<1>8. w[k] = IF w[k - 1] \in Pages THEN img[w[k - 1]].nextFree ELSE w[k - 1]
  BY <1>4, <1>5 DEF Walks
<1>9. Nil \notin Pages
  BY DEF Nil, Pages
<1>10. CASE k - 1 < n
  <2>1. k \in 1 .. n /\ s[k] \in Pages
    BY <1>4, <1>5, <1>10, <1>h
  <2>2. w[k] = IF k = n THEN Nil ELSE s[k + 1]
    BY <1>7, <1>8, <1>10, <1>h, <2>1
  <2> QED BY <1>4, <1>h, <2>1, <2>2
<1>11. CASE ~(k - 1 < n)
  BY <1>4, <1>7, <1>8, <1>9, <1>11, <1>h
<1> QED BY <1>10, <1>11

(* such a walk there is *)
LEMMA WalkExists ==
  ASSUME NEW n, NEW s, NEW h, NEW img, Spelt(n, s, h, img)
  PROVE  \E w : Walks(w, h, img)
<1>h. /\ n \in Nat /\ s \in [1 .. n -> Pages] /\ h = IF n = 0 THEN Nil ELSE s[1]
      /\ \A i \in 1 .. n : img[s[i]].nextFree = IF i = n THEN Nil ELSE s[i + 1]
  BY DEF Spelt
<1> DEFINE v == [k \in 0 .. MaxPages |-> IF k < n THEN s[k + 1] ELSE Nil]
<1>9. Nil \notin Pages
  BY DEF Nil, Pages
<1>1. ASSUME NEW k \in 0 .. MaxPages
      PROVE  v[k] = IF k = 0 THEN h ELSE IF v[k - 1] \in Pages THEN img[v[k - 1]].nextFree ELSE v[k - 1]
  <2>1. CASE k = 0
    BY <1>h, <2>1
  <2>2. CASE k # 0
    <3>1. k - 1 \in 0 .. MaxPages /\ k \in Nat /\ MaxPages \in Nat
      BY <2>2, MaxPagesAssumption
    <3>2. v[k - 1] = IF k - 1 < n THEN s[k] ELSE Nil
      BY <3>1
    <3>3. CASE k - 1 < n
      <4>1. k \in 1 .. n /\ s[k] \in Pages
        BY <1>h, <2>2, <3>1, <3>3
      <4>2. img[s[k]].nextFree = IF k = n THEN Nil ELSE s[k + 1]
        BY <1>h, <4>1
      <4> QED BY <1>h, <2>2, <3>2, <3>3, <4>1, <4>2
    <3>4. CASE ~(k - 1 < n)
      BY <1>9, <1>h, <2>2, <3>1, <3>2, <3>4
    <3> QED BY <3>3, <3>4
  <2> QED BY <2>1, <2>2
<1>2. v = [k \in 0 .. MaxPages |->
            IF k = 0 THEN h ELSE IF v[k - 1] \in Pages THEN img[v[k - 1]].nextFree ELSE v[k - 1]]
  <2>1. v = [k \in 0 .. MaxPages |-> v[k]]
    OBVIOUS
  <2> HIDE DEF v
  <2> QED BY <1>1, <2>1
<1> HIDE DEF v
<1> QED BY <1>2 DEF Walks

LEMMA ListIs ==
  ASSUME NEW n, NEW s, NEW h, NEW img, NEW w, Walks(w, h, img), Spelt(n, s, h, img)
  PROVE  /\ w[MaxPages] = Nil
         /\ Found(w) = Members(n, s)
         /\ [i \in 1 .. Cardinality(Found(w)) |-> w[i - 1]] = s
<1>h. n \in Nat /\ s \in [1 .. n -> Pages] /\ \A i, j \in 1 .. n : s[i] = s[j] => i = j
  BY DEF Spelt
<1> DEFINE S == Members(n, s)
<1>0. MaxPages \in Nat /\ Nil \notin Pages /\ S \subseteq Pages
  BY <1>h, MaxPagesAssumption DEF Pages, Nil, Members
<1>1. IsFiniteSet(S) /\ Cardinality(S) = n
  <2> DEFINE I == 1 .. n
  <2>1. IsFiniteSet(I) /\ Cardinality(I) = n
    BY <1>h, FS_Interval
  <2>2. s \in Bijection(I, S)
    BY <1>h DEF Members, Bijection, Injection, Surjection, IsInjective
  <2> QED BY <2>1, <2>2, FS_Bijection DEF ExistsBijection
<1>2. n <= MaxPages
  <2>1. IsFiniteSet(Pages) /\ Cardinality(Pages) = MaxPages
    BY <1>0, FS_Interval DEF Pages
  <2>2. Cardinality(S) <= Cardinality(Pages)
    BY <1>0, <2>1, FS_Subset
  <2> HIDE DEF S
  <2> QED BY <1>1, <2>1, <2>2
<1>3. \A k \in 0 .. MaxPages : w[k] = IF k < n THEN s[k + 1] ELSE Nil
  BY WalkIs
<1>4. w[MaxPages] = Nil
  BY <1>0, <1>2, <1>3, <1>h
<1>5. Found(w) = S
  <2>1. ASSUME NEW k \in 0 .. MaxPages, w[k] # Nil PROVE w[k] \in S
    <3>1. k < n /\ w[k] = s[k + 1] /\ k + 1 \in 1 .. n
      BY <1>3, <1>h, <2>1
    <3> QED BY <3>1 DEF Members
  <2>2. ASSUME NEW i \in 1 .. n PROVE s[i] # Nil /\ i - 1 \in 0 .. MaxPages /\ w[i - 1] = s[i]
    BY <1>0, <1>2, <1>3, <1>h
  <2> QED BY <2>1, <2>2 DEF Found, Members
<1>6. ASSUME NEW i \in 1 .. n PROVE w[i - 1] = s[i]
  BY <1>0, <1>2, <1>3, <1>h
<1>7. [i \in 1 .. n |-> w[i - 1]] = s
  BY <1>6, <1>h
<1> QED BY <1>1, <1>4, <1>5, <1>7

LEMMA FreeListIs ==
  ASSUME NEW n \in Nat, NEW s \in [1 .. n -> Pages], Spells(n, s)
  PROVE  FreeList = s /\ Walk[MaxPages] = Nil /\ FreePages = NotOwned
<1>1. PICK h, img : h = header.nextFree /\ img = image
  OBVIOUS
<1>2. Spelt(n, s, h, img) /\ NotOwned = Members(n, s)
  BY <1>1 DEF Spells, Spelt, Members
<1>3. PICK w : w = Walk
  OBVIOUS
<1>4. Walks(w, h, img)
  <2>1. \E v : Walks(v, h, img)
    BY <1>2, WalkExists
  <2>2. \E v : Walks(v, header.nextFree, image)
    BY <1>1, <2>1
  <2>3. Walks(Walk, header.nextFree, image)
    BY <2>2 DEF Walk, Walks
  <2> QED BY <1>1, <1>3, <2>3
<1>5. w[MaxPages] = Nil
  BY <1>2, <1>4, ListIs
<1>6. Found(w) = Members(n, s)
  BY <1>2, <1>4, ListIs
<1>7. [i \in 1 .. Cardinality(Found(w)) |-> w[i - 1]] = s
  BY <1>2, <1>4, ListIs
<1>8. FreePages = Found(w)
  BY <1>3 DEF FreePages, Found
<1>9. FreeList = [i \in 1 .. Cardinality(Found(w)) |-> w[i - 1]]
  BY <1>3, <1>8 DEF FreeList
<1> QED BY <1>2, <1>3, <1>5, <1>6, <1>7, <1>8, <1>9

LEMMA NextFreeListIs ==
  ASSUME NEW n \in Nat, NEW s \in [1 .. n -> Pages], Spells(n, s)'
  PROVE  FreeList' = s
<1>1. PICK h, img : h = header'.nextFree /\ img = image'
  OBVIOUS
<1>2. Spelt(n, s, h, img)
  BY <1>1 DEF Spells, Spelt
<1>3. PICK w : w = Walk'
  OBVIOUS
<1>4. Walks(w, h, img)
  <2>1. \E v : Walks(v, h, img)
    BY <1>2, WalkExists
  <2>2. \E v : Walks(v, header'.nextFree, image')
    BY <1>1, <2>1
  <2>3. Walks(Walk', header'.nextFree, image')
    BY <2>2 DEF Walk, Walks
  <2> QED BY <1>1, <1>3, <2>3
<1>7. [i \in 1 .. Cardinality(Found(w)) |-> w[i - 1]] = s
  BY <1>2, <1>4, ListIs
<1>8. FreePages' = Found(w)
  BY <1>3 DEF FreePages, Found
<1>9. FreeList' = [i \in 1 .. Cardinality(Found(w)) |-> w[i - 1]]
  BY <1>3, <1>8 DEF FreeList
<1> QED BY <1>7, <1>9

-----------------------------------------------------------------------------
(* What each step does to the list *)

LEMMA SameChain ==
  ASSUME NEW n \in Nat, NEW s \in [1 .. n -> Pages], Spells(n, s),
         header'.nextFree = header.nextFree, NotOwned' = NotOwned,
         \A q \in NotOwned : image'[q].nextFree = image[q].nextFree
  PROVE  Spells(n, s)'
<1>1. \A i \in 1 .. n : s[i] \in NotOwned
  BY DEF Spells
<1> QED BY <1>1 DEF Spells

LEMMA InitChain == Init => Chain
<1> SUFFICES ASSUME Init PROVE Chain
  OBVIOUS
<1> DEFINE s == [i \in 1 .. 0 |-> 1]
<1>1. s \in [1 .. 0 -> Pages] /\ NotOwned = {}
  BY DEF Init, NotOwned, Counted
<1>2. Spells(0, s)
  BY <1>1 DEF Init, Spells
<1> QED BY <1>1, <1>2 DEF Chain

(* the steps that leave it alone *)
LEMMA StutterChain ==
  ASSUME IInv, NEW n \in Nat, NEW s \in [1 .. n -> Pages], Spells(n, s),
         \/ ExtendPage \/ ExtendHeader \/ Fail \/ UNCHANGED vars
         \/ \E p \in Pages : DisposePage(p) \/ \E d \in Data : WritePage(p, d)
  PROVE  Spells(n, s)'
<1>t. TypeOK /\ Links /\ InMid
  BY DEF IInv, HeaderSound
<1>c. Counted \subseteq Pages /\ header.numPages \notin Counted
  BY <1>t, MaxPagesAssumption DEF TypeOK, Headers, Counted, Pages
<1>1. CASE ExtendPage
  <2>1. /\ header' = header /\ owned' = owned /\ image' = [image EXCEPT ![header.numPages] = Zeros]
    BY <1>1 DEF ExtendPage
  <2>2. \A q \in NotOwned : image'[q] = image[q]
    BY <1>t, <1>c, <2>1 DEF NotOwned, TypeOK
  <2>3. NotOwned' = NotOwned
    BY <2>1 DEF NotOwned, Counted
  <2> QED BY <2>1, <2>2, <2>3, SameChain
<1>2. CASE ExtendHeader
  <2>1. /\ op.page = header.numPages /\ header.nextFree = Nil /\ owned' = owned \cup {op.page}
        /\ image' = image
        /\ header' = [header EXCEPT !.numPages = op.page + 1,
                                    !.firstPage = IF header.firstPage = Nil THEN op.page
                                                  ELSE header.firstPage]
    BY <1>2, <1>t DEF ExtendHeader, InMid, Extending
  <2>2. header'.nextFree = header.nextFree /\ header'.numPages = header.numPages + 1 /\ header.numPages \in Nat
        /\ header.numPages >= 1
    BY <1>t, <2>1, MaxPagesAssumption DEF TypeOK, Headers
  <2>3. Counted' = Counted \cup {header.numPages}
    BY <2>2 DEF Counted
  <2>4. NotOwned' = NotOwned
    BY <1>c, <2>1, <2>3 DEF NotOwned
  <2> QED BY <2>1, <2>2, <2>4, SameChain
<1>3. CASE Fail \/ UNCHANGED vars
  <2>1. header' = header /\ image' = image /\ NotOwned' = NotOwned
    BY <1>3 DEF Fail, vars, NotOwned, Counted
  <2> QED BY <2>1, SameChain
<1>4. ASSUME NEW p \in Pages, DisposePage(p) PROVE Spells(n, s)'
  <2>1. header' = header /\ owned' = owned /\ p \in owned
        /\ image' = [image EXCEPT ![p] = [Zeros EXCEPT !.nextFree = header.nextFree]]
    BY <1>4 DEF DisposePage
  <2>2. \A q \in NotOwned : image'[q] = image[q]
    BY <1>t, <1>c, <2>1 DEF NotOwned, TypeOK
  <2>3. NotOwned' = NotOwned
    BY <2>1 DEF NotOwned, Counted
  <2> QED BY <2>1, <2>2, <2>3, SameChain
<1>5. ASSUME NEW p \in Pages, NEW d \in Data, WritePage(p, d) PROVE Spells(n, s)'
  <2>1. header' = header /\ owned' = owned /\ p \in owned
        /\ image' = [image EXCEPT ![p] = [nextFree |-> Word, data |-> d]]
    BY <1>5 DEF WritePage
  <2>2. \A q \in NotOwned : image'[q] = image[q]
    BY <1>t, <1>c, <2>1 DEF NotOwned, TypeOK
  <2>3. NotOwned' = NotOwned
    BY <2>1 DEF NotOwned, Counted
  <2> QED BY <2>1, <2>2, <2>3, SameChain
<1> QED BY <1>1, <1>2, <1>3, <1>4, <1>5

(* the first page of the list leaves it ... *)
LEMMA ReuseChain ==
  ASSUME IInv, NEW n \in Nat, NEW s \in [1 .. n -> Pages], Spells(n, s), Reuse
  PROVE  /\ n > 0 /\ owned' = owned \cup {s[1]} /\ header'.numPages = header.numPages
         /\ Spells(n - 1, [i \in 1 .. n - 1 |-> s[i + 1]])'
<1>t. TypeOK /\ Links
  BY DEF IInv, HeaderSound
<1>1. /\ header.nextFree # Nil /\ image' = image /\ owned' = owned \cup {header.nextFree}
      /\ header' = [header EXCEPT !.nextFree = image[header.nextFree].nextFree]
  BY DEF Reuse
<1>2. /\ header'.nextFree = image[header.nextFree].nextFree /\ header'.numPages = header.numPages
  BY <1>t, <1>1 DEF TypeOK, Headers
<1>3. n > 0 /\ header.nextFree = s[1] /\ 1 \in 1 .. n
  BY <1>1 DEF Spells
<1>4. NotOwned' = NotOwned \ {s[1]}
  BY <1>1, <1>2, <1>3 DEF NotOwned, Counted
<1> DEFINE r == [i \in 1 .. n - 1 |-> s[i + 1]]
<1>5. header'.nextFree = IF n - 1 = 0 THEN Nil ELSE r[1]
  BY <1>2, <1>3 DEF Spells
<1>6. ASSUME NEW i \in 1 .. n - 1
      PROVE  image'[r[i]].nextFree = IF i = n - 1 THEN Nil ELSE r[i + 1]
  <2>1. i + 1 \in 1 .. n /\ r[i] = s[i + 1] /\ (i # n - 1 => r[i + 1] = s[(i + 1) + 1])
    OBVIOUS
  <2>2. image[s[i + 1]].nextFree = IF i + 1 = n THEN Nil ELSE s[(i + 1) + 1]
    BY <2>1 DEF Spells
  <2> QED BY <1>1, <2>1, <2>2
<1>7. \A i, j \in 1 .. n - 1 : r[i] = r[j] => i = j
  BY DEF Spells
<1>8. {r[i] : i \in 1 .. n - 1} = NotOwned'
  <2>1. \A i \in 1 .. n - 1 : r[i] \in NotOwned /\ r[i] # s[1]
    BY <1>3 DEF Spells
  <2>2. ASSUME NEW q \in NotOwned, q # s[1] PROVE \E i \in 1 .. n - 1 : q = r[i]
    <3>1. PICK i \in 1 .. n : q = s[i]
      BY DEF Spells
    <3>2. i - 1 \in 1 .. n - 1 /\ r[i - 1] = s[i]
      BY <2>2, <3>1
    <3> QED BY <3>1, <3>2
  <2> QED BY <1>4, <2>1, <2>2
<1>9. Spells(n - 1, r)'
  BY <1>5, <1>6, <1>7, <1>8 DEF Spells
<1> QED BY <1>1, <1>2, <1>3, <1>9

(* ... and the page disposed of heads it *)
LEMMA DisposeChain ==
  ASSUME IInv, NEW n \in Nat, NEW s \in [1 .. n -> Pages], Spells(n, s), DisposeHeader
  PROVE  \E p \in owned : /\ p # 1 /\ p \in Pages /\ owned' = owned \ {p}
                          /\ header'.numPages = header.numPages
                          /\ Spells(n + 1, [i \in 1 .. n + 1 |-> IF i = 1 THEN p ELSE s[i - 1]])'
<1>t. TypeOK /\ Links /\ InMid /\ FirstIsFirst
  BY DEF IInv, HeaderSound
<1>c. Counted \subseteq Pages
  BY <1>t, MaxPagesAssumption DEF TypeOK, Headers, Counted, Pages
<1>1. PICK p : p = op.page
  OBVIOUS
<1>2. /\ p \in owned /\ p # header.firstPage /\ image[p].nextFree = header.nextFree
      /\ header' = [header EXCEPT !.nextFree = p]
      /\ owned' = owned \ {p} /\ image' = image
  BY <1>t, <1>1 DEF DisposeHeader, InMid, Disposing
<1>3. header'.nextFree = p /\ header'.numPages = header.numPages
  BY <1>t, <1>2 DEF TypeOK, Headers
<1>4. p \in Counted /\ p \in Pages /\ p \notin NotOwned
  BY <1>t, <1>c, <1>2 DEF Links, NotOwned
<1>5. p # 1
  <2>1. header.numPages # 1
    BY <1>4 DEF Counted
  <2>2. header.firstPage = 1
    BY <1>t, <2>1 DEF TypeOK, Headers, FirstIsFirst
  <2> QED BY <1>2, <2>2
<1>6. NotOwned' = NotOwned \cup {p}
  BY <1>2, <1>3, <1>4 DEF NotOwned, Counted
<1> DEFINE r == [i \in 1 .. n + 1 |-> IF i = 1 THEN p ELSE s[i - 1]]
<1>7. r[1] = p /\ \A i \in 2 .. n + 1 : r[i] = s[i - 1] /\ i - 1 \in 1 .. n
  OBVIOUS
<1>8. \A i \in 1 .. n + 1 : i = 1 \/ i \in 2 .. n + 1
  OBVIOUS
<1> HIDE DEF r
<1>9. ASSUME NEW i \in 1 .. n + 1
      PROVE  image'[r[i]].nextFree = IF i = n + 1 THEN Nil ELSE r[i + 1]
  <2>1. CASE i = 1
    <3>1. image'[r[i]].nextFree = IF n = 0 THEN Nil ELSE s[1]
      BY <1>2, <1>7, <2>1 DEF Spells
    <3>2. n # 0 => r[2] = s[1]
      <4>1. n # 0 => 2 \in 2 .. n + 1
        OBVIOUS
      <4> QED BY <1>7, <4>1
    <3> QED BY <2>1, <3>1, <3>2
  <2>2. CASE i # 1
    <3>1. i \in 2 .. n + 1 /\ r[i] = s[i - 1] /\ i - 1 \in 1 .. n
      BY <1>7, <1>8, <2>2
    <3>2. image[s[i - 1]].nextFree = IF i - 1 = n THEN Nil ELSE s[(i - 1) + 1]
      BY <3>1 DEF Spells
    <3>3. i # n + 1 => r[i + 1] = s[i]
      <4>1. i # n + 1 => i + 1 \in 2 .. n + 1 /\ (i + 1) - 1 = i
        BY <3>1
      <4> QED BY <1>7, <4>1
    <3>4. (i - 1) + 1 = i /\ (i - 1 = n <=> i = n + 1)
      BY <3>1
    <3> QED BY <1>2, <3>1, <3>2, <3>3, <3>4
  <2> QED BY <2>1, <2>2
<1>10. \A i \in 2 .. n + 1 : r[i] \in NotOwned
  BY <1>7 DEF Spells
<1>11. \A i, j \in 1 .. n + 1 : r[i] = r[j] => i = j
  <2> SUFFICES ASSUME NEW i \in 1 .. n + 1, NEW j \in 1 .. n + 1, r[i] = r[j], i # j PROVE FALSE
    OBVIOUS
  <2>1. i \in 2 .. n + 1 /\ j \in 2 .. n + 1
    BY <1>4, <1>7, <1>8, <1>10
  <2>2. i - 1 = j - 1
    BY <1>7, <2>1 DEF Spells
  <2> QED BY <2>1, <2>2
<1>12. {r[i] : i \in 1 .. n + 1} = NotOwned'
  <2>1. ASSUME NEW q \in NotOwned PROVE \E i \in 1 .. n + 1 : q = r[i]
    <3>1. PICK i \in 1 .. n : q = s[i]
      BY DEF Spells
    <3>2. i + 1 \in 2 .. n + 1 /\ i + 1 \in 1 .. n + 1 /\ (i + 1) - 1 = i
      OBVIOUS
    <3> QED BY <1>7, <3>1, <3>2
  <2>2. \A i \in 1 .. n + 1 : r[i] \in NotOwned \cup {p}
    BY <1>7, <1>8, <1>10
  <2>3. 1 \in 1 .. n + 1
    OBVIOUS
  <2> QED BY <1>6, <1>7, <2>1, <2>2, <2>3
<1>13. Spells(n + 1, r)'
  <2>1. header'.nextFree = IF n + 1 = 0 THEN Nil ELSE r[1]
    BY <1>3, <1>7
  <2> QED BY <2>1, <1>9, <1>11, <1>12 DEF Spells
<1> QED BY <1>2, <1>3, <1>4, <1>5, <1>13 DEF r

LEMMA ChainStep == IInv /\ Chain /\ [Next]_vars => Chain'
<1> SUFFICES ASSUME IInv, Chain, [Next]_vars PROVE Chain'
  OBVIOUS
<1>0. PICK n \in Nat : \E s \in [1 .. n -> Pages] : Spells(n, s)
  BY DEF Chain
<1>s. PICK s \in [1 .. n -> Pages] : Spells(n, s)
  BY <1>0
<1>1. CASE Reuse
  <2> DEFINE r == [i \in 1 .. n - 1 |-> s[i + 1]]
  <2>1. n > 0 /\ Spells(n - 1, r)'
    BY <1>1, <1>s, ReuseChain
  <2>2. n - 1 \in Nat /\ r \in [1 .. n - 1 -> Pages]
    BY <2>1
  <2> HIDE DEF r
  <2> QED BY <2>1, <2>2 DEF Chain
<1>2. CASE DisposeHeader
  <2>1. PICK p \in owned : p \in Pages
                           /\ Spells(n + 1, [i \in 1 .. n + 1 |-> IF i = 1 THEN p ELSE s[i - 1]])'
    BY <1>2, <1>s, DisposeChain
  <2> DEFINE r == [i \in 1 .. n + 1 |-> IF i = 1 THEN p ELSE s[i - 1]]
  <2>2. n + 1 \in Nat /\ r \in [1 .. n + 1 -> Pages]
    BY <2>1
  <2>3. Spells(n + 1, r)'
    BY <2>1
  <2> HIDE DEF r
  <2> QED BY <2>2, <2>3 DEF Chain
<1>3. CASE ~(Reuse \/ DisposeHeader)
  <2>1. Spells(n, s)'
    BY <1>3, <1>s, StutterChain DEF Next
  <2> QED BY <2>1 DEF Chain
<1> QED BY <1>1, <1>2, <1>3

LEMMA ChainInv == Spec => [](IInv /\ Chain)
BY InitInv, StepInv, InitChain, ChainStep, PTL DEF Spec

(* The links from the header lead to every page that is nobody's and end: no
   page is lost or doubled, wherever a call is cut short between its two
   writes (db.C:277, db.C:320). *)
THEOREM PagesAccounted == Spec => []EveryPageAccounted
<1>1. IInv /\ Chain => EveryPageAccounted
  <2> SUFFICES ASSUME IInv, Chain PROVE EveryPageAccounted
    OBVIOUS
  <2>1. PICK n \in Nat : \E s \in [1 .. n -> Pages] : Spells(n, s)
    BY DEF Chain
  <2>2. Walk[MaxPages] = Nil /\ FreePages = NotOwned
    BY <2>1, FreeListIs
  <2>3. owned \subseteq Counted
    BY DEF IInv, Links
  <2> QED BY <2>2, <2>3 DEF EveryPageAccounted, NotOwned, Counted
<1> QED BY <1>1, ChainInv, PTL

-----------------------------------------------------------------------------
(* The refinement *)

LEMMA SeqFacts ==
  ASSUME NEW n \in Nat, NEW s \in [1 .. n -> Pages]
  PROVE  /\ n = 0 <=> s = <<>>
         /\ n > 0 => Head(s) = s[1] /\ Tail(s) = [i \in 1 .. n - 1 |-> s[i + 1]]
         /\ \A p \in Pages : <<p>> \o s = [i \in 1 .. n + 1 |-> IF i = 1 THEN p ELSE s[i - 1]]
<1>1. s \in Seq(Pages) /\ Len(s) = n
  <2>1. s \in Seq(Pages)
    OBVIOUS
  <2>2. Len(s) \in Nat /\ DOMAIN s = 1 .. Len(s) /\ DOMAIN s = 1 .. n
    BY <2>1
  <2> QED BY <2>1, <2>2
<1>2. n = 0 <=> s = <<>>
  BY <1>1
<1>3. n > 0 => Head(s) = s[1] /\ Tail(s) = [i \in 1 .. n - 1 |-> s[i + 1]]
  <2> SUFFICES ASSUME n > 0 PROVE Head(s) = s[1] /\ Tail(s) = [i \in 1 .. n - 1 |-> s[i + 1]]
    OBVIOUS
  <2>1. s # <<>>
    BY <1>2
  <2>2. Tail(s) \in Seq(Pages) /\ Len(Tail(s)) = n - 1 /\ \A i \in 1 .. n - 1 : Tail(s)[i] = s[i + 1]
    BY <1>1, <2>1
  <2>3. Tail(s) = [i \in 1 .. n - 1 |-> Tail(s)[i]]
    <3>1. PICK m \in Nat : m = n - 1
      BY <2>1
    <3>2. PICK t \in Seq(Pages) : t = Tail(s) /\ Len(t) = m
      BY <2>2, <3>1
    <3>3. t \in [1 .. m -> Pages]
      BY <3>2, LenProperties
    <3>4. t = [i \in 1 .. m |-> t[i]]
      BY <3>3
    <3> QED BY <3>1, <3>2, <3>4
  <2>4. Head(s) = s[1]
    BY <1>1, <2>1
  <2> QED BY <2>2, <2>3, <2>4
<1>4. ASSUME NEW p \in Pages PROVE <<p>> \o s = [i \in 1 .. n + 1 |-> IF i = 1 THEN p ELSE s[i - 1]]
  BY <1>1
<1> QED BY <1>2, <1>3, <1>4

LEMMA InitMapped == Init => Alloc!Init
<1> SUFFICES ASSUME Init PROVE Alloc!Init
  OBVIOUS
<1>1. header.numPages = 1 /\ owned = {} /\ NotOwned = {}
  BY DEF Init, NotOwned, Counted
<1>2. PICK s \in [1 .. 0 -> Pages] : TRUE
  <2>1. [i \in 1 .. 0 |-> 1] \in [1 .. 0 -> Pages]
    OBVIOUS
  <2> QED BY <2>1
<1>3. Spells(0, s)
  BY <1>1 DEF Init, Spells
<1>4. FreeList = s /\ s = <<>>
  BY <1>3, FreeListIs, SeqFacts
<1> QED BY <1>1, <1>4 DEF Alloc!Init

LEMMA StepMapped ==
  IInv /\ Chain /\ [Next]_vars => [Alloc!Next]_<<FreeList, header.numPages, owned>>
<1> SUFFICES ASSUME IInv, Chain, [Next]_vars
             PROVE  Alloc!Next \/ UNCHANGED <<FreeList, header.numPages, owned>>
  OBVIOUS
<1>t. TypeOK /\ InMid
  BY DEF IInv, HeaderSound
<1>0. PICK n \in Nat : \E s \in [1 .. n -> Pages] : Spells(n, s)
  BY DEF Chain
<1>s. PICK s \in [1 .. n -> Pages] : Spells(n, s)
  BY <1>0
<1>f. FreeList = s
  BY <1>s, FreeListIs
<1>1. CASE Reuse
  <2> DEFINE r == [i \in 1 .. n - 1 |-> s[i + 1]]
  <2>1. n > 0 /\ Spells(n - 1, r)' /\ owned' = owned \cup {s[1]} /\ header'.numPages = header.numPages
    BY <1>1, <1>s, ReuseChain
  <2>2. n - 1 \in Nat /\ r \in [1 .. n - 1 -> Pages]
    BY <2>1
  <2>3. FreeList' = r
    BY <2>1, <2>2, NextFreeListIs
  <2>4. s # <<>> /\ Head(s) = s[1] /\ Tail(s) = r
    BY <2>1, SeqFacts
  <2> HIDE DEF r
  <2>5. Alloc!Reuse
    BY <1>f, <2>1, <2>3, <2>4 DEF Alloc!Reuse
  <2> QED BY <2>5 DEF Alloc!Next
<1>2. CASE DisposeHeader
  <2>1. PICK p \in owned : /\ p # 1 /\ p \in Pages /\ owned' = owned \ {p}
                           /\ header'.numPages = header.numPages
                           /\ Spells(n + 1, [i \in 1 .. n + 1 |-> IF i = 1 THEN p ELSE s[i - 1]])'
    BY <1>2, <1>s, DisposeChain
  <2> DEFINE r == [i \in 1 .. n + 1 |-> IF i = 1 THEN p ELSE s[i - 1]]
  <2>2. n + 1 \in Nat /\ r \in [1 .. n + 1 -> Pages]
    BY <2>1
  <2>3. FreeList' = r
    BY <2>1, <2>2, NextFreeListIs
  <2>4. <<p>> \o s = r
    BY <2>1, SeqFacts
  <2> HIDE DEF r
  <2>5. Alloc!Dispose(p)
    BY <1>f, <2>1, <2>3, <2>4 DEF Alloc!Dispose
  <2> QED BY <2>1, <2>5 DEF Alloc!Next
<1>3. CASE ExtendHeader
  <2>1. FreeList' = s
    BY <1>3, <1>s, StutterChain, NextFreeListIs
  <2>2. /\ op.page = header.numPages /\ op.page \in Pages /\ header.nextFree = Nil
        /\ owned' = owned \cup {op.page}
        /\ header' = [header EXCEPT !.numPages = op.page + 1,
                                    !.firstPage = IF header.firstPage = Nil THEN op.page
                                                  ELSE header.firstPage]
    BY <1>3, <1>t DEF ExtendHeader, InMid, Extending
  <2>3. header'.numPages = header.numPages + 1
    BY <1>t, <2>2 DEF TypeOK, Headers
  <2>4. n = 0
    <3> SUFFICES ASSUME n # 0 PROVE FALSE
      OBVIOUS
    <3>1. s[1] = Nil /\ s[1] \in Pages
      BY <1>s, <2>2 DEF Spells
    <3> QED BY <3>1 DEF Pages, Nil
  <2>5. s = <<>> /\ header.numPages <= MaxPages
    BY <2>2, <2>4, SeqFacts DEF Pages
  <2>6. Alloc!Extend
    BY <1>f, <2>1, <2>2, <2>3, <2>5 DEF Alloc!Extend
  <2> QED BY <2>6 DEF Alloc!Next
<1>4. CASE ~(Reuse \/ DisposeHeader \/ ExtendHeader)
  <2>1. FreeList' = s
    BY <1>4, <1>s, StutterChain, NextFreeListIs DEF Next
  <2>2. header' = header /\ owned' = owned
    BY <1>4 DEF Next, ExtendPage, Fail, DisposePage, WritePage, vars
  <2> QED BY <1>f, <2>1, <2>2
<1> QED BY <1>1, <1>2, <1>3, <1>4

(* Through links, header and interrupted writes the file is the last-in
   first-out allocator of FileAlloc, which is what BufMgr takes it for. *)
THEOREM FileAllocImplemented == Spec => ImplementsFileAlloc
BY InitMapped, StepMapped, ChainInv, PTL DEF Spec, ImplementsFileAlloc, Alloc!Spec
=============================================================================
