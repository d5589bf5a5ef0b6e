--------------------------- MODULE ResultsPageProofs ---------------------------
(***************************************************************************)
(* Theorems about ResultsPage, for any rows sorted by id and any searches. *)
(* Most rest on PageInv: children are displayed only where                 *)
(* FindChildElement finds them from their own row, and the keys seen by    *)
(* the element that has the focus are those of its own keydown.  There,    *)
(* Search (word) is some set of consecutive rows; that they are the rows   *)
(* whose names begin with the word is a matter of the encoding, whose      *)
(* codes no other code begins with (EncodingKeepsPrefixes, at the end).    *)
(***************************************************************************)
EXTENDS ResultsPage, FiniteSets, SequenceTheorems, WellFoundedInduction, TLAPS

LEMMA RowsType ==
  /\ Len(Entries) \in Nat /\ Rows = 1 .. Len(Entries)
  /\ \A e \in Rows : Entries[e].children \in Nat /\ Entries[e].name \in Seq(Nat)
<1> DEFINE Row == [name : Seq(Nat), id : Seq(Nat), children : Nat \ {1}]
<1>1. Entries \in Seq(Row)
  BY EntriesAssumption
<1>2. \A r \in Row : r.children \in Nat /\ r.name \in Seq(Nat)
  OBVIOUS
<1> HIDE DEF Row
<1>3. Len(Entries) \in Nat /\ \A e \in 1 .. Len(Entries) : Entries[e] \in Row
  BY <1>1
<1> QED
  BY <1>2, <1>3 DEF Rows

-----------------------------------------------------------------------------
(* The first and the last of some rows. *)

LEMMA MinimumExists ==
  ASSUME NEW T \in SUBSET Nat, T # {}
  PROVE  \E x \in T : \A y \in T : x <= y
<1>1. PICK x \in T : \A y \in T : ~(<<y, x>> \in OpToRel(<, Nat))
  BY NatLessThanWellFounded, WFMin, Zenon
<1>2. \A y \in T : ~(y < x)
  BY <1>1 DEF OpToRel
<1> QED
  BY <1>2

\* A non-empty set of the first numbers has a least and a greatest element.
LEMMA LeastAndGreatest ==
  ASSUME NEW n \in Nat, NEW T \in SUBSET (1 .. n), T # {}
  PROVE  /\ Min(T) \in T /\ \A y \in T : Min(T) <= y
         /\ Max(T) \in T /\ \A y \in T : Max(T) >= y
<1> DEFINE U == {n - x : x \in T}
<1>0. T \subseteq 1 .. n /\ T \in SUBSET Nat /\ \A x \in 1 .. n : n - x \in Nat
  OBVIOUS
<1>1. U \in SUBSET Nat /\ U # {}
  BY <1>0
<1>2. PICK u \in U : \A v \in U : u <= v
  BY <1>1, MinimumExists
<1>3. PICK x \in T : u = n - x
  OBVIOUS
<1>4. \A y \in T : n - y \in U
  OBVIOUS
<1>5. \A y \in T : x >= y
  <2> TAKE y \in T
  <2>1. n - x <= n - y
    BY <1>2, <1>3, <1>4
  <2>2. x \in Int /\ y \in Int
    BY <1>0
  <2> QED
    BY <1>0, <2>1, <2>2
<1>6. \E z \in T : \A y \in T : z <= y
  BY <1>0, MinimumExists
<1> QED
  BY <1>5, <1>6 DEF Max, Min

LEMMA FirstRow ==
  ASSUME NEW T \in SUBSET Rows, T # {}
  PROVE  Min(T) \in T /\ \A y \in T : Min(T) <= y
BY RowsType, LeastAndGreatest

LEMMA LastRow ==
  ASSUME NEW T \in SUBSET Rows, T # {}
  PROVE  Max(T) \in T /\ \A y \in T : Max(T) >= y
BY RowsType, LeastAndGreatest

-----------------------------------------------------------------------------
(* FindChildElement. *)

\* No other row has the id of e.
OwnId(e) == \A i \in Rows : Entries[i].id = Entries[e].id => i = e

\* What is found from a row is found from the row it belongs to, and is the
\* row's own if the id is.
LEMMA FoundChildren ==
  ASSUME NEW e \in Rows
  PROVE  /\ \A f \in FindChildElement(e) :
              /\ f \in Rows /\ Entries[f].id = Entries[e].id
              /\ Entries[f].children > 0
              /\ FindChildElement(f) = {f} /\ FindChildElement(e) = {f}
         /\ OwnId(e) => FindChildElement(e) = IF Entries[e].children > 0 THEN {e} ELSE {}
<1> DEFINE Same(i) == {j \in Rows : Entries[j].id = Entries[i].id}
<1>1. Min(Same(e)) \in Same(e)
  BY FirstRow
<1>2. ASSUME NEW f \in FindChildElement(e)
      PROVE  /\ f \in Rows /\ Entries[f].id = Entries[e].id
             /\ Entries[f].children > 0
             /\ FindChildElement(f) = {f} /\ FindChildElement(e) = {f}
  <2>1. f = Min(Same(e)) /\ Entries[f].children > 0 /\ FindChildElement(e) = {f}
    BY <1>2 DEF FindChildElement
  <2>2. f \in Rows /\ Entries[f].id = Entries[e].id
    BY <1>1, <2>1
  <2>3. Same(f) = Same(e)
    BY <2>2
  <2>4. FindChildElement(f) = {f}
    BY <2>1, <2>3 DEF FindChildElement
  <2> QED
    BY <2>1, <2>2, <2>4
<1>3. ASSUME OwnId(e)
      PROVE  FindChildElement(e) = IF Entries[e].children > 0 THEN {e} ELSE {}
  <2>1. Min(Same(e)) = e
    BY <1>1, <1>3 DEF OwnId
  <2> QED
    BY <2>1 DEF FindChildElement
<1> QED
  BY <1>2, <1>3

-----------------------------------------------------------------------------
(* The invariant. *)

\* No row, the link of a row, or that of one of its children.
IsPosition(position) ==
  \/ position = <<>>
  \/ \E e \in Rows : position = <<e>>
  \/ \E e \in Rows : \E c \in 1 .. Entries[e].children : position = <<e, c>>

PageGood ==
  /\ search \in Searches /\ displayed = Search(search)
  /\ childrenShown \subseteq {e \in Rows : FindChildElement(e) = {e}}
  /\ asked \subseteq Rows
  /\ ChildrenAsAsked
  /\ open \in BOOLEAN

FocusGood == IsPosition(focus) /\ Visible(focus)

\* Between a keydown and its keypress the element with the focus has not yet
\* begun to repeat; the search field may have taken the keyup of an earlier
\* repetition, but there nothing moves.
KeysGood ==
  /\ lastKey \in Keys \cup {"none"} /\ repeatOn \in BOOLEAN
  /\ held \in Keys \cup {"none"} /\ phase \in {"keydown", "keypress", "keyup"}
  /\ phase = "keydown" /\ focus # <<>> => ~repeatOn

PageInv == PageGood /\ FocusGood /\ KeysGood

\* The rows displayed follow each other.
LEMMA DisplayedRows ==
  ASSUME PageGood
  PROVE  /\ displayed \in SUBSET Rows
         /\ \A e, f \in displayed : e .. f \subseteq displayed
BY SortedAssumption DEF PageGood, Search

LEMMA NextRow ==
  ASSUME displayed \in SUBSET Rows, NEW i \in Nat
  PROVE  \/ NavNext(i) = {} /\ \A e \in displayed : e < i
         \/ \E n \in displayed : /\ NavNext(i) = {<<n>>} /\ n >= i
                                 /\ \A e \in displayed : e >= i => n <= e
<1> DEFINE T == {e \in displayed : e >= i}
<1>1. displayed \subseteq Nat
  BY RowsType
<1>2. CASE T = {}
  BY <1>1, <1>2 DEF NavNext
<1>3. CASE T # {}
  <2>1. Min(T) \in T /\ \A y \in T : Min(T) <= y
    BY <1>3, FirstRow
  <2>2. NavNext(i) = {<<Min(T)>>}
    BY <1>3 DEF NavNext
  <2> QED
    BY <2>1, <2>2
<1> QED
  BY <1>2, <1>3

LEMMA PrevRow ==
  ASSUME displayed \in SUBSET Rows, NEW i \in Nat
  PROVE  \/ NavPrev(i) = {} /\ \A e \in displayed : e > i
         \/ \E n \in displayed : /\ NavPrev(i) = {<<n>>} /\ n <= i
                                 /\ \A e \in displayed : e <= i => e <= n
<1> DEFINE T == {e \in displayed : e <= i}
<1>1. displayed \subseteq Nat
  BY RowsType
<1>2. CASE T = {}
  BY <1>1, <1>2 DEF NavPrev
<1>3. CASE T # {}
  <2>1. Max(T) \in T /\ \A y \in T : Max(T) >= y
    BY <1>3, LastRow
  <2>2. NavPrev(i) = {<<Max(T)>>}
    BY <1>3 DEF NavPrev
  <2>3. \A y \in T : y <= Max(T)
    BY <1>1, <2>1
  <2> QED
    BY <2>1, <2>2, <2>3
<1> QED
  BY <1>2, <1>3

-----------------------------------------------------------------------------
(* Moving the focus.  What is visible belongs to a displayed row. *)

LEMMA PositionOnPage ==
  ASSUME PageGood, FocusGood, focus # <<>>
  PROVE  \E e \in displayed :
           \/ focus = <<e>>
           \/ /\ e \in childrenShown /\ FindChildElement(e) = {e}
              /\ \E c \in 1 .. Entries[e].children : focus = <<e, c>>
<1>1. CASE \E e \in Rows : focus = <<e>>
  BY <1>1 DEF FocusGood, Visible
<1>2. CASE \E e \in Rows : \E c \in 1 .. Entries[e].children : focus = <<e, c>>
  <2>1. PICK e \in Rows : \E c \in 1 .. Entries[e].children : focus = <<e, c>>
    BY <1>2
  <2>2. Len(focus) = 2 /\ focus[1] = e
    BY <2>1
  <2>3. e \in displayed /\ e \in childrenShown
    BY <2>1, <2>2 DEF FocusGood, Visible
  <2> QED
    BY <2>1, <2>3 DEF PageGood
<1> QED
  BY <1>1, <1>2 DEF FocusGood, IsPosition

\* The row after e, from the row or one of its children.
LEMMA RowAfterRow ==
  ASSUME PageGood, NEW e \in displayed, NEW position, position[1] = e
  PROVE  \/ RowAfter(position) = position
         \/ e + 1 \in displayed /\ RowAfter(position) = <<e + 1>>
<1>0. displayed \in SUBSET Rows /\ displayed \subseteq Nat /\ e + 1 \in Nat
  BY DisplayedRows, RowsType
<1>1. CASE NavNext(e + 1) = {}
  BY <1>1 DEF RowAfter
<1>2. CASE NavNext(e + 1) # {}
  <2>1. PICK n \in displayed : /\ NavNext(e + 1) = {<<n>>} /\ n >= e + 1
                               /\ \A f \in displayed : f >= e + 1 => n <= f
    BY <1>0, <1>2, NextRow
  <2>2. e + 1 \in e .. n
    BY <1>0, <2>1
  <2>3. e + 1 \in displayed
    BY <2>2, DisplayedRows
  <2>4. n = e + 1
    BY <1>0, <2>1, <2>3
  <2>5. RowAfter(position) = <<n>>
    BY <1>2, <2>1 DEF RowAfter
  <2> QED
    BY <2>3, <2>4, <2>5
<1> QED
  BY <1>1, <1>2

\* Where Up leads from a row: to the field, the row above or its last child.
LEMMA UpFromRowTo ==
  ASSUME PageGood, NEW e \in displayed
  PROVE  \/ UpFromRow(e) = <<>> /\ e - 1 \notin displayed
         \/ /\ e - 1 \in displayed
            /\ UpFromRow(e) = IF ChildrenVisible(e - 1) /\ Entries[e - 1].children > 0
                              THEN <<e - 1, Entries[e - 1].children>> ELSE <<e - 1>>
<1>0. displayed \in SUBSET Rows /\ displayed \subseteq Nat /\ e - 1 \in Nat /\ e \in Nat
  BY DisplayedRows, RowsType
<1>1. CASE NavPrev(e - 1) = {}
  <2>1. \A f \in displayed : f > e - 1
    BY <1>0, <1>1, PrevRow
  <2> QED
    BY <1>0, <1>1, <2>1 DEF UpFromRow
<1>2. CASE NavPrev(e - 1) # {}
  <2>1. PICK n \in displayed : /\ NavPrev(e - 1) = {<<n>>} /\ n <= e - 1
                               /\ \A f \in displayed : f <= e - 1 => f <= n
    BY <1>0, <1>2, PrevRow
  <2>2. e - 1 \in n .. e
    BY <1>0, <2>1
  <2>3. e - 1 \in displayed
    BY <2>2, DisplayedRows
  <2>4. n = e - 1
    BY <1>0, <2>1, <2>3
  <2> DEFINE last == <<e - 1, Entries[e - 1].children>>
  <2>5. UpFromRow(e) = IF ChildrenVisible(e - 1) /\ Exists(last) THEN last ELSE <<e - 1>>
    <3>1. (CHOOSE row \in NavPrev(e - 1) : TRUE) = <<n>>
      BY <2>1
    <3>2. <<n>>[1] = n
      OBVIOUS
    <3> QED
      BY <1>2, <2>4, <3>1, <3>2 DEF UpFromRow
  <2>6. Entries[e - 1].children \in Nat
    BY <1>0, <2>3, RowsType
  <2>7. Exists(last) <=> Entries[e - 1].children > 0
    <3>1. Len(last) = 2 /\ last[1] = e - 1 /\ last[2] = Entries[e - 1].children
      OBVIOUS
    <3> HIDE DEF last
    <3> QED
      BY <2>6, <3>1 DEF Exists
  <2> QED
    BY <2>3, <2>5, <2>7
<1> QED
  BY <1>1, <1>2

\* Of two rows on the page, the upper one is reached from the lower one.
LEMMA UpFromRowBelow ==
  ASSUME PageGood, NEW e \in displayed, e + 1 \in displayed
  PROVE  UpFromRow(e + 1) = IF ChildrenVisible(e) /\ Entries[e].children > 0
                            THEN <<e, Entries[e].children>> ELSE <<e>>
<1> DEFINE f == e + 1
           Leads(g) == UpFromRow(f) = IF ChildrenVisible(g) /\ Entries[g].children > 0
                                      THEN <<g, Entries[g].children>> ELSE <<g>>
<1>1. displayed \subseteq Nat
  BY DisplayedRows, RowsType
<1>2. f \in displayed /\ f - 1 = e
  BY <1>1
<1> HIDE DEF f
<1>3. Leads(f - 1)
  BY <1>2, UpFromRowTo
<1>4. Leads(e)
  BY <1>2, <1>3
<1> QED
  BY <1>4 DEF f

LEMMA UpAndDown ==
  ASSUME NEW e, NEW c
  PROVE  /\ Up(<<e>>) = UpFromRow(e) /\ Up(<<e, c>>) = UpFromChild(e, c)
         /\ Down(<<e>>) = DownFromRow(e) /\ Down(<<e, c>>) = DownFromChild(e, c)
         /\ <<e>>[1] = e /\ <<e, c>>[1] = e /\ <<e, c>>[2] = c
         /\ <<e>> # <<>> /\ <<e, c>> # <<>> /\ Len(<<e>>) = 1 /\ Len(<<e, c>>) = 2
BY DEF Up, Down

\* A child exists by its number.
LEMMA ChildExists ==
  ASSUME NEW e \in Rows, NEW c \in Nat
  PROVE  Exists(<<e, c>>) <=> c \in 1 .. Entries[e].children
BY UpAndDown DEF Exists

\* Up leads to an existing position.
LEMMA UpIsPosition ==
  ASSUME PageGood, FocusGood, focus # <<>>
  PROVE  IsPosition(Up(focus))
<1>0. displayed \in SUBSET Rows /\ displayed \subseteq Nat
  BY DisplayedRows, RowsType
<1>1. ASSUME NEW e \in displayed, focus = <<e>>
      PROVE  IsPosition(Up(focus))
  <2>1. Up(focus) = UpFromRow(e)
    BY <1>1, UpAndDown
  <2>2. CASE UpFromRow(e) = <<>>
    BY <2>1, <2>2 DEF IsPosition
  <2>3. CASE /\ e - 1 \in displayed
             /\ UpFromRow(e) = IF ChildrenVisible(e - 1) /\ Entries[e - 1].children > 0
                               THEN <<e - 1, Entries[e - 1].children>> ELSE <<e - 1>>
    <3>1. e - 1 \in Rows /\ Entries[e - 1].children \in Nat
      BY <1>0, <2>3, RowsType
    <3>2. Entries[e - 1].children > 0 =>
            Entries[e - 1].children \in 1 .. Entries[e - 1].children
      BY <3>1
    <3> QED
      BY <2>1, <2>3, <3>1, <3>2 DEF IsPosition
  <2> QED
    BY <2>2, <2>3, UpFromRowTo
<1>2. ASSUME NEW e \in displayed, NEW c \in 1 .. Entries[e].children, focus = <<e, c>>
      PROVE  IsPosition(Up(focus))
  <2>1. Up(focus) = UpFromChild(e, c)
    BY <1>2, UpAndDown
  <2>2. Entries[e].children \in Nat /\ e \in Rows
    BY <1>0, RowsType
  <2>3. c > 1 => c - 1 \in 1 .. Entries[e].children
    BY <2>2
  <2> QED
    BY <2>1, <2>2, <2>3 DEF UpFromChild, IsPosition
<1> QED
  BY <1>1, <1>2, PositionOnPage

\* Where Down leads, and that Up leads back from there.
LEMMA DownAndBack ==
  ASSUME PageGood, FocusGood, focus # <<>>
  PROVE  /\ IsPosition(Down(focus))
         /\ Down(focus) # focus => Up(Down(focus)) = focus
<1>0. displayed \in SUBSET Rows /\ displayed \subseteq Nat
  BY DisplayedRows, RowsType
<1>1. ASSUME NEW e \in displayed, focus = <<e>>
      PROVE  /\ IsPosition(Down(focus))
             /\ Down(focus) # focus => Up(Down(focus)) = focus
  <2>0. Entries[e].children \in Nat /\ e \in Rows /\ e \in Nat
    BY <1>0, RowsType
  <2>1. Down(focus) = DownFromRow(e)
    BY <1>1, UpAndDown
  <2>2. CASE ChildrenVisible(e) /\ Exists(<<e, 1>>)
    <3>1. Down(focus) = <<e, 1>>
      BY <2>1, <2>2 DEF DownFromRow
    <3>2. 1 \in 1 .. Entries[e].children
      BY <2>0, <2>2, ChildExists
    <3>3. Up(<<e, 1>>) = <<e>>
      <4>1. UpFromChild(e, 1) = <<e>>
        BY DEF UpFromChild
      <4> QED
        BY <4>1, UpAndDown
    <3> QED
      BY <1>1, <2>0, <3>1, <3>2, <3>3 DEF IsPosition
  <2>3. CASE ~(ChildrenVisible(e) /\ Exists(<<e, 1>>))
    <3>1. Down(focus) = RowAfter(<<e>>)
      BY <2>1, <2>3 DEF DownFromRow
    <3>2. CASE RowAfter(<<e>>) = <<e>>
      BY <1>1, <2>0, <3>1, <3>2 DEF IsPosition
    <3>3. CASE e + 1 \in displayed /\ RowAfter(<<e>>) = <<e + 1>>
      <4>1. UpFromRow(e + 1) = IF ChildrenVisible(e) /\ Entries[e].children > 0
                               THEN <<e, Entries[e].children>> ELSE <<e>>
        BY <3>3, UpFromRowBelow
      <4>2. ~(ChildrenVisible(e) /\ Entries[e].children > 0)
        <5>1. Exists(<<e, 1>>) <=> 1 \in 1 .. Entries[e].children
          BY <2>0, ChildExists
        <5> QED
          BY <2>0, <2>3, <5>1
      <4>3. Up(<<e + 1>>) = <<e>>
        BY <4>1, <4>2, UpAndDown
      <4> QED
        BY <1>0, <1>1, <3>1, <3>3, <4>3 DEF IsPosition
    <3> QED
      BY <3>2, <3>3, RowAfterRow, UpAndDown
  <2> QED
    BY <2>2, <2>3
<1>2. ASSUME NEW e \in displayed, NEW c \in 1 .. Entries[e].children, focus = <<e, c>>,
             e \in childrenShown, FindChildElement(e) = {e}
      PROVE  /\ IsPosition(Down(focus))
             /\ Down(focus) # focus => Up(Down(focus)) = focus
  <2>0. Entries[e].children \in Nat /\ e \in Rows /\ e \in Nat /\ c \in Nat /\ c > 0
    BY <1>0, RowsType
  <2>1. Down(focus) = DownFromChild(e, c)
    BY <1>2, UpAndDown
  <2>2. CASE Exists(<<e, c + 1>>)
    <3>1. Down(focus) = <<e, c + 1>>
      BY <2>1, <2>2 DEF DownFromChild
    <3>2. c + 1 \in 1 .. Entries[e].children
      BY <2>0, <2>2, ChildExists
    <3>3. UpFromChild(e, c + 1) = <<e, c>>
      <4>1. c + 1 > 1 /\ c + 1 - 1 = c
        BY <2>0
      <4> QED
        BY <4>1 DEF UpFromChild
    <3>4. Up(<<e, c + 1>>) = <<e, c>>
      BY <3>3, UpAndDown
    <3> QED
      BY <1>2, <2>0, <3>1, <3>2, <3>4 DEF IsPosition
  <2>3. CASE ~Exists(<<e, c + 1>>)
    <3>1. Down(focus) = RowAfter(<<e, c>>)
      BY <2>1, <2>3 DEF DownFromChild
    <3>2. c = Entries[e].children
      <4>1. c + 1 \notin 1 .. Entries[e].children
        BY <2>0, <2>3, ChildExists
      <4> QED
        BY <2>0, <4>1
    <3>3. CASE RowAfter(<<e, c>>) = <<e, c>>
      BY <1>2, <2>0, <3>1, <3>3 DEF IsPosition
    <3>4. CASE e + 1 \in displayed /\ RowAfter(<<e, c>>) = <<e + 1>>
      <4>1. ChildrenVisible(e) /\ Entries[e].children > 0
        BY <1>2, <2>0, <3>2 DEF ChildrenVisible
      <4>2. UpFromRow(e + 1) = <<e, c>>
        BY <3>2, <3>4, <4>1, UpFromRowBelow
      <4>3. Up(<<e + 1>>) = <<e, c>>
        BY <4>2, UpAndDown
      <4> QED
        BY <1>0, <1>2, <3>1, <3>4, <4>3 DEF IsPosition
    <3> QED
      BY <3>3, <3>4, RowAfterRow, UpAndDown
  <2> QED
    BY <2>2, <2>3
<1> QED
  BY <1>1, <1>2, PositionOnPage

-----------------------------------------------------------------------------
(* Opening and closing the children of a row. *)

\* A row whose id is its own finds its children from itself only.
LEMMA OwnChildren ==
  ASSUME NEW e \in Rows, OwnId(e), NEW r \in Rows
  PROVE  e \in FindChildElement(r) <=> e = r /\ Entries[e].children > 0
<1>1. ASSUME e \in FindChildElement(r)
      PROVE  e = r /\ Entries[e].children > 0
  BY <1>1, FoundChildren DEF OwnId
<1>2. e = r /\ Entries[e].children > 0 => e \in FindChildElement(r)
  BY FoundChildren
<1> QED
  BY <1>1, <1>2

\* What is displayed are children.
LEMMA ShownAreChildren ==
  ASSUME PageGood, NEW e \in childrenShown
  PROVE  e \in Rows /\ Entries[e].children > 0 /\ FindChildElement(e) = {e}
<1>1. e \in Rows /\ FindChildElement(e) = {e}
  BY DEF PageGood
<1> QED
  BY <1>1, FoundChildren

LEMMA AskedOfOwn ==
  ASSUME PageGood, NEW e \in Rows, OwnId(e)
  PROVE  e \in childrenShown <=> e \in asked
BY DEF PageGood, ChildrenAsAsked, OwnId

\* A handler that adds or removes what it finds from r keeps the page good,
\* if it treats the row r itself alike in both sets.
LEMMA ChildrenChanged ==
  ASSUME PageGood, NEW r \in Rows,
         childrenShown' \subseteq childrenShown \cup FindChildElement(r),
         childrenShown \subseteq childrenShown' \cup FindChildElement(r),
         asked' \subseteq asked \cup {r}, asked \subseteq asked' \cup {r},
         OwnId(r) => (r \in childrenShown' <=> r \in asked'),
         UNCHANGED <<search, displayed, open>>
  PROVE  PageGood'
<1>1. childrenShown' \subseteq {e \in Rows : FindChildElement(e) = {e}}
  BY ShownAreChildren, FoundChildren
<1>2. ASSUME NEW e \in Rows, OwnId(e)
      PROVE  e \in childrenShown' <=> e \in asked'
  <2>1. e \in FindChildElement(r) => e = r
    BY <1>2, OwnChildren
  <2>2. CASE e = r
    BY <1>2, <2>2
  <2>3. CASE e # r
    BY <1>2, <2>1, <2>3, AskedOfOwn
  <2> QED
    BY <2>2, <2>3
<1>3. ChildrenAsAsked'
  BY <1>2 DEF ChildrenAsAsked, OwnId
<1>4. asked' \subseteq Rows
  BY DEF PageGood
<1> QED
  BY <1>1, <1>3, <1>4 DEF PageGood

\* Right and Left.
LEMMA OpensGood ==
  ASSUME PageGood, FocusGood, NEW key, Opens(key)
  PROVE  PageGood' /\ FocusGood'
<1>1. PICK r \in displayed : focus = <<r>> /\ focus[1] = r
  <2>1. focus # <<>> /\ Len(focus) = 1
    BY DEF Opens
  <2>2. PICK e \in displayed :
          focus = <<e>> \/ \E c \in 1 .. Entries[e].children : focus = <<e, c>>
    BY <2>1, PositionOnPage
  <2>3. focus = <<e>>
    BY <2>1, <2>2
  <2> QED
    BY <2>3
<1> DEFINE found == FindChildElement(r)
<1>2. r \in Rows
  BY <1>1, DisplayedRows
<1>3. /\ childrenShown' = IF key = "right" THEN childrenShown \cup found
                          ELSE childrenShown \ found
      /\ asked' = IF key = "right" /\ Entries[r].children > 0 THEN asked \cup {r}
                  ELSE asked \ {r}
      /\ UNCHANGED <<focus, search, displayed, open>>
  BY <1>1 DEF Opens
<1>4. ASSUME OwnId(r)
      PROVE  r \in childrenShown' <=> r \in asked'
  <2>1. r \in found <=> Entries[r].children > 0
    BY <1>2, <1>4, OwnChildren
  <2>2. r \in childrenShown => Entries[r].children > 0
    BY ShownAreChildren
  <2> QED
    BY <1>3, <2>1, <2>2
<1>5. PageGood'
  BY <1>2, <1>3, <1>4, ChildrenChanged
<1>6. FocusGood'
  <2>1. Len(<<r>>) = 1 /\ <<r>>[1] = r
    OBVIOUS
  <2>2. Visible(<<r>>)'
    BY <1>1, <1>3, <2>1 DEF FocusGood, Visible
  <2> QED
    BY <1>1, <1>2, <1>3, <2>2 DEF FocusGood, IsPosition
<1> QED
  BY <1>5, <1>6

\* A click on the link of a row with children, or Enter on it.
LEMMA ToggleGood ==
  ASSUME PageGood, NEW r \in Rows, Visible(<<r>>), Toggle(r), focus' = <<r>>
  PROVE  PageGood' /\ FocusGood'
<1> DEFINE found == FindChildElement(r)
<1>1. /\ Entries[r].children > 0
      /\ childrenShown' = IF found \subseteq childrenShown
                          THEN childrenShown \ found ELSE childrenShown \cup found
      /\ asked' = IF r \in asked THEN asked \ {r} ELSE asked \cup {r}
      /\ UNCHANGED <<search, displayed, open>>
  BY DEF Toggle
<1>2. ASSUME OwnId(r)
      PROVE  r \in childrenShown' <=> r \in asked'
  <2>1. found = {r}
    BY <1>1, <1>2, FoundChildren
  <2>2. r \in childrenShown <=> r \in asked
    BY <1>2, AskedOfOwn
  <2> QED
    BY <1>1, <2>1, <2>2
<1>3. PageGood'
  BY <1>1, <1>2, ChildrenChanged
<1>4. FocusGood'
  <2>1. Len(<<r>>) = 1 /\ <<r>>[1] = r /\ <<r>> # <<>>
    OBVIOUS
  <2>2. Visible(<<r>>)'
    BY <1>1, <2>1 DEF Visible
  <2> QED
    BY <2>2 DEF FocusGood, IsPosition
<1> QED
  BY <1>3, <1>4

-----------------------------------------------------------------------------
(* Key events. *)

\* Up and Down.
LEMMA MovesGood ==
  ASSUME PageGood, FocusGood, focus # <<>>, NEW key, Moves(key)
  PROVE  PageGood' /\ FocusGood'
<1> DEFINE position == IF key = "up" THEN Up(focus) ELSE Down(focus)
<1>1. IsPosition(position)
  BY UpIsPosition, DownAndBack
<1>2. focus' = Focused(position) /\ UNCHANGED page
  BY DEF Moves
<1> HIDE DEF position
<1>3. IsPosition(focus') /\ Visible(focus')
  BY <1>1, <1>2 DEF Focused, FocusGood
<1>4. FocusGood'
  BY <1>2, <1>3 DEF FocusGood, IsPosition, Visible, page
<1>5. PageGood'
  BY <1>2 DEF PageGood, ChildrenAsAsked, page
<1> QED
  BY <1>4, <1>5

LEMMA PageUnchanged ==
  ASSUME PageGood, FocusGood, UNCHANGED <<page, focus>>
  PROVE  PageGood' /\ FocusGood'
BY DEF PageGood, ChildrenAsAsked, FocusGood, IsPosition, Visible, page

\* The field of the parent page may always have the focus.
LEMMA FieldGood ==
  ASSUME focus' = <<>>
  PROVE  FocusGood'
BY DEF FocusGood, IsPosition, Visible

LEMMA ActsGood ==
  ASSUME PageGood, FocusGood, focus # <<>>, NEW key, Acts(key)
  PROVE  PageGood' /\ FocusGood'
<1>1. CASE Moves(key)
  BY <1>1, MovesGood
<1>2. CASE Opens(key)
  BY <1>2, OpensGood
<1>3. CASE Escapes
  <2>1. PageGood'
    BY <1>3 DEF Escapes, PageGood, ChildrenAsAsked
  <2>2. focus' = <<>>
    BY <1>3 DEF Escapes
  <2>3. FocusGood'
    BY <2>2, FieldGood
  <2> QED
    BY <2>1, <2>3
<1>4. CASE UNCHANGED <<page, focus>>
  BY <1>4, PageUnchanged
<1> QED
  BY <1>1, <1>2, <1>3, <1>4 DEF Acts

\* A keydown acts and stops a repetition; the first keypress after it does
\* not act.
LEMMA HandlesKeyGood ==
  ASSUME PageInv, focus # <<>>, NEW type \in {"keydown", "keypress", "keyup"},
         NEW key \in Keys, HandlesKey(type, key)
  PROVE  /\ PageGood' /\ FocusGood'
         /\ lastKey' \in Keys \cup {"none"} /\ repeatOn' \in BOOLEAN
         /\ type = "keydown" => ~repeatOn'
         /\ type = "keypress" /\ phase = "keydown" => UNCHANGED focus
<1> DEFINE processed == ProcessKeys(type, key)
<1>1. /\ processed.lastKey \in Keys \cup {"none"} /\ processed.repeatOn \in BOOLEAN
      /\ processed.acts \in BOOLEAN
      /\ type = "keydown" => ~processed.repeatOn
      /\ type = "keypress" /\ phase = "keydown" => ~processed.acts
  <2>1. CASE type = "keydown"
    BY <2>1 DEF ProcessKeys
  <2>2. CASE type = "keypress"
    BY <2>2 DEF ProcessKeys, PageInv, KeysGood
  <2>3. CASE type = "keyup"
    BY <2>3 DEF ProcessKeys
  <2> QED
    BY <2>1, <2>2, <2>3
<1>2. /\ lastKey' = processed.lastKey /\ repeatOn' = processed.repeatOn
      /\ IF processed.acts THEN Acts(processed.lastKey) ELSE UNCHANGED <<page, focus>>
  BY DEF HandlesKey
<1> HIDE DEF processed
<1>3. PageGood' /\ FocusGood'
  BY <1>1, <1>2, ActsGood, PageUnchanged DEF PageInv
<1> QED
  BY <1>1, <1>2, <1>3

\* The focus moves with the keydown, or with a keypress after the first.
LEMMA KeyEventGood ==
  ASSUME PageInv, NEW type \in {"keydown", "keypress", "keyup"}, NEW key \in Keys,
         KeyEvent(type, key)
  PROVE  PageInv' /\ (phase = "keydown" /\ phase' = "keypress" => UNCHANGED focus)
<1>1. held' \in Keys \cup {"none"} /\ phase' = type
  BY DEF KeyEvent
<1>2. CASE focus = <<>>
  <2>1. UNCHANGED <<page, focus, keys>>
    BY <1>2 DEF KeyEvent
  <2>2. PageGood' /\ FocusGood'
    BY <2>1, PageUnchanged DEF PageInv
  <2>3. KeysGood'
    BY <1>1, <1>2, <2>1 DEF PageInv, KeysGood, keys
  <2> QED
    BY <2>1, <2>2, <2>3 DEF PageInv
<1>3. CASE focus # <<>>
  <2>1. HandlesKey(type, key)
    BY <1>3 DEF KeyEvent
  <2>2. /\ PageGood' /\ FocusGood'
        /\ lastKey' \in Keys \cup {"none"} /\ repeatOn' \in BOOLEAN
        /\ type = "keydown" => ~repeatOn'
        /\ type = "keypress" /\ phase = "keydown" => UNCHANGED focus
    BY <1>3, <2>1, HandlesKeyGood
  <2>3. KeysGood'
    BY <1>1, <2>2 DEF KeysGood
  <2> QED
    BY <1>1, <2>2, <2>3 DEF PageInv
<1> QED
  BY <1>2, <1>3

-----------------------------------------------------------------------------
(* The other actions. *)

LEMMA ClickGood ==
  ASSUME PageInv, NEW e \in Rows, Click(e)
  PROVE  PageInv' /\ UNCHANGED phase
<1>1. PageGood' /\ FocusGood'
  BY ToggleGood DEF Click, PageInv
<1>2. KeysGood' /\ UNCHANGED phase
  BY DEF Click, PageInv, KeysGood, keys, keyboard
<1> QED
  BY <1>1, <1>2 DEF PageInv

LEMMA EnterGood ==
  ASSUME PageInv, Enter
  PROVE  PageInv' /\ UNCHANGED phase
<1>0. Len(focus) = 1 /\ Toggle(focus[1]) /\ UNCHANGED <<focus, keys, keyboard>>
  BY DEF Enter
<1>1. PICK e \in displayed :
        focus = <<e>> \/ \E c \in 1 .. Entries[e].children : focus = <<e, c>>
  <2>1. focus # <<>>
    BY <1>0
  <2> QED
    BY <2>1, PositionOnPage DEF PageInv
<1>2. focus = <<e>> /\ focus[1] = e /\ e \in Rows
  <2>1. focus = <<e>>
    BY <1>0, <1>1
  <2> QED
    BY <2>1, DisplayedRows DEF PageInv
<1>3. PageGood' /\ FocusGood'
  <2>1. Visible(<<e>>) /\ Toggle(e) /\ focus' = <<e>>
    BY <1>0, <1>2 DEF PageInv, FocusGood
  <2> QED
    BY <1>2, <2>1, ToggleGood DEF PageInv
<1>4. KeysGood' /\ UNCHANGED phase
  BY <1>0 DEF PageInv, KeysGood, keys, keyboard
<1> QED
  BY <1>3, <1>4 DEF PageInv

LEMMA FocusFirstGood ==
  ASSUME PageInv, FocusFirst
  PROVE  PageInv' /\ UNCHANGED phase
<1>1. PICK row \in NavNext(1) : focus' = Focused(row)
  BY DEF FocusFirst
<1>2. UNCHANGED <<page, keys, keyboard>> /\ phase = "keyup"
  BY DEF FocusFirst
<1>3. IsPosition(row)
  <2>1. displayed \in SUBSET Rows
    BY DisplayedRows DEF PageInv
  <2>2. \E n \in displayed : row = <<n>>
    BY <2>1, NextRow
  <2> QED
    BY <2>1, <2>2 DEF IsPosition
<1>4. IsPosition(focus') /\ Visible(focus')
  BY <1>1, <1>3 DEF Focused, PageInv, FocusGood
<1>5. FocusGood' /\ PageGood'
  BY <1>2, <1>4
     DEF PageInv, PageGood, ChildrenAsAsked, FocusGood, IsPosition, Visible, page
<1>6. KeysGood' /\ UNCHANGED phase
  BY <1>2 DEF PageInv, KeysGood, keys, keyboard
<1> QED
  BY <1>5, <1>6 DEF PageInv

LEMMA LoadGood ==
  ASSUME PageInv, Load
  PROVE  PageInv' /\ UNCHANGED phase
<1>1. PageGood'
  BY DEF Load, PageGood, ChildrenAsAsked
<1>2. FocusGood'
  BY FieldGood DEF Load
<1>3. KeysGood' /\ UNCHANGED phase
  BY DEF Load, PageInv, KeysGood, keyboard, Keys
<1> QED
  BY <1>1, <1>2, <1>3 DEF PageInv

\* Every step keeps the invariant, and a keydown is followed by one step of
\* the focus at most.
LEMMA PageNext ==
  ASSUME PageInv, [Next]_vars
  PROVE  PageInv' /\ (phase = "keydown" /\ phase' = "keypress" => UNCHANGED focus)
<1>1. ASSUME NEW type \in {"keydown", "keypress", "keyup"}, NEW key \in Keys,
             KeyEvent(type, key)
      PROVE  PageInv' /\ (phase = "keydown" /\ phase' = "keypress" => UNCHANGED focus)
  BY <1>1, KeyEventGood
<1>2. ASSUME NEW e \in Rows, Click(e)
      PROVE  PageInv' /\ UNCHANGED phase
  BY <1>2, ClickGood
<1>3. CASE Enter \/ FocusFirst \/ Load
  BY <1>3, EnterGood, FocusFirstGood, LoadGood
<1>4. CASE UNCHANGED vars
  <2>1. PageGood' /\ FocusGood'
    BY <1>4, PageUnchanged DEF vars, PageInv
  <2>2. KeysGood' /\ UNCHANGED phase
    BY <1>4 DEF vars, keys, keyboard, PageInv, KeysGood
  <2> QED
    BY <2>1, <2>2 DEF PageInv
<1> QED
  BY <1>1, <1>2, <1>3, <1>4 DEF Next

-----------------------------------------------------------------------------
(* The theorems. *)

\* PageInv holds in every state.
THEOREM PageInvariant == Spec => []PageInv
<1>1. Init => PageInv
  <2> SUFFICES ASSUME Init PROVE PageInv
    OBVIOUS
  <2>1. PageGood
    BY DEF Init, PageGood, ChildrenAsAsked
  <2>2. FocusGood
    BY DEF Init, FocusGood, IsPosition, Visible
  <2>3. KeysGood
    BY DEF Init, KeysGood
  <2> QED
    BY <2>1, <2>2, <2>3 DEF PageInv
<1>2. PageInv /\ [Next]_vars => PageInv'
  BY PageNext
<1> QED
  BY <1>1, <1>2, PTL DEF Spec

\* The positions of the focus are existing ones, the rows those of the page.
THEOREM TypeCorrect == Spec => []TypeOK
<1>1. PageInv => TypeOK
  <2> SUFFICES ASSUME PageInv PROVE TypeOK
    OBVIOUS
  <2>1. displayed \subseteq Rows /\ childrenShown \subseteq Rows /\ asked \subseteq Rows
    BY DisplayedRows DEF PageInv, PageGood
  <2>2. focus = <<>> \/ Exists(focus)
    <3>1. ASSUME NEW e \in Rows, focus = <<e>>
          PROVE  Exists(focus)
      BY <3>1, UpAndDown DEF Exists
    <3>2. ASSUME NEW e \in Rows, NEW c \in 1 .. Entries[e].children, focus = <<e, c>>
          PROVE  Exists(focus)
      BY <3>2, UpAndDown DEF Exists
    <3> QED
      BY <3>1, <3>2 DEF PageInv, FocusGood, IsPosition
  <2> QED
    BY <2>1, <2>2 DEF TypeOK, PageInv, PageGood, KeysGood
<1> QED
  BY <1>1, PageInvariant, PTL

\* The focus is on something that is displayed.
THEOREM FocusDisplayed == Spec => []FocusOnDisplayed
<1>1. PageInv => FocusOnDisplayed
  BY DEF PageInv, FocusGood, FocusOnDisplayed
<1> QED
  BY <1>1, PageInvariant, PTL

\* Up leads back from where Down has led: across open and closed rows, rows
\* without children, and rows that have their id from another one.
THEOREM UpLeadsBack == Spec => []UpUndoesDown
<1>1. PageInv => UpUndoesDown
  BY DownAndBack DEF PageInv, UpUndoesDown
<1> QED
  BY <1>1, PageInvariant, PTL

\* The children displayed are those asked for, of every row with an id of
\* its own, whatever other rows share theirs.
THEOREM ChildrenCorrect == Spec => []ChildrenAsAsked
<1>1. PageInv => ChildrenAsAsked
  BY DEF PageInv, PageGood
<1> QED
  BY <1>1, PageInvariant, PTL

\* The keypress that follows a keydown moves nothing, also if the keydown has
\* moved the focus to an element that then gets the keypress.
THEOREM OneStep == Spec => OneStepPerKeydown
<1>1. PageInv /\ [Next]_vars
        => [phase = "keydown" /\ phase' = "keypress" => UNCHANGED focus]_vars
  BY PageNext
<1> QED
  BY <1>1, PageInvariant, PTL DEF Spec, OneStepPerKeydown

-----------------------------------------------------------------------------
(* Encoded words.  A character is encoded by itself or by an underscore    *)
(* and two digits, so where two encodings agree the characters agree.      *)

Starts(s, t) == Len(s) <= Len(t) /\ \A i \in 1 .. Len(s) : s[i] = t[i]

LEMMA PrefixIsStart ==
  ASSUME NEW s \in Seq(Nat), NEW t \in Seq(Nat)
  PROVE  IsPrefix(s, t) <=> Starts(s, t)
<1>1. ASSUME Len(s) <= Len(t)
      PROVE  SubSeq(s, 1, Len(s)) = SubSeq(t, 1, Len(s)) <=> \A i \in 1 .. Len(s) : s[i] = t[i]
  <2>1. /\ SubSeq(s, 1, Len(s)) \in Seq(Nat) /\ Len(SubSeq(s, 1, Len(s))) = Len(s)
        /\ SubSeq(t, 1, Len(s)) \in Seq(Nat) /\ Len(SubSeq(t, 1, Len(s))) = Len(s)
        /\ \A i \in 1 .. Len(s) : /\ SubSeq(s, 1, Len(s))[i] = s[i]
                                  /\ SubSeq(t, 1, Len(s))[i] = t[i]
    BY <1>1
  <2> QED
    BY <2>1
<1> QED
  BY <1>1 DEF IsPrefix, Starts

\* What a character is encoded by.
LEMMA EncodedType ==
  ASSUME NEW c \in Nat
  PROVE  /\ Encoded(c) \in Seq(Nat)
         /\ \/ IsIdCharacter(c) /\ Encoded(c) = <<c>>
            \/ ~IsIdCharacter(c) /\ c < 128
               /\ Encoded(c) = <<95, HexDigit(c \div 16), HexDigit(c % 16)>>
         /\ Len(Encoded(c)) \in Nat /\ Len(Encoded(c)) > 0
BY DEF Encoded, IsIdCharacter, HexDigit

LEMMA HexDigitTells ==
  ASSUME NEW d \in Nat, NEW e \in Nat, d < 16, e < 16, HexDigit(d) = HexDigit(e)
  PROVE  d = e
BY DEF HexDigit

\* Two encodings at the same place of one word are of the same character.
LEMMA EncodedTells ==
  ASSUME NEW c \in Nat, NEW d \in Nat, NEW s \in Seq(Nat), NEW t \in Seq(Nat),
         Starts(s \o Encoded(c), t), Starts(s \o Encoded(d), t)
  PROVE  c = d
<1> DEFINE n == Len(s)
<1>1. n \in Nat /\ Len(t) \in Nat
  OBVIOUS
<1>2. ASSUME NEW x \in Nat, Starts(s \o Encoded(x), t)
      PROVE  \A i \in 1 .. Len(Encoded(x)) : t[n + i] = Encoded(x)[i]
  <2>1. Encoded(x) \in Seq(Nat) /\ Len(Encoded(x)) \in Nat
    BY EncodedType
  <2> DEFINE both == s \o Encoded(x)
  <2>2. /\ Len(both) = n + Len(Encoded(x))
        /\ \A i \in 1 .. Len(Encoded(x)) : both[n + i] = Encoded(x)[i]
    BY <2>1
  <2>3. \A i \in 1 .. Len(both) : both[i] = t[i]
    BY <1>2 DEF Starts
  <2> HIDE DEF both
  <2>4. \A i \in 1 .. Len(Encoded(x)) : n + i \in 1 .. Len(both)
    BY <1>1, <2>1, <2>2
  <2> QED
    BY <2>2, <2>3, <2>4
<1>3. ASSUME NEW x \in Nat, Starts(s \o Encoded(x), t)
      PROVE  \/ IsIdCharacter(x) /\ t[n + 1] = x
             \/ /\ ~IsIdCharacter(x) /\ x < 128 /\ t[n + 1] = 95
                /\ t[n + 2] = HexDigit(x \div 16) /\ t[n + 3] = HexDigit(x % 16)
  <2>1. \A i \in 1 .. Len(Encoded(x)) : t[n + i] = Encoded(x)[i]
    BY <1>2, <1>3
  <2>2. CASE IsIdCharacter(x)
    <3>1. Encoded(x) = <<x>>
      BY <2>2 DEF Encoded
    <3> QED
      BY <2>1, <2>2, <3>1
  <2>3. CASE ~IsIdCharacter(x)
    <3>1. Encoded(x) = <<95, HexDigit(x \div 16), HexDigit(x % 16)>> /\ x < 128
      BY <2>3 DEF Encoded, IsIdCharacter
    <3> DEFINE high == HexDigit(x \div 16)
               low == HexDigit(x % 16)
    <3>2. Encoded(x) = <<95, high, low>>
      BY <3>1
    <3> HIDE DEF high, low
    <3>3. /\ Len(Encoded(x)) = 3 /\ Encoded(x)[1] = 95 /\ Encoded(x)[2] = high
          /\ Encoded(x)[3] = low
      BY <3>2
    <3>4. t[n + 1] = 95 /\ t[n + 2] = high /\ t[n + 3] = low
      BY <2>1, <3>3
    <3> QED
      BY <2>3, <3>1, <3>4 DEF high, low
  <2> QED
    BY <2>2, <2>3
<1>4. ~IsIdCharacter(95)
  BY DEF IsIdCharacter
<1>5. CASE IsIdCharacter(c)
  BY <1>3, <1>4, <1>5
<1>6. CASE ~IsIdCharacter(c)
  <2>1. /\ ~IsIdCharacter(d) /\ c < 128 /\ d < 128
        /\ HexDigit(c \div 16) = HexDigit(d \div 16)
        /\ HexDigit(c % 16) = HexDigit(d % 16)
    <3> HIDE DEF n
    <3>1. /\ c < 128 /\ t[n + 1] = 95
          /\ t[n + 2] = HexDigit(c \div 16) /\ t[n + 3] = HexDigit(c % 16)
      BY <1>3, <1>6
    <3>2. \/ IsIdCharacter(d) /\ t[n + 1] = d
          \/ /\ ~IsIdCharacter(d) /\ d < 128
             /\ t[n + 2] = HexDigit(d \div 16) /\ t[n + 3] = HexDigit(d % 16)
      BY <1>3
    <3>3. ~IsIdCharacter(d)
      <4> SUFFICES ASSUME IsIdCharacter(d), t[n + 1] = d PROVE FALSE
        BY <3>2
      <4> QED
        BY <1>4, <3>1
    <3> QED
      BY <3>1, <3>2, <3>3
  <2>2. /\ c \div 16 \in Nat /\ c \div 16 < 16 /\ c % 16 \in Nat /\ c % 16 < 16
        /\ d \div 16 \in Nat /\ d \div 16 < 16 /\ d % 16 \in Nat /\ d % 16 < 16
    <3>1. \A x \in Nat : x < 128 =>
            x \div 16 \in Nat /\ x \div 16 < 16 /\ x % 16 \in Nat /\ x % 16 < 16
      OBVIOUS
    <3> QED
      BY <2>1, <3>1
  <2>3. c \div 16 = d \div 16 /\ c % 16 = d % 16
    BY <2>1, <2>2, HexDigitTells
  <2> QED
    BY <2>3
<1> QED
  BY <1>5, <1>6

\* The encodings of the beginnings of a word, as ConvertToId puts them together.
IdRun(word, g) ==
  /\ DOMAIN g = 0 .. Len(word)
  /\ \A i \in 0 .. Len(word) : g[i] \in Seq(Nat)
  /\ \A i \in 0 .. Len(word) :
       g[i] = IF i = 0 THEN <<>> ELSE g[i - 1] \o Encoded(word[i])

LEMMA ConvertToIdRun ==
  ASSUME NEW word \in Seq(Nat)
  PROVE  \E g : ConvertToId(word) = g[Len(word)] /\ IdRun(word, g)
<1> DEFINE n == Len(word)
           Grown(s, i) == s \o Encoded(word[i])
           Run(m, g) == /\ g \in [0 .. m -> Seq(Nat)]
                        /\ \A i \in 0 .. m :
                             g[i] = IF i = 0 THEN <<>> ELSE Grown(g[i - 1], i)
           Without == {m \in 0 .. n : ~\E g : Run(m, g)}
           Solves(g) == g = [i \in 0 .. n |->
                               IF i = 0 THEN <<>> ELSE Grown(g[i - 1], i)]
           result == CHOOSE g : Solves(g)
<1>1. n \in Nat /\ \A i \in 1 .. n : word[i] \in Nat
  OBVIOUS
<1>2. ASSUME NEW i \in 1 .. n, NEW s \in Seq(Nat) PROVE Grown(s, i) \in Seq(Nat)
  <2>1. Encoded(word[i]) \in Seq(Nat)
    BY <1>1, EncodedType
  <2> QED
    BY <2>1
<1>3. ConvertToId(word) = result[n]
  BY DEF ConvertToId
<1> HIDE DEF n, Grown
<1>4. Without = {}
  <2> SUFFICES ASSUME Without # {} PROVE FALSE
    OBVIOUS
  <2>1. Without \in SUBSET Nat
    BY <1>1
  <2> PICK m \in Without : \A k \in Without : m <= k
    BY <2>1, MinimumExists
  <2>2. m \in 0 .. n /\ ~\E g : Run(m, g)
    OBVIOUS
  <2>3. CASE m = 0
    <3>1. Run(m, [i \in 0 .. m |-> <<>>])
      BY <2>3
    <3> QED
      BY <2>2, <3>1
  <2>4. CASE m # 0
    <3>1. m \in Nat /\ m - 1 \in 0 .. n /\ m \in 1 .. n /\ ~(m <= m - 1)
      BY <1>1, <2>2, <2>4
    <3>2. PICK g : Run(m - 1, g)
      BY <3>1
    <3> DEFINE last == Grown(g[m - 1], m)
               h == [i \in 0 .. m |-> IF i = m THEN last ELSE g[i]]
    <3>3. last \in Seq(Nat)
      <4>1. g[m - 1] \in Seq(Nat)
        BY <3>1, <3>2
      <4> QED
        BY <1>2, <3>1, <4>1
    <3> HIDE DEF last
    <3>4. h \in [0 .. m -> Seq(Nat)]
      BY <3>1, <3>2, <3>3
    <3>5. ASSUME NEW i \in 0 .. m
          PROVE  h[i] = IF i = 0 THEN <<>> ELSE Grown(h[i - 1], i)
      <4>1. CASE i = 0
        BY <3>1, <3>2, <4>1
      <4>2. CASE i # 0 /\ i # m
        BY <3>1, <3>2, <4>2
      <4>3. CASE i = m
        <5>1. h[i] = last /\ h[i - 1] = g[m - 1] /\ i # 0
          BY <3>1, <4>3
        <5> QED
          BY <4>3, <5>1 DEF last
      <4> QED
        BY <4>1, <4>2, <4>3
    <3>6. Run(m, h)
      BY <3>4, <3>5
    <3> QED
      BY <2>2, <3>6
  <2> QED
    BY <2>3, <2>4
<1>5. PICK g : Run(n, g)
  <2> HIDE DEF Run
  <2>1. n \in 0 .. n
    BY <1>1
  <2> QED
    BY <1>4, <2>1
<1>6. Solves(g)
  BY <1>5
<1>7. Solves(result)
  BY <1>6
<1> HIDE DEF result
<1>8. /\ DOMAIN result = 0 .. n
      /\ \A i \in 0 .. n :
           result[i] = IF i = 0 THEN <<>> ELSE Grown(result[i - 1], i)
  BY <1>7
<1> DEFINE Bad == {i \in 0 .. n : result[i] \notin Seq(Nat)}
<1>9. Bad = {}
  <2> SUFFICES ASSUME Bad # {} PROVE FALSE
    OBVIOUS
  <2>1. Bad \in SUBSET Nat
    BY <1>1
  <2> PICK i \in Bad : \A k \in Bad : i <= k
    BY <2>1, MinimumExists
  <2>2. i # 0 /\ i \in 1 .. n /\ i - 1 \in 0 .. n /\ ~(i <= i - 1)
    BY <1>1, <1>8
  <2>3. Grown(result[i - 1], i) \in Seq(Nat)
    BY <1>2, <2>2
  <2>4. result[i] = Grown(result[i - 1], i)
    BY <1>8, <2>2
  <2> QED
    BY <2>3, <2>4
<1>10. \A i \in 0 .. n : result[i] \in Seq(Nat)
  BY <1>9
<1>11. IdRun(word, result)
  BY <1>8, <1>10 DEF IdRun, n, Grown
<1> QED
  BY <1>3, <1>11 DEF n

\* The beginning of a beginning is a beginning.
LEMMA StartsTransitive ==
  ASSUME NEW s \in Seq(Nat), NEW t \in Seq(Nat), NEW u \in Seq(Nat),
         Starts(s, t), Starts(t, u)
  PROVE  Starts(s, u)
<1> DEFINE k == Len(s)
           l == Len(t)
           m == Len(u)
<1>1. k \in Nat /\ l \in Nat /\ m \in Nat
  OBVIOUS
<1>2. /\ k <= l /\ l <= m
      /\ \A i \in 1 .. k : s[i] = t[i]
      /\ \A i \in 1 .. l : t[i] = u[i]
  BY DEF Starts
<1> HIDE DEF k, l, m
<1>3. k <= m /\ \A i \in 1 .. k : i \in 1 .. l
  BY <1>1, <1>2
<1>4. \A i \in 1 .. k : s[i] = u[i]
  BY <1>2, <1>3
<1> QED
  BY <1>3, <1>4 DEF Starts, k, m

\* A sequence is a beginning of what is made by adding to it.
LEMMA StartsLonger ==
  ASSUME NEW s \in Seq(Nat), NEW t \in Seq(Nat)
  PROVE  Starts(s, s \o t)
<1>1. Len(s) \in Nat /\ Len(t) \in Nat /\ Len(s \o t) = Len(s) + Len(t)
  OBVIOUS
<1>2. Len(s) <= Len(s \o t)
  BY <1>1
<1>3. \A i \in 1 .. Len(s) : s[i] = (s \o t)[i]
  OBVIOUS
<1> QED
  BY <1>2, <1>3 DEF Starts

\* What is encoded stays the beginning of what is encoded later.
LEMMA RunGrows ==
  ASSUME NEW word \in Seq(Nat), NEW g, IdRun(word, g),
         NEW i \in 0 .. Len(word), NEW j \in 0 .. Len(word), i <= j
  PROVE  Starts(g[i], g[j])
<1> DEFINE n == Len(word)
           Bad == {m \in 0 .. n : i <= m /\ ~Starts(g[i], g[m])}
<1>1. n \in Nat /\ i \in 0 .. n /\ j \in 0 .. n /\ \A m \in 1 .. n : word[m] \in Nat
  OBVIOUS
<1>2. /\ \A m \in 0 .. n : g[m] \in Seq(Nat)
      /\ \A m \in 0 .. n : g[m] = IF m = 0 THEN <<>> ELSE g[m - 1] \o Encoded(word[m])
  BY DEF IdRun
<1> HIDE DEF n
<1>3. Bad = {}
  <2> SUFFICES ASSUME Bad # {} PROVE FALSE
    OBVIOUS
  <2>1. Bad \in SUBSET Nat
    BY <1>1
  <2> PICK m \in Bad : \A k \in Bad : m <= k
    BY <2>1, MinimumExists
  <2>2. CASE m = i
    BY <2>2 DEF Starts
  <2>3. CASE m # i
    <3>1. m \in 1 .. n /\ m - 1 \in 0 .. n /\ i <= m - 1 /\ ~(m <= m - 1) /\ m # 0
      BY <1>1, <2>3
    <3>2. Starts(g[i], g[m - 1])
      BY <3>1
    <3> DEFINE new == Encoded(word[m])
    <3>3. /\ g[i] \in Seq(Nat) /\ g[m - 1] \in Seq(Nat) /\ new \in Seq(Nat)
          /\ g[m] = g[m - 1] \o new
      BY <1>1, <1>2, <3>1, EncodedType
    <3> HIDE DEF new
    <3> DEFINE old == g[m - 1]
               first == g[i]
    <3>4. Starts(first, old) /\ first \in Seq(Nat) /\ old \in Seq(Nat)
      BY <3>2, <3>3
    <3> HIDE DEF old, first
    <3>5. Starts(first, old \o new)
      <4>1. Starts(old, old \o new) /\ old \o new \in Seq(Nat)
        BY <3>3, <3>4, StartsLonger
      <4> QED
        BY <3>4, <4>1, StartsTransitive
    <3> QED
      BY <3>3, <3>5 DEF old, first
  <2> QED
    BY <2>2, <2>3
<1> QED
  BY <1>1, <1>3

\* Words that agree up to some place have the same encoding up to there.
LEMMA RunsAgree ==
  ASSUME NEW v \in Seq(Nat), NEW w \in Seq(Nat), NEW g, NEW h,
         IdRun(v, g), IdRun(w, h),
         NEW m \in Nat, m <= Len(v), m <= Len(w), \A i \in 1 .. m : v[i] = w[i]
  PROVE  g[m] = h[m]
<1> DEFINE Bad == {i \in 0 .. m : g[i] # h[i]}
<1>1. \A i \in 0 .. m : i \in 0 .. Len(v) /\ i \in 0 .. Len(w)
  OBVIOUS
<1>2. \A i \in 0 .. m : /\ g[i] = IF i = 0 THEN <<>> ELSE g[i - 1] \o Encoded(v[i])
                        /\ h[i] = IF i = 0 THEN <<>> ELSE h[i - 1] \o Encoded(w[i])
  BY <1>1 DEF IdRun
<1>3. Bad = {}
  <2> SUFFICES ASSUME Bad # {} PROVE FALSE
    OBVIOUS
  <2>1. Bad \in SUBSET Nat
    OBVIOUS
  <2> PICK i \in Bad : \A k \in Bad : i <= k
    BY <2>1, MinimumExists
  <2>2. i # 0 /\ i \in 1 .. m /\ i - 1 \in 0 .. m /\ ~(i <= i - 1)
    BY <1>2
  <2>3. g[i - 1] = h[i - 1] /\ v[i] = w[i]
    BY <2>2
  <2> QED
    BY <1>2, <2>2, <2>3
<1> QED
  BY <1>3

\* One word begins with another exactly if its encoding begins with the other's.
LEMMA EncodingKeepsPrefixes ==
  ASSUME NEW v \in Seq(Nat), NEW w \in Seq(Nat)
  PROVE  IsPrefix(ConvertToId(v), ConvertToId(w)) <=> IsPrefix(v, w)
<1>1. PICK g : ConvertToId(v) = g[Len(v)] /\ IdRun(v, g)
  BY ConvertToIdRun
<1>2. PICK h : ConvertToId(w) = h[Len(w)] /\ IdRun(w, h)
  BY ConvertToIdRun
<1>3. /\ Len(v) \in Nat /\ Len(w) \in Nat
      /\ \A i \in 0 .. Len(v) : g[i] \in Seq(Nat)
      /\ \A i \in 0 .. Len(w) : h[i] \in Seq(Nat)
  BY <1>1, <1>2 DEF IdRun
<1>4. Len(v) \in 0 .. Len(v) /\ Len(w) \in 0 .. Len(w)
  BY <1>3
<1>5. g[Len(v)] \in Seq(Nat) /\ h[Len(w)] \in Seq(Nat)
  BY <1>3, <1>4
<1>6. ASSUME Starts(v, w) PROVE Starts(g[Len(v)], h[Len(w)])
  <2>1. Len(v) <= Len(w) /\ \A i \in 1 .. Len(v) : v[i] = w[i]
    BY <1>6 DEF Starts
  <2>2. g[Len(v)] = h[Len(v)]
    BY <1>1, <1>2, <1>3, <2>1, RunsAgree
  <2>3. Len(v) \in 0 .. Len(w)
    BY <1>3, <2>1
  <2>4. Starts(h[Len(v)], h[Len(w)])
    BY <1>2, <1>4, <2>1, <2>3, RunGrows
  <2> QED
    BY <2>2, <2>4
<1>7. ASSUME Starts(g[Len(v)], h[Len(w)]), ~Starts(v, w) PROVE FALSE
  <2> DEFINE Differ == {m \in 1 .. Len(v) : m > Len(w) \/ v[m] # w[m]}
  <2>1. Differ # {}
    <3>1. CASE Len(v) <= Len(w)
      BY <1>3, <1>7, <3>1 DEF Starts
    <3>2. CASE Len(v) > Len(w)
      <4>1. Len(v) \in 1 .. Len(v)
        BY <1>3, <3>2
      <4> QED
        BY <3>2, <4>1
    <3> QED
      BY <1>3, <3>1, <3>2
  <2>2. Differ \in SUBSET Nat
    BY <1>3
  <2> PICK m \in Differ : \A k \in Differ : m <= k
    BY <2>1, <2>2, MinimumExists
  <2>3. /\ m \in 1 .. Len(v) /\ m \in Nat /\ m - 1 \in Nat /\ m # 0
        /\ m \in 0 .. Len(v) /\ m - 1 \in 0 .. Len(v) /\ m - 1 <= Len(v)
    BY <1>3
  <2>4. \A i \in 1 .. m - 1 : i <= Len(w) /\ v[i] = w[i]
    <3>1. ASSUME NEW i \in 1 .. m - 1 PROVE i <= Len(w) /\ v[i] = w[i]
      <4>1. i \in 1 .. Len(v) /\ i \in Nat /\ ~(m <= i)
        BY <1>3, <2>3
      <4>2. i \notin Differ
        BY <4>1
      <4> QED
        BY <1>3, <4>1, <4>2
    <3> QED
      BY <3>1
  <2>5. m - 1 <= Len(w)
    <3>1. CASE m = 1
      BY <1>3, <3>1
    <3>2. CASE m # 1
      <4>1. m - 1 \in 1 .. m - 1
        BY <2>3, <3>2
      <4> QED
        BY <2>4, <4>1
    <3> QED
      BY <3>1, <3>2
  <2>6. g[m - 1] = h[m - 1]
    BY <1>1, <1>2, <2>3, <2>4, <2>5, RunsAgree
  <2> DEFINE s == g[m - 1]
             id == h[Len(w)]
  <2>7. /\ s \in Seq(Nat) /\ id \in Seq(Nat) /\ v[m] \in Nat
        /\ g[m] = s \o Encoded(v[m]) /\ g[m] \in Seq(Nat)
    <3>1. g[m - 1] \in Seq(Nat) /\ g[m] \in Seq(Nat)
      BY <1>3, <2>3
    <3>2. g[m] = g[m - 1] \o Encoded(v[m])
      BY <1>1, <2>3 DEF IdRun
    <3>3. v[m] \in Nat
      BY <2>3
    <3> QED
      BY <1>5, <3>1, <3>2, <3>3
  <2>8. Starts(g[m], g[Len(v)])
    <3>1. m <= Len(v)
      BY <1>3, <2>3
    <3> QED
      BY <1>1, <1>4, <2>3, <3>1, RunGrows
  <2>9. Starts(s \o Encoded(v[m]), id)
    BY <1>5, <1>7, <2>7, <2>8, StartsTransitive
  <2>10. Encoded(v[m]) \in Seq(Nat) /\ Len(Encoded(v[m])) \in Nat /\ Len(Encoded(v[m])) > 0
    BY <2>7, EncodedType
  <2>11. CASE m > Len(w)
    <3>0. m \in Nat /\ Len(w) \in Nat
      BY <1>3, <2>3
    <3>1. m - 1 = Len(w)
      BY <2>5, <2>11, <3>0
    <3>2. s = id
      BY <2>6, <3>1
    <3> HIDE DEF s, id
    <3>3. Len(s \o Encoded(v[m])) <= Len(s)
      BY <2>9, <3>2 DEF Starts
    <3> QED
      BY <2>7, <2>10, <3>3
  <2>12. CASE ~(m > Len(w))
    <3>1. m \in 1 .. Len(w) /\ m \in 0 .. Len(w) /\ m <= Len(w) /\ w[m] \in Nat
      BY <1>3, <2>3, <2>12
    <3>2. v[m] # w[m]
      BY <2>12
    <3>3. h[m] = s \o Encoded(w[m])
      BY <1>2, <2>3, <2>6, <3>1 DEF IdRun
    <3>4. Starts(s \o Encoded(w[m]), id)
      BY <1>2, <1>4, <3>1, <3>3, RunGrows
    <3> HIDE DEF s, id
    <3> QED
      BY <2>7, <2>9, <3>1, <3>2, <3>4, EncodedTells
  <2> QED
    BY <2>11, <2>12
<1> QED
  BY <1>1, <1>2, <1>5, <1>6, <1>7, PrefixIsStart

\* What is left of a word without the spaces around it is a word.
LEMMA SearchWordType ==
  ASSUME NEW word \in Seq(Nat)
  PROVE  /\ Stripped(word) \in Seq(Nat)
         /\ ToLowerCase(word) \in Seq(Nat)
<1>1. ToLowerCase(word) \in Seq(Nat)
  <2>1. /\ DOMAIN word = 1 .. Len(word) /\ Len(word) \in Nat
        /\ \A i \in 1 .. Len(word) : word[i] \in Nat
    OBVIOUS
  <2>2. ToLowerCase(word) \in [1 .. Len(word) -> Nat]
    BY <2>1 DEF ToLowerCase
  <2> QED
    BY <2>1, <2>2, SeqDef
<1>2. Stripped(word) \in Seq(Nat)
  <2> DEFINE from == {i \in DOMAIN word : word[i] # 32}
  <2>1. CASE from = {}
    BY <2>1 DEF Stripped
  <2>2. CASE from # {}
    <3>1. Stripped(word) = SubSeq(word, Min(from), Max(from))
      BY <2>2 DEF Stripped
    <3>2. from \in SUBSET (1 .. Len(word)) /\ Len(word) \in Nat
      OBVIOUS
    <3> HIDE DEF from
    <3>3. Min(from) \in from /\ Max(from) \in from
      BY <2>2, <3>2, LeastAndGreatest
    <3>4. Min(from) \in 1 .. Len(word) /\ Max(from) \in 1 .. Len(word)
      BY <3>2, <3>3
    <3>5. SubSeq(word, Min(from), Max(from)) \in Seq(Nat)
      BY <3>4
    <3> QED
      BY <3>1, <3>5
  <2> QED
    BY <2>1, <2>2
<1> QED
  BY <1>1, <1>2

\* The generated search data: the id of a row is its name in lower case,
\* encoded as convertToId encodes what is searched for.
IdsAreEncoded ==
  \A e \in Rows : Entries[e].id = ConvertToId(ToLowerCase(Entries[e].name))

\* A search shows the rows whose name begins with the word, and no others.
THEOREM RowsAreByName ==
  ASSUME IdsAreEncoded
  PROVE  Spec => []RowsByName
<1>1. ASSUME PageInv PROVE RowsByName
  <2>1. search \in Searches /\ displayed = Search(search)
    BY <1>1 DEF PageInv, PageGood
  <2> DEFINE word == ToLowerCase(Stripped(search))
             name(e) == ToLowerCase(Entries[e].name)
  <2>2. word \in Seq(Nat)
    BY <2>1, EntriesAssumption, SearchWordType
  <2>3. ASSUME NEW e \in Rows PROVE name(e) \in Seq(Nat)
    BY RowsType, SearchWordType
  <2>4. Search(search) = {e \in Rows : IsPrefix(ConvertToId(word), Entries[e].id)}
    BY DEF Search
  <2> HIDE DEF word
  <2>5. ASSUME NEW e \in Rows
        PROVE  IsPrefix(ConvertToId(word), Entries[e].id) <=> IsPrefix(word, name(e))
    <3>1. Entries[e].id = ConvertToId(name(e))
      BY DEF IdsAreEncoded
    <3> HIDE DEF name
    <3> QED
      BY <2>2, <2>3, <3>1, EncodingKeepsPrefixes
  <2>6. RowsByName <=> displayed = {e \in Rows : IsPrefix(word, name(e))}
    BY DEF RowsByName, word
  <2> HIDE DEF name
  <2> QED
    BY <2>1, <2>4, <2>5, <2>6, Zenon
<1> QED
  BY <1>1, PageInvariant, PTL
=============================================================================
