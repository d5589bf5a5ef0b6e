----------------------------- MODULE ResultsPage -----------------------------
(***************************************************************************)
(* A page of search results of the documentation in src/html (search.js,   *)
(* class SearchResults and createResults): which rows a search shows, and  *)
(* how the arrow keys move the focus among them.  SearchPanel is the page  *)
(* around it.                                                              *)
(*                                                                         *)
(* Words are sequences of character codes.  A position of the focus is     *)
(* <<e>> for the link of row e (Item<e>), <<e, c>> for that of its c-th    *)
(* child (Item<e>_c<c>), and <<>> if no row has it, as a rule because the   *)
(* search field of the parent page has.                                    *)
(***************************************************************************)
EXTENDS Integers, Sequences, FiniteSetsExt, SequencesExt

CONSTANTS
  Entries,    \* searchData: name, id and number of children of each row
  Searches    \* what is searched for: the query of the page's URL

Rows == 1 .. Len(Entries)

ASSUME EntriesAssumption ==
  /\ \A word \in Searches : word \in Seq(Nat)
  /\ Entries \in Seq([name : Seq(Nat), id : Seq(Nat), children : Nat \ {1}])

VARIABLES
  search,         \* the query
  displayed,      \* the rows whose style.display is 'block'
  childrenShown,  \* the rows whose SRChildren element is displayed
  focus,          \* the position of the focus
  open,           \* the results window of the parent page is open
  lastKey, repeatOn,
  held, phase,    \* external: the key held down, and the event it caused last
  asked           \* history: the rows whose children the user wants to see

page == <<search, displayed, childrenShown, open, asked>>
keys == <<lastKey, repeatOn>>
keyboard == <<held, phase>>
vars == <<page, focus, keys, keyboard>>

-----------------------------------------------------------------------------
(* convertToId and Search. *)

ToLowerCase(word) ==
  [i \in DOMAIN word |-> IF word[i] \in 65 .. 90 THEN word[i] + 32 ELSE word[i]]

IsIdCharacter(c) == c \in 97 .. 122 \/ c \in 48 .. 57 \/ c >= 128

HexDigit(d) == IF d < 10 THEN 48 + d ELSE 87 + d

\* Faulty: takes the underscore for a letter.
EncodedUnderscored(c) ==
  IF IsIdCharacter(c) \/ c = 95 THEN <<c>>
  ELSE <<95, HexDigit(c \div 16), HexDigit(c % 16)>>

\* Below 128 a code has at most two hexadecimal digits, and gets two.
Encoded(c) ==
  IF IsIdCharacter(c) THEN <<c>>
  ELSE <<95, HexDigit(c \div 16), HexDigit(c % 16)>>

ConvertToId(word) ==
  LET result[i \in 0 .. Len(word)] ==
        IF i = 0 THEN <<>> ELSE result[i - 1] \o Encoded(word[i])
  IN  result[Len(word)]

Stripped(word) == LET from == {i \in DOMAIN word : word[i] # 32}
                  IN  IF from = {} THEN <<>> ELSE SubSeq(word, Min(from), Max(from))

\* The rows whose id begins with the id of the search word.
Search(word) ==
  {e \in Rows : IsPrefix(ConvertToId(ToLowerCase(Stripped(word))), Entries[e].id)}

\* The rows are sorted by id, so those a search shows follow each other.
ASSUME SortedAssumption ==
  \A word \in Searches : \A e, f \in Search(word) : e .. f \subseteq Search(word)

-----------------------------------------------------------------------------
(* createResults: a row of one result has a link, one of several has a     *)
(* link that toggles its children.  The row's element is SR_<id>, and of   *)
(* several elements with one id getElementById returns the first.          *)

\* Faulty: the walk goes on behind the element it has started from.
FindChildElementBehind(e) ==
  LET found == {i \in Rows : i >= e /\ Entries[i].children > 0}
  IN  IF found = {} THEN {} ELSE {Min(found)}

\* Whose children FindChildElement (SR_<id of e>) finds.
FindChildElement(e) ==
  LET found == Min({i \in Rows : Entries[i].id = Entries[e].id})
  IN  IF Entries[found].children > 0 THEN {found} ELSE {}

ChildrenVisible(e) == FindChildElement(e) \cap childrenShown # {}

Exists(position) ==
  \/ Len(position) = 1 /\ position[1] \in Rows
  \/ Len(position) = 2 /\ position[2] \in 1 .. Entries[position[1]].children

Visible(position) ==
  \/ position = <<>>
  \/ /\ open
     /\ position[1] \in displayed
     /\ Len(position) = 2 => position[1] \in childrenShown

\* external: focus () of an element that is not rendered does nothing.
Focused(position) == IF Visible(position) THEN position ELSE focus

Init ==
  /\ search \in Searches
  /\ displayed = Search(search)
  /\ childrenShown = {} /\ asked = {}
  /\ open = TRUE
  /\ focus = <<>>
  /\ lastKey = "none" /\ repeatOn = FALSE
  /\ held = "none" /\ phase = "keyup"

-----------------------------------------------------------------------------
(* Moving the focus. *)

NavNext(index) ==
  LET rows == {e \in displayed : e >= index}
  IN  IF rows = {} THEN {} ELSE {<<Min(rows)>>}

NavPrev(index) ==
  LET rows == {e \in displayed : e <= index}
  IN  IF rows = {} THEN {} ELSE {<<Max(rows)>>}

\* Faulty: goes to the row above also when that row's children are shown.
UpFromRowOverChildren(e) ==
  IF NavPrev(e - 1) = {} THEN <<>> ELSE CHOOSE row \in NavPrev(e - 1) : TRUE

\* To the last child of the row above, if its children are shown; the
\* children looked for are those of row e - 1.
UpFromRow(e) ==
  IF NavPrev(e - 1) = {} THEN <<>>
  ELSE LET row == CHOOSE row \in NavPrev(e - 1) : TRUE
           last == <<e - 1, Entries[e - 1].children>>
       IN  IF ChildrenVisible(row[1]) /\ Exists(last) THEN last ELSE row

UpFromChild(e, c) == IF c > 1 THEN <<e, c - 1>> ELSE <<e>>

RowAfter(position) ==
  LET next == NavNext(position[1] + 1)
  IN  IF next = {} THEN position ELSE CHOOSE row \in next : TRUE

DownFromRow(e) ==
  IF ChildrenVisible(e) /\ Exists(<<e, 1>>) THEN <<e, 1>> ELSE RowAfter(<<e>>)

DownFromChild(e, c) ==
  IF Exists(<<e, c + 1>>) THEN <<e, c + 1>> ELSE RowAfter(<<e, c>>)

Up(position) ==
  IF Len(position) = 1 THEN UpFromRow(position[1])
  ELSE UpFromChild(position[1], position[2])

Down(position) ==
  IF Len(position) = 1 THEN DownFromRow(position[1])
  ELSE DownFromChild(position[1], position[2])

-----------------------------------------------------------------------------
(* Key events.  A handler acts on lastKey if ProcessKeys returns true.     *)

\* Faulty: the first keypress after a keydown acts once more.
ProcessKeysAtOnce(type, key) ==
  CASE type = "keydown"  -> [lastKey |-> key, repeatOn |-> FALSE, acts |-> TRUE]
    [] type = "keypress" -> [lastKey |-> lastKey, repeatOn |-> TRUE,
                             acts |-> lastKey # "none"]
    [] type = "keyup"    -> [lastKey |-> "none", repeatOn |-> FALSE, acts |-> FALSE]

ProcessKeys(type, key) ==
  CASE type = "keydown"  -> [lastKey |-> key, repeatOn |-> FALSE, acts |-> TRUE]
    [] type = "keypress" -> [lastKey |-> lastKey,
                             repeatOn |-> repeatOn \/ lastKey # "none",
                             acts |-> repeatOn /\ lastKey # "none"]
    [] type = "keyup"    -> [lastKey |-> "none", repeatOn |-> FALSE, acts |-> FALSE]

Moves(key) ==
  /\ focus' = Focused(IF key = "up" THEN Up(focus) ELSE Down(focus))
  /\ UNCHANGED page

\* Faulty: a child closes the list it is in.
OpensFromChild(key) ==
  /\ LET e == focus[1]
     IN  /\ childrenShown' = IF key = "right" THEN childrenShown \cup FindChildElement(e)
                             ELSE childrenShown \ FindChildElement(e)
         /\ asked' = IF key = "right" /\ Entries[e].children > 0 THEN asked \cup {e}
                     ELSE asked \ {e}
  /\ UNCHANGED <<focus, search, displayed, open>>

\* Right and Left open and close the children of a row.
Opens(key) ==
  /\ Len(focus) = 1
  /\ LET e == focus[1]
     IN  /\ childrenShown' = IF key = "right" THEN childrenShown \cup FindChildElement(e)
                             ELSE childrenShown \ FindChildElement(e)
         /\ asked' = IF key = "right" /\ Entries[e].children > 0 THEN asked \cup {e}
                     ELSE asked \ {e}
  /\ UNCHANGED <<focus, search, displayed, open>>

\* CloseResultsWindow and the focus of the search field
Escapes ==
  /\ open' = FALSE
  /\ focus' = <<>>
  /\ UNCHANGED <<search, displayed, childrenShown, asked>>

Acts(key) ==
  \/ key \in {"up", "down"} /\ Moves(key)
  \/ key \in {"right", "left"} /\ Opens(key)
  \/ key = "escape" /\ Escapes
  \/ key \in {"right", "left"} /\ Len(focus) = 2 /\ UNCHANGED <<page, focus>>
  \/ key = "other" /\ UNCHANGED <<page, focus>>

\* Nav and NavChild for all keys but Enter
HandlesKey(type, key) ==
  LET processed == ProcessKeys(type, key)
  IN  /\ lastKey' = processed.lastKey
      /\ repeatOn' = processed.repeatOn
      /\ IF processed.acts THEN Acts(processed.lastKey) ELSE UNCHANGED <<page, focus>>

\* Toggle, the target of the link of a row with children
Toggle(e) ==
  LET element == FindChildElement(e)
  IN  /\ Entries[e].children > 0
      /\ childrenShown' = IF element \subseteq childrenShown
                          THEN childrenShown \ element ELSE childrenShown \cup element
      /\ asked' = IF e \in asked THEN asked \ {e} ELSE asked \cup {e}
      /\ UNCHANGED <<search, displayed, open>>

-----------------------------------------------------------------------------
(* The user.  Keys go to where the focus is when they are pressed,         *)
(* repeated and released; the search field has handlers of its own.        *)

KeyEvent(type, key) ==
  /\ \/ type = "keydown"  /\ (phase = "keyup" \/ held = key)
     \/ type = "keypress" /\ phase # "keyup" /\ held = key
     \/ type = "keyup"    /\ phase # "keyup" /\ held = key
  /\ held' = IF type = "keyup" THEN "none" ELSE key
  /\ phase' = type
  /\ IF focus = <<>> THEN UNCHANGED <<page, focus, keys>> ELSE HandlesKey(type, key)

\* Enter follows the link; Nav lets it pass before ProcessKeys sees it.
Enter ==
  /\ Len(focus) = 1 /\ phase = "keyup"
  /\ Toggle(focus[1])
  /\ UNCHANGED <<focus, keys, keyboard>>

\* The mouse is not used while a key is held.
Click(e) ==
  /\ Visible(<<e>>) /\ phase = "keyup"
  /\ Toggle(e)
  /\ focus' = <<e>>
  /\ UNCHANGED <<keys, keyboard>>

\* Down or Enter released in the search field: OnSearchFieldChange moves the
\* focus to the first row.
FocusFirst ==
  /\ focus = <<>> /\ phase = "keyup"
  /\ \E row \in NavNext(1) : focus' = Focused(row)
  /\ UNCHANGED <<page, keys, keyboard>>

\* The parent page searches again, at any time, because a timer it has left
\* running may fire at any time (SearchPanel).  The page that is replaced takes
\* the focus of its rows with it.
Load ==
  /\ search' \in Searches
  /\ displayed' = Search(search')
  /\ childrenShown' = {} /\ asked' = {}
  /\ open' = TRUE
  /\ focus' = <<>>
  /\ lastKey' = "none" /\ repeatOn' = FALSE
  /\ UNCHANGED keyboard

Keys == {"up", "down", "right", "left", "escape", "other"}

Next ==
  \/ \E type \in {"keydown", "keypress", "keyup"}, key \in Keys : KeyEvent(type, key)
  \/ \E e \in Rows : Click(e)
  \/ Enter \/ FocusFirst \/ Load

Spec == Init /\ [][Next]_vars

-----------------------------------------------------------------------------
(* Rows, positions and keys are existing ones.                             *)
TypeOK ==
  /\ displayed \subseteq Rows /\ childrenShown \subseteq Rows /\ asked \subseteq Rows
  /\ focus = <<>> \/ Exists(focus)
  /\ lastKey \in Keys \cup {"none"} /\ repeatOn \in BOOLEAN /\ open \in BOOLEAN
  /\ held \in Keys \cup {"none"} /\ phase \in {"keydown", "keypress", "keyup"}

\* The rows on the page are those whose name begins with the word searched
\* for, in whatever case: comparing encoded ids instead of names confuses no
\* character with the encoding of another one.
RowsByName ==
  displayed = {e \in Rows : IsPrefix(ToLowerCase(Stripped(search)),
                                     ToLowerCase(Entries[e].name))}

\* The focus is never on something that is not displayed: no collapse, key
\* or click leaves it on a child that has been hidden.
FocusOnDisplayed == Visible(focus)

\* Down and then Up lead back, over rows and over shown and hidden children.
UpUndoesDown ==
  focus # <<>> /\ Down(focus) # focus => Up(Down(focus)) = focus

\* A press of a key moves the focus once: the keypress that follows a
\* keydown is ignored, also by the element that has got the focus from it.
OneStepPerKeydown == [][phase = "keydown" /\ phase' = "keypress" => UNCHANGED focus]_vars

\* What is toggled is what was clicked: the children displayed are those the
\* user has asked for, if no other row has the row's id (of a class and its
\* constructors, the second row never opens).
ChildrenAsAsked ==
  \A e \in Rows :
    (\A i \in Rows : Entries[i].id = Entries[e].id => i = e)
      => (e \in childrenShown <=> e \in asked)
=============================================================================
