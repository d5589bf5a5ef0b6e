----------------------------- MODULE SearchPanel -----------------------------
(***************************************************************************)
(* The search panel on the pages of the documentation in src/html          *)
(* (search.js, class SearchBox, wired up in every page as in index.html):  *)
(* the search field, the menu of sections, the window with the results,    *)
(* and the two timers, of which one starts a search some time after the    *)
(* last key and one hides the menu some time after the mouse has left it.  *)
(* ResultsPage is the page in the window.                                  *)
(*                                                                         *)
(* Handlers call each other: focus () and blur () run the field's focus    *)
(* handler at once.  What they share is the record panel, which the        *)
(* operators below map to its next value.                                  *)
(***************************************************************************)
EXTENDS Integers, FiniteSets

CONSTANTS
  Words,       \* what the field may hold
  Label,       \* the word it holds when nobody searches: searchLabel
  Trimmed,     \* a word without its leading spaces
  Squeezed,    \* a word without any spaces
  indexSectionsWithContent,  \* the words each section has a page for
  MaxLeftRunning  \* bound on the search timers nobody can stop any more

EmptyWord == ""
Sections == DOMAIN indexSectionsWithContent

ASSUME PanelAssumption ==
  /\ {Label, EmptyWord} \subseteq Words
  /\ Trimmed \in [Words -> Words]
  /\ DOMAIN Squeezed = Words
  /\ IsFiniteSet(Sections) /\ Sections = 0 .. Cardinality(Sections) - 1
  /\ 0 \in Sections  \* "All"
  \* indexOf of the empty string is 0: the empty word has every first page
  /\ \A s \in Sections : EmptyWord \in indexSectionsWithContent[s]
  /\ MaxLeftRunning \in Nat

VARIABLES
  panel,         \* see Init
  searchIndex,   \* the number of the section selected in the menu
  marked,        \* the items of the menu with a bullet
  menu,          \* MSearchSelectWindow is displayed
  over,          \* external: the mouse is over the menu or its icon
  keyTimeout,    \* the timer of a search that keyTimeout refers to runs
  leftRunning,   \* timers of searches that run without being referred to
  hideTimeout,   \* the timer hideTimeout refers to: "none", "runs", "fired"
  held           \* external: the special key held down

timers == <<keyTimeout, leftRunning, hideTimeout>>
vars == <<panel, searchIndex, marked, menu, over, timers, held>>

Nothing == [section |-> 0, found |-> FALSE, word |-> EmptyWord]

Init ==
  /\ panel = [value |-> Label,       \* of MSearchField
              focus |-> "elsewhere", \* external
              active |-> FALSE,      \* the class of MSearchBox
              searchActive |-> FALSE,
              results |-> FALSE,     \* MSearchResultsWindow is displayed
              close |-> FALSE,       \* MSearchClose is displayed
              shown |-> Nothing,     \* the location of MSearchResults
              lastSearchValue |-> EmptyWord]
  \* OnSelectItem (0) when the document is ready
  /\ searchIndex = 0 /\ marked = {0}
  /\ menu = FALSE /\ over = FALSE
  /\ keyTimeout = FALSE /\ leftRunning = 0 /\ hideTimeout = "none"
  /\ held = "none"

-----------------------------------------------------------------------------
(* Activate, and the focus handlers that call it.                          *)

\* Faulty: the field keeps its word.
ActivateKeepingWord(p, isActive) ==
  IF isActive \/ p.results
  THEN [p EXCEPT !.active = TRUE,
                 !.value = IF @ = Label THEN EmptyWord ELSE @,
                 !.searchActive = @ \/ p.value = Label]
  ELSE [p EXCEPT !.active = FALSE, !.searchActive = FALSE,
                 !.lastSearchValue = EmptyWord]

Activate(p, isActive) ==
  IF isActive \/ p.results
  THEN [p EXCEPT !.active = TRUE,
                 !.value = IF @ = Label THEN EmptyWord ELSE @,
                 !.searchActive = @ \/ p.value = Label]
  ELSE [p EXCEPT !.active = FALSE, !.value = Label, !.searchActive = FALSE,
                 !.lastSearchValue = EmptyWord]

\* The focus goes to another element: OnSearchFieldFocus.
FocusOn(p, element) ==
  LET q == [p EXCEPT !.focus = element]
  IN  IF element = p.focus THEN p
      ELSE IF element = "field" THEN Activate(q, TRUE)
      ELSE IF p.focus = "field" THEN Activate(q, FALSE) ELSE q

\* external: what is hidden loses the focus.
HideResults(p) ==
  [p EXCEPT !.results = FALSE, !.close = FALSE,
            !.focus = IF @ = "results" THEN "elsewhere" ELSE @]

CloseResultsWindow(p) == Activate(HideResults(p), FALSE)

-----------------------------------------------------------------------------
(* Search.  searchIndex may be that of no section: the look-up throws, and *)
(* what is left of the handler is not executed.                            *)

Throws(index) == index \notin Sections

\* Faulty: the word searched for is remembered without its spaces.
SearchSqueezed(p, index) ==
  LET word == Trimmed[p.value]
      found == word \in indexSectionsWithContent[index]
  IN  IF Throws(index) THEN p
      ELSE [p EXCEPT !.shown = [section |-> index, found |-> found, word |-> word],
                     !.results = TRUE,
                     !.close = IF p.results THEN @ ELSE TRUE,
                     !.lastSearchValue = Squeezed[p.value]]

Search(p, index) ==
  LET word == Trimmed[p.value]
      found == word \in indexSectionsWithContent[index]
  IN  IF Throws(index) THEN p
      ELSE [p EXCEPT !.shown = [section |-> index, found |-> found, word |-> word],
                     !.results = TRUE,
                     !.close = IF p.results THEN @ ELSE TRUE,
                     !.lastSearchValue = word]

\* Search sets keyTimeout to 0 and does not stop the timer.
ForgetKeyTimeout ==
  /\ keyTimeout' = FALSE
  /\ leftRunning' = IF keyTimeout THEN leftRunning + 1 ELSE leftRunning
  /\ leftRunning' <= MaxLeftRunning

StopKeyTimeout == keyTimeout' = FALSE /\ UNCHANGED leftRunning

-----------------------------------------------------------------------------
(* The menu. *)

\* Faulty: the timer that hides the menu is not stopped.
OnSearchSelectShowOnly == menu' = TRUE /\ UNCHANGED hideTimeout

OnSearchSelectShow == menu' = TRUE /\ hideTimeout' = "none"

\* SelectItemSet, and the search of OnSelectItem if there is a word.
SelectItemSet(id) == searchIndex' = id /\ marked' = {id} \cap Sections

SearchesAgain(p) == Squeezed[p.value] # EmptyWord /\ p.searchActive

OnSelectItem(p, id) ==
  /\ SelectItemSet(id)
  /\ IF SearchesAgain(p) THEN panel' = Search(p, id) /\ ForgetKeyTimeout
     ELSE panel' = p /\ UNCHANGED <<keyTimeout, leftRunning>>

SelectItemCount == Cardinality(Sections)

\* Faulty: Down is not guarded.
SelectNeighbourUnguarded(key) ==
  /\ \/ key = "down" /\ OnSelectItem(panel, searchIndex + 1)
     \/ key = "up" /\ searchIndex > 0 /\ OnSelectItem(panel, searchIndex - 1)
  /\ UNCHANGED <<menu, hideTimeout>>

\* Down and Up
SelectNeighbour(key) ==
  /\ CASE key = "down" /\ searchIndex < SelectItemCount ->
            OnSelectItem(panel, searchIndex + 1)
       [] key = "up" /\ searchIndex > 0 ->
            OnSelectItem(panel, searchIndex - 1)
       [] OTHER -> UNCHANGED <<panel, searchIndex, marked, keyTimeout, leftRunning>>
  /\ UNCHANGED <<menu, hideTimeout>>

\* Enter and Escape: the selection is confirmed, the menu closed, and the
\* field gets the focus, unless the search throws.
ConfirmSelection ==
  /\ SelectItemSet(searchIndex)
  /\ IF SearchesAgain(panel)
     THEN /\ ForgetKeyTimeout
          /\ panel' = IF Throws(searchIndex) THEN panel
                      ELSE FocusOn(Search(panel, searchIndex), "field")
     ELSE /\ panel' = FocusOn(panel, "field")
          /\ UNCHANGED <<keyTimeout, leftRunning>>
  /\ menu' = (menu /\ SearchesAgain(panel) /\ Throws(searchIndex))
  /\ UNCHANGED hideTimeout

-----------------------------------------------------------------------------
(* OnSearchFieldChange: a key has been released in the field.              *)

\* Shift and Down or Enter: to the menu.
ToMenu ==
  /\ StopKeyTimeout
  /\ OnSearchSelectShow
  /\ panel' = FocusOn(panel, "menu")
  /\ UNCHANGED <<searchIndex, marked>>

LeaveField ==
  /\ StopKeyTimeout
  /\ panel' = CloseResultsWindow([FocusOn(panel, "elsewhere")
                                    EXCEPT !.lastSearchValue = EmptyWord])
  /\ UNCHANGED <<searchIndex, marked, menu, hideTimeout>>

\* The timer is stopped and, if the word has changed, started again.
CompareWord(p) ==
  LET word == Squeezed[p.value]
      changed == word # p.lastSearchValue
  IN  /\ keyTimeout' = (changed /\ word # EmptyWord)
      /\ panel' = IF changed /\ word = EmptyWord
                  THEN [HideResults(p) EXCEPT !.lastSearchValue = EmptyWord] ELSE p
      /\ UNCHANGED <<searchIndex, marked, menu, hideTimeout, leftRunning>>

\* Down or Enter: to the first row of the results, if there is one.
ToResults ==
  \/ panel.shown.found /\ panel.results /\ CompareWord(FocusOn(panel, "results"))
  \/ CompareWord(panel)

-----------------------------------------------------------------------------
(* What the user does. *)

NoKeyHeld == held = "none" /\ UNCHANGED held

Type(word) ==
  /\ panel.focus = "field" /\ NoKeyHeld
  /\ CompareWord([panel EXCEPT !.value = word])
  /\ UNCHANGED over

\* Cutting, pasting or dropping with the mouse releases no key.
EditByMouse(word) ==
  /\ panel.focus = "field" /\ NoKeyHeld
  /\ panel' = [panel EXCEPT !.value = word]
  /\ UNCHANGED <<searchIndex, marked, menu, over, timers>>

\* A key acts where it is pressed in the menu and the results, and where it
\* is released in the field: between the two, the focus may have moved.
PressKey(key) ==
  /\ held = "none" /\ held' = key
  /\ \/ panel.focus = "menu" /\ key \in {"down", "up"} /\ SelectNeighbour(key)
     \/ panel.focus = "menu" /\ key \in {"enter", "escape"} /\ ConfirmSelection
     \/ /\ panel.focus = "results" /\ key \in {"escape", "up"}
        /\ panel' = FocusOn(IF key = "escape" THEN CloseResultsWindow(panel) ELSE panel,
                            "field")
        /\ UNCHANGED <<searchIndex, marked, menu, timers>>
     \/ /\ panel.focus = "field"
        /\ UNCHANGED <<panel, searchIndex, marked, menu, timers>>
  /\ UNCHANGED over

ReleaseKey ==
  /\ held # "none" /\ held' = "none"
  /\ \/ panel.focus # "field" /\ UNCHANGED <<panel, searchIndex, marked, menu, timers>>
     \/ /\ panel.focus = "field"
        /\ \/ held \in {"down", "enter"} /\ (ToMenu \/ ToResults)
           \/ held = "escape" /\ LeaveField
           \/ held = "up" /\ CompareWord(panel)
  /\ UNCHANGED over

Click(element) ==
  /\ NoKeyHeld
  /\ element = "results" => panel.results
  /\ panel' = FocusOn(panel, element)
  /\ UNCHANGED <<searchIndex, marked, menu, over, timers>>

ClickClose ==
  /\ panel.close /\ NoKeyHeld
  /\ panel' = CloseResultsWindow(FocusOn(panel, "elsewhere"))
  /\ UNCHANGED <<searchIndex, marked, menu, over, timers>>

ClickItem(id) ==
  /\ menu /\ over /\ NoKeyHeld
  /\ OnSelectItem(FocusOn(panel, "menu"), id)
  /\ UNCHANGED <<menu, over, hideTimeout>>

MouseOver ==
  /\ ~over /\ over' = TRUE
  /\ OnSearchSelectShow
  /\ UNCHANGED <<panel, searchIndex, marked, keyTimeout, leftRunning, held>>

\* OnSearchSelectHide
MouseOut ==
  /\ over /\ over' = FALSE
  /\ hideTimeout' = "runs"
  /\ UNCHANGED <<panel, searchIndex, marked, menu, keyTimeout, leftRunning, held>>

-----------------------------------------------------------------------------
(* The timers. *)

KeyTimerFires ==
  /\ keyTimeout
  /\ keyTimeout' = FALSE
  /\ panel' = Search(panel, searchIndex)
  /\ UNCHANGED <<searchIndex, marked, menu, over, leftRunning, hideTimeout, held>>

\* The one that keyTimeout refers to takes its place.
LeftTimerFires ==
  /\ leftRunning > 0
  /\ leftRunning' = IF keyTimeout THEN leftRunning ELSE leftRunning - 1
  /\ keyTimeout' = FALSE
  /\ panel' = Search(panel, searchIndex)
  /\ UNCHANGED <<searchIndex, marked, menu, over, hideTimeout, held>>

\* CloseSelectionWindow; hideTimeout is not reset.
HideTimerFires ==
  /\ hideTimeout = "runs"
  /\ hideTimeout' = "fired" /\ menu' = FALSE
  /\ panel' = IF panel.focus = "menu" THEN FocusOn(panel, "elsewhere") ELSE panel
  /\ UNCHANGED <<searchIndex, marked, over, keyTimeout, leftRunning, held>>

Next ==
  \/ \E word \in Words : Type(word) \/ EditByMouse(word)
  \/ \E key \in {"down", "up", "enter", "escape"} : PressKey(key)
  \/ ReleaseKey
  \/ \E element \in {"field", "results", "elsewhere"} : Click(element)
  \/ ClickClose
  \/ \E id \in Sections : ClickItem(id)
  \/ MouseOver \/ MouseOut
  \/ KeyTimerFires \/ LeftTimerFires \/ HideTimerFires

Spec == Init /\ [][Next]_vars

-----------------------------------------------------------------------------
(* The field holds words; the section is one of the menu's or the one      *)
(* behind the last; the timers are within their bounds.                    *)
TypeOK ==
  /\ panel.value \in Words
  /\ panel.focus \in {"field", "menu", "results", "elsewhere"}
  /\ {panel.active, panel.searchActive, panel.results, panel.close} \subseteq BOOLEAN
  /\ searchIndex \in 0 .. SelectItemCount /\ marked \subseteq Sections
  /\ {menu, over, keyTimeout} \subseteq BOOLEAN
  /\ leftRunning \in 0 .. MaxLeftRunning
  /\ hideTimeout \in {"none", "runs", "fired"}

\* While results are displayed, the word a change is measured against is the
\* one they are for: otherwise a change would go unnoticed.
LastValueIsShown == panel.results => panel.lastSearchValue = panel.shown.word

\* An inactive panel shows its label and waits: no handler, however focus
\* and blur nest, leaves a word, the focus or searchActive set in it.  (A
\* timer that was left running may still open results.)
InactiveIsReset ==
  ~panel.active => /\ panel.value = Label /\ ~panel.searchActive
                   /\ panel.focus # "field"

\* The menu is not about to disappear under the mouse.
NotHiddenUnderMouse == over => hideTimeout # "runs"
=============================================================================
