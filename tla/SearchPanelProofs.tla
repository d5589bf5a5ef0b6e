--------------------------- MODULE SearchPanelProofs ---------------------------
(***************************************************************************)
(* Theorems about SearchPanel, for any words and any menu.                 *)
(*                                                                         *)
(* The handlers share one record and call each other, so the proof goes by *)
(* the operators they are made of: PanelGood says what is true of the      *)
(* record between handlers, and each operator leaves it true.  Two of them *)
(* may do without part of it: Activate (FALSE) resets what it finds, and   *)
(* FocusOn undoes what a focus on the field would violate.                 *)
(***************************************************************************)
EXTENDS SearchPanel, FiniteSetTheorems, TLAPS

Panels ==
  [value : Words, focus : {"field", "menu", "results", "elsewhere"},
   active : BOOLEAN, searchActive : BOOLEAN, results : BOOLEAN, close : BOOLEAN,
   shown : [section : Sections \cup {0}, found : BOOLEAN, word : Words],
   lastSearchValue : Words]

\* Results, close button and the word of the last search go together.
ResultsGood(p) ==
  /\ p.close <=> p.results
  /\ p.results => p.lastSearchValue = p.shown.word

\* An inactive panel is reset, whatever has the focus.
Reset(p) == ~p.active => p.value = Label /\ ~p.searchActive

PanelGood(p) ==
  /\ p \in Panels
  /\ ResultsGood(p)
  /\ Reset(p)
  /\ ~p.active => p.focus # "field"

-----------------------------------------------------------------------------
(* The operators on the record. *)

LEMMA WordsThere == {Label, EmptyWord} \subseteq Words /\ Trimmed \in [Words -> Words]
BY PanelAssumption

\* Activate leaves the panel reset or active, and does not touch the focus.
LEMMA ActivateGood ==
  ASSUME NEW p \in Panels, ResultsGood(p), NEW isActive \in BOOLEAN
  PROVE  LET q == Activate(p, isActive)
         IN  /\ q \in Panels /\ ResultsGood(q) /\ Reset(q)
             /\ q.focus = p.focus /\ q.results = p.results
             /\ isActive => q.active
<1>1. CASE isActive \/ p.results
  BY <1>1, WordsThere DEF Activate, Panels, ResultsGood, Reset
<1>2. CASE ~(isActive \/ p.results)
  BY <1>2, WordsThere DEF Activate, Panels, ResultsGood, Reset
<1> QED
  BY <1>1, <1>2

\* Moving the focus keeps the panel good, to the field and away from it.
LEMMA FocusOnGood ==
  ASSUME NEW p, PanelGood(p), NEW element \in {"field", "menu", "results", "elsewhere"}
  PROVE  PanelGood(FocusOn(p, element)) /\ FocusOn(p, element).focus = element
<1> DEFINE q == [p EXCEPT !.focus = element]
<1>1. /\ q \in Panels /\ ResultsGood(q) /\ Reset(q)
      /\ q.focus = element /\ q.active = p.active
  BY DEF PanelGood, Panels, ResultsGood, Reset
<1>2. CASE element = p.focus
  BY <1>2 DEF FocusOn
<1>3. CASE element # p.focus /\ element = "field"
  BY <1>1, <1>3, ActivateGood DEF FocusOn, PanelGood
<1>4. CASE element # p.focus /\ element # "field" /\ p.focus = "field"
  BY <1>1, <1>4, ActivateGood DEF FocusOn, PanelGood
<1>5. CASE element # p.focus /\ element # "field" /\ p.focus # "field"
  BY <1>1, <1>5 DEF FocusOn, PanelGood
<1> QED
  BY <1>2, <1>3, <1>4, <1>5

\* Without results there is nothing left to agree with.
LEMMA HideResultsGood ==
  ASSUME NEW p, PanelGood(p)
  PROVE  /\ PanelGood(HideResults(p)) /\ ~HideResults(p).results
         /\ p.focus # "field" => HideResults(p).focus # "field"
BY DEF PanelGood, Panels, ResultsGood, Reset, HideResults

\* The word of the last search may be forgotten if no results remain.
LEMMA ForgetWordGood ==
  ASSUME NEW p, PanelGood(p), ~p.results
  PROVE  PanelGood([p EXCEPT !.lastSearchValue = EmptyWord])
BY WordsThere DEF PanelGood, Panels, ResultsGood, Reset

LEMMA CloseResultsWindowGood ==
  ASSUME NEW p, PanelGood(p), p.focus # "field"
  PROVE  PanelGood(CloseResultsWindow(p)) /\ CloseResultsWindow(p).focus # "field"
<1>1. /\ HideResults(p) \in Panels /\ ResultsGood(HideResults(p))
      /\ HideResults(p).focus # "field"
  BY HideResultsGood DEF PanelGood
<1> QED
  BY <1>1, ActivateGood DEF CloseResultsWindow, PanelGood

\* A search changes the results and the word they are for, and nothing else.
LEMMA SearchGood ==
  ASSUME NEW p, PanelGood(p), NEW index
  PROVE  PanelGood(Search(p, index))
<1>1. CASE Throws(index)
  BY <1>1 DEF Search
<1>2. CASE ~Throws(index)
  <2> DEFINE word == Trimmed[p.value]
             found == word \in indexSectionsWithContent[index]
             page == [section |-> index, found |-> found, word |-> word]
  <2>1. word \in Words /\ index \in Sections
    BY <1>2, WordsThere DEF PanelGood, Panels, Throws
  <2>2. page \in [section : Sections \cup {0}, found : BOOLEAN, word : Words]
    BY <2>1
  <2>3. Search(p, index) = [p EXCEPT !.shown = page,
                                     !.results = TRUE,
                                     !.close = IF p.results THEN @ ELSE TRUE,
                                     !.lastSearchValue = word]
    BY <1>2 DEF Search
  <2>4. page.word = word
    OBVIOUS
  <2> HIDE DEF page, word
  <2> DEFINE q == Search(p, index)
  <2>5. /\ q.value = p.value /\ q.focus = p.focus
        /\ q.active = p.active /\ q.searchActive = p.searchActive
        /\ q.shown = page /\ q.results = TRUE /\ q.lastSearchValue = word
        /\ q.close = IF p.results THEN p.close ELSE TRUE
    BY <2>3 DEF PanelGood, Panels
  <2>6. p.close <=> p.results
    BY DEF PanelGood, ResultsGood
  <2>7. q \in Panels
    BY <2>1, <2>2, <2>3 DEF PanelGood, Panels
  <2> HIDE DEF q
  <2>8. ResultsGood(q)
    BY <2>4, <2>5, <2>6 DEF ResultsGood
  <2>9. Reset(q) /\ (~q.active => q.focus # "field")
    BY <2>5 DEF PanelGood, Reset
  <2> QED
    BY <2>7, <2>8, <2>9 DEF PanelGood, q
<1> QED
  BY <1>1, <1>2

-----------------------------------------------------------------------------
(* The invariant: the panel, the menu, and the timers. *)

\* The section selected may be the one behind the last.
MenuGood ==
  /\ searchIndex \in Nat /\ searchIndex <= SelectItemCount
  /\ marked \subseteq Sections /\ menu \in BOOLEAN

TimersGood ==
  /\ keyTimeout \in BOOLEAN
  /\ leftRunning \in Nat /\ leftRunning <= MaxLeftRunning
  /\ hideTimeout \in {"none", "runs", "fired"}

PanelInv ==
  /\ PanelGood(panel)
  /\ MenuGood
  /\ TimersGood
  /\ over \in BOOLEAN /\ NotHiddenUnderMouse

LEMMA SectionsCounted ==
  /\ SelectItemCount \in Nat
  /\ Sections = 0 .. SelectItemCount - 1
  /\ 0 \in Sections
  /\ MaxLeftRunning \in Nat
<1>1. IsFiniteSet(Sections) /\ Sections = 0 .. Cardinality(Sections) - 1
      /\ 0 \in Sections /\ MaxLeftRunning \in Nat
  BY PanelAssumption
<1>2. Cardinality(Sections) \in Nat
  BY <1>1, FS_CardinalityType
<1> QED
  BY <1>1, <1>2 DEF SelectItemCount

\* Initially the field holds the label and the first section is selected.
LEMMA InitPanel == Init => PanelInv
<1> SUFFICES ASSUME Init PROVE PanelInv
  OBVIOUS
<1>1. PanelGood(panel)
  BY WordsThere DEF Init, Nothing, PanelGood, Panels, ResultsGood, Reset
<1>2. MenuGood
  <2>1. searchIndex \in Nat /\ searchIndex <= SelectItemCount /\ marked \subseteq Sections
    BY SectionsCounted DEF Init
  <2>2. menu \in BOOLEAN
    BY DEF Init
  <2> QED
    BY <2>1, <2>2 DEF MenuGood
<1>3. TimersGood
  <2>1. keyTimeout \in BOOLEAN /\ hideTimeout \in {"none", "runs", "fired"}
    BY DEF Init
  <2>2. leftRunning \in Nat /\ leftRunning <= MaxLeftRunning
    BY SectionsCounted DEF Init
  <2> QED
    BY <2>1, <2>2 DEF TimersGood
<1>4. over \in BOOLEAN /\ NotHiddenUnderMouse
  BY DEF Init, NotHiddenUnderMouse
<1> QED
  BY <1>1, <1>2, <1>3, <1>4 DEF PanelInv

-----------------------------------------------------------------------------
(* What the handlers are made of: each keeps its part of the invariant.    *)

\* A search that lets the timer run adds it to those nobody can stop.
LEMMA TimersForgotten ==
  ASSUME TimersGood, ForgetKeyTimeout, UNCHANGED hideTimeout
  PROVE  TimersGood'
<1>1. keyTimeout' \in BOOLEAN
  BY DEF ForgetKeyTimeout
<1>2. leftRunning' \in Nat /\ leftRunning' <= MaxLeftRunning
  BY DEF TimersGood, ForgetKeyTimeout
<1> QED
  BY <1>1, <1>2 DEF TimersGood

\* Selecting an item, a neighbour or the same, with the search it starts.
LEMMA SelectItemGood ==
  ASSUME PanelInv, NEW id \in Nat, id <= SelectItemCount, SelectItemSet(id),
         menu' \in BOOLEAN
  PROVE  MenuGood'
BY DEF SelectItemSet, MenuGood

LEMMA OnSelectItemGood ==
  ASSUME PanelInv, NEW p, PanelGood(p), NEW id \in Nat, id <= SelectItemCount,
         OnSelectItem(p, id), UNCHANGED <<menu, hideTimeout>>
  PROVE  PanelGood(panel') /\ MenuGood' /\ TimersGood'
<1>1. MenuGood'
  BY SelectItemGood DEF OnSelectItem, PanelInv, MenuGood
<1>2. CASE SearchesAgain(p)
  <2>1. panel' = Search(p, id) /\ ForgetKeyTimeout
    BY <1>2 DEF OnSelectItem
  <2>2. TimersGood'
    BY <2>1, TimersForgotten DEF PanelInv
  <2> QED
    BY <1>1, <2>1, <2>2, SearchGood
<1>3. CASE ~SearchesAgain(p)
  BY <1>1, <1>3 DEF OnSelectItem, PanelInv, TimersGood
<1> QED
  BY <1>2, <1>3

\* A change of the word starts the timer, or clears the results.
LEMMA CompareWordGood ==
  ASSUME PanelInv, NEW p, PanelGood(p), CompareWord(p)
  PROVE  PanelGood(panel') /\ MenuGood' /\ TimersGood' /\ UNCHANGED hideTimeout
<1>1. PanelGood(panel')
  BY HideResultsGood, ForgetWordGood DEF CompareWord
<1>2. MenuGood'
  BY DEF CompareWord, PanelInv, MenuGood
<1>3. TimersGood'
  <2>1. keyTimeout' \in BOOLEAN
    BY DEF CompareWord
  <2> QED
    BY <2>1 DEF CompareWord, PanelInv, TimersGood
<1> QED
  BY <1>1, <1>2, <1>3 DEF CompareWord

-----------------------------------------------------------------------------
(* The actions. *)

LEMMA TypeKeeps ==
  ASSUME PanelInv, NEW word \in Words, Type(word)
  PROVE  PanelInv'
<1> DEFINE p == [panel EXCEPT !.value = word]
<1>1. PanelGood(p)
  BY DEF Type, PanelInv, PanelGood, Panels, ResultsGood, Reset
<1>2. CompareWord(p) /\ UNCHANGED over
  BY DEF Type
<1> HIDE DEF p
<1>3. PanelGood(panel') /\ MenuGood' /\ TimersGood' /\ UNCHANGED hideTimeout
  BY <1>1, <1>2, CompareWordGood
<1> QED
  BY <1>2, <1>3 DEF PanelInv, NotHiddenUnderMouse

LEMMA EditByMouseKeeps ==
  ASSUME PanelInv, NEW word \in Words, EditByMouse(word)
  PROVE  PanelInv'
<1>1. PanelGood(panel')
  BY DEF EditByMouse, PanelInv, PanelGood, Panels, ResultsGood, Reset
<1> QED
  BY <1>1 DEF EditByMouse, PanelInv, timers, MenuGood, TimersGood, NotHiddenUnderMouse

\* Down goes at most one behind the last section, Up not below the first.
LEMMA SelectNeighbourGood ==
  ASSUME PanelInv, NEW key, SelectNeighbour(key)
  PROVE  PanelGood(panel') /\ MenuGood' /\ TimersGood' /\ UNCHANGED hideTimeout
<1>1. PanelGood(panel) /\ searchIndex \in Nat /\ SelectItemCount \in Nat
      /\ searchIndex <= SelectItemCount
  BY SectionsCounted DEF PanelInv, MenuGood
<1>2. UNCHANGED <<menu, hideTimeout>>
  BY DEF SelectNeighbour
<1>3. CASE key = "down" /\ searchIndex < SelectItemCount
  <2>1. OnSelectItem(panel, searchIndex + 1)
    BY <1>3 DEF SelectNeighbour
  <2>2. searchIndex + 1 \in Nat /\ searchIndex + 1 <= SelectItemCount
    BY <1>1, <1>3
  <2> QED
    BY <1>1, <1>2, <2>1, <2>2, OnSelectItemGood
<1>4. CASE key = "up" /\ searchIndex > 0
  <2>1. OnSelectItem(panel, searchIndex - 1)
    BY <1>4 DEF SelectNeighbour
  <2>2. searchIndex - 1 \in Nat /\ searchIndex - 1 <= SelectItemCount
    BY <1>1, <1>4
  <2> QED
    BY <1>1, <1>2, <2>1, <2>2, OnSelectItemGood
<1>5. CASE ~(key = "down" /\ searchIndex < SelectItemCount)
           /\ ~(key = "up" /\ searchIndex > 0)
  <2>1. UNCHANGED <<panel, searchIndex, marked, keyTimeout, leftRunning>>
    BY <1>5 DEF SelectNeighbour
  <2> QED
    BY <1>2, <2>1 DEF PanelInv, MenuGood, TimersGood
<1> QED
  BY <1>3, <1>4, <1>5

\* The selection stays; a search that throws leaves the panel as it was.
LEMMA ConfirmSelectionGood ==
  ASSUME PanelInv, ConfirmSelection
  PROVE  PanelGood(panel') /\ MenuGood' /\ TimersGood' /\ UNCHANGED hideTimeout
<1>1. PanelGood(panel) /\ PanelGood(Search(panel, searchIndex))
  BY SearchGood DEF PanelInv
<1>2. PanelGood(panel')
  BY <1>1, FocusOnGood DEF ConfirmSelection
<1>3. MenuGood'
  <2>1. menu' \in BOOLEAN
    BY DEF ConfirmSelection
  <2> QED
    BY <2>1, SelectItemGood DEF ConfirmSelection, PanelInv, MenuGood
<1>4. TimersGood'
  BY TimersForgotten DEF ConfirmSelection, PanelInv, TimersGood
<1> QED
  BY <1>2, <1>3, <1>4 DEF ConfirmSelection

LEMMA PressKeyKeeps ==
  ASSUME PanelInv, NEW key \in {"down", "up", "enter", "escape"}, PressKey(key)
  PROVE  PanelInv'
<1>1. UNCHANGED over
  BY DEF PressKey
<1>2. CASE SelectNeighbour(key) \/ ConfirmSelection
  <2>1. PanelGood(panel') /\ MenuGood' /\ TimersGood' /\ UNCHANGED hideTimeout
    BY <1>2, SelectNeighbourGood, ConfirmSelectionGood
  <2> QED
    BY <1>1, <2>1 DEF PanelInv, NotHiddenUnderMouse
<1>3. CASE /\ panel.focus = "results" /\ key \in {"escape", "up"}
           /\ panel' = FocusOn(IF key = "escape" THEN CloseResultsWindow(panel)
                               ELSE panel, "field")
           /\ UNCHANGED <<searchIndex, marked, menu, timers>>
  <2>1. PanelGood(panel) /\ PanelGood(CloseResultsWindow(panel))
    BY <1>3, CloseResultsWindowGood DEF PanelInv
  <2>2. PanelGood(panel')
    BY <1>3, <2>1, FocusOnGood
  <2> QED
    BY <1>1, <1>3, <2>2
       DEF PanelInv, timers, MenuGood, TimersGood, NotHiddenUnderMouse
<1>4. CASE UNCHANGED <<panel, searchIndex, marked, menu, timers>>
  BY <1>1, <1>4 DEF PanelInv, timers, MenuGood, TimersGood, NotHiddenUnderMouse
<1> QED
  BY <1>2, <1>3, <1>4 DEF PressKey

\* Escape: the focus goes first, then the word of the search, then the
\* results; in between, the results have no word they are for.
LEMMA LeaveFieldGood ==
  ASSUME PanelInv, LeaveField
  PROVE  PanelGood(panel') /\ MenuGood' /\ TimersGood' /\ UNCHANGED hideTimeout
<1> DEFINE p == FocusOn(panel, "elsewhere")
           q == HideResults([p EXCEPT !.lastSearchValue = EmptyWord])
<1>1. PanelGood(p) /\ p.focus = "elsewhere"
  BY FocusOnGood DEF PanelInv
<1>2. panel' = Activate(q, FALSE)
  BY DEF LeaveField, CloseResultsWindow
<1> HIDE DEF p
<1>3. q \in Panels /\ ResultsGood(q) /\ q.focus = "elsewhere"
  BY <1>1, WordsThere DEF PanelGood, Panels, ResultsGood, HideResults
<1> HIDE DEF q
<1>4. PanelGood(panel')
  BY <1>2, <1>3, ActivateGood DEF PanelGood
<1>5. TimersGood'
  <2>1. keyTimeout' \in BOOLEAN
    BY DEF LeaveField, StopKeyTimeout
  <2> QED
    BY <2>1 DEF LeaveField, StopKeyTimeout, PanelInv, TimersGood
<1> QED
  BY <1>4, <1>5 DEF LeaveField, PanelInv, MenuGood

\* The menu is shown and will not be hidden.
LEMMA ToMenuKeeps ==
  ASSUME PanelInv, ToMenu, UNCHANGED over
  PROVE  PanelInv'
<1>1. PanelGood(panel')
  BY FocusOnGood DEF ToMenu, PanelInv
<1>2. MenuGood'
  <2>1. menu' \in BOOLEAN
    BY DEF ToMenu, OnSearchSelectShow
  <2> QED
    BY <2>1 DEF ToMenu, PanelInv, MenuGood
<1>3. TimersGood'
  <2>1. keyTimeout' \in BOOLEAN /\ hideTimeout' = "none"
    BY DEF ToMenu, StopKeyTimeout, OnSearchSelectShow
  <2> QED
    BY <2>1 DEF ToMenu, StopKeyTimeout, PanelInv, TimersGood
<1> QED
  BY <1>1, <1>2, <1>3
     DEF ToMenu, OnSearchSelectShow, PanelInv, NotHiddenUnderMouse

LEMMA ReleaseKeyKeeps ==
  ASSUME PanelInv, ReleaseKey
  PROVE  PanelInv'
<1>1. UNCHANGED over
  BY DEF ReleaseKey
<1>2. CASE UNCHANGED <<panel, searchIndex, marked, menu, timers>>
  BY <1>1, <1>2 DEF PanelInv, timers, MenuGood, TimersGood, NotHiddenUnderMouse
<1>3. CASE ToMenu
  BY <1>1, <1>3, ToMenuKeeps
<1>4. CASE ToResults \/ LeaveField \/ CompareWord(panel)
  <2>1. PanelGood(panel) /\ PanelGood(FocusOn(panel, "results"))
    BY FocusOnGood DEF PanelInv
  <2>2. PanelGood(panel') /\ MenuGood' /\ TimersGood' /\ UNCHANGED hideTimeout
    BY <1>4, <2>1, LeaveFieldGood, CompareWordGood DEF ToResults
  <2> QED
    BY <1>1, <2>2 DEF PanelInv, NotHiddenUnderMouse
<1> QED
  BY <1>2, <1>3, <1>4 DEF ReleaseKey

LEMMA ClickKeeps ==
  ASSUME PanelInv, NEW element \in {"field", "results", "elsewhere"}, Click(element)
  PROVE  PanelInv'
<1>1. PanelGood(panel')
  BY FocusOnGood DEF Click, PanelInv
<1> QED
  BY <1>1 DEF Click, PanelInv, timers, MenuGood, TimersGood, NotHiddenUnderMouse

LEMMA ClickCloseKeeps ==
  ASSUME PanelInv, ClickClose
  PROVE  PanelInv'
<1>1. /\ PanelGood(FocusOn(panel, "elsewhere"))
      /\ FocusOn(panel, "elsewhere").focus # "field"
  BY FocusOnGood DEF PanelInv
<1>2. PanelGood(panel')
  BY <1>1, CloseResultsWindowGood DEF ClickClose
<1> QED
  BY <1>2 DEF ClickClose, PanelInv, timers, MenuGood, TimersGood, NotHiddenUnderMouse

LEMMA ClickItemKeeps ==
  ASSUME PanelInv, NEW id \in Sections, ClickItem(id)
  PROVE  PanelInv'
<1>1. id \in Nat /\ id <= SelectItemCount
  BY SectionsCounted
<1>2. PanelGood(FocusOn(panel, "menu"))
  BY FocusOnGood DEF PanelInv
<1>3. OnSelectItem(FocusOn(panel, "menu"), id) /\ UNCHANGED <<menu, over, hideTimeout>>
  BY DEF ClickItem
<1>4. PanelGood(panel') /\ MenuGood' /\ TimersGood'
  BY <1>1, <1>2, <1>3, OnSelectItemGood
<1> QED
  BY <1>3, <1>4 DEF PanelInv, NotHiddenUnderMouse

\* Only without the mouse over the menu does the timer to hide it start.
LEMMA MouseKeeps ==
  ASSUME PanelInv, MouseOver \/ MouseOut
  PROVE  PanelInv'
<1>1. PanelGood(panel')
  BY DEF MouseOver, MouseOut, PanelInv
<1>2. MenuGood'
  <2>1. menu' \in BOOLEAN
    BY DEF MouseOver, MouseOut, OnSearchSelectShow, PanelInv, MenuGood
  <2> QED
    BY <2>1 DEF MouseOver, MouseOut, PanelInv, MenuGood
<1>3. TimersGood'
  BY DEF MouseOver, MouseOut, OnSearchSelectShow, PanelInv, TimersGood
<1>4. over' \in BOOLEAN /\ NotHiddenUnderMouse'
  BY DEF MouseOver, MouseOut, OnSearchSelectShow, NotHiddenUnderMouse
<1> QED
  BY <1>1, <1>2, <1>3, <1>4 DEF PanelInv

\* Whichever timer fires, its search is of the word now in the field.
LEMMA KeyTimersKeep ==
  ASSUME PanelInv, KeyTimerFires \/ LeftTimerFires
  PROVE  PanelInv'
<1>1. PanelGood(panel')
  BY SearchGood DEF KeyTimerFires, LeftTimerFires, PanelInv
<1>2. TimersGood'
  <2>1. keyTimeout' \in BOOLEAN
    BY DEF KeyTimerFires, LeftTimerFires
  <2>2. leftRunning' \in Nat /\ leftRunning' <= MaxLeftRunning
    BY SectionsCounted DEF KeyTimerFires, LeftTimerFires, PanelInv, TimersGood
  <2> QED
    BY <2>1, <2>2 DEF KeyTimerFires, LeftTimerFires, PanelInv, TimersGood
<1>3. MenuGood'
  BY DEF KeyTimerFires, LeftTimerFires, PanelInv, MenuGood
<1> QED
  BY <1>1, <1>2, <1>3
     DEF KeyTimerFires, LeftTimerFires, PanelInv, NotHiddenUnderMouse

LEMMA HideTimerKeeps ==
  ASSUME PanelInv, HideTimerFires
  PROVE  PanelInv'
<1>1. PanelGood(panel')
  BY FocusOnGood DEF HideTimerFires, PanelInv
<1>2. MenuGood'
  <2>1. menu' \in BOOLEAN
    BY DEF HideTimerFires
  <2> QED
    BY <2>1 DEF HideTimerFires, PanelInv, MenuGood
<1>3. TimersGood'
  BY DEF HideTimerFires, PanelInv, TimersGood
<1> QED
  BY <1>1, <1>2, <1>3 DEF HideTimerFires, PanelInv, NotHiddenUnderMouse

-----------------------------------------------------------------------------
(* The theorems. *)

\* PanelInv holds in every state: each action keeps it.
THEOREM PanelInvariant == Spec => []PanelInv
<1>1. Init => PanelInv
  BY InitPanel
<1>2. PanelInv /\ [Next]_vars => PanelInv'
  <2> SUFFICES ASSUME PanelInv, [Next]_vars PROVE PanelInv'
    OBVIOUS
  <2>1. ASSUME NEW word \in Words, Type(word) \/ EditByMouse(word)
        PROVE  PanelInv'
    BY <2>1, TypeKeeps, EditByMouseKeeps
  <2>2. ASSUME NEW key \in {"down", "up", "enter", "escape"}, PressKey(key)
        PROVE  PanelInv'
    BY <2>2, PressKeyKeeps
  <2>3. CASE ReleaseKey
    BY <2>3, ReleaseKeyKeeps
  <2>4. ASSUME NEW element \in {"field", "results", "elsewhere"}, Click(element)
        PROVE  PanelInv'
    BY <2>4, ClickKeeps
  <2>5. CASE ClickClose
    BY <2>5, ClickCloseKeeps
  <2>6. ASSUME NEW id \in Sections, ClickItem(id)
        PROVE  PanelInv'
    BY <2>6, ClickItemKeeps
  <2>7. CASE MouseOver \/ MouseOut
    BY <2>7, MouseKeeps
  <2>8. CASE KeyTimerFires \/ LeftTimerFires \/ HideTimerFires
    BY <2>8, KeyTimersKeep, HideTimerKeeps
  <2>9. CASE UNCHANGED vars
    BY <2>9 DEF vars, timers, PanelInv, MenuGood, TimersGood, NotHiddenUnderMouse
  <2> QED
    BY <2>1, <2>2, <2>3, <2>4, <2>5, <2>6, <2>7, <2>8, <2>9 DEF Next
<1> QED
  BY <1>1, <1>2, PTL DEF Spec

\* The types, for any words and sections; in particular Down may select the
\* section behind the last and no further.
THEOREM TypeCorrect == Spec => []TypeOK
<1>1. PanelInv => TypeOK
  <2> SUFFICES ASSUME PanelInv PROVE TypeOK
    OBVIOUS
  <2>1. /\ panel.value \in Words
        /\ panel.focus \in {"field", "menu", "results", "elsewhere"}
    BY DEF PanelInv, PanelGood, Panels
  <2>2. {panel.active, panel.searchActive, panel.results, panel.close} \subseteq BOOLEAN
    BY DEF PanelInv, PanelGood, Panels
  <2>3. searchIndex \in 0 .. SelectItemCount /\ marked \subseteq Sections
    BY SectionsCounted DEF PanelInv, MenuGood
  <2>4. {menu, over, keyTimeout} \subseteq BOOLEAN
    BY DEF PanelInv, MenuGood, TimersGood
  <2>5. leftRunning \in 0 .. MaxLeftRunning /\ hideTimeout \in {"none", "runs", "fired"}
    BY SectionsCounted DEF PanelInv, TimersGood
  <2> QED
    BY <2>1, <2>2, <2>3, <2>4, <2>5 DEF TypeOK
<1> QED
  BY <1>1, PanelInvariant, PTL

\* The results displayed are those of the word a change is measured against:
\* every handler that forgets the word has hidden the results before it ends.
THEOREM LastValueShown == Spec => []LastValueIsShown
<1>1. PanelInv => LastValueIsShown
  BY DEF PanelInv, PanelGood, ResultsGood, LastValueIsShown
<1> QED
  BY <1>1, PanelInvariant, PTL

\* An inactive panel shows its label, waits, and has not got the focus.
THEOREM InactiveReset == Spec => []InactiveIsReset
<1>1. PanelInv => InactiveIsReset
  BY DEF PanelInv, PanelGood, Reset, InactiveIsReset
<1> QED
  BY <1>1, PanelInvariant, PTL

\* No timer is running towards hiding a menu that the mouse is over.
THEOREM MenuStaysUnderMouse == Spec => []NotHiddenUnderMouse
<1>1. PanelInv => NotHiddenUnderMouse
  BY DEF PanelInv
<1> QED
  BY <1>1, PanelInvariant, PTL
=============================================================================
