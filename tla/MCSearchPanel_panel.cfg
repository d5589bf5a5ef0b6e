CONSTANTS
  Label = "Search"
  Words <- SomeWords
  Trimmed <- WithoutLeadingSpaces
  Squeezed <- WithoutSpaces
  indexSectionsWithContent <- TwoSections
  MaxLeftRunning = 1
SPECIFICATION Spec
INVARIANTS
  TypeOK
  LastValueIsShown
  InactiveIsReset
  NotHiddenUnderMouse
