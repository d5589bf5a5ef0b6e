SPECIFICATION Spec
CONSTANTS
  Entries <- SortedRows
  Searches <- SomeSearches
INVARIANTS
  RowsByName
  FocusOnDisplayed
  UpUndoesDown
  ChildrenAsAsked
PROPERTIES
  OneStepPerKeydown
CHECK_DEADLOCK FALSE
