SPECIFICATION FairSpec
CONSTANTS
  q1 = q1
  q2 = q2
  q3 = q3
  Requests = {q1, q2, q3}
  Location <- Everywhere
INVARIANTS
  LogsTellTruth
  NoMessageCached
PROPERTIES
  EveryRequestResolved
CHECK_DEADLOCK FALSE
