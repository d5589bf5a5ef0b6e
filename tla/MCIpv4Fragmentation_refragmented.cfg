SPECIFICATION Spec
CONSTANTS
  d1 = d1
  d2 = d2
  Datagrams = {d1}
  Size <- OneOfEight
  Align = 2
  Mtu <- Narrowing
  MaxDuplicates = 0
INVARIANTS
  DeliveredAsSent
CHECK_DEADLOCK FALSE
