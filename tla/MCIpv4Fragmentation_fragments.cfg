SPECIFICATION FairSpec
CONSTANTS
  d1 = d1
  d2 = d2
  Datagrams = {d1, d2}
  Size <- SixAndFour
  Align = 2
  Mtu <- TwoRoutes
  MaxDuplicates = 1
INVARIANTS
  TimerPerBuffer
  DeliveredAsSent
  CompleteIsDelivered
  PartialIsPrefix
  OneFate
PROPERTIES
  DatagramAccountedFor
CHECK_DEADLOCK FALSE
