SPECIFICATION Spec
CONSTANTS
  Ranges <- AroundDigits
  Weight <- ZipfWeights
  MaxPackets = 3
INVARIANTS
  SocketWhenDue
  NamesTellContents
  DrawnByWeight
CHECK_DEADLOCK FALSE
