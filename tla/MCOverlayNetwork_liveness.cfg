SPECIFICATION FairNetSpec
CONSTANTS
  n1 = n1
  n2 = n2
  n3 = n3
  ra = ra
  rb = rb
  c1 = c1
  c2 = c2
  s = s
  Names = {n1, n2, n3}
  Routers = {ra, rb}
  Clients = {c1, c2}
  Servers = {s}
  Manager = manager
  Registered <- MCRegistered
  Path <- MCPath
  Wanted <- AskBoth
  MaxPackets <- SendAll
  NonCachable = FALSE
  ReplyPortBound = TRUE
  Stoppable = {}
  Lossy = FALSE
  Policy = "SUC"
  CacheSize = 1
  FreshnessTime = 2
  Ttls = {128}
  MaxTime = 1
  MaxFrequency = 4
  UintRange = 1048576
  ToFloat <- ExactFloat
INVARIANTS
  IndexInHopBand
PROPERTIES
  EveryRequestAnswered
CHECK_DEADLOCK FALSE
