SPECIFICATION NetSpec
CONSTANTS
  n1 = n1
  n2 = n2
  n3 = n3
  ra = ra
  rb = rb
  c1 = c1
  c2 = c2
  s = s
  Names = {n1, n2, n3}
  Routers = {ra, rb}
  Clients = {c1, c2}
  Servers = {s}
  Manager = manager
  Registered <- MCRegistered
  Path <- MCPath
  Wanted <- AskBoth
  MaxPackets <- SendAll
  NonCachable = TRUE
  ReplyPortBound = TRUE
  Stoppable = {ra}
  Lossy = TRUE
  Policy = "FIFO"
  CacheSize = 1
  FreshnessTime = 0
  Ttls = {64}
  MaxTime = 0
  MaxFrequency = 4
  UintRange = 1048576
  ToFloat <- ExactFloat
INVARIANTS
  NetTypeOK
  RequestInOnePlace
  AckTellsTruth
  OneCopyPerReply
  CapacityRespected
  AstrayOnlyByEviction
PROPERTIES
  ImplementsService
CHECK_DEADLOCK FALSE
