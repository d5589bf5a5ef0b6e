SPECIFICATION HistorySpec
CONSTANTS
  n1 = n1
  n2 = n2
  n3 = n3
  n4 = n4
  r1 = r1
  r2 = r2
  Names = {n1, n2, n3, n4}
  Routers = {r1}
  Policy = "LRU"
  CacheSize = 3
  FreshnessTime = 0
  Ttls = {64}
  MaxTime = 6
  MaxFrequency = 1
  UintRange = 1048576
  ToFloat <- TwoBitFloat
SYMMETRY Symmetry
PROPERTIES
  EvictionFollowsPolicy
