SPECIFICATION Spec
CONSTANTS
  n1 = n1
  n2 = n2
  n3 = n3
  r1 = r1
  Names = {n1, n2, n3}
  Routers = {r1}
  Policy = "LFU"
  CacheSize = 2
  FreshnessTime = 1
  Ttls = {64}
  MaxTime = 2
  MaxFrequency = 2
  UintRange = 1048576
  ToFloat <- ExactFloat
SYMMETRY Symmetry
INVARIANTS
  CapacityRespected

