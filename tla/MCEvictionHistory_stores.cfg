SPECIFICATION HistorySpec
CONSTANTS
  n1 = n1
  n2 = n2
  n3 = n3
  n4 = n4
  r1 = r1
  r2 = r2
  Names = {n1, n2, n3}
  Routers = {r1, r2}
  Policy = "LFU"
  CacheSize = 2
  FreshnessTime = 1
  Ttls = {64}
  MaxTime = 1
  MaxFrequency = 3
  UintRange = 1048576
  ToFloat <- TwoBitFloat
SYMMETRY Symmetry
INVARIANTS
  TypeOK
  DirectoryMirrorsCaches
  ContainersAgree
  IndexIsCurrent
  AdmissionIsDeserved
PROPERTIES
  ImplementsDirectory
  EvictionFollowsPolicy
  FreshContentKept
  GrowthIsForced
