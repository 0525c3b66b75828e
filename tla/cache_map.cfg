CONSTANTS
  k1 = k1
  k2 = k2
  k3 = k3
  k4 = k4
  k5 = k5
  k6 = k6
  Key = {k1, k2, k3, k4, k5, k6}
  Value = {v1}
  MAX_PTR_INDEX = 1
  HashOf <- Colliding
  DefaultKey = k4
  CACHE_MAP_SIZE = 7
  OfferedPtr <- PresentOnly
SPECIFICATION Spec
INVARIANTS
  TypeOK
  ProbeChainsIntact
  UsedSizeExact
  ProbesEnd
PROPERTIES
  ImplementsCacheTable
  LostEntriesAreReturned
