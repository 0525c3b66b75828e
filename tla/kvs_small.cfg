CONSTANTS
  k1 = k1
  k2 = k2
  k3 = k3
  k4 = k4
  k5 = k5
  s1 = s1
  s2 = s2
  seed1 = seed1
  seed2 = seed2
  Key = {k1, k2, k3, k4}
  Value = {v1, v2}
  MAX_PTR_INDEX = 3
  Seed = {seed1}
  BLOOM_FILTER_SIZE = 1
  BLOOM_FILTER_HASH_FUNCTIONS_NUMBER = 1
  BloomHash <- OneBit
  ShardIndex = {s1, s2}
  ShardOf <- ThreeAndOne
  STORAGE_HASH_TABLE_MAX_SIZE = 6
  CACHE_MAP_SIZE = 4
  AssertsEnabled = TRUE
SPECIFICATION Spec
INVARIANTS
  TypeOK
  CacheCoherent
  RecordsExact
  AliveCountExact
  AssertsHold
PROPERTIES
  
  RebuildCompacts
  CallReturns
