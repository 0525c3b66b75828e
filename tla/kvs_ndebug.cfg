CONSTANTS
  k1 = k1
  k2 = k2
  k3 = k3
  k4 = k4
  k5 = k5
  s1 = s1
  s2 = s2
  seed1 = seed1
  seed2 = seed2
  Key = {k1, k2, k3, k4, k5}
  Value = {v1}
  MAX_PTR_INDEX = 2
  Seed = {seed1, seed2}
  BLOOM_FILTER_SIZE = 2
  BLOOM_FILTER_HASH_FUNCTIONS_NUMBER = 1
  BloomHash <- TwoSeeds
  ShardIndex = {s1, s2}
  ShardOf <- FourAndOne
  STORAGE_HASH_TABLE_MAX_SIZE = 5
  CACHE_MAP_SIZE = 4
  AssertsEnabled = FALSE
SPECIFICATION Spec
INVARIANTS
  CacheCoherent
  RecordsExact
  FilterComplete
  
  PtrIndexInBounds
PROPERTY CallAdvances
CONSTRAINT NotWrapped
