CONSTANTS
  s1 = s1
  seed1 = seed1
  Key = {k1, k2, k3, k4, k5}
  Value = {v1, v2}
  MAX_PTR_INDEX = 4
  Seed = {seed1}
  BLOOM_FILTER_SIZE = 1
  BLOOM_FILTER_HASH_FUNCTIONS_NUMBER = 1
  BloomHash <- OneBit
  ShardIndex = {s1}
  ShardOf <- OneShard
  STORAGE_HASH_TABLE_MAX_SIZE = 8
  CACHE_MAP_SIZE = 4
  AssertsEnabled = TRUE
SPECIFICATION Spec
SYMMETRY Symmetry
INVARIANTS
  RecordsExact

  
