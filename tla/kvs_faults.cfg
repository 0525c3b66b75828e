CONSTANTS
  k1 = k1
  k2 = k2
  k3 = k3
  v1 = v1
  v2 = v2
  v3 = v3
  s1 = s1
  s2 = s2
  seed1 = seed1
  Key = {k1, k2, k3}
  Value = {v1, v2, v3}
  Owner <- OwnerOfValue
  MAX_PTR_INDEX = 2
  Seed = {seed1}
  BLOOM_FILTER_SIZE = 1
  BLOOM_FILTER_HASH_FUNCTIONS_NUMBER = 1
  BloomHash <- OneBit
  ShardIndex = {s1}
  ShardOf <- OneShard
  STORAGE_HASH_TABLE_MAX_SIZE = 4
  CACHE_MAP_SIZE = 2
  AssertsEnabled = TRUE
  MAX_FAILURES = 3
SPECIFICATION FaultsSpec
INVARIANTS
  FaultsTypeOK
  RecordsOwned
  
  
  FilterComplete
  

  
SYMMETRY KeySymmetry
