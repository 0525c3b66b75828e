CONSTANTS
  k1 = k1
  k2 = k2
  k3 = k3
  k4 = k4
  k5 = k5
  Key = {k1, k2, k3, k4, k5}
  Value = {v1}
  MAX_PTR_INDEX = 120
  VALUE_SIZE = 2048
  HashOf <- Colliding
  DefaultKey = k3
  STORAGE_HASH_TABLE_INITIAL_SIZE = 3
  STORAGE_HASH_TABLE_MAX_SIZE = 6
  KeyAsSize <- KeyBytes
  SIZE_T_MAX = 65535
  OfferedOffset <- LastOnly
  WritesMayFail = FALSE
SPECIFICATION Spec
INVARIANT
  OverflowIsReported
