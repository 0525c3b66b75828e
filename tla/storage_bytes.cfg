CONSTANTS
  Payload <- SomeBytes
  Offset <- AnyOffset
  MAX_FILE_SIZE = 4
  DeviceFails = TRUE
SPECIFICATION Spec
INVARIANTS
  TypeOK
  
  
