CONSTANTS
  Payload <- SomeBytes
  Offset <- AnyOffset
  MAX_FILE_SIZE = 4
  DeviceFails = FALSE
SPECIFICATION Spec
INVARIANT
  OkMeansDone
