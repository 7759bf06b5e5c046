SPECIFICATION Spec
CONSTANTS
  MaxByte = 3
  Separator <- OneByte
  Streams <- SomeStreams
PROPERTY
  LargeEnough
CHECK_DEADLOCK FALSE
