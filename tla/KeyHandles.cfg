SPECIFICATION Spec
CONSTANTS
  MaxByte = 11
  InitData = 1
  ContData = 2
  HashLen = 1
  Separator <- OneByte
  Parts <- SomeParts
  Hashes <- SomeHashes
  Status <- NoError
INVARIANTS
  KeyIsTheRegistered
  KeyComesBack
  ResponseArrives
  MessageMeansWhatWasSent
CHECK_DEADLOCK FALSE
