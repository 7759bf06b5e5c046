SPECIFICATION Spec
CONSTANTS
  a = a
  b = b
  Hosts <- TwoHosts
  Sends = 3
  Sizes <- OneOrTwo
  MaxSize = 2
  QueueSize = 2
  NumChannels = 2
INVARIANTS
  TypeOK
  OneHostPerChannel
  MessageIsWhole
  OwnResponse
PROPERTY
  ShortMessageAnswered
CHECK_DEADLOCK FALSE
