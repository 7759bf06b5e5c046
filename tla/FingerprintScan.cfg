SPECIFICATION Spec
CONSTANTS
  c1 = c1
  c2 = c2
  other = other
  Other = other
  Callers <- TwoCallers
  Scans <- TwoScans
  MaxAttempts = 3
  MaxExtra = 1
INVARIANTS
  TypeOK
  MatchIsOwn
  NoMatchEachTime
  MatchIsBelieved
  OneScanAtATime
  SensorIsReturned
PROPERTY
  EveryScanIsHeard
