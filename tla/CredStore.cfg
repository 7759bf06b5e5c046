SPECIFICATION Spec
CONSTANTS
  a = a
  b = b
  absent = absent
  empty = empty
  torn = torn
  Procs <- TwoProcs
  Entries <- FourEntries
  Absent = absent
  Empty = empty
  Torn = torn
SYMMETRY Symmetry
INVARIANTS
  StoreIsReadable
  AckedSurvives
  NothingInvented
PROPERTY
  ImplementsAtomicStore
