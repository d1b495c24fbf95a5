SPECIFICATION MSpec
CONSTANTS
  Files <- NoFiles
  Theory <- BaseTheory
  Candidates <- MixedCandidates
  DepsBits = 55
  StackSize = 60
  HeapSize = 30
  StoreSize = 30
  HypStackSize = 4
  UStackSize = 10
  UHeapSize = 10
  Bare = FALSE
INVARIANTS
  ElaborationNeverPanics
  ExportedIsAccepted
  AcceptedIsImported
  RoundTrip
CHECK_DEADLOCK FALSE
