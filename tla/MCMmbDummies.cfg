SPECIFICATION MSpec
CONSTANTS
  Files <- NoFiles
  Theory <- DummiesTheory
  Candidates <- DummiesCandidates
  DepsBits = 55
  StackSize = 60
  HeapSize = 30
  StoreSize = 30
  HypStackSize = 4
  UStackSize = 10
  UHeapSize = 10
  Bare = FALSE
INVARIANT ExportedIsAccepted
CHECK_DEADLOCK FALSE
