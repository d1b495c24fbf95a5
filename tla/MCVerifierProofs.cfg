SPECIFICATION Spec
CONSTANTS
  Files <- BareFiles
  DepsBits = 4
  StackSize = 5
  HeapSize = 3
  StoreSize = 4
  HypStackSize = 0
  UStackSize = 2
  UHeapSize = 2
  Bare = TRUE
INVARIANTS
  ConversionsPaired
  HeapHoldsNoObligation
  StoreWellFormed
  DependenciesAreTracked
  ProofsAreDerivable
CHECK_DEADLOCK FALSE
