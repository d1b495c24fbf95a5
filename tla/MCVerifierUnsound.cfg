SPECIFICATION Spec
CONSTANTS
  Files <- DependentFiles
  DepsBits = 4
  StackSize = 4
  HeapSize = 3
  StoreSize = 4
  HypStackSize = 0
  UStackSize = 2
  UHeapSize = 2
  Bare = TRUE
INVARIANTS
  AcceptedIsProvable
CHECK_DEADLOCK FALSE
