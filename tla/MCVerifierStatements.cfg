SPECIFICATION Spec
CONSTANTS
  Files <- StatementFiles
  DepsBits = 3
  StackSize = 3
  HeapSize = 3
  StoreSize = 3
  HypStackSize = 1
  UStackSize = 2
  UHeapSize = 2
  Bare = FALSE
INVARIANTS
  TypeOK
  PointersValid
  SpecificationFollowed
PROPERTIES
  SorryIsReported
  AxiomsAreSpecified
CHECK_DEADLOCK FALSE
