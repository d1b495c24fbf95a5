SPECIFICATION FairSpec
CONSTANTS
  a = a
  b = b
  c = c
  Files = {a, b, c}
  Projects <- TreeProjects
INVARIANTS
  NoLostWaiter
  RestIsFresh
PROPERTIES
  ComesToRest
CHECK_DEADLOCK FALSE
