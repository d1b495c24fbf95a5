SPECIFICATION Spec
CONSTANTS
  a = a
  b = b
  c = c
  Files = {a, b, c}
  Projects <- TriangleProjects
INVARIANTS
  RestIsFresh
CHECK_DEADLOCK FALSE
