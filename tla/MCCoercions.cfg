SPECIFICATION BothSpec
CONSTANTS
  Names = {v, w, x, y}
  Provable = {v, w}
  NumSorts = 3
  NumFiles = 2
  MaxCoes <- PerFile
  ImportAnytime = FALSE
SYMMETRY Symmetry
INVARIANTS
  EntriesAreTyped
  CleanGraphIsExact
  ParsersAgree
PROPERTIES
  ImplementsGraph
CHECK_DEADLOCK FALSE
