SPECIFICATION ProjectSpec
CONSTANTS
  Files = {a, b, c}
  Main = a
  First = b
  Inputs <- AllInputs
INVARIANTS
  OneElaborator
  OutputIsComplete
  ExitZeroMeansClean
  CompiledIsJoined
  CyclesAreSeen
PROPERTIES
  Terminates
CHECK_DEADLOCK FALSE
