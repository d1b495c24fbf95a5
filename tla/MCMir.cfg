SPECIFICATION Spec
CONSTANTS
  Word = 2
  Programs <- Working
  Inputs <- MCInputs
INVARIANTS
  AnalysesAreExact
  StorageHoldsValues
  BehavesAsSource
  LoweringNeverPanics
PROPERTIES
  EngineProgresses
CHECK_DEADLOCK FALSE
