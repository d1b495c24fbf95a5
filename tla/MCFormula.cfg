SPECIFICATION Spec
CONSTANTS
  Terms <- MCTerms
  Paths <- MCPaths
  ProvableSorts <- MCProvable
  CoeTerms <- MCCoeTerms
  Sorts <- MCSorts
  Names <- MCNames
  Idents <- MCIdents
  Files <- MCFiles
  Statements <- MCStatements
  Texts <- MCTexts
INVARIANTS
  PrintedReadsBack
  FormulasAgree
CHECK_DEADLOCK FALSE
