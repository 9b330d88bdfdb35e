SPECIFICATION Spec
CONSTANTS
  Inputs <- MCInputs
  SymbolsOf <- MCSymbolsOf
  Size <- MCSize
  Companions <- MCCompanions
INVARIANTS TouchedAreTested EachComponentOnce OneFramework FilteredSuiteRuns
CHECK_DEADLOCK FALSE
