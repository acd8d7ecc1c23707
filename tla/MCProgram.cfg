CONSTANTS
  Parts = {"options", "pono", "unrolling", "witness"}
  CommandLines <- MCCommandLines
  INT_MAX = 50
  WITH_PROFILING = FALSE
  Files <- MCFiles
  Scenarios <- MCScenarios
  Depth = 9
  UnrolledTs <- MCUnrolledTs
  Intervals = {0, 1, 2}
  MaxTime = 2
  LateVars = {"z", "j"}
  Designs <- MCDesigns
  PlainPart <- MCPlainPart
  MaxSteps = 2
  MaxAsks = 1
SPECIFICATION ProgramSpec
INVARIANTS OptionsAsDocumented VerdictIsFiles WitnessReplays TimedCopies FunctionalMeansStep WitnessIsCounterexample SignalsAsInTrace
CHECK_DEADLOCK FALSE
