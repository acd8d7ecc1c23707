CONSTANTS
  States <- MCStates
  Systems <- MCSystems
  Bounds = {6}
  PreGen = TRUE
  IndGen = TRUE
  SolverCanReset = TRUE
  Signals = TRUE
  MbOptions <- MCMbOptions
  MaxDisjuncts = 3
  Engines = {"ic3bits"}
SPECIFICATION EnginesSpec
INVARIANTS InvarIsInductive
CHECK_DEADLOCK FALSE
