CONSTANTS
  States <- MCStates
  Systems <- MCSystems
  Bounds = {6}
  PreGen = TRUE
  IndGen = TRUE
  SolverCanReset = TRUE
  Signals = FALSE
  MbOptions <- MCPreimage
  MaxDisjuncts = 3
  Engines = {"mbic3"}
SPECIFICATION EnginesSpec
INVARIANTS TrueIsSound
CHECK_DEADLOCK FALSE
