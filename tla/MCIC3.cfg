CONSTANTS
  States <- MCStates
  Systems <- MCSystems
  Bounds = {1, 6}
  PreGen = TRUE
  IndGen = TRUE
  SolverCanReset = TRUE
  Signals = TRUE
  MbOptions <- MCMbOptions
  MaxDisjuncts = 3
  Engines = {"ic3bits", "mbic3"}
SPECIFICATION EnginesSpec
INVARIANTS TypeOK FramesSound LabelsMatchFrames TrueIsSound FalseHasWitness GoalsStepOn
PROPERTIES FramesOnlyStrengthen CallsReturn
CHECK_DEADLOCK FALSE
