CONSTANTS
  States <- MCStates
  Systems <- MCSystems
  Bounds = {1, 5}
  PreGen = FALSE
  IndGen = TRUE
  SolverCanReset = TRUE
  Signals = TRUE
  SkipInitPreds = FALSE
  SimCex = TRUE
  ReducePreds = TRUE
  ItpTerms <- MCItpTerms
SPECIFICATION IASpec
INVARIANTS GoalsOutsideLowerFrame TrueIsSound
PROPERTIES RefinementRulesOutCex
CHECK_DEADLOCK FALSE
