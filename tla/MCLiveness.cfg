CONSTANTS
  States <- MCStates
  Systems <- MCSystems
  Options <- MCOptions
  Bounds = {2, 5}
SPECIFICATION Spec
INVARIANTS TrueIsSound FalseIsLasso
PROPERTIES EnoughCountsDecide
CHECK_DEADLOCK FALSE
