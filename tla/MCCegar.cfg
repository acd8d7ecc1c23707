CONSTANTS
  States <- MCStates
  Systems <- MCSystems
  Options <- MCOptions
  Bounds = {1, 3}
  MaxLen = 5
SPECIFICATION Spec
INVARIANTS TrueIsSound FalseIsConcrete
PROPERTIES RefinementExcludesCex
CHECK_DEADLOCK FALSE
