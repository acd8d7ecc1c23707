CONSTANTS
  States <- MCStates
  Systems <- MCSystems
  Options <- MCOptions
  Bounds = {3, 5}
SPECIFICATION Spec
INVARIANTS FirstBadIsShortest SearchSucceeds
PROPERTIES CallsReturn
CHECK_DEADLOCK FALSE
