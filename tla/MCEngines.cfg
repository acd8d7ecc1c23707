CONSTANTS
  States <- MCStates
  Systems <- MCSystems
  Options <- MCOptions
  KindSystems <- MCKindSystems
  KindOptions <- MCKindOptions
  Bounds = {2, 4}
SPECIFICATION Spec
INVARIANTS AssertionsHold InvarInductive DecidedAtDiameter
PROPERTIES ImplementsProver
CHECK_DEADLOCK FALSE
