CONSTANTS
  Flavours = {"sygus"}
  SaSystems <- MCSaSystems
  TermLevels = {0, 1, 4}
  MaxTrace = 4
  MaxLemmas = 2
  SgSystems <- Still
  MaxFrames = 5
  ExtractDepth = 0
  InitialWidth = 2
  WidthInc = 2
  TermBound = 0
  WidestTerm = 2
SPECIFICATION FlavoursSpec
INVARIANTS FalseIsConcrete
CHECK_DEADLOCK FALSE
