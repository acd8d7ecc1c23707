CONSTANTS
  Flavours = {"ic3sa", "sygus"}
  SaSystems <- MCSaSystems
  TermLevels = {0, 1, 4}
  MaxTrace = 4
  MaxLemmas = 2
  SgSystems <- MCSystems
  MaxFrames = 5
  ExtractDepth = 0
  InitialWidth = 2
  WidthInc = 2
  TermBound = 0
  WidestTerm = 2
SPECIFICATION FlavoursSpec
INVARIANTS JustifiedEnough LemmasKeepBad GoalsReachBad TrueIsSound
CHECK_DEADLOCK FALSE
