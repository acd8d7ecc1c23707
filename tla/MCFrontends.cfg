CONSTANTS
  Parts = {"smv", "btor2"}
  Files = {}
  SmvFiles <- MCSmvFiles
  BtorFiles <- MCBtorFiles
SPECIFICATION FrontendsSpec
INVARIANTS SystemIsFiles CasesCover LinesMean SystemIsLines NamesAreDesigns
CHECK_DEADLOCK FALSE
