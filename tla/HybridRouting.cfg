SPECIFICATION FairSpec
CONSTANTS
  Modes = {"hybrid", "cloud", "local"}
  Pages = {"home", "camera", "preview"}
  Setups <- Both
  MaxChanges = 1
PROPERTIES LocalPathOpens CloudYields  ModeRespected LocalPathCloses
CHECK_DEADLOCK FALSE
