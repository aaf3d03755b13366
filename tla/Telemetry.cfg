SPECIFICATION FairSpec
CONSTANTS
  Modes = {"hybrid", "cloud", "local"}
  Named = {TRUE, FALSE}
  MaxMoves <- MovesOf
  MaxUps = 2
  MaxQueue = 2
INVARIANTS   FilamentTold
PROPERTY HybridHeals
CHECK_DEADLOCK FALSE
