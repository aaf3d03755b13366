SPECIFICATION FairSpec
CONSTANTS
  Modes = {"hybrid"}
  Pages = {"home"}
  Setups <- LocalAlone
  MaxChanges = 1
PROPERTY EitherPathFirst
CHECK_DEADLOCK FALSE
