SPECIFICATION FairSpec
CONSTANTS
  Threshold = 2
  RetryRange = 3
  MaxRouter = 1
  Browsers = {b}
  PinLife = 1
  SessionLife = 1
  ExtendLife = 1
  GraceLife = 1
  MaxPins = 1
  MaxExtends = 1
  MaxPath = 1
  MaxReboots = 1
INVARIANT NothingWithoutExpiry
PROPERTIES ReachableForSetup LockComes  
