SPECIFICATION FairSpec
CONSTANTS
  a = a
  b = b
  Accounts <- MCAccounts
  Known <- MCKnown
  None = None
  NotLoaded = NotLoaded
  MaxConnects = 1
  MaxSwitches = 1
  MaxCodes = 1
  MaxDenials = 1
  MaxDrops = 0
  MaxCrashes = 1
INVARIANTS OneSession SessionOfAccount
PROPERTIES RefusalIsCurrent 
