SPECIFICATION FairSpec
CONSTANTS
  Conns = {p1, p2}
  NoConn = NoConn
  Callers = {"portal"}
  MaxConfigs = 1
  MaxTaps = 1
  MaxChanges = 1
INVARIANT StaleSessionIsPending
PROPERTIES PicturesOfThePrinter GivesWay OffIsShown TapAnswered
