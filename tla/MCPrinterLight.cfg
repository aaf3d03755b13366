SPECIFICATION FairSpec
CONSTANTS
  Conns = {p1}
  NoConn = NoConn
  Payloads = {}
  Failures = {"transport"}
  MaxHints = 1
  MaxConfigs = 0
  MaxLights = 1
PROPERTIES
  StaleOnlineRepaired
  PendingLightResolved
