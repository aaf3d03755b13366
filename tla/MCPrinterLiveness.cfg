SPECIFICATION FairSpec
CONSTANTS
  Conns = {p1}
  NoConn = NoConn
  Payloads = {"status"}
  Failures = {"transport"}
  MaxHints = 1
  MaxConfigs = 1
  MaxLights = 0
PROPERTIES
  EventuallyDesired
  SilentSessionReplaced
