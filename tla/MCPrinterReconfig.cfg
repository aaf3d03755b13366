SPECIFICATION Spec
CONSTANTS
  Conns = {p1, p2}
  NoConn = NoConn
  Payloads = {"status", "info"}
  Failures = {"transport", "refused", "memory"}
  MaxHints = 1
  MaxConfigs = 2
  MaxLights = 0
INVARIANTS
  StaleClientIsPending
PROPERTIES
  ImplementsApi
SYMMETRY Symmetry
