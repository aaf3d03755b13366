SPECIFICATION Spec
CONSTANTS
  None = None
  a = a
  b = b
  old = old
  Printers <- MCPrinters
  Legacy = old
  MaxProfiles = 3
  Stored = 2
  MaxRequests = 2
  MaxCrashes = 1
SYMMETRY Symmetry
INVARIANTS NoMixedConnection LegacyKept DeleteKeepsOthers
PROPERTIES UpsertNeverClobbers ActiveFollows
