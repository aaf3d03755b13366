SPECIFICATION FairSpec
CONSTANTS
  MaxErrors = 1
  MaxHints = 1
INVARIANTS
  NoOrphanForce
PROPERTIES
  RequestServed
