SPECIFICATION Spec
CONSTANTS
  MaxEvals = 5
  MaxServers = 3
  Configurations <- HybridStatic
INVARIANTS
  AvailableIndex
