SPECIFICATION FairSpec
CONSTANTS
  MaxEvals = 5
  MaxServers = 3
  Configurations <- Supported
INVARIANTS
  BuffersExclusive
  NotOverloaded
  SimulatedOnce
PROPERTIES
  AllDelivered
  ImplementsContract
