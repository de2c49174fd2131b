SPECIFICATION FairSpec
CHECK_DEADLOCK FALSE
CONSTANTS
  MaxEvals = 5
  NumEvalServers = 2
  Concurrency = 2
INVARIANTS
  BuffersExclusive
  RunningMapExact
  NotOverloaded
  SimulatedOnce
  NeverAborts
  StoppedCleanly
PROPERTIES
  AllDelivered
  ServersStop
  ImplementsContract
