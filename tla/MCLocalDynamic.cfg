SPECIFICATION FairSpec
CONSTANTS
  MaxEvals = 5
  Concurrency = 2
  EvalStatic = FALSE
  NumEvalServers = 1
  Blocking = TRUE
  Nowait = TRUE
INVARIANTS
  ConcurrencyRespected
  LaunchedOnce
PROPERTIES
  WorkConserving
  AllDelivered
  ImplementsContract
