SPECIFICATION Spec
CONSTANTS
  MaxEvals = 6
  Concurrency = 2
  EvalStatic = TRUE
  NumEvalServers = 2
  Blocking = TRUE
  Nowait = TRUE
INVARIANTS
  TypeOK
  StaticPlacement
  LaunchedOnce
  NeverWaitsIdle
