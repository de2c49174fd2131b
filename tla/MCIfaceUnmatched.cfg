SPECIFICATION IfaceSpec
CONSTANTS
  NoPoint = NoPoint
  p1 = p1
  p2 = p2
  p3 = p3
  val = val
  grad = grad
  Near <- Line
  Data <- Both
  MaxEvals = 2
  MaxRestarts = 0
  Configurations <- UnmatchedAlgebraic
INVARIANTS
  CachedResponsesServed
