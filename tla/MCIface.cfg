SPECIFICATION FairIfaceSpec
CONSTANTS
  NoPoint = NoPoint
  p1 = p1
  p2 = p2
  p3 = p3
  val = val
  grad = grad
  Near <- Line
  Data <- Both
  MaxEvals = 3
  MaxRestarts = 1
  Configurations <- Supported
INVARIANTS
  NothingLost
  DuplicatesAnchored
  ResponseMatches
  NoRedundantJob
  AlgebraicOnce
  CurrentIdsUnique
  RestartAvoidsWork
  ReturnedIsLogged
  IfaceTypeOK
PROPERTIES
  AllReturned
