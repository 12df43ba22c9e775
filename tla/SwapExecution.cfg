SPECIFICATION Spec
CONSTANTS
  A = A
  B = B
  None = None
  Accounts <- TwoAccounts
  Nets <- TwoNets
  Routes <- FourRoutes
  MaxPresses = 2
  MaxMoves = 2
  MaxAttempts = 2
INVARIANTS RecordedIsTrue ShownIsTrue
PROPERTIES EverySwapSettles
CHECK_DEADLOCK FALSE
