SPECIFICATION Spec
CONSTANTS
  A = A
  B = B
  None = None
  Wallets <- TwoWallets
  Scopes <- Together
  MaxMoves = 3
  MaxFaults = 1
INVARIANTS SpinnerHasWork SettledSessionIsTheCookies
PROPERTIES EverythingAnswers
CHECK_DEADLOCK FALSE
