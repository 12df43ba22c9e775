SPECIFICATION Spec
CONSTANTS
  A = A
  B = B
  None = None
  Wallets <- TwoWallets
  Scopes <- Together
  MaxMoves = 3
  MaxFaults = 1
INVARIANTS ShownDataIsTheWallets
CHECK_DEADLOCK FALSE
