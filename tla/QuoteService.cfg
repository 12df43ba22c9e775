SPECIFICATION MCSpec
CONSTANTS
  None = None
  Requests <- TwoRequests
  Wants <- AskedFor
  Curated = {"eth"}
  Uniswap = {"listed"}
  Lifi = {"listed"}
  Existing = {"listed", "rare"}
  RateMax = 1
  BudgetMax = 2
  RedisConfigured = TRUE
  RedisRequired = FALSE
  FailOpen = TRUE
  MaxFaults = 5
  MaxExpiries = 3
  MaxFaultsAll = 1
  MaxExpiriesAll = 1
INVARIANTS QuoteIsTheRequests ServedIsRecorded WithinBudget
PROPERTIES AbsenceIsTrue
CHECK_DEADLOCK FALSE
