SPECIFICATION Spec
CONSTANTS
  btc = btc
  eth = eth
  c1 = c1
  c2 = c2
  v1 = v1
  v2 = v2
  None = None
  Parts <- OnlyRecorder
  MinVenues = 1
  Pairs <- TwoPairs
  Views <- ZoneOfBtc
  Capacity = 1
  Interval = 1
  Stale = 2
  RecorderTime = 5
  MaxOffers = 3
  RecorderFaults = 1
  Collectors <- TwoCollectors
  Horizons <- OneHorizon
  MaxGap = 1
  Grace = 1
  Lease = 1
  Backoff = 1
  MaxAttempts = 2
  Batch = 1
  Retention = 4
  AuditTime = 6
  AuditFaults = 1
  Exchanges <- EngineVenues
  Bands <- ThreeBands
  MinHistory = 1
  Gap = 3
  History = 3
  EngineTime = 5
  MaxChanges = 3
  MaxSuspicion = 2
  Markets <- ThreeMarkets
  VenueOrder <- TwoVenues
  Listings <- Answers
  VenuesPerMarket = 1
  ContinuousMarkets = 1
  OnDemand = 1
  Ttl = 2
  Lapse = 1
  Limit = 1
  WatchTtl = 1
  MaxReads = 1
  CollectorFaults = 1
INVARIANTS EveryChangeIsRecorded
CHECK_DEADLOCK FALSE
