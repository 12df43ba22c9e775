SPECIFICATION Spec
CONSTANTS
  Venues <- AllVenues
  Levels <- FourLevels
  SnapshotLevels = 3
  MaxBuffered = 1
  MaxPending = 2
  PerMinute = 1
  MaxUpdates = 2
  MaxFaults = 2
INVARIANTS HealthyBookIsExact
PROPERTIES ShownBookMovesForward FeedComesRight
