SPECIFICATION ToolsSpec
CONSTANTS
  Sessions <- MCSessions
  Greps = {TRUE, FALSE}
  NewRows <- MCNewRows
  MaxRows = 4
  MaxVacuums = 1
  SelectSetups <- MCSelectSetups
  Slices = {"s"}
  OwnUid = 7
  UsecPerSec = 2
  OffsetWidth = 16
  MaxUnique = 2
  Skipped = {}
  Paths = {1, 2, 3}
  ActivePath = 3
  Setups <- MCSetups
  Asks <- MCAsks
  NewEntries <- MCNewEntries
  DefaultFacets = {1}
  Durations <- MCDurations
  TargetBuckets = 3
  PoolThreads = 1
  LruCapacity = 40
  MaxPages = 3
  MaxClock = 1
CHECK_DEADLOCK FALSE
INVARIANTS
  ShowSound EngineIndexExact EngineAnswersExact
PROPERTIES
  SelectSound FollowPrints
