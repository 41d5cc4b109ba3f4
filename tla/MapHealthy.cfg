SPECIFICATION FairSpec
CONSTANTS
  NumItems = 4
  NumWorkers = 3
  Faults = {"fn"}
  MaxConcurrent = 2
  WaveWidth = 3
  DownloadLimit = 2
  Caller = caller
  Collectors = {caller}
  CleanupBatch = 2
INVARIANTS
  CleanupLeavesNothing
PROPERTIES
  HealthyMapReturnsResults
CHECK_DEADLOCK FALSE
