SPECIFICATION DeadlineSpec
CONSTANTS
  NumItems = 3
  NumWorkers = 2
  Faults = {"s3", "aws", "image", "deadline", "fn", "code", "type", "crash"}
  MaxConcurrent = 2
  WaveWidth = 2
  DownloadLimit = 2
  Caller = caller
  Collectors = {caller}
  CleanupBatch = 1
INVARIANTS
  TypeOK
  StatusImpliesResult
  TasksStoredBeforeLaunch
  CleanupAfterCapture
  TimeoutReattachable
PROPERTIES
  ContractSpec
  MapReturns
CHECK_DEADLOCK FALSE
