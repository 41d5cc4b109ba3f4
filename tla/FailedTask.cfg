SPECIFICATION Spec
CONSTANTS
  NumItems = 3
  NumWorkers = 2
  Faults = {"code"}
  MaxConcurrent = 2
  WaveWidth = 2
  DownloadLimit = 2
  Caller = caller
  Collectors = {caller}
  CleanupBatch = 1
INVARIANT FailedTaskGivesPartialError
CHECK_DEADLOCK FALSE
