SPECIFICATION FairSpec
CONSTANTS
  NumItems = 3
  NumWorkers = 3
  Faults = {"deadline", "fn", "code"}
  MaxConcurrent = 1
  WaveWidth = 2
  DownloadLimit = 1
  Owner = owner
  Collectors = {owner}
  Cleaners = {}
  DeleteBatch = 1
INVARIANTS
  WithinQuota
  WavesInOrder
PROPERTIES
  SubmitReturns
  CollectReturns
CHECK_DEADLOCK FALSE
