SPECIFICATION Spec
CONSTANTS
  NumItems = 2
  NumWorkers = 2
  Faults = {"s3"}
  MaxConcurrent = 1
  WaveWidth = 1
  DownloadLimit = 1
  Owner = owner
  Collectors = {other}
  Cleaners = {"handle", "command", "force"}
  DeleteBatch = 1
INVARIANTS
  TypeOK
  SubmittedCollectable
PROPERTIES
  ContractSpec
  RestingCleanupComplete
CHECK_DEADLOCK FALSE
