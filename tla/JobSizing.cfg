SPECIFICATION Spec
CONSTANTS
  MaxItems = 7
  MaxWorkers = 4
  MaxCPU = 2
  MaxQuota = 6
  MaxBudget = 5
INVARIANTS
  TypeOK
  ChunksTileItems
  SizesHandedOver
  WavesTileTasks
  WavesWithinQuota
  MapWithinBudget
PROPERTY SizingEnds
\* The sizing code returns or panics: a job that is done takes no step.
CHECK_DEADLOCK FALSE
