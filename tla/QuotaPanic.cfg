SPECIFICATION Spec
CONSTANTS
  MaxItems = 3
  MaxWorkers = 2
  MaxCPU = 2
  MaxQuota = 2
  MaxBudget = 0
INVARIANT QuotaReducedJobRuns
CHECK_DEADLOCK FALSE
