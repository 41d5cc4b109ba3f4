SPECIFICATION Spec
CONSTANTS
  Setups = {s1, s2}
  Teardowns = {t1}
  s1 = s1
  s2 = s2
  t1 = t1
  MaxRunning = 2
  MaxFaults = 2
  CustomBucket = TRUE
  Faults = {"request", "quota", "disk", "crash", "kept"}
INVARIANTS TypeOK ConfigMeansMade UndisturbedSetupsComplete
PROPERTIES TeardownRemovesAll RerunIsAccepted
SYMMETRY Symmetry
CHECK_DEADLOCK FALSE
