SPECIFICATION Spec
CONSTANTS
  Sessions = {s1, s2}
  NoSession = none
  Sweepers = {w1}
  s1 = s1
  s2 = s2
  w1 = w1
  none = none
  Limits = {3, 5}
  Day = 1
  Wrap = 8
  MaxSubmit = 1
  MaxSweep = 1
  MaxTime = 3
  MaxFaults = 1
INVARIANTS TypeOK SweepSparesInUse SweepComplete
SYMMETRY Symmetry
CHECK_DEADLOCK FALSE
