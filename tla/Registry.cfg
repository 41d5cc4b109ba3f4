SPECIFICATION Spec
CONSTANTS
  Names = {"", "a", "b"}
  Plain = {f1, f2}
  Simple = {g1, g2}
  Codes = {c1, c2}
  Wrapper = wrapper
  None = none
  f1 = f1
  f2 = f2
  g1 = g1
  g2 = g2
  c1 = c1
  c2 = c2
  wrapper = wrapper
  none = none
  MaxRegs = 2
INVARIANTS TypeOK CallsPassedFunction WorkerKnowsName
PROPERTY RefusedOnlyUnregistered
CHECK_DEADLOCK FALSE
