SPECIFICATION Spec
CONSTANTS
  Builders = {b1, b2}
  Jobs = {j1}
  b1 = b1
  b2 = b2
  j1 = j1
  NativeArch = "amd64"
  MaxBuilds = 2
  MaxEdits = 2
  MaxNoise = 2
  PruneBatch = 1
  Faults = {"stop", "applied", "kept"}
INVARIANTS TypeOK 
PROPERTIES SetupServesMap ImageComesBack
