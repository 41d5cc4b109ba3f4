SPECIFICATION Spec
CONSTANTS
  Builders = {b1}
  Jobs = {j1}
  b1 = b1
  j1 = j1
  NativeArch = "amd64"
  MaxBuilds = 1
  MaxEdits = 1
  MaxNoise = 0
  PruneBatch = 100
  Faults = {}
PROPERTY SetupServesSubmit
