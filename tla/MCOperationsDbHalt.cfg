SPECIFICATION Spec
CONSTANTS
  Inits = {i1, i2}
  NoInit = NoInit
  RunIds = {r1}
  NoRun = NoRun
  MaxStarts = 3
  MaxCrashes = 1
INVARIANTS
  HaltIsEffective
