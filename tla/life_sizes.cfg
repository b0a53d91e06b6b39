CONSTANTS
  Host = {h1}
  Sizings = {2}
  Source = "base"
  MaxCreates = 1
  MaxAsks = 1
  MaxFails = 0
  MaxCrashes = 0
  MaxReboots = 1
  MaxJoins = 0
  MaxDrifts = 0
SPECIFICATION Spec
CHECK_DEADLOCK FALSE
INVARIANTS SizesTrue
