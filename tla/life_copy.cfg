CONSTANTS
  Host = {h1}
  Sizings = {2}
  Source = "copy"
  MaxCreates = 1
  MaxAsks = 2
  MaxFails = 2
  MaxCrashes = 1
  MaxReboots = 0
  MaxJoins = 1
  MaxDrifts = 0
SPECIFICATION Spec
CHECK_DEADLOCK FALSE
INVARIANTS RestIsIdle SizesTrue SettledTrue
