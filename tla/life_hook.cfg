CONSTANTS
  Host = {h1}
  Sizings = {}
  Source = "base"
  MaxCreates = 1
  MaxAsks = 0
  MaxFails = 0
  MaxCrashes = 0
  MaxReboots = 1
  MaxJoins = 0
  MaxDrifts = 1
SPECIFICATION Spec
CHECK_DEADLOCK FALSE
INVARIANTS HookRan
