CONSTANTS
  Host = {h1}
  Sizings = {}
  Source = "builder"
  MaxCreates = 2
  MaxAsks = 0
  MaxFails = 1
  MaxCrashes = 1
  MaxReboots = 1
  MaxJoins = 0
  MaxDrifts = 0
SPECIFICATION Spec
CHECK_DEADLOCK FALSE
INVARIANTS OneWork OnceOnly NoOrphan
