CONSTANTS
  Host = {h1, h2}
  Sizings = {2}
  Source = "base"
  MaxCreates = 1
  MaxAsks = 1
  MaxFails = 2
  MaxCrashes = 0
  MaxReboots = 1
  MaxJoins = 0
  MaxDrifts = 0
SPECIFICATION Spec
SYMMETRY HostsAlike
CHECK_DEADLOCK FALSE
INVARIANTS OpIsStep OneHome
PROPERTIES DeleteIsFinal KeepsPromise
