CONSTANTS
  Host = {h1}
  Sizings = {}
  Source = "base"
  MaxCreates = 1
  MaxAsks = 1
  MaxFails = 1
  MaxCrashes = 1
  MaxReboots = 0
  MaxJoins = 0
  MaxDrifts = 1
SPECIFICATION FairSpec
CHECK_DEADLOCK FALSE
PROPERTIES Converges DeleteEnds
