CONSTANTS
  Loops = {l1, l2}
  MaxWrites = 4
  MaxCrashes = 1
SPECIFICATION FairSpec
CHECK_DEADLOCK FALSE
INVARIANTS OneLoop NeverLeft NeverSleptOver
PROPERTIES Rechecks
