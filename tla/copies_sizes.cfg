SPECIFICATION Spec
CONSTANTS
  MaxCreates = 1
  MaxRequests = 3
  MaxFaults = 0
INVARIANTS CopyFits
CHECK_DEADLOCK FALSE
