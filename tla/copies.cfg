SPECIFICATION Spec
CONSTANTS
  MaxCreates = 1
  MaxRequests = 2
  MaxFaults = 1
INVARIANTS SourceStill NothingLeft ReadyWhole ForkFits
PROPERTIES LeasesLock DeleteShutsOut
CHECK_DEADLOCK FALSE
