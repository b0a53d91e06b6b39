SPECIFICATION GuestSpec
CONSTANTS
  Machines = {m1, m2}
  MaxActs = 4
  MaxCuts = 1
INVARIANT KeyIsMinted
CHECK_DEADLOCK FALSE
