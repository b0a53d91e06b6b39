SPECIFICATION ClientSpec
CONSTANTS
  Callers = {"p", "q"}
  MaxCalls = 2
  MaxSlips = 0
INVARIANT EnsureSpares
CHECK_DEADLOCK FALSE
