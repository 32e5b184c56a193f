SPECIFICATION Spec
CONSTANTS
  MaxRuns = 3
  MaxFaults = 0
PROPERTY StateIsKept
CHECK_DEADLOCK FALSE
