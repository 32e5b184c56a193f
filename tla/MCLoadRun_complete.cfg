SPECIFICATION Spec
CONSTANTS
  Repeats = 1
  PerPhase <- MCPerPhase
  MaxInflight = 1
  TaskCap = 1
  Servers = {s1}
  Capacity = 1
  Faults = {"timeout", "refused"}
INVARIANT SingleWorkerIsComplete
CHECK_DEADLOCK FALSE
