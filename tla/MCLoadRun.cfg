SPECIFICATION FairSpec
CONSTANTS
  Repeats = 2
  PerPhase <- MCPerPhase
  MaxInflight = 1
  TaskCap = 1
  Servers = {s1, s2}
  Capacity = 1
  Faults = {"timeout", "refused"}
INVARIANTS
  EveryRequestIsOneSample
  ScrapeIsTheNewest
  ScrapeIsOfTheRepeats

CHECK_DEADLOCK FALSE
