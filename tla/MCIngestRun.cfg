SPECIFICATION FairSpec
CONSTANTS
  r1 = r1
  r2 = r2
  Runs = {r1, r2}
  NumOrders <- MCOrders
  Workers = 2
  Backlog = 1
  Settings = {s1, s2}
  NoSettings = NoSettings
  Faults = {"kill", "raise", "blind"}
INVARIANTS
  OrdersAccounted
  ReplayGivesTheOrder
PROPERTY
  WriteOnce
CHECK_DEADLOCK FALSE
