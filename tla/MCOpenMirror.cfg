SPECIFICATION FairSpec
CONSTANTS
  Tables = {orders}
  Keys = {k1, k2}
  TableOf <- OneTable
  Watermarked = {orders}
  BatchRows = 1
  HasNull = {2}
  Faults = {"crash", "listing", "repair", "late"}
  MaxClock = 2
  MaxPushes = 2
  orders = orders
  loans = loans
  k1 = k1
  k2 = k2
  k3 = k3
INVARIANTS
  EveryBatchMatches
  WatermarkIsCovered
PROPERTY
  LandedFilesAreMerged
CHECK_DEADLOCK FALSE
