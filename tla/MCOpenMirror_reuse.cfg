SPECIFICATION Spec
CONSTANTS
  Tables = {orders, loans}
  Keys = {k1, k2}
  TableOf <- TwoTables
  Watermarked = {orders}
  BatchRows = 1
  HasNull = {2}
  Faults = {}
  MaxClock = 3
  MaxPushes = 2
  orders = orders
  loans = loans
  k1 = k1
  k2 = k2
  k3 = k3
PROPERTY SequencesAreNeverReused
CHECK_DEADLOCK FALSE
