SPECIFICATION FairSpec
CONSTANTS
  Threads = {t1, t2, t3}
  Conns = {c1, c2, c3, c4}
  Size = 2
  NoThread = NoThread
  NoConn = NoConn
INVARIANTS
  ExclusiveUse
  SlotAccounting
  OpenBound
PROPERTY AcquireReturns
CHECK_DEADLOCK FALSE
