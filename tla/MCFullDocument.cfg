SPECIFICATION FairSpec
CONSTANTS
  c1 = c1  c2 = c2  c3 = c3
  d1 = d1  d2 = d2  k1 = k1  k2 = k2
  NoDoc = NoDoc  NoClient = NoClient  Unknown = Unknown
  Docs = {d1, d2}  Keys = {k1, k2}
  Clients = {c1, c2}  Blocks <- OneLacks
  Mongo = TRUE  CaptureRu = TRUE
  Ops = {"ingest", "block", "header", "read"}
  MaxCalls = 5
INVARIANTS ColumnFollowsDocument SummaryFollowsDocument ChargeIsNoOtherWrite
PROPERTY ImplementsOrderStore
CHECK_DEADLOCK FALSE
