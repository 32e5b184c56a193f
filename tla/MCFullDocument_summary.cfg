SPECIFICATION Spec
CONSTANTS
  c1 = c1  c2 = c2  c3 = c3
  d1 = d1  d2 = d2  k1 = k1  k2 = k2
  NoDoc = NoDoc  NoClient = NoClient  Unknown = Unknown
  Docs = {d1, d2}  Keys = {k1, k2}
  Clients = {c1}  Blocks <- OneLacks
  Mongo = FALSE  CaptureRu = FALSE
  Ops = {"ingest", "block", "header", "read"}
  MaxCalls = 3
INVARIANTS SummaryFollowsDocument
CHECK_DEADLOCK FALSE
