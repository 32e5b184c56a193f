SPECIFICATION AnalyticsSpec

CONSTANTS
  o1 = o1
  o2 = o2
  Orders = {o1}
  Docs = {"first", "more", "next"}
  Version <- MCVersion
  Blocks <- MCBlocks
  Loans <- MCLoans
  Wide = {"TITLE"}
  Charges = {"TOTALS", "SERVICES"}
  NoDoc = "none"
  Built = TRUE
  Kinds = {"full", "block", "summary", "search", "operational", "fabric", "build", "sql", "cosmos"}
  DateBatches = 2
  ListLimit = 2
  MaxCommits = 3
  MaxPushes = 2
  MaxCommands = 1
  MaxFailures = 1

CHECK_DEADLOCK FALSE

INVARIANTS
  SameGrain
