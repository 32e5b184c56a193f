SPECIFICATION GuardFairSpec
CONSTANTS
  Paths <- MCPaths
  Shell <- MCShell
  Slack = 1
  Effective = 10
  MaxDepth = 6
  Sizes = {1, 3, 6}
  Others = {2, 3, 7}
  MaxElements = 3
INVARIANT
  MergeIsLossless
PROPERTY GuardEnds
CHECK_DEADLOCK FALSE
