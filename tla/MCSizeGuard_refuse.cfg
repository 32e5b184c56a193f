SPECIFICATION GuardSpec
CONSTANTS
  Paths <- MCPaths
  Shell <- MCShell
  Slack = 1
  Effective = 10
  MaxDepth = 6
  Sizes = {1, 3, 6}
  Others = {2, 4, 7}
  MaxElements = 3
INVARIANT RefusesOnlyIndivisible
CHECK_DEADLOCK FALSE
