SPECIFICATION CosmosSpec
CONSTANTS
  Writers = {w}
  Readers = {}
  Docs = {first, again}
  Version <- MCVersion
  Keys = {k1, k2}
  Parts <- MCParts
  MaxTries = 2
  NoDoc = NoDoc
  first = first
  again = again
  second = second
  k1 = k1
  k2 = k2
INVARIANT ReingestReplaces
