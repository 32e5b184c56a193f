SPECIFICATION CosmosFairSpec
CONSTANTS
  Writers = {w1, w2}
  Readers = {r}
  Docs = {first}
  Version <- MCVersion
  Keys = {k2}
  Parts <- OneBlock
  MaxTries = 2
  NoDoc = NoDoc
  first = first
  again = again
  second = second
  k1 = k1
  k2 = k2
INVARIANT
  BlocksAreReachable RetriesConverge
PROPERTY IngestEnds
