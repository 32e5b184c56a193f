SPECIFICATION FairSpec
CONSTANTS
  Clients = {c1, c2}
  Docs = {first, again, second}
  Version <- MCVersion
  Keys = {k1, k2}
  Blocks <- MCBlocks
  NoDoc = NoDoc
  NoClient = NoClient
  first = first
  again = again
  second = second
  k1 = k1
  k2 = k2
INVARIANTS
  CurrentVersionIsWhole
  ReadsAreOneDocument
PROPERTIES ImplementsStore CallsEnd
