CONSTANTS
  G = G
  A1 = A1
  A2 = A2
  A3 = A3
  B1 = B1
  B2 = B2
  C2 = C2
  C3 = C3
  Blocks = {G, A1, A2, A3, B1, B2}
  Genesis = G
  NoBlock = NoBlock
  Invalid = {}
  TriesInMemory = 2
  Parent <- ForkParent
  Number <- ForkNumber
  Td <- ForkTd
  Ancestors <- ForkAncestors
SPECIFICATION FairSpec
PROPERTIES
  ReorgSweepsIndex
