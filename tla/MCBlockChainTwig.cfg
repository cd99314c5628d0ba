CONSTANTS
  G = G
  A1 = A1
  A2 = A2
  A3 = A3
  B1 = B1
  B2 = B2
  C2 = C2
  C3 = C3
  Blocks = {G, A1, A2, A3, C2, C3}
  Genesis = G
  NoBlock = NoBlock
  Invalid = {C3}
  TriesInMemory = 2
  Parent <- TwigParent
  Number <- TwigNumber
  Td <- TwigTd
  Ancestors <- TwigAncestors
SPECIFICATION FairSpec

  
PROPERTY
  OperationsEnd
