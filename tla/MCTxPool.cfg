CONSTANTS
  A = A
  B = B
  G = G
  X = X
  Y = Y
  Accounts = {A, B}
  Tx <- MCTx
  Blocks = {G, X, Y}
  Genesis = G
  Parent <- MCParent
  Number <- MCNumber
  Included <- MCIncluded
  Balance <- MCBalance
  BaseFee <- MCBaseFee
  London = TRUE
  Prices <- MCPrices
  PriceLimit = 1
  PriceBump = 10
  AccountSlots = 1
  GlobalSlots = 2
  AccountQueue = 1
  GlobalQueue = 1
  Lost <- MCLost
  MaxReorgDepth = 64
  Remotely <- MCRemotely
  Locally <- MCLocally
  MaxInputs = 4
  MaxCallers = 1
  None = None
SPECIFICATION Spec
CHECK_DEADLOCK FALSE
INVARIANTS
  
  AllValid
  Executable
  PendingBounded
  Announced
PROPERTY
  LocalsKept
