CONSTANTS
  A = A
  B = B
  C = C
  D = D
  Z = Z
  Addresses = {A, B, C, D}
  Zero = Z
  Votable = {A, B, C, D}
  Genesis = {A, B, C}
  Rank <- AddressOrder
  Epoch = 5
  Wrap = 256
  MaxNumber = 9
  NoSnapshot = NoSnapshot
SPECIFICATION Spec
CHECK_DEADLOCK FALSE
INVARIANTS
  VotesTallied
  
  
  TrustedAgrees
  SealedVerifies
PROPERTIES
  MajorityChanges
