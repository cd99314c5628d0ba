SPECIFICATION Spec

CONSTANTS
  Nodes = {A, B}
  Self = S
  Barred = {}
  Portless = {}
  Friends = {A}
  Callers = {A, B}
  Inbounds = {i}
  MaxPeers = 2
  MaxDialPeers = 1
  MaxActiveDials = 2
  MaxPendingPeers = 1
  None = None

CHECK_DEADLOCK FALSE

INVARIANTS
  OneDial
  PoolExact
  CountsExact
  
