SPECIFICATION FairSpec

CONSTANTS
  Peers = {P, Q}
  Master = P
  Ends <- MCEnds
  Needs <- MCNeeds
  FastSync = FALSE
  CacheSize = 2
  Thresholds = {2}
  Counts = {2}
  MinFetch = 1
  MaxResults = 2
  MaxQueued = 2
  MaxFaults = 1
  None = None

CHECK_DEADLOCK FALSE

INVARIANTS
  CompleteWithPeers
  BusyHasRequest


  
