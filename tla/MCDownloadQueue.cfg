SPECIFICATION Spec

CONSTANTS
  Peers = {P, Q}
  Master = P
  Ends <- MCSmallEnds
  Needs <- MCSmallNeeds
  FastSync = TRUE
  CacheSize = 2
  Thresholds = {2}
  Counts = {1}
  MinFetch = 0
  MaxResults = 2
  MaxQueued = 2
  MaxFaults = 1
  None = None

CHECK_DEADLOCK FALSE

INVARIANTS
  TasksExact
  InFlightHasSlot
  InOrder
  NoLostWakeup
