CONSTANTS
  c1 = c1
  c2 = c2
  c3 = c3
  Channels = {c1, c2, c3}
  Capacity = 1
  MaxSends = 2
SPECIFICATION FairSpec
CHECK_DEADLOCK FALSE
INVARIANT
  NoPanic
PROPERTIES
  Implements
  UnsubscribeEnds
  SendEnds
