CONSTANTS
  p1 = p1
  p2 = p2
  h1 = h1
  Peers = {p1, p2}
  Hashes = {h1}
  NoPeer = NoPeer
  MaxTxAnnounces = 2
  MaxTxRetrievals = 1
SPECIFICATION FairSpec
PROPERTIES
  WaitEnds
  FetchEnds
