CONSTANTS
  p1 = p1
  p2 = p2
  h1 = h1
  h2 = h2
  Peers = {p1, p2}
  Hashes = {h1, h2}
  NoPeer = NoPeer
  MaxTxAnnounces = 2
  MaxTxRetrievals = 1
SPECIFICATION Spec
SYMMETRY Symmetry
INVARIANTS
  NoPanic
  OneStage
  FetchingIsOwed
  AnnouncesTracked
