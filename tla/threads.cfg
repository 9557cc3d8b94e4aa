CONSTANTS
  p1 = p1
  p2 = p2
  Peer = {p1, p2}
  NoPeer = NoPeer
  MaximumNumberOfPeers = 2
  Limits <- Cases
SPECIFICATION FairSpec
INVARIANTS
  TypeOK
  NothingFromBefore
  
  NoHiddenEnd
  ActiveListTrue
PROPERTIES
  CallsReturn
CHECK_DEADLOCK FALSE
