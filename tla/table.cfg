CONSTANTS
  MaximumNumberOfPeers = 3
  a = a
  b = b
  c = c
  d = d
  x = x
  y = y
  SystemAddress = {a, b, c, d}
  Guid = {g1, g2}
  Bucket = {x, y}
  HashIndex <- Collisions
  UnassignedAddress = UnassignedAddress
  UnassignedGuid = UnassignedGuid
  SharedReroutes = FALSE
SPECIFICATION FairSpec
INVARIANTS
  TypeOK
  ActiveSystemsFound
  ActiveListExact
PROPERTIES
  EveryoneUpdated
  ImplementsRemoteSystems
