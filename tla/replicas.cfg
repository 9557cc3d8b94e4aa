CONSTANTS
  c1 = c1
  c2 = c2
  sv = sv
  r1 = r1
  r2 = r2
  System = {c1, c2, sv}
  Server = sv
  Authoritative = {c1}
  Replica = {r1}
  Link <- Links
  Failing <- Leaving
  QuickReconnect = FALSE
  Creators <- ByOwner
  Mode <- Modes
  Grouping = {c1}
  Scoped = {r1}
  Uniquely = {}
  PolicyChoice = {"ClientConstruction", "ServerConstruction", "SingleOwner",
                  "MultiOwner", "StaticObject"}
  Limit <- BoundsOf
SPECIFICATION Spec
CHECK_DEADLOCK FALSE
INVARIANTS
  TypeOK
  
  
  SettledReplicasAgree
  
  SettledValidated
  
