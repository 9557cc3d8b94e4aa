CONSTANTS
  Guid = {1, 2}
  UinModulus = 4
  Child = {c1, c2}
  Client = {a1, a2}
  Coordinator = Coordinator
  NatServer = NatServer
  TargetServer = TargetServer
  Unassigned = Unassigned
  Speaker = {a1}
  Dialled = {}
  Ip <- DistinctIps
  HostTimeout = 0
  NULL = NULL
  Main = Main
  NoUin = NoUin
SPECIFICATION Spec
SYMMETRY InterchangeableChildren
INVARIANTS
  TypeOK
  SessionsOwnTheirChildren
  
PROPERTIES
  DepartureIsIsolated
