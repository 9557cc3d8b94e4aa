CONSTANTS
  Guid = {1, 2}
  UinModulus = 4
  Child = {c1, c2}
  Client = {a1}
  Coordinator = Coordinator
  NatServer = NatServer
  TargetServer = TargetServer
  Unassigned = Unassigned
  Speaker = {Coordinator}
  Dialled = {Coordinator}
  Ip <- DistinctIps
  HostTimeout = 0
  NULL = NULL
  Main = Main
  NoUin = NoUin
SPECIFICATION Spec
SYMMETRY InterchangeableChildren
INVARIANTS
  CoordinatorConnected
  
  HostConnectingHasDeadline
