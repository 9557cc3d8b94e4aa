CONSTANTS
  Guid = {1, 5}
  UinModulus = 4
  Child = {c1, c2}
  Client = {a1}
  Coordinator = Coordinator
  NatServer = NatServer
  TargetServer = TargetServer
  Unassigned = Unassigned
  Speaker = {a1}
  Dialled = {NatServer}
  Ip <- SharedServerIp
  HostTimeout = 1
  NULL = NULL
  Main = Main
  NoUin = NoUin
SPECIFICATION FairSpec
PROPERTIES
  
  HostDeadlineEnforced
  SignalEndsProgram
