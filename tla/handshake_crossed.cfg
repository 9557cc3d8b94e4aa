CONSTANTS
  a = a
  b = b
  c = c
  NoPeer = NoPeer
  Peer = {a, b, c}
  Settings <- CrossedSettings
  SendConnectionAttemptCount = 3
SPECIFICATION Spec
CHECK_DEADLOCK FALSE
PROPERTY NeverDowngraded
