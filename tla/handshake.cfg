CONSTANTS
  a = a
  b = b
  c = c
  NoPeer = NoPeer
  Peer = {a, b, c}
  Settings <- AllSettings
  SendConnectionAttemptCount = 3
SPECIFICATION FairSpec
CHECK_DEADLOCK FALSE
INVARIANTS
  TypeOK
  UserKnowsConnections
  NoSlotWhileQueued
  PasswordsMatch
PROPERTIES
  NotDowngraded
  DialAnswered
  HalfOpenResolved
