SPECIFICATION WsSpec
CONSTANTS
  MaxConns = 2
  Senders = {}
  CloseMayFail = FALSE
  WritesMayStall = FALSE
CHECK_DEADLOCK FALSE
INVARIANTS
  OpenMeansConnected
