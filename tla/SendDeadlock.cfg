SPECIFICATION FairWsSpec
CONSTANTS
  MaxConns = 2
  Senders = {1}
  CloseMayFail = FALSE
  WritesMayStall = FALSE
CHECK_DEADLOCK FALSE
PROPERTIES
  StopReturns
