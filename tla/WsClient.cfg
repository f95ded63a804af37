SPECIFICATION FairWsSpec
CONSTANTS
  MaxConns = 3
  Senders = {1, 2}
  CloseMayFail = TRUE
  WritesMayStall = TRUE
CHECK_DEADLOCK FALSE
INVARIANTS
  WsTypeOK
  OneReconnection
  NoLostWakeup
  NoSocketLeak
  OneReaderPerConnection
  DisconnectIsFinal
  PanicsExplained
PROPERTIES
  ShutdownDrains
  StopHangsOnlyOnSender
  TornDownIsReplaced
  ImplementsLine
