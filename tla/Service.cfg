SPECIFICATION FairServiceSpec
CONSTANTS
  Requests = {r1}
  Commands = {m1}
  Self = Self
CHECK_DEADLOCK FALSE
INVARIANTS
  ServiceTypeOK
  TrafficMeetsHandlers
  PanicOnlyWithoutSip
  CheckedPartsRun
PROPERTIES
  ConnectionRecovers
  StopCompletes
  RequestsAnswered
