SPECIFICATION FlowSpec
CONSTANTS
  AgentIDs = {a1}
  CallIDs = {c1, c2}
  RefIDs = {r1}
  Channels = {x1, x2}
  None = None
  Handlers = {h1, h2}
  EventTypes = {"Destroyed"}
  Commands = {"lineMakeCall", "lineMakeOutboundCall"}
  Procs <- MCProcs
SYMMETRY Symmetry
INVARIANTS
  LockHeldInside
  BindingSound
  OneEnder
  TruthfulReports
PROPERTIES
  ReadyLeaseSpec
