SPECIFICATION ScenarioSpec
CONSTANTS
  AgentIDs = {a1, a2}
  CallIDs = {c1, c2}
  RefIDs = {}
  Channels = {x1}
  None = None
  Handlers = {h1, h2}
  EventTypes = {"Destroyed"}
  Commands = {"lineMakeCall", "lineMakeOutboundCall"}
  Requests = {r1, r2}
  Kinds = {"basic", "outbound"}
  Procs <- MCProcs
SYMMETRY Symmetry
CHECK_DEADLOCK FALSE
INVARIANTS
  CurrentCallIndexed
  SuccessMeansCall
  FailureStartsNoCall
PROPERTIES
  ImplementsFlow
