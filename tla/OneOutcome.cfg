SPECIFICATION FlowSpec
CONSTANTS
  AgentIDs = {a1}
  CallIDs = {c1}
  RefIDs = {}
  Channels = {x1}
  None = None
  Handlers = {h1}
  EventTypes = {"Up", "Down", "Destroyed"}
  Commands = {"lineMakeOutboundCall"}
  Procs <- MCProcs
SYMMETRY Symmetry
INVARIANTS
  OneOutcome
