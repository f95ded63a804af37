SPECIFICATION FairFlowSpec
CONSTANTS
  AgentIDs = {a1}
  CallIDs = {c1}
  RefIDs = {}
  Channels = {x1}
  None = None
  Handlers = {h1, h2}
  EventTypes = {"Destroyed"}
  Commands = {"lineMakeOutboundCall"}
  Procs <- MCProcs
PROPERTIES
  GoroutinesFinish
  EveryEndIsTold
  EveryEndFreesAgent
