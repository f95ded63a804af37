SPECIFICATION FairFlowSpec
CONSTANTS
  AgentIDs = {a1}
  CallIDs = {c1}
  RefIDs = {}
  Channels = {x1}
  None = None
  Handlers = {h1}
  EventTypes = {"Destroyed"}
  Commands = {"lineMakeCall"}
  Procs <- MCProcs
PROPERTIES
  DestroyedChannelEndsCall
