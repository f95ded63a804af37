SPECIFICATION CMSpec
CONSTANTS
  AgentIDs = {a1, a2}
  CallIDs = {c1, c2}
  RefIDs = {r1}
  Channels = {x1, x2}
  None = None
SYMMETRY Symmetry
INVARIANTS
  CMTypeOK
  IndexSound
  StampsSound
PROPERTIES
  StampsOnlyGrow
