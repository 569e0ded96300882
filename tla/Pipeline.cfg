CONSTANTS
  root = root
  u1 = u1
  u2 = u2
  s1 = s1
  s2 = s2
  Url = {root, u1, u2}
  Root = root
  None = None
  Slot = {s1}
  MaxReplans = 1
SPECIFICATION PipelineSpec
SYMMETRY Symmetry
INVARIANTS
  GateSound
PROPERTIES
  KeepsPoolProtocol
