CONSTANTS
  root = root
  u1 = u1
  s1 = s1
  Url = {root, u1}
  Root = root
  None = None
  Slot = {s1}
  MaxReplans = 1
SPECIFICATION PoolsLiveSpec
PROPERTIES
  PoolsEnd
  ImplementsLedger
  GraphEnds
