CONSTANTS
  u1 = u1
  u2 = u2
  u3 = u3
  s1 = s1
  s2 = s2
  Url = {u1, u2}
  None = None
  Slot = {s1, s2}
SPECIFICATION Spec
INVARIANTS
  ClosedMeansReaped
