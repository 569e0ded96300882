CONSTANTS
  u1 = u1
  u2 = u2
  u3 = u3
  Url = {u1, u2, u3}
  None = None
  s1 = s1
  s2 = s2
  Slot = {s1, s2}
SPECIFICATION Spec
SYMMETRY Symmetry
INVARIANTS
  CountersTrue
  OneOwner
  ResultsExact
  DrainSound
  NoneWaitsForEver
PROPERTIES
  CancelIsFinal
