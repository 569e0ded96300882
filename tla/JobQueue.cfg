SPECIFICATION Spec
CONSTANTS
  r1 = r1
  r2 = r2
  r3 = r3
  Run = {r1, r2, r3}
  None = None
  MaxAttempts = 2
  Limit = 2
  Verdict = {"success", "no_target"}
  MaxCrashes = 1
  CancelEarly = TRUE
  EarlyRestart = TRUE
SYMMETRY Symmetry
INVARIANTS
  QueueSafe
PROPERTIES
  NotClaimedTwice
  TerminalIsFinal
