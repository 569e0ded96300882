SPECIFICATION Spec
CONSTANTS
  r1 = r1
  r2 = r2
  r3 = r3
  Run = {r1, r2}
  None = None
  MaxAttempts = 2
  Limit = 2
  Verdict = {"success", "failed"}
  MaxCrashes = 0
  CancelEarly = TRUE
  EarlyRestart = FALSE
INVARIANTS
  CancelledRunShowsCancelled
