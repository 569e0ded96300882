SPECIFICATION LivesSpec
CONSTANTS
\* AgentLoop
  MaxCalls = 3
  MaxContinuations = 3
  RepeatLimit = 3
  NoProgressLimit = 2
  RetryAttempts = 2
  BootTools = 1
  CacheSize = 1
  ReadCalls <- MCReadCalls
  Batches <- MCBatches
\* BrowserSessions
  Conns = {c1, c2, c3}
  Scopes = {s1, s2}
  Cookies = {plain, token}
  Forbidden = {token}
  MaxServerCrashes = 1
  MaxJarFaults = 1
\* RunTrace
  r1 = r1
  Run = {r1}
  Followed = r1
  None = None
  MaxAttempts = 2
  Limit = 1
  Verdict = {"success"}
  MaxCrashes = 1
  CancelEarly = TRUE
  EarlyRestart = TRUE
  MaxEvents = 3
\* SiteHealth
  Candidates = {k1, k2}
  Slots = 1
CHECK_DEADLOCK FALSE
INVARIANTS
  LoopSafe
  TraceSafe
  HealthSafe
PROPERTIES
  StopsCalling
  BrowsersSafe
  EverythingEnds
