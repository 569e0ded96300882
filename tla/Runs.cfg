SPECIFICATION RunsSpec
CONSTANTS
\* JobQueue
  r1 = r1
  r2 = r2
  Run = {r1, r2}
  None = None
  MaxAttempts = 2
  Limit = 2
  Verdict = {"success", "failed", "no_target"}
  MaxCrashes = 1
  CancelEarly = FALSE
  EarlyRestart = FALSE
\* WorkflowRun
  MaxVisits = 7
  MaxSpent = 2
  Limits = {0, 1}
\* AgentRuns
  First = c1
  Second = c2
  Landing = {l1}
  Hosting = {h1}
  Embedded = {e1}
  Words <- MCWords
  Forms = {"json", "text", "garbage"}
CHECK_DEADLOCK FALSE
INVARIANTS
  WorkflowSafe
  AgentRunsSafe
PROPERTIES
  QueueEnds
  RunsEnd
