SPECIFICATION PagesSpec
CONSTANTS
  one = one
  two = two
\* UsageLedger
  Runs = {one, two}
  Agents = {one, two}
  Answers <- MCAnswers
  Prices <- MCPrices
  Unpriced <- FreeRow
  Cap = 9
  MaxCalls = 3
\* RunBoard
  BoardRun = {one, two}
  BoardVerdict <- MCBoardVerdict
  BoardAttempts = 2
\* AgentRollups
  RollActor = {"hosting", "embedded"}
  RollEvents = 4
  RollAgents = 2
\* Takedown
  MailResults <- MCMailResults
  MailHost <- MCMailHost
  InfoReplies <- MCInfoReplies
  WhoisReplies <- MCWhoisReplies
\* Handoffs
  Root = root
  Watch = {w1, w2}
  Players = {p1}
  MaxReplans = 1
SYMMETRY PagesSymmetry
CHECK_DEADLOCK FALSE
INVARIANTS
  CostsTrue
  BoardTells
  RollupsTell
  MailsTrue
  HandoffsTrue
