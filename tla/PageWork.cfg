SPECIFICATION WorkingSpec
CONSTANTS
\* AgentRows
  Items <- MCItems
  AgentRoles = {"hosting", "embedded"}
  RoleOf <- MCRoleOf
  Workers = 2
  Parts = 2
\* ToolSessions
  Callers = {"c1", "c2", "c3"}
  MaxOpened = 2
\* WorkingMemory
  NoWorkUrl = "none"
  WorkUrl <- MCWorkUrl
  StreamLike = {"hls", "mpd"}
  PagedLike = {"list"}
  ArticleLike = {"news"}
  PatternOf <- MCPatternOf
  HostOf <- MCHostOf
  WorkPages = {"landing_page", "hosting_page"}
  ToolArgs <- MCToolArgs
  ToolResults <- MCToolResults
  WindowSize = 4
  LookBack = 3
  BaseCap = 2
  RaisedCap = 3
  LabelCap = 2
  SelectorCap = 2
  ShownMax = 1
  MaxCallsSeen = 2
\* PageTools
  Tabs = {"tab"}
  TabProfile <- MCTabProfile
  EarlierProfiles = {"landing"}
  Addresses = {"home"}
  Elements <- MCElements
  Layouts <- MCLayouts
  Selections <- MCSelections
  PageUrls = {"list"}
  EntryCap = 1
  InspectCap = 6
  WaitLimit = 1
  Wired = TRUE
  MaxEpoch <- MCMaxEpoch
  MaxLoads <- MCMaxLoads
  MaxRequests <- MCMaxRequests
\* Evidence
  Url <- MCUrl
  Root = "root"
  Streams = {"named", "caught"}
  Http <- MCHttp
  OffTarget = {"advert"}
  Paginated = {"list"}
  PageAnswers <- MCPageAnswers
  HostAnswers <- MCHostAnswers
  EmbedAnswers <- MCEmbedAnswers
  Memories <- MCMemories
  MaxReplans = 1
CHECK_DEADLOCK FALSE
INVARIANTS
  RowsTrue
  WorkSafe
  ToolsSafe
  EvidenceSafe
PROPERTIES
  SessionsSafe
