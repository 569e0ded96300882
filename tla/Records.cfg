SPECIFICATION RecordsSpec
CONSTANTS
  one = one
  two = two
  three = three
\* RunStore
  StoreAttempts = 3
  MaxCrashes = 2
  Kinds <- MCKinds
  Verdicts <- MCVerdicts
\* RunNotes
  Requests = {one, two}
  MaxDecisions = 2
  MaxDecisionRows = 3
\* RunPlanSteps
  ForeignKeys = FALSE
  MaxAttempts = 2
  MaxVisits = 6
\* DatasetSites
  Urls <- MCUrls
  Seeds <- MCSeeds
  Writers = {one, two}
  Lookers = {three}
  MaxRuns = 2
  MaxBirths <- MCMaxBirths
\* SiteMemory
  MemoryRuns = {one, two, three}
  PageTypes = {"landing_page", "hosting_page"}
  None = None
  TTL = 1
  Attempts = 2
  MaxDay = 2
\* OperatorSettings
  Editors = {one, two}
  SecretFields = {"key"}
  PlainFields = {"browser", "catalog"}
  Values = {"x", "y"}
  Bodies <- MCBodies
  MaxUpdates = 3
  Environment <- MCEnvironment
  Shipped <- MCShipped
SYMMETRY RecordsSymmetry
CHECK_DEADLOCK FALSE
INVARIANTS
  PlanTrue
  SitesTrue
  MemoryTrue
  SettingsTrue
PROPERTIES
  StoreTrue
  NotesTrue
