SPECIFICATION ServicesSpec
CONSTANTS
  Parts = {"memory", "catalog", "delegation", "roster", "conversation", "endpoint", "access", "mcp", "paging", "workspace", "routine", "composer", "scripts", "schemas", "notes"}
  Writers = {"w1", "w2"}
  Staff = {"ann", "bob"}
  Manager <- Boss
  Nobody = "none"
  Topics <- ATopic
  Reserved <- ASummary
  Facts <- TheFacts
  MaxRows = 3
  CharBudget = 3
  MaxInjected = 2
  Requests = {"q1", "q2"}
  Offered = {"t1"}
  Versions = {"v1", "v2"}
  Risks = {"low"}
  MaxPages = 2
  MaxListed = 1
  MaxRotations = 1
  MAX_DEPTH = 3
  MAX_DESCENDANTS = 3
  Slots = 2
  Personas = {"ann", "bob", "cy"}
  ToolIds = {"look"}
  DestructiveIds = {}
  MaxCalls = 2
  THREAD_TOKEN_THRESHOLD = 3
  RECENT_CONTEXT_TOKEN_BUDGET = 2
  MaxPrompts = 3
  MaxGraphRuns = 3
  MaxMessages = 9
  Inbound = {"q1", "q2"}
  Calls <- TheCalls
  Grants <- TheGrants
  MaxClients = 3
  MaxMinted = 2
  PageSize = 1
  Hosts = {"s1", "s2"}
  FirstHosts = {"s1"}
  HostOf <- Homes
  Pending = {1, 2}
  RowIds = {1, 2, 3}
  Fine = 2
  MaxTime = 2
  Limit = 1
  Tools = {"look", "post"}
  ReadOnly = {"look"}
  CannotAllow = {"post"}
  Unavailable = {}
  Destructive = {"post"}
  FirstChoices = {"ask"}
  MaxVisits = 2
  MaxClicks = 3
  MaxAsks = 3
  MaxChats = 3
  MaxSends = 2
  MaxSelects = 2
  Scripts = {"k1", "k2"}
  MaxVersions = 2
  MaxTurns = 3
  Holders = {"h1", "h2"}
  MaxItems = 2
  Types = {"string"}
  Depth = 2
CONSTRAINT Bounded
CHECK_DEADLOCK FALSE
INVARIANTS
  ServicesTypeOK
  MemoryIsAsTold
  SerialHandlersKeepRegistry
  FamilyStaysSmall
  ChartHasNoCycleUnlessRaced
  ModelIsToldTheThread
  AccessKeepsAnswers
  PatientPageIsCurrent
  WalkTellsEveryRow
  WorkspaceTellsTheRows
  EachMessageInItsChat
  ReviewedAsShown
  ArgumentsFitTheTool
PROPERTIES
  ApprovalIsOfThisContract
  AdmittedWhileActive
