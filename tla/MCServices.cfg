SPECIFICATION SpecAll
CONSTANTS
  Parts = {"webhooks", "gateway", "mcp", "bus", "search", "pipeline", "leads", "posts",
           "caches", "learning", "agents", "outreach", "accounts",
           "prices", "vault", "tasks", "missions"}
  Subscribers = {"s", "t"}
  EventTypes = {"e"}
  MaxDeliveries = 2
  ApiKeys = {"k"}
  Limits = {2}
  Lifetimes = {0, 100}
  Connections = {"c"}
  Moments = {0, 59, 60, 340}
  MaxPassed = 4
  BufferSize = 1
  MaxPublished = 1
  McpCallers = {"c", "d"}
  Servers = {"ext", "builtin"}
  Advertising = {"ext"}
  MaxStarts = 2
  MaxWritten = 4
  Callbacks = {"c", "d"}
  Available = TRUE
  MaxConnections = 3
  MaxBusEvents = 3
  CacheKeys = {"asset", "risk"}
  CacheMembers <- MembersOfAsset
  Fillers = {"c"}
  TTLs = {10}
  MaxSize = 1
  Backends = {"memory", "redis", "governance"}
  CacheMoments = {0, 11}
  MaxWrites = 1
  Names = {"n"}
  VaultCallers = {"c", "d"}
  Workers = {"p", "q"}
  Home <- HomeOf
  Configured = FALSE
  MaxStores = 3
  MaxRestarts = 1
  LeadIds = {"l"}
  CampaignIds = {"c"}
  DeskRequests = {"r1", "r2"}
  LeadScores = {20, 60, 80}
  LeadStatuses = {"new", "contacted"}
  MaxPosts = 3
  MaxDeals = 2
  Learners = {"a", "b"}
  Results = {"success", "failure"}
  Complexities = {"simple"}
  Models = {"m"}
  Qualities = {8}
  Costs = {10}
  Flaws = {"cost", "quality"}
  TrendWindow = 1
  Enough = 2
  MaxOutcomes = 2
  DeskAgents = {"a"}
  Workforces = {"w"}
  Members = {"m"}
  Runs = {"r", "s"}
  AgentStatuses = {"idle", "offline"}
  Servings = 2
  KeysKept = TRUE
  MaxAgentEvents = 2
  Industries = 2
  Sizes = 2
  Target = 2
  MaxFound = 2
  Length = 2
  Holders = {"a", "b"}
  Priced = {"a"}
  Tellers = {"c", "d"}
  Amounts = {10}
  TenantKeep = 2
  AgentKeep = 1
  MaxMovements = 3
  MaxCredit = 10
  MaxPlan = 8
  MissionIds = {"m", "n"}
  MaxSteps = 2
INVARIANTS
  TypesOK
  
  
  
  
CHECK_DEADLOCK FALSE
