SPECIFICATION SpecAll
CONSTANTS
  Parts = {"registry", "risk", "approvals", "limits", "tools", "store", "policies",
           "audit", "checks", "alerts", "reports"}
  a1 = a1
  a2 = a2
  a3 = a3
  TagSets <- AtRisk
  Hours = {0, 50, 100}
  MaxApprovals = 1
  Checkers = {"c1", "c2"}
  PerMinute = 2
  PerHour = 3
  BaseLimit = 4
  Floor = 1
  RedisLimit = 2
  Seconds = {0, 61, 122, 3700}
  MaxAsked = 4
  MaxFaults = 1
  Rules = {"tool_permission", "data_access", "rate_limit", "cost_limit"}
  Calls <- TwoCalls
  ToolLimit = 2
  CallTimes = {0, 60, 130}
  Delays <- LateOrNever
  StoreTimes = {0, 5, 11, 40}
  MaxStored = 2
  Ids = {"p1", "p2"}
  Definitions <- SpareDoctors
  Demands <- HealthAndHours
  Conditions <- NestedConditions
  PolicyContexts <- DayAndNight
  PolicyTimes = {0, 200, 400}
SYMMETRY Symmetry
INVARIANTS
  TypesOK
  
  
  
  VerdictsStand
  NothingGoesUnnoticed
  
PROPERTIES
  ApprovalsStand
CHECK_DEADLOCK FALSE
