SPECIFICATION MCSpec
CONSTANTS
  Permits = {p, q}
  Cars = {c}
  Members = {a, b}
  Visitors = {v}
  Plates = {w}
  MaxGrants = 2
  MaxTokens = 2
  MaxBookings = 2
  MaxRequests = 1
  GuestCap = 2
  MaxPending = 1
  None = None
  People = {x, y, z}
  Nobody = Nobody
  MaxShared = 2
  Tabs = {a, b}
  Forms = {a, b}
  MaxTopics = 2
  Household = {a, b}
  Sharers = {a, b}
  Invited = {a, b}
  Passes = {s}
  NoInvite = NoInvite
  NudgeGap = 2
  Day = 12
  MaxQuiet = 6
  WeekDays = 1
  Slots = 2
  MaxCycleWeeks = 4
  Horizon = 4
  Regos = {w}
  Pages = {a, b}
  MaxClock = 4
  MaxMade = 2
  SpreadWindow = 8
  OpDrain = 1
  OverrideCap = 2
  Lots = 4
  MaxFleet = 5
  MaxLength = 31
  MaxWait = 10
  Letters = {k, l, m}
  NoLetter = NoLetter
  MaxMail = 4
  MaxEvents = 4
  NudgeEvents = 2
  FanoutEvents = 2
  NoticeEvents = 1
  CeilingEvents = 3
  WebEvents = 5
  Browsers = {o}
  Ttl = 4
  MaxAge = 6
  MaxEpoch = 3
  NoCookie = NoCookie
  Tenants = {1, 2}
  DefaultTenant = 2
  Resolvers = {k, l}
  Choosers = {r, w}
  Regs = {r, w}
  Regions = {h, i}
  HomeState = h
  Bare = Bare
  NoRegion = NoRegion
  Askers = {a, b}
  Cost = 2
  TotalRate = 2
  TotalBurst = 2
  LoginRate = 1
  LoginBurst = 1
  Concurrency = 1
  SharedCap = 1
  MaxTime = 3
  Councils = {k, l}
  DriftInterval = 3
  FirstRest = 1
  MaxFails = 3
  NoRound = NoRound
  Tallied = {a, b}
  Throttle = 4
  Retry = 2
  Deadline = 1
  Churn = 2
  ManyOwners = 2
  Far = 5
  Callers = {k, l, m}
  Limit = 2
  LimitWindow = 2
  MaxKeys = 2
  PruneEvery = 3
  Claimants = {k, l, m}
  PermitIds = {1, 2, 3}
SYMMETRY Symmetry
INVARIANTS
  TypesOK
  BookingsAnswerTo
  OnlyApprovedIsBooked
  AccessAsMeant
  NoticeHonest
  OnceOnly
  PutOffBriefly
  ScheduleSound
  PortalSpared
PROPERTIES
  MembershipAsShown
  PlanKept
CHECK_DEADLOCK FALSE
