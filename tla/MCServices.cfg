SPECIFICATION ServicesSpec
CONSTANTS
  Accounts = {r1, r2, r3}
  Links = {r1, r2, r3}
  Managers = {a1, a2}
  Browsers = {b1, b2}
  Invites = {b1, b2}
  Requests = {a1, a2}
  INVITE_MAX_SENDS = 2
  INVITE_EXPIRY = 2
  DAILY_BUDGET = 3
  Permissions = {x1}
  REVOCATION_CACHE_TTL = 2
  Attempts = {w1, w2, w3}
  Bodies = {b1, b2}
  Posts = {r1, r2, r3}
  DailyLimit = 2
  Cycles = {a1, a2}
  Lookback = 0
  CommentPages = 1
  DeepPages = 1
  DeepSweepTime = 0
  StoreFails = TRUE
  Past = {1}
  MaxComments = 2
  Queue = {x1}
  Queues = {a1, a2}
  QueuedPosts = {b1, b2}
  Horizon = 3
  Slots = {1, 2, 3}
  NoPlan = NoPlan
  MaxNow = 1
  HandInstants = {2, 3}
  MaxHandMoves = 1
  Items = 2
  MaxCalls = 4
  Passes = {a1, a2}
  Budgets = {x1}
  Backoff = 1
  MaxWindow = 2
  MaxDay = 2
  MaxHour = 3
CHECK_DEADLOCK FALSE
SYMMETRY Symmetry
INVARIANTS
  OutcomeIsUnanimous
  ClientKeepsAWayIn
  InviteMailIsBounded
  StaleRowsDie
  OffboardedAtOnce
  RetriesAreSafe
  
  RefusalsAreHeeded
  NoStrayPhotos
  OnlyHandsDoubleBook
PROPERTIES
  HistoryIsNeverDeselected
  
  KeepsPromise
  LadderKeepsOrder
