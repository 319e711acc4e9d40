SPECIFICATION Spec
CONSTANTS
  x1 = x1
  x2 = x2
  x3 = x3
  e1 = e1
  e2 = e2
  g1 = g1
  d1 = d1
  d2 = d2
  u1 = u1
  u2 = u2
  f1 = f1
  p1 = p1
  p2 = p2
  None = None
  Rows = {x1}
  Events = {e1}
  Runs = {}
  GroupOf <- OneEvent
  DestOf <- OneDestination
  Dests = {d1}
  Supported = {d1}
  UserOf <- OneMember
  Follows = {f1}
  FollowOf <- OneFollow
  Runners = {p1, p2}
  MaxAttempts = 2
  PauseAt = 2
  Lease = 2
  Backoff <- GrowingBackoff
  RateDelays = {}
  LongestCooldown = 2
  RateFallback = 1
  PauseLengths = {2}
  Horizon = 2
  LongestBatch = 4
  Workers = 2
  BatchLimit = 3
  Reservation = 1
  PerUser = 1
  Legacy = {}
  Disturbances = {"retry", "crash", "abandon", "shutdown", "overlap", "unfollow"}
INVARIANTS
  UntriedWaitsOutThePause
PROPERTIES
  SettledStaysSettled
