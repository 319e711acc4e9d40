SPECIFICATION FairSpec
CONSTANTS
  x1 = x1
  x2 = x2
  x3 = x3
  e1 = e1
  e2 = e2
  g1 = g1
  d1 = d1
  d2 = d2
  u1 = u1
  u2 = u2
  f1 = f1
  p1 = p1
  p2 = p2
  None = None
  Rows = {x1, x2, x3}
  Events = {e1, e2}
  Runs = {g1}
  GroupOf <- CrowdGroups
  DestOf <- CrowdDestinations
  Dests = {d1, d2}
  Supported = {d1, d2}
  UserOf <- TwoMembers
  Follows = {f1}
  FollowOf <- OneFollow
  Runners = {p1, p2}
  MaxAttempts = 1
  PauseAt = 2
  Lease = 2
  Backoff <- GrowingBackoff
  RateDelays = {}
  LongestCooldown = 2
  RateFallback = 1
  PauseLengths = {}
  Horizon = 2
  LongestBatch = 1
  Workers = 2
  BatchLimit = 2
  Reservation = 1
  PerUser = 1
  Legacy = {x1}
  Disturbances = {"crash"}
PROPERTIES
  QueuesMoveOn
