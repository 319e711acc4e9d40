SPECIFICATION FairSpec
CONSTANTS
  m1 = m1
  m2 = m2
  a1 = a1
  a2 = a2
  p1 = p1
  p2 = p2
  MaxRequests = 2
  Members = {m1, m2}
  Artists = {a1, a2}
  Retry = Retry
  Runners = {p1}
  None = None
  MaxQueued = 3
  MaxQueuedPerMember = 2
  BatchLimit = 2
  Lease = 2
  LongestBatch = 1
  Legacy = {}
  Unanswered = {a1}
  Disturbances = {}
PROPERTIES
  OthersAreServed
