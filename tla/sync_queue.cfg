SPECIFICATION Spec
CONSTANTS
  m1 = m1
  m2 = m2
  a1 = a1
  a2 = a2
  p1 = p1
  p2 = p2
  MaxRequests = 2
  Members = {m1, m2}
  Artists = {a1, a2}
  Retry = Retry
  Runners = {p1, p2}
  None = None
  MaxQueued = 2
  MaxQueuedPerMember = 1
  BatchLimit = 2
  Lease = 1
  LongestBatch = 1
  Legacy = {}
  Unanswered = {}
  Disturbances = {"crash", "shutdown", "panic", "timeout", "storeError", "overlap", "deleteUser"}
SYMMETRY Symmetry
INVARIANTS
  IInv
  OneOpenPerTarget
PROPERTIES
  SettlesOnce
  ServesWhatWasAsked
