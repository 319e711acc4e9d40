SPECIFICATION RuntimeSpec
CONSTANTS
  Requests = {"r1"}
  Tasks = {"sync"}
  Loggers = {"r1", "sync"}
  LogBuffer = 1
  PendingLimit = 1
  Artists = {1, 2}
  OnSpotify = {1}
  Imported = {1}
  Configured = {"spotify", "itunes"}
  BatchLimit = 1
  RetryDelay = 1
  Interval = 1
  SpotifyInterval = 1
  MaxBackoff = 1
  StretchCap = 0
  CooldownLengths = {2}
  MaxAttempts = 2
  StreakCap = 1
  Budget = 1
  Late = 1
  Services = {"spotify"}
  Callers = {"c1", "c2"}
  Lookups <- SpotifyLookups
  NoKey = "none"
  Nobody = "nobody"
  Calls = 1
  Inline = 1
  Windows = {1}
  LongestWindow = 1
  DefaultWindow = 1
  QuotaWindow = 1
  RetryBackoff <- ShortBackoff
  Lifetime = 1
  MaxEntries = 1
INVARIANTS
  EndIsOrderly
  GivenUpForGoodReason
PROPERTIES
  ShutdownEnds
  QueuedWorkIsSeen
  DueQueueMoves
  CooldownIsHonoured
  CallsReturn
CHECK_DEADLOCK FALSE
