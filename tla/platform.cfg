SPECIFICATION PlatformSpec
CONSTANTS
  m1 = m1
  m2 = m2
  Members = {m1, m2}
  Artists = {1, 2}
  Kinds = {"release_day"}
  Preferences <- OnOff
  Filters = {{"release_day"}}
  Modes = {"inherit", "off"}
  PauseLengths = {1, 2}
  Backoff = 2
  Horizon = 2
  Editors = {m1}
  None = None
  r1 = r1
  r2 = r2
  e1 = e1
  e2 = e2
  l1 = l1
  Clients = {r1, r2}
  Emails = {e1, e2}
  Links = {l1}
  MaxUsers = 2
  MaxEra = 1
  Slots = 2
  Threshold = 2
  Window = 1
  Budget = 3
  PageSize = 2
  MaxPages = 2
  CollectionLimit = 2
  Unknown <- NoDate
  Catalogues <- AllCatalogues
  Services = {"spotify", "itunes", "musicbrainz", "listenbrainz"}
  Callers = {"c1", "c2"}
  Lookups <- AllLookups
  NoKey = "none"
  Nobody = "nobody"
  Calls = 1
  Inline = 1
  Windows = {1, 3}
  LongestWindow = 2
  DefaultWindow = 2
  QuotaWindow = 2
  RetryBackoff <- ShortBackoff
  Lifetime = 1
  MaxEntries = 1
  Shown <- ShownRecords
  Normal <- NormalTitles
  Month = 30
  Tolerance = 3
  NewsDays = 7
  MaxSyncs = 3
  MaxRecords = 2
  MaxDay = 7
  Zones = {"berlin", "new_york"}
  Offset <- ZoneOffsets
  Reminder = 11
  DayParts = 12
  Lookback = 13
  Sweepers = {"s1", "s2"}
  Mailboxes = {"d1", "d2"}
  Instants = {11, 14, 23, 35, 47}
  MaxMoves = 1
  MaxEdits = 1
  Openers = {"p1", "p2"}
  Releases <- ReleaseVersions
  Installed = 2
  Retention = 1
  MaxStarts = 4
  Pages = {"p1", "p2"}
  ReleaseGroups = {"g1", "g2"}
  Fetches = {1, 2}
  FetchSlots = 1
  OpensAt = 1
  LongestOpen = 1
  MaxFiles = 1
  MaxGets = 2
  Handlers = {1, 2}
  JobIds = {1, 2}
  File <- UploadedFile
  Known = {"known"}
  Stale = 1
  Transient = 3
  MaxUploads = 1
  MaxDowntime = 1
  Faults = 1
  Askers = {"m1"}
  Profiles = {"s1", "s2", "i1"}
  OnITunes = {"i1"}
  Canonical = {"a1", "a2"}
  Numbers = {1, 2}
  Nothing = Nothing
  MaxActive = 2
  BatchPerUser = 1
  BatchSize = 2
  Delays <- RetryDelays
  MaxRequested = 2
INVARIANTS
  AlertedOnce
  ObservationIsFaithful
  CallersAreIndependent
  DigestIsDue
  UpgradesAreSound
  CoversAreShared
PROPERTIES
  AccountsAreSound
  DecisionsStand
  ChangesRealign
  WindowIsQuiet
  SyncsAreSound
  ImportsTellTheTruth
  ResolutionsAreSound
CHECK_DEADLOCK FALSE
