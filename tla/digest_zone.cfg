SPECIFICATION DigestSpec
CONSTANTS
  Zones = {"paris", "berlin"}
  Offset <- ZoneOffsets
  Reminder = 11
  DayParts = 12
  Lookback = 13
  Sweepers = {"s1"}
  Mailboxes = {"d1"}
  MaxEdits = 2
  Instants = {11, 23, 35}
  MaxMoves = 1
INVARIANT NeverOneFewer
CHECK_DEADLOCK FALSE
