SPECIFICATION Spec
CONSTANTS
  m1 = m1
  m2 = m2
  Members = {m1, m2}
  Artists = {1}
  Kinds = {"release_day"}
  Preferences <- Guarded
  Filters = {{"release_day"}}
  Modes = {"inherit", "off"}
  PauseLengths = {1}
  Backoff = 2
  Horizon = 2
  Editors = {m1}
  None = None
PROPERTIES
  PausedIsDeferred
