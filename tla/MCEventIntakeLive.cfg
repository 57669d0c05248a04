SPECIFICATION FairSpec
CONSTANTS
  k1 = k1
  k2 = k2
  Keys = {k1}
  v1 = v1
  v2 = v2
  Versions = {v1, v2}
  Stored = 0
  MaxNotes = 2
  MaxBuffered = 1
  Scenarios = {{"stop"}, {"abandon"}}
PROPERTIES
  Converges
  PauseClears
  StopEnds
CHECK_DEADLOCK FALSE
