\* A publish whose pointer write was performed but not answered.
SPECIFICATION Spec
CONSTANTS
  Writers = {w1, w2}
  Contents = {c1}
  ValidContents = {c1}
  NoBody = NoBody
  MaxProbes = 2
  Grace = 1
  MaxSkew = 1
  Dateless = TRUE
  MaxLegacy = 1
  MaxLive = 2
  MaxFaults = 2
PROPERTIES
  FailureMovedNothing
CHECK_DEADLOCK FALSE
