SPECIFICATION Spec
CONSTANTS
  Undefined = Undefined
  Rejected = Rejected
  Refused = Refused
  Malformed = Malformed
  None = None
  d0 = d0
  d1 = d1
  d2 = d2
  Bucket <- NoFunction
  Drift = {0}
  Listed <- NoFunction
  Started <- MCStale
  RivalEdits <- MCRivalEdits
  Immediate = {}
  Typed = {}
  FormDefaults = {d1}
  MaxRequests = 2
  MaxRivals = 1
  MaxFaults = 0
INVARIANT OnlyOwnChanges
CHECK_DEADLOCK FALSE
