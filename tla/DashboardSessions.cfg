SPECIFICATION Spec
CONSTANTS
  Undefined = Undefined
  Rejected = Rejected
  Refused = Refused
  Malformed = Malformed
  None = None
  d0 = d0
  d1 = d1
  d2 = d2
  Bucket <- NoFunction
  Drift = {0}
  Listed <- NoFunction
  Started <- MCStarted
  RivalEdits <- MCRivalEdits
  Immediate <- MCImmediate
  Typed <- MCTyped
  FormDefaults = {d1}
  MaxRequests = 3
  MaxRivals = 2
  MaxFaults = 1
INVARIANT TypeOK
INVARIANT NoLostUpdate
INVARIANT DraftSurvives
INVARIANT ReportsAreTrue
CHECK_DEADLOCK FALSE
