\* Safety of concurrent publishes and rollbacks.  Two publishers, one fault,
\* at most two versions there at the start; Grace 2 leaves room between "older
\* than the pointer" and "past the grace period".
SPECIFICATION Spec
CONSTANTS
  Writers = {w1, w2}
  Contents = {c1, c2, bad}
  ValidContents = {c1, c2}
  NoBody = NoBody
  MaxProbes = 2
  Grace = 2
  MaxSkew = 0
  Dateless = FALSE
  MaxLegacy = 2
  MaxLive = 2
  MaxFaults = 1
SYMMETRY Symmetric
INVARIANTS
  TypeOK
  PendingMovesFit
  RollbackRestores
  ConflictMeansMoved
PROPERTIES
  SnapshotsNeverChange
  SkipsNoLiveRival
  PublishedSpec
\* Once MaxLive versions were live no call starts: the model stops there.
CHECK_DEADLOCK FALSE
