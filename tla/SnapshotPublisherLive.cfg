\* Liveness: an orphan never wedges the environment.  No symmetry.
SPECIFICATION FairSpec
CONSTANTS
  Writers = {w1, w2}
  Contents = {c1}
  ValidContents = {c1}
  NoBody = NoBody
  MaxProbes = 6
  Grace = 1
  MaxSkew = 0
  Dateless = FALSE
  MaxLegacy = 1
  MaxLive = 2
  MaxFaults = 1
PROPERTIES
  NeverWedged
\* Once MaxLive versions were live no call starts: the model stops there.
CHECK_DEADLOCK FALSE
