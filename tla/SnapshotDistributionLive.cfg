\* Liveness: source and client catch up.  No symmetry.
SPECIFICATION FairSpec
CONSTANTS
  Loads = {l1, l2}
  Job = Job
  Referencing = {2}
  Rejected = {}
  Fallbacks = {}
  MaxTickets = 3
  MaxVersion = 2
  MaxSegment = 1
  MaxFaults = 1
PROPERTIES
  SourceCatchesUp
  ClientCatchesUp
\* After close() with nothing in flight and nothing left to publish.
CHECK_DEADLOCK FALSE
