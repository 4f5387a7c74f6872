\* An application over a plain file, a watched file, or S3 with a notification
\* queue, beside another application in the same process.
SPECIFICATION FairSpec
CONSTANTS
  Loads = {l1}
  First = l1
  Kinds = {"file", "watch", "queue"}
  Referencing = {2}
  Rejected = {}
  Fallbacks = {}
  MaxTickets = 2
  Reloads = {r1, r2}
  MaxVersion = 2
  MaxMembers = 1
  MaxSaves = 2
  MaxCrashes = 1
  Ids = {m1, m2}
  MaxPublishes = 2
  MaxFaults = 1
INVARIANTS
  TypeOK
  BoundIsServing
  DeletedMeansGiven
PROPERTIES
  ClosedWindsDown
  PullIsAtomic
  SettlesOnFile
  QueueDrains
\* An application that is down, with everything written and published, stops.
CHECK_DEADLOCK FALSE
