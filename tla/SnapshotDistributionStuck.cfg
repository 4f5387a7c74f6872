\* One refresh overtaken by one delivery, nothing lost and nothing failing.
SPECIFICATION FairSpec
CONSTANTS
  Loads = {l1}
  Job = Job
  Referencing = {}
  Rejected = {}
  Fallbacks = {}
  MaxTickets = 1
  MaxVersion = 2
  MaxSegment = 0
  MaxFaults = 0
PROPERTIES
  PollingSuffices
\* After close() with nothing in flight and nothing left to publish.
CHECK_DEADLOCK FALSE
