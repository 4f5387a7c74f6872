\* A poll tick that answers 304 while a refresh replaces what is loaded.
SPECIFICATION Spec
CONSTANTS
  Loads = {l1}
  Job = Job
  Referencing = {1}
  Rejected = {}
  Fallbacks = {}
  MaxTickets = 2
  MaxVersion = 2
  MaxSegment = 1
  MaxFaults = 0
PROPERTIES
  OlderNeverDelivered
\* After close() with nothing in flight and nothing left to publish.
CHECK_DEADLOCK FALSE
