\* Safety of one client fed by load() and by the subscription.  Two refreshes
\* overlap each other and the jobs; versions 1 and 3 reference the segment,
\* 2 does not and is rejected by the client.
SPECIFICATION Spec
CONSTANTS
  Loads = {l1, l2}
  Job = Job
  Referencing = {1, 3}
  Rejected = {2}
  Fallbacks = {1, 2}
  MaxTickets = 3
  MaxVersion = 3
  MaxSegment = 1
  MaxFaults = 1
SYMMETRY Symmetric
INVARIANTS
  TypeOK
  NeverBehindDelivery
PROPERTIES
  MembersKept
  ClosedStaysPut
\* After close() with nothing in flight and nothing left to publish.
CHECK_DEADLOCK FALSE
