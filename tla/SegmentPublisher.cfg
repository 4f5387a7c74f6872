\* Two uploaders, one fault, a segment that is new, files
\* good and bad.  MaxMembers 1 makes two members one too many.
SPECIFICATION FairSpec
CONSTANTS
  Uploaders = {u1, u2}
  alice = alice
  bob = bob
  Names = {alice, bob}
  TooLong = TooLong
  Header = Header
  Quoted = Quoted
  Blank = Blank
  Files <- MCFiles
  Drafts <- MCDrafts
  MaxMembers = 1
  MaxLive = 2
  MaxFaults = 1
INVARIANTS
  TypeOK
  PendingPointerFits
  LateConflictIsOwn
  PageCatchesUp
PROPERTIES
  PublishedSpec
  WedgedForEver
  StoredGoesLive
\* Once the pointer is at MaxLive no call starts: the model stops there.
CHECK_DEADLOCK FALSE
