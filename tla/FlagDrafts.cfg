SPECIFICATION Spec
CONSTANTS
  Undefined = Undefined
  Rejected = Rejected
  Refused = Refused
  Malformed = Malformed
  NoSave = NoSave
  beta = beta
  vip = vip
  legacy = legacy
  d0 = d0
  d1 = d1
  Bucket <- MCBucket
  Drift <- MCDrift
  Listed <- MCListed
  Published <- MCPublished
  Edits <- MCEdits
  Defaults = {d1, Malformed}
  Rollouts <- MCRollouts
  Contexts <- MCContexts
  Members <- MCMembers
  MaxSaves = 2
  MaxEdits = 2
INVARIANT TypeOK
INVARIANT SaveMeansWhatWasClicked
INVARIANT BlankSaltsApart
INVARIANT RolloutExact
INVARIANT ReviewShowsAll
INVARIANT MergeKeepsBoth
INVARIANT MergedPublishable
INVARIANT ReplayAgreesWithMerge
CHECK_DEADLOCK FALSE
