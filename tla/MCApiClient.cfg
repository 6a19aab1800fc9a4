SPECIFICATION FairSpec
CONSTANTS
  Call = {c1, c2}
  Change = {c2}
  Session = {1, 2}
  None = None
CHECK_DEADLOCK FALSE
INVARIANT NoFalsePositive
INVARIANT TokensFollowSession
INVARIANT NextRefreshWorks
INVARIANT NothingKept
PROPERTY EveryCallEnds
