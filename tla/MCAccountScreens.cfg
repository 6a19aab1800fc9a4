SPECIFICATION Spec
CONSTANTS
  Account = {a, b}
  Outdated = {a, b}
  MaxCalls = 2
  MaxLocks = 2
  None = None
SYMMETRY Symmetry
CHECK_DEADLOCK FALSE
INVARIANTS
  TypeOK
  OnceShownIsKept
  SettingsSayTruth
  NoticeIsOfThisLock
