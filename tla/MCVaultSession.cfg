SPECIFICATION Spec
CONSTANTS
  Account = {ann, bob}
  Item = {i1, i2}
  Op = {o1, o2}
  Calls = {"load", "add", "update", "delete", "changePassword",
           "regenerateKit"}
  MaxCalls = 3
  MaxLogins = 2
  MaxVersion = 2
  Nobody = Nobody
  Zeros = Zeros
  NoItem = NoItem
SYMMETRY Symmetry
CHECK_DEADLOCK FALSE
INVARIANTS
  ListFollowsServer
  LockLeavesNothing
  SealedByOwner
