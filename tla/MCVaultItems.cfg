SPECIFICATION Spec
CONSTANTS
  User = {u1, u2}
  Item = {i1, i2, i3}
  ann = ann
  Ann = Ann
  bob = bob
  Email <- MCEmail
  Address = {"ann", "bob"}
  Lower <- MCLower
  Request = {r1, r2, r3}
  Wiper = {w1}
  MaxItems = 2
  Fixtures = 2
  NoUser = NoUser
  NoEmail = NoEmail
SYMMETRY Symmetry
CHECK_DEADLOCK FALSE
INVARIANTS
  OneAccountPerAddress
  RowsBelong
  CapExceededByOverlapOnly
  AlarmNeedsNewcomer
  CredentialsLeadToVault
