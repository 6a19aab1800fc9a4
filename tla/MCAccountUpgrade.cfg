SPECIFICATION Spec
CONSTANTS
  Password = {p1, p2}
  Request = {r1, r2}
  Signup = Signup
  FirstPw = p1
  Strength = {0, 1}
  DefaultKdf = 1
  None = None
SYMMETRY Interchangeable
PROPERTY UpgradeKeepsPassword
