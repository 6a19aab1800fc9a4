SPECIFICATION Spec
CONSTANTS
  Visitor = {v1, v2}
  Size = {253, 65532, 65533}
  Fixture = 253
  AuthMax = 3
  SignupMax = 1
  ApiMax = 6
  MaxFlows = 3
  MaxExpiries = 1
SYMMETRY Symmetry
CHECK_DEADLOCK FALSE
INVARIANTS
  TypeOK
  SealedIsCarried
PROPERTIES
  RefusalIsEarned
  SessionLossHasCause
