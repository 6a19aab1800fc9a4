SPECIFICATION Spec
CONSTANTS
  Request = {r1, r2, r3}
  Enrolled = Enrolled
  Slot = {s1, s2}
  MaxStep = 2
  None = None
SYMMETRY Interchangeable
INVARIANT FactorIsWhole
INVARIANT BackupCodeSpentOnce
INVARIANT StepSpentOnce
