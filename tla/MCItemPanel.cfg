SPECIFICATION PanelSpec
CONSTANTS
  Item = {i1, i2}
  Name = {n1, n2}
  Op = {o1, o2}
  Fetch = {f1, f2}
  View = {"vault", "generator"}
  MaxUnlocks = 2
  MaxPanelCalls = 3
  NoName = NoName
  Gone = Gone
  Hint = Hint
  New = New
SYMMETRY Symmetry
CHECK_DEADLOCK FALSE
INVARIANTS
  PanelTypeOK
  PanelShowsListed
  NamesDistinct
