SPECIFICATION WorldSpec
CONSTANTS
  Keys = {k1, k2}
  Defs = {"sword"}
  OwnDefs = {}
  Shape <- MCShape
  Absent = Absent
  Gone = Gone
  Players = {p1}
  Owner = p1
  NoOwner = NoOwner
  Server = Server
  MaxReloads = 4
  MaxJoins = 1
  MaxNpcWrites = 2
SYMMETRY KeySymmetry
INVARIANTS
  DrawnNpcHasRenderer
CHECK_DEADLOCK FALSE
