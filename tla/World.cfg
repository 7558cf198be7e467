SPECIFICATION WorldSpec
CONSTANTS
  Keys = {k1, k2}
  Defs = {"sword", "bow", "partial"}
  OwnDefs = {"partial"}
  Shape <- MCShape
  Absent = Absent
  Gone = Gone
  Players = {p1}
  Owner = NoOwner
  NoOwner = NoOwner
  Server = Server
  MaxReloads = 2
  MaxJoins = 2
  MaxNpcWrites = 3
SYMMETRY KeySymmetry
INVARIANTS
  WorldTypeOK
  GuestFightsLikeServer
  DrawnNpcHasRenderer
CHECK_DEADLOCK FALSE
