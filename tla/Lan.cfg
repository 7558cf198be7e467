SPECIFICATION Spec
CONSTANTS
  Keys = {k1, k2}
  Defs = {"sword", "ghost", "garbled", "typo", "partial"}
  OwnDefs = {}
  Shape <- MCShape
  Absent = Absent
  Players = {p1}
  Owner = p1
  NoOwner = NoOwner
  Server = Server
  MaxReloads = 3
  MaxJoins = 2
SYMMETRY KeySymmetry
INVARIANTS
  ServerServesItsTagmap
  PickerMatchesProviders
  DrawableHasRenderer
PROPERTY
  ImplementsWriteOnceMap
CHECK_DEADLOCK FALSE
