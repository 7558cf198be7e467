SPECIFICATION Spec
CONSTANTS
  Keys = {k1, k2}
  Defs = {"sword", "ghost", "typo", "meshless", "partial"}
  OwnDefs = {"sword"}
  Shape <- MCShape
  Absent = Absent
  Players = {p1}
  Owner = NoOwner
  NoOwner = NoOwner
  Server = Server
  MaxReloads = 2
  MaxJoins = 2
SYMMETRY KeySymmetry
INVARIANTS
  TypeOK
  ServerServesItsTagmap
  PickerMatchesProviders
  DrawableHasRenderer
  GuestAgreesWithItsPacket
PROPERTY
  ImplementsWriteOnceMap
