SPECIFICATION FairWorldSpec
CONSTANTS
  Keys = {k1}
  Defs = {"sword", "bow", "garbled"}
  OwnDefs = {"sword"}
  Shape <- MCShape
  Absent = Absent
  Gone = Gone
  Players = {p1, p2}
  Owner = p1
  NoOwner = NoOwner
  Server = Server
  MaxReloads = 2
  MaxJoins = 2
  MaxNpcWrites = 2
PROPERTIES
  SyncReachesGuests
  GuestSeesNpc
CHECK_DEADLOCK FALSE
