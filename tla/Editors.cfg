SPECIFICATION Spec
CONSTANTS
  Models = {m1}
  NoModel = NoModel
  Clients = {c1, c2}
  Server = Server
  NaN = NaN
  Exact = 4
  One = 2
  Spacings = {1, 2, 4}
  Huge = 16
  Inputs = {3}
  NoCopy = NoCopy
  NoPatch = NoPatch
  MaxWrites = 5
SYMMETRY ClientSymmetry
INVARIANTS
  CaughtUpClientAgrees
CHECK_DEADLOCK FALSE
