SPECIFICATION Spec
CONSTANTS
  Models = {m1, m2}
  NoModel = NoModel
  Clients = {c1}
  Server = Server
  NaN = NaN
  Exact = 4
  One = 2
  Spacings = {1, 2, 4}
  Huge = 16
  Inputs <- MCInputs
  NoCopy = NoCopy
  NoPatch = NoPatch
  MaxWrites = 4
SYMMETRY ModelSymmetry
INVARIANTS
  TypeOK
  SaveIsLossless
  CaughtUpClientAgrees
  PatchFollowsModel
  GuardBreaksInTime
CHECK_DEADLOCK FALSE
