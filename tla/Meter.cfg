SPECIFICATION BlockingSpec
CONSTANTS
  Models = {m1}
  NoModel = NoModel
  Clients = {}
  Server = Server
  NaN = NaN
  Exact = 4
  One = 2
  Spacings = {1, 2, 4}
  Huge = 16
  Inputs <- MeterInputs
  NoCopy = NoCopy
  NoPatch = NoPatch
  MaxWrites = 5
PROPERTY
  GuardBreaksOrStandsStill
CHECK_DEADLOCK FALSE
