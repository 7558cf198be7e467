SPECIFICATION FairSpec
CONSTANT
  Delay = 2
INVARIANTS
  TypeOK
  AimIsRemembered
  OffMeansNoAttack
PROPERTY
  OffComesToRest
