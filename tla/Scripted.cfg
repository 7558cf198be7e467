SPECIFICATION FairSpec
CONSTANTS
  Anims = {"flurry", "slash", "bow", "twitch"}
  NoAnim = "none"
  Phases <- MCPhases
  Total <- MCTotal
INVARIANTS
  TypeOK
  EachContactOnce
  CalledOffStaysOff
PROPERTIES
  NoContactLeftOut
  NoContactEarly
  TickEnds
