SPECIFICATION Spec
CONSTANTS
  Anims = {roll}
  NoAnim = NoAnim
  NoTarget = NoTarget
  Offsets <- Vectors
  Strengths <- Doses
  Least = 25
  Largest = 180
  MaxCalls = 2
INVARIANTS
  TypeOK
  NoFasterThanAsked
PROPERTY
  PushedWhereAsked
