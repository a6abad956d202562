SPECIFICATION Spec
CONSTANTS
  PllDividers = {66, 88}
  CoreRating = 528
  IpgRating = 132
  Stages = 2
INVARIANTS
  WithinRating
  ProgrammedOnce
PROPERTY
  QuietChange
CHECK_DEADLOCK FALSE
