SPECIFICATION Spec
CONSTANTS
  PllDividers = {66, 88}
  CoreRating = 528
  IpgRating = 132
  Stages = 2
INVARIANT
  ConfiguredWhenDone
CHECK_DEADLOCK FALSE
