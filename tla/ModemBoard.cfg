SPECIFICATION Spec
CONSTANT MaxAge = 1600
INVARIANTS
  TypeOK
  OkMeansDone
  RailBeforePulse
PROPERTIES
  PulseWidth
  CycleDischarges
