SPECIFICATION FairSpec
CONSTANTS
  ResponseSize = 5
  ResponseTicks = 4
  InterCharTicks = 2
  MaxBurst = 2
INVARIANTS
  TypeOK
  ExitTellsWhy
  CutAfterSilence
PROPERTY
  PollReturns
