SPECIFICATION FairSpec
CONSTANT
  MaxLine = 4
INVARIANTS
  TypeOK
  OkMeansAwake
PROPERTIES
  ImplementsRequests
  PowerOnReturns
