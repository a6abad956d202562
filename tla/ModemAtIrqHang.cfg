SPECIFICATION FairSpec
CONSTANTS
  ResponseSize = 3
  ChunkSize = 1
  ResponseTicks = 3
  InterCharTicks = 2
PROPERTY NeverHangs
