SPECIFICATION Spec
CONSTANTS
  ResponseSize = 5
  ChunkSize = 3
  ResponseTicks = 2
  InterCharTicks = 1
INVARIANTS
  TypeOK
  OkWasReceived
  ErrorCameFirst
  AnsweredInTime
  TimeoutIsSilence
