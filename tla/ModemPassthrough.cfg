SPECIFICATION FairSpec
CONSTANTS
  RingSize = 3
  FifoDepth = 2
  ChunkSize = 2
  MaxBytes = 5
  Binary = {2, 3}
INVARIANTS
  TypeOK
  NoNullShellWrite
  OneReader
  NothingLeaks
  SessionLossless
  SessionInv
PROPERTIES
  NoReadAfterStop
  ImplementsLease
  CommandsReturn
  EscapeReturns
  StoredIsPrinted
