SPECIFICATION Spec
CONSTANTS
  Keys = {0, 17, 24}
  MaxChunk = 3
  MaxTyped = 6
INVARIANTS
  TypeOK
  EscapeExact
  ForwardedExact
CHECK_DEADLOCK FALSE
