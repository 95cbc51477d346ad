CONSTANTS
  b1 = b1
  b2 = b2
  Monitoring = Monitoring
  NoSample = NoSample
  Buffers <- MCBuffers
  Getters <- MCGetters
SPECIFICATION Spec
INVARIANTS
  TypeOK
  ShownIsFilled
  HandOverKept
PROPERTIES
  PreviewGoesOn
  CloseReturns
CHECK_DEADLOCK FALSE
