CONSTANTS
  Capacity <- MCCapacity
  MaxFrames <- MCMaxFrames
SPECIFICATION Spec
INVARIANTS
  TypeOK
  RingConsistent
  HeldFrameIntact
PROPERTIES
  ImplementsChannel
  FramesDelivered
  CallsReturn
CHECK_DEADLOCK FALSE
