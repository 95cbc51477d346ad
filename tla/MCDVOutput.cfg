CONSTANTS
  b1 = b1
  b2 = b2
  App = App
  EOS_PACKET = EOS_PACKET
  NoBuffer = NoBuffer
  Buffers <- MCBuffers
  Getters <- MCGetters
  MaxFrames <- MCMaxFrames
SPECIFICATION Spec
INVARIANTS
  TypeOK
  BuffersAccounted
  NoLostWakeup
PROPERTIES
  ImplementsStream
  OutputGoesOn
CHECK_DEADLOCK FALSE
