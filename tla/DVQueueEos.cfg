CONSTANTS
  Capacity <- MCCapacity
  MaxFrames <- MCMaxFrames
SPECIFICATION Spec
PROPERTY FalseMeansDrained
CHECK_DEADLOCK FALSE
