CONSTANTS
  Capacity = 1
  MaxSessions = 1
  MaxAVIFrames = 2
  Decimations = {1}
  Threshold = 2
  Tapes <- MCTapes
  CaptureTimes <- MCCaptureTimes
SPECIFICATION Spec
INVARIANT CapturedIsLogged
