CONSTANTS
  Capacity = 1
  MaxSessions = 2
  MaxAVIFrames = 2
  Decimations = {1, 2}
  Threshold = 2
  Tapes <- MCTapes
  CaptureTimes <- MCCaptureTimes
SPECIFICATION Spec
INVARIANTS
  TypeOK
  FileLengthBounded
  FilesInTapeOrder
  FileContiguous
  NoSceneCutInFile
  FileDatedByFirstFrame
  FilesClosedAtExit
  PipelineOutlivesThreads
PROPERTIES
  DestroyReturnsIfIdle
