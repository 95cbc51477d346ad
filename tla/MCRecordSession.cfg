CONSTANTS
  Capacity = 1
  MaxCounter = 4
  FileLists <- MCFileLists
SPECIFICATION Spec
INVARIANTS
  TypeOK
  FilesJoined
  FinishedAfterTape
  PipelineOutlivesThreads
PROPERTIES
  RecordingEnds
  DestroyReturnsIfIdle
