CONSTANTS
  Capacity = 1
  MaxCounter = 4
  FileLists <- MCFileLists
SPECIFICATION Spec
PROPERTY PausedSendsNothing
