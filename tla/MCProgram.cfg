CONSTANTS
  NoFile = NoFile
  Batch = 2
  AVIFiles <- MCAVIFiles
  BlockSize = 4
  WordBytes = 1
  Files = {f1, f2}
  Contents <- MCContents
  ReadSize = 16
  MaxArgs = 2
  TicksPerSecond = 100
  DurationTexts <- MCTexts
  Radix = 2
  MaxWidth = 3
  Digits <- MCDigits
  MaxTime = 2
  MaxFiles = 4
SPECIFICATION Spec
INVARIANTS
  TypeOK
  DigestOfBytes
  ExitCodeTells
  CheckTells
  PipelineWatched
  CapturesKept
  NumberedInOrder
PROPERTIES
  LimitsAsWritten
  ExitRunEnds
