SPECIFICATION Spec
CONSTANTS
  Dates = {1, 2}
  MinFileSize = 2
  MaxFileNum = 2
  FileSizes = {1, 3}
  FileNums = {0, 1, 3}
  Sizes = {1, 3}
  None = None
  MaxWritten = 5
  MaxFaults = 1
  LogThreads = {t1, t2}
  Ms = 2
  N = 2
  MaxTime = 5
  MaxCalls = 3
  Types = {1}
  Versions = {0, 1, 2}
  SchemaThreads = {t1, t2, t3}
  MaxRegistrations = 4
INVARIANTS
  TypeOK
  SizeBounded
  NewestKept
  Spaced
  SilenceCovered
  QuotaExact
  SchemaWhole
  LatestVersionExact
PROPERTIES
  OnlyOldestDropped
  ClosedOnlyByFault
CHECK_DEADLOCK FALSE
