SPECIFICATION Spec
CONSTANTS
  Recs <- MCRecs
  Data <- Record
  Zero <- Unused
  Torn <- Garbled
  Soft = 3
  LockOnce = FALSE
  WriteErrors = TRUE
  Keys = {"a", "b", "c"}
  Bucket <- MCBucket
  Names = {"u"}
  Values = {0, 1}
  HlstItems = 2
  MaxOps = 4
  MaxDeaths = 1
INVARIANTS
  CacheBounded
  LockedWhileWriting
  ReadsLastWritten
  DiskSound
  UpdatesDurable
  DiskPointersExist
PROPERTIES
  ImplementsRecordStore
  OthersUntouched
CHECK_DEADLOCK FALSE
