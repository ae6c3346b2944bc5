SPECIFICATION FairEvidenceSpec
CONSTANTS
  MaxEvents = 2
  MaxExportBytes = 2
  MaxReadEvents = 2
  MaxReadNodes = 4
  SmallBytes = 1
  LargeBytes = 2
  HugeBytes = 4
  SmallNodes = 1
  LargeNodes = 2
  Sizes <- MixedSizes
  Calls = {c1, c2}
  Takeovers = {c2}
  Disposable = FALSE
  None = None
  MaxRecords = 1
  MaxBatch = 1
  MaxStarts = 2
  MaxCrashes = 1
  MaxFaults = 1
INVARIANTS
  AnsweredIsOnDisk
  NumbersNameOneEvent
  OmittedIsExact
  QuietDiskIsCurrent
  
PROPERTIES
  ImplementsLog
  CloseCompletes
CHECK_DEADLOCK FALSE
