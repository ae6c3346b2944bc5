SPECIFICATION EvidenceSpec
CONSTANTS
  MaxEvents = 100
  MaxExportBytes = 786432
  MaxReadEvents = 100
  MaxReadNodes = 5000
  SmallBytes = 600
  LargeBytes = 4000
  HugeBytes = 1048576
  SmallNodes = 8
  LargeNodes = 93
  Sizes <- LargeSizes
  Calls = {c1}
  Takeovers = {}
  Disposable = FALSE
  None = None
  MaxRecords = 59
  MaxBatch = 1
  MaxStarts = 1
  MaxCrashes = 0
  MaxFaults = 0
INVARIANTS
  StoredTraceResumes
CHECK_DEADLOCK FALSE
