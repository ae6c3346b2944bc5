SPECIFICATION MetricsSpec
CONSTANTS
  Commands = {snap, click}
  Snapshot = snap
  Unlisted = private
  MaxCounter = 2
  MaxDuration = 2
  Durations = {1, 3}
  Volumes = {1}
  None = None
  MaxActions = 2
  MaxRetries = 1
INVARIANTS
  ExportsAreAccepted
  UnflaggedIsExact
CHECK_DEADLOCK FALSE
