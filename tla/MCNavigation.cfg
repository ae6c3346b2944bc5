SPECIFICATION MCFairGuardSpec
CONSTANTS
  Calls = {c1, c2}
  Pages = {p1, p2}
  FirstPage = p1
  CdpFails = FALSE
  None = None
  MaxHops = 4
  MaxLabels = 2
  Labels = {"", "h"}
INVARIANTS
  NoDeniedDocument
  BlockedIsReported
PROPERTIES
  WaitersProceed
CHECK_DEADLOCK FALSE
