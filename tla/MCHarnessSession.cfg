SPECIFICATION SessionSpec
CONSTANTS
  Operations = {b, o1, o2}
  Batches = {b}
  RequestIds = {r1}
  LeaseIds = {l1}
  Pages = {p1, p2}
  FirstPage = p1
  MaxNavigations = 1
  None = None
INVARIANTS
  OneRecordPerCall
  BatchStopsAtFailure
  PauseIsQuiet
  StaleRefsDie
  NeverOnLostPage
  NobodyIsStuck
SYMMETRY Interchangeable
CHECK_DEADLOCK FALSE
VIEW WithoutHistory
