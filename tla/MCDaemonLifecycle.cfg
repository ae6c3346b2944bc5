SPECIFICATION FairSpec
CONSTANTS
  Clients = {c1, c2}
  Daemons = {d1, d2}
  None = None
  Commands = {"open", "query", "close", "destroy"}
  Exclusive = TRUE
  Disposable = TRUE
  MaxCommands = 3
  MaxCrashes = 1
INVARIANTS
  StartupIsExclusive
  OrderlyExitIsClean
PROPERTIES
  CommandsEnd
  DaemonsStop
CHECK_DEADLOCK FALSE
