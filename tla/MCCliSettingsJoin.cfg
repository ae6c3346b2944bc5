SPECIFICATION Spec
CONSTANTS
  Clients = {t1, t2}
  Endpoints = {local}
  DefaultEndpoint = local
  Unset = Unset
  Refused = Refused
  MaxOptions = 1
  MaxVariables = 1
  MaxCommands = 2
SYMMETRY Interchangeable
INVARIANT ServedAsAsked
CHECK_DEADLOCK FALSE
