SPECIFICATION Spec
CONSTANTS
  Clients = {t1, t2}
  Endpoints = {local}
  DefaultEndpoint = local
  Unset = Unset
  Refused = Refused
  MaxOptions = 3
  MaxVariables = 1
  MaxCommands = 2
SYMMETRY Interchangeable
INVARIANTS
  DaemonIsAsAsked
  AttachmentIsGranted
  SavedModeIsUsed
  LaterCommandsReuse
PROPERTIES
  StartsFailOnlyOnAntiBot
CHECK_DEADLOCK FALSE
