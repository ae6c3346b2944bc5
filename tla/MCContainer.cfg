SPECIFICATION ContainerSpec
CONSTANTS
  Starts = {s1, s2}
  Processes = {p1}
  Images = {old, new}
  None = None
  MaxMishaps = 1
INVARIANTS
  UndisturbedStartConnects
  ServerMatchesClient
  SessionIsWhereItSays
SYMMETRY Interchangeable
CHECK_DEADLOCK FALSE
