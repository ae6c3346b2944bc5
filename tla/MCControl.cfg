SPECIFICATION FairSpec
CONSTANTS
  Operations = {o1, o2, o3}
  RequestIds = {r1, r2, r3}
  LeaseIds = {l1, l2, l3}
  None = None
INVARIANTS
  HumanIsAlone
  NoLostWakeup
  StaleLeaseStaysDead
PROPERTIES
  OnlyCloseDefeatsTakeover
  ImplementsOwnership
  TakeoverSettles
CHECK_DEADLOCK FALSE
