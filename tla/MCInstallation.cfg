SPECIFICATION MCFairSpec
CONSTANTS
  Installs = {1, 2}
  Rules = {1, 2}
  NoRules = none
  Pages = {1, 2}
  None = None
  MaxRefusals = 1
INVARIANTS
  HandedOutIsInForce
PROPERTIES
  SetupEnds
CHECK_DEADLOCK FALSE
