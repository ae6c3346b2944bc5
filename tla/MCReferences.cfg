SPECIFICATION MCSpec
CONSTANTS
  Elements = {e1, e2, e3}
  Keys = {save}
  MaxExposed = 2
  MaxElements <- TwoAndOne
  Nothing = Nothing
  MaxChanges = 2
  MaxLooks = 2
SYMMETRY Interchangeable
INVARIANTS
  UnmistakableIsExact
  OldRefsFindNothingNew
CHECK_DEADLOCK FALSE
