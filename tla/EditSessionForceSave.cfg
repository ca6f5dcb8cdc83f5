SPECIFICATION Spec
CONSTANTS
  u1 = u1
  u2 = u2
  e1 = e1
  e2 = e2
  h1 = h1
  h2 = h2
  User = {u1}
  Edit = {e1, e2}
  Handler = {h1, h2}
  Shared = FALSE
  ErrorStatus = {}
  MaxKeys = 2
  MaxForceSaves = 1
  MaxDuplicates = 0
  MaxCrashes = 0
  NoKey = NoKey
  NoUser = NoUser
SYMMETRY Symmetry
INVARIANTS AcceptedNotLost
CHECK_DEADLOCK FALSE
