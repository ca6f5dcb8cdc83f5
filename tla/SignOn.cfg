SPECIFICATION AllSpec
CONSTANTS
  r1 = r1
  r2 = r2
  t1 = t1
  p1 = p1
  x1 = x1
  a1 = a1
  u1 = u1
  u2 = u2
  u3 = u3
  Browser = Browser
  NoReplica = NoReplica
  UserRevoked = UserRevoked
  PodToken = PodToken
  Tab = {t1}
  Page = {p1}
  Exit = {x1}
  Daemon = {}
  Dashboard = {a1}
  Replica = {r1, r2}
  RefreshTTL = 2
  PodTTL = 1
  MaxTokens = 3
  MaxTime = 0
  MaxLosses = 0
  MaxOutages = 1
  MaxRestarts = 1
  MaxLogouts = 1
  AcHandler = {r1, r2}
  MaxAttempts = 2
  LockoutThreshold = 1
  MaxCodes = 2
  MaxAccountOps = 2
  MsPerson = {u1, u2, u3}
  MsPhoneless = {u3}
  MsHandler = {r1, r2}
  DailyLimit = 2
  MaxSends = 4
  MaxRegrants = 3
  MaxMsFaults = 1
  SpUser = {u1, u2}
  SpLevel = {"standard", "own", "other"}
  BuiltIn = {"standard"}
  SpHandler = {r1, r2}
  MaxVersions = 3
  MaxSpOps = 4
  MaxSpFaults = 1
SYMMETRY Symmetry
INVARIANTS
  TypesOK
  OnlyCrossingsRevoke
  CodesHold ApprovalsHold
  MessagesOnRecord
  PoliciesSpread
CHECK_DEADLOCK FALSE
