SPECIFICATION Spec
CONSTANTS
  r1 = r1
  r2 = r2
  t1 = t1
  t2 = t2
  p1 = p1
  d1 = d1
  a1 = a1
  Tab = {t1, t2}
  Page = {}
  Exit = {}
  Daemon = {}
  Dashboard = {}
  Replica = {r1, r2}
  Browser = Browser
  NoReplica = NoReplica
  UserRevoked = UserRevoked
  PodToken = PodToken
  RefreshTTL = 2
  PodTTL = 1
  MaxTokens = 3
  MaxTime = 0
  MaxLosses = 0
  MaxOutages = 0
  MaxRestarts = 0
  MaxLogouts = 0
SYMMETRY Symmetry
INVARIANTS NoFalseReplay
CHECK_DEADLOCK FALSE
