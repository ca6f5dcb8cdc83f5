SPECIFICATION AllSpec
CONSTANTS
  t1 = t1
  d1 = d1
  x1 = x1
  h1 = h1
  h2 = h2
  a1 = a1
  u1 = u1
  u2 = u2
  Browser = Browser
  NoReplica = NoReplica
  UserRevoked = UserRevoked
  PodToken = PodToken
  Tab = {t1}
  Page = {}
  Exit = {x1}
  Daemon = {d1}
  Dashboard = {}
  Replica = {h1, h2}
  RefreshTTL = 2
  PodTTL = 1
  MaxTokens = 3
  MaxTime = 2
  MaxLosses = 1
  MaxOutages = 0
  MaxRestarts = 1
  MaxLogouts = 1
  AppHandler = {h1, h2}
  AppOps = {"deploy", "undeploy", "suspend", "resume", "approve", "reject", "stop", "start",
            "reapprove", "recall"}
  MaxAppFaults = 1
  MaxRequests = 4
  SkAdmin = {a1, u1, u2}
  SkAuthor = a1
  SkUser = {u1, u2}
  SkHandler = {h1, h2}
  Required = 2
  MaxSkillRequests = 5
  SvQuestions <- Questions
  SvAssign = {1, 2}
  SvTask = {h1, h2}
  MaxMessages = 7
  PpReplica = {h1, h2}
  MaxPrompts = 3
  Violating = {1, 3}
  Window = 2
  MaxRuns = 5
  QgPolicy = {"low"}
  QgCall = {h1, h2}
  QgHandler = {h1, h2}
  LastDay = 2
  WeekDays = 2
  Limits = {1}
  MaxQgCalls = 2
  MaxQgChanges = 3
  MaxQgLosses = 1
  MaxSnapshots = 1
  MtReplica = {h1, h2}
  MtTtl = 2
  MaxSets = 3
  MaxMtFaults = 1
SYMMETRY Symmetry
INVARIANTS
  TypesOK
  UsedOnce EntriesOutliveTokens
  NeverUncleared SiteFollowsRow
  QuorumKept SkillIsCoherent
  AnswersKept
  FlaggedWhenStored GraphIsAccounted
  GateHolds
  EndIsSeen
PROPERTIES NoLateUse
CHECK_DEADLOCK FALSE
