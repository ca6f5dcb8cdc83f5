SPECIFICATION AllFairSpec
CONSTANTS
  u1 = u1
  e1 = e1
  h1 = h1
  h2 = h2
  User = {u1}
  Edit = {e1}
  Handler = {h1, h2}
  Shared = TRUE
  ErrorStatus = {3, 7, 10}
  MaxKeys = 2
  MaxForceSaves = 1
  MaxDuplicates = 1
  MaxCrashes = 0
  NoKey = NoKey
  NoUser = NoUser
  t1 = t1
  t2 = t2
  t3 = t3
  t4 = t4
  t5 = t5
  t6 = t6
  NoToken = NoToken
  SlHandler = {h1, h2}
  Ops = {"create", "list", "listActive", "end"}
  OneCreator = FALSE
  Token = {t1, t2, t3, t4, t5, t6}
  SlMaxFaults = 1
  MaxDisturbances = 1
  w1 = w1
  w2 = w2
  Worker = {w1, w2}
  Survivor = {w2}
  RequestId = {}
  NoRequestId = NoRequestId
  NoWorker = NoWorker
  Kinds = {"good", "bad"}
  BatchSize = 2
  MaxRetries = 3
  MaxEntries = 2
  MaxFaults = 1
PROPERTIES SaveEnds SessionServed EntriesSettle
CHECK_DEADLOCK FALSE
