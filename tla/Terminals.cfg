SPECIFICATION AllSpec
CONSTANTS
  h1 = h1
  h2 = h2
  t1 = t1
  t2 = t2
  t3 = t3
  t4 = t4
  t5 = t5
  t6 = t6
  p1 = p1
  p2 = p2
  r1 = r1
  NoToken = NoToken
  SlHandler = {h1, h2}
  Ops = {"create", "bulkCreate", "assign", "move", "list", "listActive", "end", "endAll", "forceEnd", "idle"}
  OneCreator = TRUE
  Token = {t1, t2, t3, t4, t5, t6}
  SlMaxFaults = 0
  MaxDisturbances = 3
  Worker = {h1, h2}
  Survivor = {}
  RequestId = {r1}
  NoRequestId = NoRequestId
  NoWorker = NoWorker
  Kinds = {"good", "bad", "raising", "poison"}
  BatchSize = 2
  MaxRetries = 3
  MaxEntries = 2
  MaxFaults = 1
  UbPerson = {p1, p2}
  UbHandler = {h1, h2}
  MaxSecrets = 2
  MaxUbOps = 5
  MaxUbFaults = 1
  ExRequest = {1, 2}
  ExHandler = {h1, h2}
  MaxExOps = 5
  MaxExFaults = 1
  WaDir = {p1, p2}
  WaAlias = {"new"}
  MaxPort = 2
  WaProc = {h1, h2}
  WaItem = {"code", "page"}
  MaxWaOps = 4
  MaxWaFaults = 1
SYMMETRY Symmetry
INVARIANTS
  TypesOK
  TokenMatches
  Accounted ChargedOnce
  MessagesArrive
  RequestsAreHandled
  AppsKeepTheirPorts PreparedIsTheProject
PROPERTIES ExactlyOnceLedger
CHECK_DEADLOCK FALSE
