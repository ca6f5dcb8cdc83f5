SPECIFICATION AllSpec
CONSTANTS
  u1 = u1
  u2 = u2
  e1 = e1
  h1 = h1
  h2 = h2
  NoKey = NoKey
  NoUser = NoUser
  User = {u1, u2}
  Edit = {e1}
  Handler = {h1, h2}
  Shared = FALSE
  ErrorStatus = {7}
  MaxKeys = 2
  MaxForceSaves = 1
  MaxDuplicates = 1
  MaxCrashes = 1
  ShOwner = "owner"
  ShAdmin = "admin"
  ShOther = {"other"}
  ShGroups = {"team", "job"}
  ShUnits = {"north", "south"}
  ShStates = {"running", "stopped", "deleted"}
  ShHandler = {h1, h2}
  MaxGrants = 2
  VtReader = {h1, h2}
  VtWorker = {h1, h2}
  MaxDeks = 3
  FrScan = {h1, h2}
  FrReplica = {h1, h2}
  MaxReports = 3
  MaxCleanups = 2
  MaxRedisFaults = 1
  PxConn = {h1, h2}
  PxHost = {"site", "sub"}
  PxRule <- Rules
  PxBelow <- Below
  PxSecret = {"k1"}
  PxTtl = 1
  MaxTicks = 3
  MaxChanges = 3
  MaxPxFaults = 1
SYMMETRY Symmetry
INVARIANTS
  TypesOK
  OneWriterPerKey SavingHasWriter
  DoorsAgree OneLiveGrant
  FileStaysReadable
  RetentionKept
  ConnectionsEnd
PROPERTIES AdmittedLately
CHECK_DEADLOCK FALSE
