SPECIFICATION QgSpec
CONSTANTS
  QgPolicy = {"low"}
  QgCall = {"one", "two"}
  QgHandler = {"here"}
  LastDay = 0
  WeekDays = 2
  Limits = {1}
  MaxQgCalls = 2
  MaxQgChanges = 2
  MaxQgLosses = 0
  MaxSnapshots = 1
INVARIANT SumsAreCharged
CHECK_DEADLOCK FALSE
