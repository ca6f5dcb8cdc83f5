SPECIFICATION AppSpec
CONSTANTS
  AppHandler = {h1}
  AppOps = {"deploy", "approve", "recall", "reapprove"}
  MaxAppFaults = 0
  MaxRequests = 5
INVARIANTS ApprovedServes
CHECK_DEADLOCK FALSE
