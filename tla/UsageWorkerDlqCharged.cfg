SPECIFICATION Spec
CONSTANTS
  w1 = w1
  w2 = w2
  r1 = r1
  Worker = {w1, w2}
  Survivor = {}
  RequestId = {r1}
  NoRequestId = NoRequestId
  NoWorker = NoWorker
  Kinds = {"good"}
  BatchSize = 1
  MaxRetries = 3
  MaxEntries = 1
  MaxFaults = 0
INVARIANT DlqNotCharged
CHECK_DEADLOCK FALSE
